--------------------------- MODULE FatAllocProofs ---------------------------
(***************************************************************************)
(* Type correctness and safety of the allocator for every table size.      *)
(*                                                                         *)
(* The inductive invariant labels every cluster with the chain it is on    *)
(* and with its distance from that chain's end.  A link then joins two     *)
(* clusters of one chain and lowers the distance by one, so no argument    *)
(* ever has to follow a chain: alloc relabels the clusters whose distance  *)
(* is at least that of the cut, release shifts a whole chain upwards.      *)
(*                                                                         *)
(* The labels also give each chain as a sequence, and so the refinement of *)
(* ChainStore.                                                             *)
(*                                                                         *)
(* The second part is the allocator with crashes, for every table size and *)
(* every number of them.  The labelling is kept for the table in memory,   *)
(* where the label LEAK stands for what earlier crashes lost.  What the    *)
(* disk holds is a restriction of such a labelling: the chains no entry    *)
(* records are relabelled LEAK, and the free list is what FSI_Nxt_Free     *)
(* leads to.  Only between the change of a table and its write does the    *)
(* disk hold an older table; the labelling it had is then kept beside the  *)
(* new one.                                                                *)
(***************************************************************************)
EXTENDS FatCrash, FiniteSetTheorems, WellFoundedInduction, TLAPS

FREE == 0                        \* the label of the free list
LEAK == 1                        \* and of what no list of a volume reaches

Lists == [Clusters -> Clusters \cup {FREE, LEAK}]
Ranks == [Clusters -> Nat]

(* How many clusters a table has.                                          *)
LEMMA ClustersCount ==
  IsFiniteSet(Clusters) /\ Cardinality(Clusters) = LastCluster - 1
<1>1. LastCluster \in Nat /\ LastCluster >= 2 /\ LastCluster \in Int
  BY SizeAssumption
<1>2. /\ IsFiniteSet(2 .. LastCluster)
      /\ Cardinality(2 .. LastCluster) = IF 2 > LastCluster THEN 0 ELSE LastCluster - 2 + 1
  BY <1>1, FS_Interval
<1>3. Cardinality(2 .. LastCluster) = LastCluster - 1
  BY <1>1, <1>2
<1> QED BY <1>2, <1>3 DEF Clusters

(* The labels of the free list and of lost clusters are not clusters.      *)
LEMMA LabelsDiffer ==
  /\ FREE \notin Clusters /\ LEAK \notin Clusters /\ EOF_FLAG \notin Clusters
  /\ FREE # LEAK
BY SizeAssumption DEF FREE, LEAK, EOF_FLAG, Clusters

\* list[c] is the chain of cluster c and rank[c] its distance from the end;
\* the links of clusters with the label LEAK may be any.
Labelled(fat, ff, ch, list, rank) ==
  /\ \A c \in Clusters : list[c] # LEAK =>
       IF fat[c] = EOF_FLAG THEN rank[c] = 0
       ELSE /\ fat[c] \in Clusters
            /\ list[fat[c]] = list[c]
            /\ rank[c] = rank[fat[c]] + 1
  /\ \A c, d \in Clusters :
       list[c] # LEAK /\ list[c] = list[d] /\ rank[c] = rank[d] => c = d
  /\ ff \in Clusters /\ list[ff] = FREE
  /\ \A c \in Clusters : list[c] = FREE => rank[c] <= rank[ff]
  /\ ch \subseteq Clusters
  /\ \A h \in ch : list[h] = h
  /\ \A c \in Clusters : list[c] \notin {FREE, LEAK} =>
       list[c] \in ch /\ rank[c] <= rank[list[c]]

(***************************************************************************)
(* Cutting the free list behind one of its clusters leaves two well formed *)
(* lists: the new chain and a shorter free list.                           *)
(***************************************************************************)
CutList(ff, list, rank, p) ==
  [c \in Clusters |-> IF list[c] = FREE /\ rank[c] >= rank[p] THEN ff
                                                              ELSE list[c]]
CutRank(list, rank, p) ==
  [c \in Clusters |-> IF list[c] = FREE /\ rank[c] >= rank[p]
                      THEN rank[c] - rank[p] ELSE rank[c]]

(* Cutting the free list behind p, as alloc does, gives a labelling again: *)
(* the clusters at least as far from the end as p become the new chain.    *)
LEMMA CutLabels ==
  ASSUME NEW fat \in [Clusters -> Clusters \cup {EOF_FLAG}], NEW ff \in Clusters,
         NEW ch \in SUBSET Clusters,
         NEW list \in Lists, NEW rank \in Ranks,
         Labelled(fat, ff, ch, list, rank),
         NEW p \in Clusters, list[p] = FREE, fat[p] # EOF_FLAG
  PROVE  /\ CutList(ff, list, rank, p) \in Lists
         /\ CutRank(list, rank, p) \in Ranks
         /\ Labelled([fat EXCEPT ![p] = EOF_FLAG], fat[p], ch \cup {ff},
                     CutList(ff, list, rank, p), CutRank(list, rank, p))
<1> DEFINE l == CutList(ff, list, rank, p)
           r == CutRank(list, rank, p)
           f == [fat EXCEPT ![p] = EOF_FLAG]
<1> USE LabelsDiffer DEF Lists, Ranks
<1>1. /\ l \in Lists /\ r \in Ranks
      /\ \A c \in Clusters :
           /\ l[c] = IF list[c] = FREE /\ rank[c] >= rank[p] THEN ff ELSE list[c]
           /\ r[c] = IF list[c] = FREE /\ rank[c] >= rank[p]
                     THEN rank[c] - rank[p] ELSE rank[c]
  BY DEF CutList, CutRank, Labelled
<1>f. \A c \in Clusters : f[c] = IF c = p THEN EOF_FLAG ELSE fat[c]
  OBVIOUS
<1> HIDE DEF l, r, f
<1>2. ff \in Clusters /\ ff \notin ch /\ list[ff] = FREE /\ ff # FREE
  BY DEF Labelled
<1>3. /\ fat[p] \in Clusters /\ l[fat[p]] = FREE
      /\ r[fat[p]] = rank[p] - 1 /\ rank[fat[p]] = rank[p] - 1
  <2>1. /\ fat[p] \in Clusters /\ list[fat[p]] = FREE
        /\ rank[p] = rank[fat[p]] + 1
    BY DEF Labelled
  <2>2. /\ l[fat[p]] = list[fat[p]] /\ r[fat[p]] = rank[fat[p]]
        /\ rank[fat[p]] \in Nat
    BY <2>1, <1>1
  <2>3. QED
    BY <2>1, <2>2
<1>4. \A c \in Clusters : l[c] # LEAK =>
        IF f[c] = EOF_FLAG THEN r[c] = 0
        ELSE f[c] \in Clusters /\ l[f[c]] = l[c] /\ r[c] = r[f[c]] + 1
  <2> SUFFICES ASSUME NEW c \in Clusters, l[c] # LEAK
               PROVE  IF f[c] = EOF_FLAG THEN r[c] = 0
                      ELSE f[c] \in Clusters /\ l[f[c]] = l[c] /\ r[c] = r[f[c]] + 1
    OBVIOUS
  <2>0. list[c] # LEAK
    BY <1>1
  <2>1. CASE c = p
    BY <2>1, <1>1, <1>f
  <2>2. CASE c # p /\ fat[c] = EOF_FLAG
    <3>1. f[c] = EOF_FLAG /\ rank[c] = 0 /\ (list[c] = FREE => rank[c] # rank[p])
      BY <2>0, <2>2, <1>f DEF Labelled
    <3>2. QED
      BY <3>1, <1>1
  <2>3. CASE c # p /\ fat[c] # EOF_FLAG
    <3>1. /\ f[c] = fat[c] /\ fat[c] \in Clusters
          /\ list[fat[c]] = list[c] /\ rank[c] = rank[fat[c]] + 1
          /\ (list[c] = FREE => rank[c] # rank[p])
      BY <2>0, <2>3, <1>f DEF Labelled
    <3> DEFINE d == fat[c]
    <3>2. d \in Clusters /\ list[d] = list[c] /\ rank[c] = rank[d] + 1
      BY <3>1
    <3> HIDE DEF d
    <3>3. /\ l[c] = IF list[c] = FREE /\ rank[c] >= rank[p] THEN ff ELSE list[c]
          /\ r[c] = IF list[c] = FREE /\ rank[c] >= rank[p]
                    THEN rank[c] - rank[p] ELSE rank[c]
          /\ l[d] = IF list[d] = FREE /\ rank[d] >= rank[p] THEN ff ELSE list[d]
          /\ r[d] = IF list[d] = FREE /\ rank[d] >= rank[p]
                    THEN rank[d] - rank[p] ELSE rank[d]
          /\ rank[c] \in Nat /\ rank[d] \in Nat /\ rank[p] \in Nat
      BY <3>2, <1>1
    <3>4. l[d] = l[c] /\ r[c] = r[d] + 1
      BY <3>1, <3>2, <3>3
    <3>5. f[c] = d
      BY <3>1 DEF d
    <3>6. QED
      BY <3>2, <3>4, <3>5
  <2>4. QED
    BY <2>1, <2>2, <2>3
<1>5. \A c, d \in Clusters : l[c] # LEAK /\ l[c] = l[d] /\ r[c] = r[d] => c = d
  <2> SUFFICES ASSUME NEW c \in Clusters, NEW d \in Clusters,
                      l[c] # LEAK, l[c] = l[d], r[c] = r[d]
               PROVE  c = d
    OBVIOUS
  <2>1. /\ list[c] # ff /\ list[d] # ff /\ list[c] # LEAK
        /\ rank[c] \in Nat /\ rank[d] \in Nat /\ rank[p] \in Nat
    <3>1. list[c] # LEAK
      BY <1>1
    <3>2. ff # LEAK
      BY <1>2
    <3>3. QED
      BY <1>2, <3>1, <3>2 DEF Labelled
  <2>2. list[c] = list[d] /\ rank[c] = rank[d]
    BY <2>1, <1>1, <1>2
  <2>3. QED
    BY <2>1, <2>2 DEF Labelled
<1>6. \A c \in Clusters : l[c] = FREE => r[c] <= r[fat[p]]
  <2> SUFFICES ASSUME NEW c \in Clusters, l[c] = FREE
               PROVE  r[c] <= r[fat[p]]
    OBVIOUS
  <2>1. /\ list[c] = FREE /\ rank[c] < rank[p] /\ r[c] = rank[c]
        /\ rank[c] \in Nat /\ rank[p] \in Nat
    BY <1>1, <1>2
  <2>2. QED
    BY <2>1, <1>3
<1>7. \A h \in ch \cup {ff} : l[h] = h
  BY <1>1, <1>2 DEF Labelled
<1>8. \A c \in Clusters :
        l[c] \notin {FREE, LEAK} => l[c] \in ch \cup {ff} /\ r[c] <= r[l[c]]
  <2> SUFFICES ASSUME NEW c \in Clusters, l[c] \notin {FREE, LEAK}
               PROVE  l[c] \in ch \cup {ff} /\ r[c] <= r[l[c]]
    OBVIOUS
  <2>1. rank[p] <= rank[ff]
    BY DEF Labelled
  <2>2. CASE list[c] = FREE
    BY <2>1, <2>2, <1>1, <1>2 DEF Labelled
  <2>3. CASE list[c] # FREE
    BY <2>3, <1>1, <1>2 DEF Labelled
  <2>4. QED
    BY <2>2, <2>3
<1>9. ch \cup {ff} \subseteq Clusters
  BY <1>2 DEF Labelled
<1>10. Labelled(f, fat[p], ch \cup {ff}, l, r)
  BY <1>3, <1>4, <1>5, <1>6, <1>7, <1>8, <1>9 DEF Labelled
<1>11. QED
  BY <1>1, <1>3, <1>10 DEF l, r, f

(***************************************************************************)
(* Linking the last cluster of a chain to the head of the free list gives  *)
(* one well formed free list that starts at the chain's first cluster.     *)
(***************************************************************************)
SpliceList(list, s) ==
  [c \in Clusters |-> IF list[c] = s THEN FREE ELSE list[c]]
SpliceRank(ff, list, rank, s) ==
  [c \in Clusters |-> IF list[c] = s THEN rank[c] + rank[ff] + 1 ELSE rank[c]]

(* Putting a chain before the free list, as release does, gives a          *)
(* labelling again: that chain's clusters are further from the end by the  *)
(* free list's length.                                                     *)
LEMMA SpliceLabels ==
  ASSUME NEW fat \in [Clusters -> Clusters \cup {EOF_FLAG}], NEW ff \in Clusters,
         NEW ch \in SUBSET Clusters,
         NEW list \in Lists, NEW rank \in Ranks,
         Labelled(fat, ff, ch, list, rank),
         NEW s \in ch,
         NEW last \in Clusters, list[last] = s, fat[last] = EOF_FLAG
  PROVE  /\ SpliceList(list, s) \in Lists
         /\ SpliceRank(ff, list, rank, s) \in Ranks
         /\ Labelled([fat EXCEPT ![last] = ff], s, ch \ {s},
                     SpliceList(list, s), SpliceRank(ff, list, rank, s))
<1> DEFINE l == SpliceList(list, s)
           r == SpliceRank(ff, list, rank, s)
           f == [fat EXCEPT ![last] = ff]
<1> USE LabelsDiffer DEF Lists, Ranks
<1>1. /\ s \in Clusters /\ list[s] = s /\ s # FREE
      /\ ff \in Clusters /\ list[ff] = FREE /\ rank[last] = 0
  BY DEF Labelled
<1>2. /\ l \in Lists /\ r \in Ranks
      /\ \A c \in Clusters :
           /\ l[c] = IF list[c] = s THEN FREE ELSE list[c]
           /\ r[c] = IF list[c] = s THEN rank[c] + rank[ff] + 1 ELSE rank[c]
  BY <1>1 DEF SpliceList, SpliceRank
<1>f. \A c \in Clusters : f[c] = IF c = last THEN ff ELSE fat[c]
  OBVIOUS
<1> HIDE DEF l, r, f
<1>3. \A c \in Clusters : l[c] # LEAK =>
        IF f[c] = EOF_FLAG THEN r[c] = 0
        ELSE f[c] \in Clusters /\ l[f[c]] = l[c] /\ r[c] = r[f[c]] + 1
  <2> SUFFICES ASSUME NEW c \in Clusters, l[c] # LEAK
               PROVE  IF f[c] = EOF_FLAG THEN r[c] = 0
                      ELSE f[c] \in Clusters /\ l[f[c]] = l[c] /\ r[c] = r[f[c]] + 1
    OBVIOUS
  <2>0. list[c] # LEAK
    BY <1>1, <1>2
  <2>1. CASE c = last
    <3>1. /\ f[c] = ff /\ l[c] = FREE /\ r[c] = rank[ff] + 1
          /\ l[ff] = FREE /\ r[ff] = rank[ff]
      BY <2>1, <1>1, <1>2, <1>f
    <3>2. QED
      BY <3>1, <1>1
  <2>2. CASE c # last /\ fat[c] = EOF_FLAG
    <3>1. /\ f[c] = EOF_FLAG /\ rank[c] = 0 /\ list[c] # s
      BY <2>0, <2>2, <1>1, <1>f DEF Labelled
    <3>2. QED
      BY <3>1, <1>2
  <2>3. CASE c # last /\ fat[c] # EOF_FLAG
    <3>1. /\ f[c] = fat[c] /\ fat[c] \in Clusters
          /\ list[fat[c]] = list[c] /\ rank[c] = rank[fat[c]] + 1
      BY <2>0, <2>3, <1>f DEF Labelled
    <3> DEFINE d == fat[c]
    <3>2. d \in Clusters /\ list[d] = list[c] /\ rank[c] = rank[d] + 1
      BY <3>1
    <3> HIDE DEF d
    <3>3. /\ l[d] = l[c]
          /\ r[c] = IF list[c] = s THEN rank[c] + rank[ff] + 1 ELSE rank[c]
          /\ r[d] = IF list[c] = s THEN rank[d] + rank[ff] + 1 ELSE rank[d]
          /\ rank[c] \in Nat /\ rank[d] \in Nat /\ rank[ff] \in Nat
      BY <3>2, <1>1, <1>2
    <3>4. r[c] = r[d] + 1
      BY <3>2, <3>3
    <3>5. f[c] = d
      BY <3>1 DEF d
    <3>6. QED
      BY <3>2, <3>3, <3>4, <3>5
  <2>4. QED
    BY <2>1, <2>2, <2>3
<1>4. \A c, d \in Clusters : l[c] # LEAK /\ l[c] = l[d] /\ r[c] = r[d] => c = d
  <2> SUFFICES ASSUME NEW c \in Clusters, NEW d \in Clusters,
                      l[c] # LEAK, l[c] = l[d], r[c] = r[d]
               PROVE  c = d
    OBVIOUS
  <2>1. /\ list[c] = FREE => rank[c] <= rank[ff]
        /\ list[d] = FREE => rank[d] <= rank[ff]
        /\ rank[c] \in Nat /\ rank[d] \in Nat /\ rank[ff] \in Nat
    BY <1>1 DEF Labelled
  <2>2. list[c] = list[d] /\ rank[c] = rank[d]
    BY <2>1, <1>1, <1>2
  <2>3. list[c] # LEAK
    BY <1>1, <1>2
  <2>4. QED
    BY <2>2, <2>3 DEF Labelled
<1>5. l[s] = FREE /\ r[s] = rank[s] + rank[ff] + 1
  BY <1>1, <1>2
<1>6. \A c \in Clusters : l[c] = FREE => r[c] <= r[s]
  <2> SUFFICES ASSUME NEW c \in Clusters, l[c] = FREE
               PROVE  r[c] <= r[s]
    OBVIOUS
  <2>1. /\ list[c] = FREE => rank[c] <= rank[ff]
        /\ list[c] = s => rank[c] <= rank[s]
        /\ rank[c] \in Nat /\ rank[s] \in Nat /\ rank[ff] \in Nat
    BY <1>1 DEF Labelled
  <2>2. QED
    BY <2>1, <1>1, <1>2, <1>5
<1>7. \A h \in ch \ {s} : l[h] = h
  BY <1>1, <1>2 DEF Labelled
<1>8. \A c \in Clusters :
        l[c] \notin {FREE, LEAK} => l[c] \in ch \ {s} /\ r[c] <= r[l[c]]
  <2> SUFFICES ASSUME NEW c \in Clusters, l[c] \notin {FREE, LEAK}
               PROVE  l[c] \in ch \ {s} /\ r[c] <= r[l[c]]
    OBVIOUS
  <2>1. /\ list[c] # s /\ l[c] = list[c] /\ r[c] = rank[c]
        /\ list[c] \in ch /\ rank[c] <= rank[list[c]]
        /\ list[list[c]] = list[c] /\ list[c] \in Clusters
    BY <1>1, <1>2 DEF Labelled
  <2>2. QED
    BY <2>1, <1>2
<1>9. Labelled(f, s, ch \ {s}, l, r)
  BY <1>1, <1>3, <1>4, <1>5, <1>6, <1>7, <1>8 DEF Labelled
<1>10. QED
  BY <1>2, <1>5, <1>9 DEF l, r, f

(***************************************************************************)
(* The distances on a chain have no gap: below every cluster there is one  *)
(* at each smaller distance.                                               *)
(***************************************************************************)
LEMMA NoGap ==
  ASSUME NEW fat \in [Clusters -> Clusters \cup {EOF_FLAG}],
         NEW ff \in Clusters, NEW ch \in SUBSET Clusters,
         NEW list \in Lists, NEW rank \in Ranks,
         Labelled(fat, ff, ch, list, rank),
         NEW c \in Clusters, list[c] # LEAK
  PROVE  \A k \in 0 .. rank[c] :
           \E d \in Clusters : list[d] = list[c] /\ rank[d] = k
<1> DEFINE D == {d \in Clusters : list[d] = list[c]}
           Gap == {k \in Nat : k <= rank[c] /\ \A d \in D : rank[d] # rank[c] - k}
<1> USE DEF Lists, Ranks
<1>1. Gap = {}
  <2> SUFFICES ASSUME Gap # {} PROVE FALSE
    OBVIOUS
  <2>1. PICK k \in Gap : \A j \in Gap : <<j, k>> \notin OpToRel(<, Nat)
    BY NatLessThanWellFounded, WFMin
  <2>2. k # 0 /\ k \in Nat /\ rank[c] \in Nat
    BY DEF D
  <2>3. k - 1 \notin Gap
    <3>1. k - 1 \in Nat /\ k - 1 < k
      BY <2>2
    <3>2. <<k - 1, k>> \in OpToRel(<, Nat)
      BY <2>2, <3>1 DEF OpToRel
    <3>3. QED
      BY <2>1, <3>2
  <2>4. PICK d \in D : rank[d] = rank[c] - (k - 1)
    BY <2>2, <2>3
  <2>5. /\ fat[d] \in Clusters /\ list[fat[d]] = list[d]
        /\ rank[d] = rank[fat[d]] + 1
    BY <2>2, <2>4 DEF Labelled
  <2>6. fat[d] \in D /\ rank[fat[d]] = rank[c] - k
    BY <2>2, <2>4, <2>5
  <2>7. QED
    BY <2>6
<1>2. \A k \in 0 .. rank[c] : \E d \in D : rank[d] = k
  <2> SUFFICES ASSUME NEW k \in 0 .. rank[c] PROVE \E d \in D : rank[d] = k
    OBVIOUS
  <2>1. /\ rank[c] - k \in Nat /\ rank[c] - k <= rank[c]
        /\ rank[c] - (rank[c] - k) = k
    OBVIOUS
  <2>2. QED
    BY <2>1, <1>1
<1>3. QED
  BY <1>2

(***************************************************************************)
(* No chain is longer than the table: its distances are distinct and have  *)
(* no gap, so there are no more of them than clusters.                     *)
(***************************************************************************)
LEMMA RankBound ==
  ASSUME NEW fat \in [Clusters -> Clusters \cup {EOF_FLAG}],
         NEW ff \in Clusters, NEW ch \in SUBSET Clusters,
         NEW list \in Lists, NEW rank \in Ranks,
         Labelled(fat, ff, ch, list, rank),
         NEW c \in Clusters, list[c] # LEAK
  PROVE  rank[c] <= LastCluster - 2
<1> USE DEF Lists, Ranks
<1>2. \A k \in 0 .. rank[c] :
        \E d \in Clusters : list[d] = list[c] /\ rank[d] = k
  <2> HIDE DEF Lists, Ranks
  <2>1. QED
    BY NoGap
<1> DEFINE f == [k \in 0 .. rank[c] |->
                CHOOSE d \in Clusters : list[d] = list[c] /\ rank[d] = k]
<1>3. \A k \in 0 .. rank[c] : f[k] \in Clusters /\ rank[f[k]] = k
  BY <1>2
<1>4. f \in [0 .. rank[c] -> Clusters]
  BY <1>3
<1>5. /\ IsFiniteSet(Clusters) /\ Cardinality(Clusters) = LastCluster - 1
      /\ IsFiniteSet(0 .. rank[c]) /\ Cardinality(0 .. rank[c]) = rank[c] + 1
  <2> DEFINE r == rank[c]
  <2>1. r \in Nat /\ r \in Int /\ 0 \in Int
    OBVIOUS
  <2> HIDE DEF r
  <2>2. IsFiniteSet(0 .. r) /\ Cardinality(0 .. r) = IF 0 > r THEN 0 ELSE r - 0 + 1
    BY <2>1, FS_Interval
  <2>3. Cardinality(0 .. r) = r + 1
    BY <2>1, <2>2
  <2> QED BY <2>2, <2>3, ClustersCount DEF r
<1>6. ~ (Cardinality(Clusters) < Cardinality(0 .. rank[c]))
  <2> DEFINE S == 0 .. rank[c]
  <2>1. \A j, k \in S : f[j] = f[k] => j = k
    BY <1>3
  <2>2. f \in [S -> Clusters] /\ IsFiniteSet(S) /\ IsFiniteSet(Clusters)
    BY <1>4, <1>5
  <2> HIDE DEF f, S
  <2>3. ASSUME Cardinality(Clusters) < Cardinality(S) PROVE FALSE
    <3>1. \E j, k \in S : j # k /\ f[j] = f[k]
      BY <2>2, <2>3, FS_PigeonHole
    <3>2. QED
      BY <2>1, <3>1
  <2>4. QED
    BY <2>3 DEF S
<1>7. QED
  BY <1>5, <1>6, SizeAssumption

-----------------------------------------------------------------------------
(***************************************************************************)
(* The inductive invariant.  DiskCurrent is what the disk holds between    *)
(* calls; Control relates a call's local variables to the labelling.  In   *)
(* the writes that end a call FSI_Nxt_Free still names the free list of    *)
(* before the call.                                                        *)
(***************************************************************************)
DiskCurrent == diskFat = fatBuffer /\ fsiNxtFree = firstFreeCluster

Writing == pc \in {"writeFat", "writeBackup", "writeInfo"}

Control(list, rank) ==
  LET free == rank[firstFreeCluster] IN
  /\ pc = "idle" => op = "none" /\ totalFreeSpace = free /\ DiskCurrent
  /\ pc = "allocWalk" =>
       /\ op = "alloc" /\ start = firstFreeCluster
       /\ totalFreeSpace = free /\ DiskCurrent
       /\ 0 < length /\ length <= free /\ i < length
       /\ pointer \in Clusters /\ list[pointer] = FREE
       /\ rank[pointer] = free - i
  /\ pc = "releaseWalk" =>
       /\ op = "release" /\ start \in chains
       /\ totalFreeSpace = free /\ DiskCurrent
       /\ IF pointer = EOF_FLAG
          THEN /\ current \in Clusters /\ list[current] = start
               /\ fatBuffer[current] = EOF_FLAG
               /\ length = rank[start] + 1
          ELSE list[pointer] = start /\ length + rank[pointer] = rank[start]
  /\ Writing =>
       /\ totalFreeSpace + (IF op = "release" THEN length ELSE 0) = free
       /\ \/ op = "alloc" /\ start \in chains /\ fsiNxtFree = start
          \/ op = "release" /\ fsiNxtFree \in Clusters /\ list[fsiNxtFree] = FREE
  /\ pc \in {"writeBackup", "writeInfo"} => diskFat = fatBuffer
  /\ pc = "count" =>
       /\ DiskCurrent
       /\ pointer \in Clusters /\ list[pointer] = FREE
       /\ length + rank[pointer] = free

Good(list, rank) ==
  /\ Labelled(fatBuffer, firstFreeCluster, chains, list, rank)
  /\ Control(list, rank)

BackupCurrent == pc \notin {"writeFat", "writeBackup"} => diskFatBackup = fatBuffer

NoLeak(list) == \A c \in Clusters : list[c] # LEAK

IInv ==
  /\ TypeOK /\ BackupCurrent
  /\ \E list \in Lists, rank \in Ranks : Good(list, rank) /\ NoLeak(list)

(***************************************************************************)
(* The formatted volume: the root directory is one chain, all other        *)
(* clusters are the free list, in ascending order.                         *)
(***************************************************************************)
LEMMA InitIsGood ==
  Init => /\ TypeOK /\ BackupCurrent
          /\ \E list \in Lists, rank \in Ranks : Good(list, rank) /\ NoLeak(list)
<1> SUFFICES ASSUME Init
             PROVE  /\ TypeOK /\ BackupCurrent
                    /\ \E list \in Lists, rank \in Ranks :
                         Good(list, rank) /\ NoLeak(list)
  OBVIOUS
<1> DEFINE list == [c \in Clusters |-> IF c <= RootSize + 1 THEN 2 ELSE FREE]
           rank == [c \in Clusters |-> IF c <= RootSize + 1 THEN RootSize + 1 - c
                                                           ELSE LastCluster - c]
<1>1. /\ fatBuffer = [c \in Clusters |-> IF c = LastCluster \/ c = RootSize + 1
                                         THEN EOF_FLAG ELSE c + 1]
      /\ firstFreeCluster = RootSize + 2 /\ chains = {2}
  BY SizeAssumption DEF Init, fatInit, Clusters, EOF_FLAG
<1>2. TypeOK
  <2>1. /\ RootSize + 2 \in Clusters /\ 2 \in Clusters
        /\ LastCluster - (RootSize + 2) \in Nat
        /\ \A c \in Clusters : c # LastCluster => c + 1 \in Clusters
    BY SizeAssumption DEF Clusters
  <2>2. fatBuffer \in [Clusters -> Clusters \cup {EOF_FLAG}]
    BY <1>1, <2>1
  <2>3. QED
    BY <1>1, <2>1, <2>2 DEF Init, TypeOK
<1>3. list \in Lists /\ rank \in Ranks
  BY SizeAssumption DEF Lists, Ranks, Clusters, FREE
<1>4. /\ \A c \in Clusters :
           /\ c \in Int /\ 2 <= c /\ c <= LastCluster
           /\ list[c] = IF c <= RootSize + 1 THEN 2 ELSE FREE
           /\ rank[c] = IF c <= RootSize + 1 THEN RootSize + 1 - c
                                             ELSE LastCluster - c
      /\ RootSize \in Nat /\ LastCluster \in Nat /\ RootSize >= 1
      /\ 2 \in Clusters /\ RootSize + 2 \in Clusters /\ RootSize + 2 <= LastCluster
  BY SizeAssumption DEF Clusters
<1>5. Control(list, rank) /\ BackupCurrent
  BY <1>1, <1>4 DEF Control, Init, DiskCurrent, Writing, BackupCurrent
<1> HIDE DEF list, rank
<1>7. \A c \in Clusters :
        IF fatBuffer[c] = EOF_FLAG THEN rank[c] = 0
        ELSE /\ fatBuffer[c] \in Clusters
             /\ list[fatBuffer[c]] = list[c]
             /\ rank[c] = rank[fatBuffer[c]] + 1
  <2> SUFFICES ASSUME NEW c \in Clusters
               PROVE  IF fatBuffer[c] = EOF_FLAG THEN rank[c] = 0
                      ELSE /\ fatBuffer[c] \in Clusters
                           /\ list[fatBuffer[c]] = list[c]
                           /\ rank[c] = rank[fatBuffer[c]] + 1
    OBVIOUS
  <2>1. CASE c = LastCluster \/ c = RootSize + 1
    BY <2>1, <1>1, <1>4 DEF EOF_FLAG
  <2>2. CASE c # LastCluster /\ c # RootSize + 1
    <3>1. fatBuffer[c] = c + 1 /\ c + 1 # EOF_FLAG /\ c + 1 \in Clusters
      BY <2>2, <1>1, <1>4 DEF EOF_FLAG, Clusters
    <3>2. list[c + 1] = list[c] /\ rank[c] = rank[c + 1] + 1
      BY <2>2, <3>1, <1>4
    <3>3. QED
      BY <3>1, <3>2
  <2>3. QED
    BY <2>1, <2>2
<1>8. \A c, d \in Clusters : list[c] = list[d] /\ rank[c] = rank[d] => c = d
  BY <1>4 DEF FREE
<1>9. Labelled(fatBuffer, firstFreeCluster, chains, list, rank)
  BY <1>1, <1>4, <1>7, <1>8 DEF Labelled, FREE
<1>10. NoLeak(list)
  BY <1>4 DEF NoLeak, FREE, LEAK
<1>6. QED
  BY <1>2, <1>3, <1>5, <1>9, <1>10 DEF Good

(***************************************************************************)
(* One lemma per group of actions.  Most leave the table alone and keep    *)
(* the labelling; alloc's cut and release's splice replace it.             *)
(***************************************************************************)
LEMMA AllocBegins ==
  ASSUME TypeOK, NEW list \in Lists, NEW rank \in Ranks, Good(list, rank),
         NEW n \in Nat \ {0}, AllocBegin(n)
  PROVE  TypeOK' /\ Good(list, rank)'
<1>1. /\ firstFreeCluster \in Clusters /\ list[firstFreeCluster] = FREE
      /\ rank[firstFreeCluster] \in Nat /\ length \in Nat /\ i \in Nat
  BY DEF Good, Labelled, TypeOK, Ranks
<1>2. TypeOK'
  BY <1>1 DEF TypeOK, AllocBegin, memory, disk
<1>3. Control(list, rank)'
  BY <1>1
     DEF Control, DiskCurrent, Writing, AllocBegin, EnoughSpace, memory, disk, Good
<1>4. Labelled(fatBuffer, firstFreeCluster, chains, list, rank)'
  BY DEF AllocBegin, memory, Labelled, Good
<1>5. QED
  BY <1>2, <1>3, <1>4 DEF Good

(* A step of alloc's walk changes no label.                                *)
LEMMA AllocWalks ==
  ASSUME TypeOK, NEW list \in Lists, NEW rank \in Ranks, Good(list, rank),
         AllocWalk
  PROVE  TypeOK' /\ Good(list, rank)'
<1>1. /\ firstFreeCluster \in Clusters /\ list[firstFreeCluster] = FREE
      /\ rank[firstFreeCluster] \in Nat /\ length \in Nat /\ i \in Nat
  BY DEF Good, Labelled, TypeOK, Ranks
<1>2. /\ pointer \in Clusters /\ list[pointer] = FREE
      /\ rank[pointer] = rank[firstFreeCluster] - i
      /\ length <= rank[firstFreeCluster] /\ i < length - 1
  BY DEF AllocWalk, Control, Good
<1>3. rank[pointer] # 0 /\ rank[pointer] \in Nat
  BY <1>1, <1>2
<1>4. /\ fatBuffer[pointer] \in Clusters
      /\ list[fatBuffer[pointer]] = FREE
      /\ rank[pointer] = rank[fatBuffer[pointer]] + 1
      /\ rank[fatBuffer[pointer]] \in Nat
  BY <1>2, <1>3, LabelsDiffer DEF Good, Labelled, Ranks
<1>5. TypeOK'
  BY <1>1, <1>4 DEF TypeOK, AllocWalk, nextBlock, memory, disk
<1>6. Control(list, rank)'
  BY <1>1, <1>2, <1>4
     DEF Control, DiskCurrent, Writing, AllocWalk, nextBlock, memory, disk, Good
<1>7. Labelled(fatBuffer, firstFreeCluster, chains, list, rank)'
  BY DEF AllocWalk, memory, Labelled, Good
<1>8. QED
  BY <1>5, <1>6, <1>7 DEF Good

(* The cut at the end of alloc's walk.                                     *)
LEMMA AllocCuts ==
  ASSUME TypeOK, NEW list \in Lists, NEW rank \in Ranks, Good(list, rank),
         AllocCut
  PROVE  /\ TypeOK'
         /\ \E l \in Lists, r \in Ranks :
              /\ l = CutList(firstFreeCluster, list, rank, pointer)
              /\ r = CutRank(list, rank, pointer)
              /\ Good(l, r)'
<1> USE DEF Good
<1>0. /\ firstFreeCluster \in Clusters /\ list[firstFreeCluster] = FREE
      /\ rank[firstFreeCluster] \in Nat /\ length \in Nat /\ i \in Nat
  BY DEF Labelled, TypeOK, Ranks
<1>1. /\ pointer \in Clusters /\ list[pointer] = FREE
      /\ rank[pointer] = rank[firstFreeCluster] - i
      /\ length <= rank[firstFreeCluster] /\ i = length - 1
      /\ start = firstFreeCluster /\ op = "alloc"
      /\ totalFreeSpace = rank[firstFreeCluster]
      /\ fsiNxtFree = firstFreeCluster
  BY DEF AllocCut, Control, DiskCurrent
<1>2. rank[pointer] # 0 /\ rank[pointer] \in Nat
  BY <1>0, <1>1
<1>3. /\ fatBuffer[pointer] \in Clusters /\ fatBuffer[pointer] # EOF_FLAG
      /\ rank[fatBuffer[pointer]] = rank[pointer] - 1
  BY <1>1, <1>2, LabelsDiffer DEF Labelled, Ranks
<1>4. /\ fatBuffer \in [Clusters -> Clusters \cup {EOF_FLAG}]
      /\ Labelled(fatBuffer, firstFreeCluster, chains, list, rank)
      /\ chains \in SUBSET Clusters
  BY DEF TypeOK
<1>5. PICK l \in Lists, r \in Ranks :
         /\ l = CutList(firstFreeCluster, list, rank, pointer)
         /\ r = CutRank(list, rank, pointer)
         /\ Labelled([fatBuffer EXCEPT ![pointer] = EOF_FLAG],
                     fatBuffer[pointer], chains \cup {firstFreeCluster}, l, r)
         /\ r[fatBuffer[pointer]] = rank[fatBuffer[pointer]]
  <2> DEFINE l == CutList(firstFreeCluster, list, rank, pointer)
             r == CutRank(list, rank, pointer)
  <2>1. /\ l \in Lists /\ r \in Ranks
        /\ Labelled([fatBuffer EXCEPT ![pointer] = EOF_FLAG],
                    fatBuffer[pointer], chains \cup {firstFreeCluster}, l, r)
    BY <1>0, <1>1, <1>3, <1>4, CutLabels
  <2>2. r[fatBuffer[pointer]] = rank[fatBuffer[pointer]]
    BY <1>2, <1>3 DEF CutRank
  <2>3. QED
    BY <2>1, <2>2
<1>6. /\ fatBuffer' = [fatBuffer EXCEPT ![pointer] = EOF_FLAG]
      /\ firstFreeCluster' = fatBuffer[pointer]
      /\ chains' = chains \cup {firstFreeCluster}
      /\ totalFreeSpace' = rank[firstFreeCluster] - length
      /\ pc' = "writeFat" /\ op' = "alloc" /\ length' = length
      /\ start' = firstFreeCluster /\ fsiNxtFree' = firstFreeCluster
  BY <1>1 DEF AllocCut, CutAfter, nextBlock, locals, disk
<1>7. Labelled(fatBuffer, firstFreeCluster, chains, l, r)'
  BY <1>5, <1>6
<1>8. Control(l, r)'
  BY <1>1, <1>3, <1>5, <1>6, <1>0 DEF Control, Writing
<1>9. TypeOK'
  BY <1>0, <1>1, <1>3, <1>6 DEF TypeOK, AllocCut, disk, locals
<1>10. QED
  BY <1>5, <1>7, <1>8, <1>9

\* Both calls that splice end here, with their facts in one form.
LEMMA Splices ==
  ASSUME TypeOK, NEW list \in Lists, NEW rank \in Ranks, Good(list, rank),
         NEW s \in chains, NEW last \in Clusters,
         list[last] = s, fatBuffer[last] = EOF_FLAG,
         totalFreeSpace = rank[firstFreeCluster],
         fsiNxtFree = firstFreeCluster, fsiNxtFree' = fsiNxtFree,
         Splice(last, s),
         totalFreeSpace' = totalFreeSpace, op' = "release",
         length' = rank[s] + 1
  PROVE  \E l \in Lists, r \in Ranks :
           /\ l = SpliceList(list, s)
           /\ r = SpliceRank(firstFreeCluster, list, rank, s)
           /\ Good(l, r)'
<1>1. /\ chains \in SUBSET Clusters /\ s \in Clusters /\ list[s] = s
      /\ firstFreeCluster \in Clusters /\ list[firstFreeCluster] = FREE
      /\ fatBuffer \in [Clusters -> Clusters \cup {EOF_FLAG}]
      /\ Labelled(fatBuffer, firstFreeCluster, chains, list, rank)
  BY DEF Good, Labelled, TypeOK
<1>2. PICK l \in Lists, r \in Ranks :
         /\ l = SpliceList(list, s)
         /\ r = SpliceRank(firstFreeCluster, list, rank, s)
         /\ Labelled([fatBuffer EXCEPT ![last] = firstFreeCluster], s,
                     chains \ {s}, l, r)
         /\ r[s] = rank[s] + rank[firstFreeCluster] + 1
         /\ l[firstFreeCluster] = FREE
  <2> DEFINE l == SpliceList(list, s)
             r == SpliceRank(firstFreeCluster, list, rank, s)
  <2>1. /\ l \in Lists /\ r \in Ranks
        /\ Labelled([fatBuffer EXCEPT ![last] = firstFreeCluster], s,
                    chains \ {s}, l, r)
    BY <1>1, SpliceLabels
  <2>2. r[s] = rank[s] + rank[firstFreeCluster] + 1
    BY <1>1 DEF SpliceRank
  <2>3. l[firstFreeCluster] = FREE
    BY <1>1 DEF SpliceList
  <2>4. QED
    BY <2>1, <2>2, <2>3
<1>3. /\ fatBuffer' = [fatBuffer EXCEPT ![last] = firstFreeCluster]
      /\ firstFreeCluster' = s /\ chains' = chains \ {s} /\ pc' = "writeFat"
  BY DEF Splice, LinkToFree, FreeHead
<1>4. Labelled(fatBuffer, firstFreeCluster, chains, l, r)'
  BY <1>2, <1>3
<1>5. rank[s] \in Nat /\ rank[firstFreeCluster] \in Nat
  BY <1>1 DEF Ranks
<1>6. Control(l, r)'
  BY <1>1, <1>2, <1>3, <1>5 DEF Control, Writing
<1>7. QED
  BY <1>2, <1>4, <1>6 DEF Good

(* release of a chain of one cluster.                                      *)
LEMMA SingleReleases ==
  ASSUME TypeOK, NEW list \in Lists, NEW rank \in Ranks, Good(list, rank),
         NEW c \in chains, ReleaseSingle(c)
  PROVE  /\ TypeOK'
         /\ \E l \in Lists, r \in Ranks :
              /\ l = SpliceList(list, c)
              /\ r = SpliceRank(firstFreeCluster, list, rank, c)
              /\ Good(l, r)'
<1>1. /\ c \in Clusters /\ list[c] = c /\ rank[c] = 0 /\ c # LEAK
      /\ length \in Nat /\ chains \in SUBSET Clusters
  BY LabelsDiffer DEF ReleaseSingle, Good, Labelled, TypeOK
<1>2. TypeOK'
  BY <1>1 DEF TypeOK, ReleaseSingle, Splice, LinkToFree, FreeHead, disk
<1>3. /\ totalFreeSpace = rank[firstFreeCluster]
      /\ fsiNxtFree = firstFreeCluster /\ fsiNxtFree' = fsiNxtFree
      /\ fatBuffer[c] = EOF_FLAG /\ Splice(c, c)
      /\ totalFreeSpace' = totalFreeSpace /\ op' = "release"
      /\ length' = rank[c] + 1
  BY <1>1 DEF ReleaseSingle, Good, Control, DiskCurrent, disk
<1>4. QED
  BY <1>1, <1>2, <1>3, Splices

(* The beginning of release's walk changes no label,                       *)
LEMMA ReleaseBegins ==
  ASSUME TypeOK, NEW list \in Lists, NEW rank \in Ranks, Good(list, rank),
         NEW c \in chains, ReleaseBegin(c)
  PROVE  TypeOK' /\ Good(list, rank)'
<1>1. /\ c \in chains /\ c \in Clusters /\ list[c] = c
      /\ rank[c] \in Nat /\ c # EOF_FLAG
  BY LabelsDiffer DEF Good, Labelled, TypeOK, Ranks
<1>2. TypeOK'
  BY <1>1 DEF TypeOK, ReleaseBegin, memory, disk
<1>3. Labelled(fatBuffer, firstFreeCluster, chains, list, rank)'
  BY DEF ReleaseBegin, memory, Labelled, Good
<1>4. Control(list, rank)'
  BY <1>1
     DEF ReleaseBegin, memory, disk, Control, DiskCurrent, Writing, Good
<1>5. QED
  BY <1>2, <1>3, <1>4 DEF Good

(* nor does a step of it.                                                  *)
LEMMA ReleaseWalks ==
  ASSUME TypeOK, NEW list \in Lists, NEW rank \in Ranks, Good(list, rank),
         ReleaseWalk
  PROVE  TypeOK' /\ Good(list, rank)'
<1>1. /\ pointer \in Clusters /\ pointer # EOF_FLAG
      /\ list[pointer] = start /\ start \in chains /\ start # LEAK
      /\ length + rank[pointer] = rank[start] /\ length \in Nat
      /\ rank[pointer] \in Nat /\ rank[start] \in Nat
  BY LabelsDiffer DEF ReleaseWalk, TypeOK, Good, Control, Ranks
<1>2. \/ fatBuffer[pointer] = EOF_FLAG /\ rank[pointer] = 0
      \/ /\ fatBuffer[pointer] \in Clusters
         /\ fatBuffer[pointer] # EOF_FLAG
         /\ list[fatBuffer[pointer]] = start
         /\ rank[pointer] = rank[fatBuffer[pointer]] + 1
         /\ rank[fatBuffer[pointer]] \in Nat
  BY <1>1, LabelsDiffer DEF Good, Labelled, Ranks
<1>3. TypeOK'
  BY <1>1, <1>2
     DEF TypeOK, ReleaseWalk, nextBlock, memory, disk
<1>4. Labelled(fatBuffer, firstFreeCluster, chains, list, rank)'
  BY DEF ReleaseWalk, memory, Labelled, Good
<1>5. /\ pc' = "releaseWalk" /\ current' = pointer
      /\ pointer' = fatBuffer[pointer] /\ length' = length + 1
      /\ start' = start /\ op' = op /\ chains' = chains
      /\ fatBuffer' = fatBuffer /\ firstFreeCluster' = firstFreeCluster
      /\ totalFreeSpace' = totalFreeSpace
      /\ (DiskCurrent => DiskCurrent')
  BY DEF ReleaseWalk, nextBlock, memory, disk, DiskCurrent
<1>6. /\ op = "release" /\ totalFreeSpace = rank[firstFreeCluster]
      /\ DiskCurrent
  BY DEF ReleaseWalk, Good, Control
<1>7. Control(list, rank)'
  BY <1>1, <1>2, <1>5, <1>6 DEF Control, Writing
<1>8. QED
  BY <1>3, <1>4, <1>7 DEF Good

(* The splice at the end of release's walk.                                *)
LEMMA WalkReleases ==
  ASSUME TypeOK, NEW list \in Lists, NEW rank \in Ranks, Good(list, rank),
         ReleaseSplice
  PROVE  /\ TypeOK'
         /\ \E l \in Lists, r \in Ranks :
              /\ l = SpliceList(list, start)
              /\ r = SpliceRank(firstFreeCluster, list, rank, start)
              /\ Good(l, r)'
<1>1. /\ start \in chains /\ current \in Clusters /\ list[current] = start
      /\ fatBuffer[current] = EOF_FLAG /\ length = rank[start] + 1
      /\ op = "release" /\ totalFreeSpace = rank[firstFreeCluster]
      /\ fsiNxtFree = firstFreeCluster /\ chains \in SUBSET Clusters
  BY DEF ReleaseSplice, Good, Control, DiskCurrent, TypeOK
<1>2. TypeOK'
  BY <1>1
     DEF TypeOK, ReleaseSplice, Splice, LinkToFree, FreeHead, disk, locals
<1>3. /\ Splice(current, start) /\ totalFreeSpace' = totalFreeSpace
      /\ op' = "release" /\ length' = rank[start] + 1
      /\ fsiNxtFree' = fsiNxtFree
  BY <1>1 DEF ReleaseSplice, locals, disk
<1>4. QED
  BY <1>1, <1>2, <1>3, Splices

(* The three disk writes change no label.                                  *)
LEMMA Writes ==
  ASSUME TypeOK, NEW list \in Lists, NEW rank \in Ranks, Good(list, rank),
         WriteFat \/ WriteBackup \/ WriteInfo
  PROVE  TypeOK' /\ Good(list, rank)'
<1>1. /\ length \in Nat /\ totalFreeSpace \in Nat
      /\ fatBuffer \in [Clusters -> Clusters \cup {EOF_FLAG}]
      /\ firstFreeCluster \in Clusters \cup {EOF_FLAG}
  BY DEF TypeOK
<1>2. CASE WriteFat
  BY <1>1, <1>2
     DEF WriteFat, memory, locals, TypeOK, Good, Labelled, Control, Writing
<1>3. CASE WriteBackup
  BY <1>1, <1>3
     DEF WriteBackup, memory, locals, TypeOK, Good, Labelled, Control, Writing
<1>4. CASE WriteInfo
  BY <1>1, <1>4
     DEF WriteInfo, Return, FreeHint, TotalAfter, TypeOK, Good, Labelled,
         Control, DiskCurrent, Writing
<1>5. QED
  BY <1>2, <1>3, <1>4

\* The count of a mount never reaches its bound: RankBound.
LEMMA Mounts ==
  ASSUME TypeOK, NEW list \in Lists, NEW rank \in Ranks, Good(list, rank),
         Remount \/ CountStep \/ CountEnd
  PROVE  TypeOK' /\ Good(list, rank)'
<1>1. /\ length \in Nat /\ LastCluster \in Nat
      /\ firstFreeCluster \in Clusters /\ list[firstFreeCluster] = FREE
      /\ rank[firstFreeCluster] \in Nat /\ CountBound \in Nat
      /\ rank[firstFreeCluster] < CountBound
  <2>1. /\ firstFreeCluster \in Clusters /\ list[firstFreeCluster] = FREE
        /\ Labelled(fatBuffer, firstFreeCluster, chains, list, rank)
        /\ chains \in SUBSET Clusters
        /\ fatBuffer \in [Clusters -> Clusters \cup {EOF_FLAG}]
    BY DEF Good, Labelled, TypeOK
  <2>2. rank[firstFreeCluster] <= LastCluster - 2
    BY <2>1, LabelsDiffer, RankBound
  <2>3. QED
    BY <2>1, <2>2, SizeAssumption DEF TypeOK, Ranks, CountBound
<1>2. CASE Remount
  <2>1. /\ fatBuffer' = fatBuffer /\ firstFreeCluster' = firstFreeCluster
        /\ pc' = "count" /\ pointer' = firstFreeCluster /\ length' = 0
        /\ chains' = chains /\ DiskCurrent'
    BY <1>2 DEF Remount, Good, Control, DiskCurrent, disk
  <2>2. TypeOK'
    BY <1>2, <1>1 DEF Remount, TypeOK, disk
  <2>3. Good(list, rank)'
    BY <1>1, <2>1 DEF Good, Labelled, Control, Writing
  <2>4. QED
    BY <2>2, <2>3
<1>3. CASE CountStep
  <2>1. /\ pointer \in Clusters /\ list[pointer] = FREE /\ DiskCurrent
        /\ length + rank[pointer] = rank[firstFreeCluster]
        /\ rank[pointer] \in Nat
    BY <1>3 DEF CountStep, Good, Control, Ranks
  <2>2. /\ fatBuffer[pointer] \in Clusters
        /\ list[fatBuffer[pointer]] = FREE
        /\ rank[pointer] = rank[fatBuffer[pointer]] + 1
        /\ rank[fatBuffer[pointer]] \in Nat
    BY <1>3, <2>1, LabelsDiffer DEF CountStep, Good, Labelled, Ranks
  <2>3. length' = length + 1
    BY <1>1, <1>3, <2>1, <2>2 DEF CountStep
  <2>4. TypeOK'
    BY <1>1, <1>3, <2>2, <2>3 DEF CountStep, nextBlock, TypeOK, memory, disk
  <2>5. Labelled(fatBuffer, firstFreeCluster, chains, list, rank)'
    BY <1>3 DEF CountStep, memory, Good, Labelled
  <2>6. Control(list, rank)'
    BY <1>1, <1>3, <2>1, <2>2, <2>3
       DEF CountStep, nextBlock, memory, disk, Control, DiskCurrent, Writing
  <2>7. QED
    BY <2>4, <2>5, <2>6 DEF Good
<1>4. CASE CountEnd
  <2>1. /\ rank[pointer] = 0 /\ length = rank[firstFreeCluster] /\ DiskCurrent
    BY <1>1, <1>4, LabelsDiffer DEF CountEnd, Good, Labelled, Control
  <2>2. TypeOK'
    BY <1>1, <1>4 DEF CountEnd, Return, TypeOK, disk
  <2>3. QED
    BY <1>4, <2>1, <2>2
       DEF CountEnd, Return, disk, Good, Labelled, Control, DiskCurrent, Writing
<1>5. QED
  BY <1>2, <1>3, <1>4

(* Nothing changes when nothing happens.                                   *)
LEMMA Stutters ==
  ASSUME TypeOK, NEW list \in Lists, NEW rank \in Ranks, Good(list, rank),
         UNCHANGED vars
  PROVE  TypeOK' /\ Good(list, rank)'
BY DEF Good, Labelled, Control, DiskCurrent, Writing, TypeOK, vars, memory,
       disk, locals

\* A cut and a splice move clusters between lists and lose none.
LEMMA NoneLeaks ==
  ASSUME NEW list \in Lists, NEW rank \in Ranks, NEW ff \in Clusters, NEW p, NEW s
  PROVE  \A c \in Clusters :
           /\ CutList(ff, list, rank, p)[c] = LEAK <=> list[c] = LEAK
           /\ s \in Clusters => (SpliceList(list, s)[c] = LEAK <=> list[c] = LEAK)
BY LabelsDiffer DEF CutList, SpliceList

(* The second table on disk follows the first one.                         *)
LEMMA BackupKept ==
  ASSUME BackupCurrent, TypeOK, Next,
         NEW list \in Lists, NEW rank \in Ranks, Good(list, rank)
  PROVE  BackupCurrent'
<1>1. pc = "idle" => diskFat = fatBuffer
  BY DEF Good, Control, DiskCurrent
<1>2. ASSUME NEW n, AllocBegin(n) PROVE BackupCurrent'
  BY <1>2 DEF AllocBegin, BackupCurrent, memory, disk
<1>3. ASSUME NEW c, ReleaseSingle(c) \/ ReleaseBegin(c) PROVE BackupCurrent'
  BY <1>3 DEF ReleaseSingle, ReleaseBegin, Splice, BackupCurrent, memory, disk
<1>4. ASSUME Remount PROVE BackupCurrent'
  BY <1>1, <1>4 DEF Remount, BackupCurrent, disk
<1>5. ASSUME Step PROVE BackupCurrent'
  BY <1>5
     DEF Step, AllocWalk, AllocCut, ReleaseWalk, ReleaseSplice, Splice, WriteFat,
         WriteBackup, WriteInfo, CountStep, CountEnd, Return, BackupCurrent,
         memory, disk
<1>6. QED
  BY <1>2, <1>3, <1>4, <1>5 DEF Next

\* What a step does to a labelling that leaks nothing.
LEMMA NextKeeps ==
  ASSUME TypeOK, NEW list \in Lists, NEW rank \in Ranks, Good(list, rank),
         NoLeak(list), Next
  PROVE  /\ TypeOK'
         /\ \E l \in Lists, r \in Ranks : Good(l, r)' /\ NoLeak(l)
<1>1. /\ firstFreeCluster \in Clusters /\ chains \in SUBSET Clusters
      /\ Releasable \in SUBSET chains
  BY DEF Good, Labelled, TypeOK, Releasable
<1>2. CASE \E n \in Requests : AllocBegin(n)
  <2>1. PICK n \in Requests : AllocBegin(n)
    BY <1>2
  <2>2. n \in Nat \ {0}
    BY SizeAssumption
  <2>3. QED
    BY <2>1, <2>2, AllocBegins
<1>3. CASE AllocCut
  <2>1. \A c \in Clusters :
          CutList(firstFreeCluster, list, rank, pointer)[c] # LEAK
    BY <1>1, NoneLeaks DEF NoLeak
  <2>2. QED
    BY <1>3, <2>1, AllocCuts DEF NoLeak
<1>4. ASSUME NEW c \in Releasable, ReleaseSingle(c)
      PROVE  /\ TypeOK'
             /\ \E l \in Lists, r \in Ranks : Good(l, r)' /\ NoLeak(l)
  <2>1. c \in chains /\ c \in Clusters
    BY <1>1
  <2>2. \A d \in Clusters : SpliceList(list, c)[d] # LEAK
    BY <1>1, <2>1, NoneLeaks DEF NoLeak
  <2>3. QED
    BY <1>4, <2>1, <2>2, SingleReleases DEF NoLeak
<1>5. ASSUME NEW c \in Releasable, ReleaseBegin(c)
      PROVE  TypeOK' /\ Good(list, rank)'
  BY <1>1, <1>5, ReleaseBegins
<1>6. CASE ReleaseSplice
  <2>1. start \in Clusters
    BY <1>6 DEF ReleaseSplice, Good, Control, TypeOK
  <2>2. \A d \in Clusters : SpliceList(list, start)[d] # LEAK
    BY <1>1, <2>1, NoneLeaks DEF NoLeak
  <2>3. QED
    BY <1>6, <2>2, WalkReleases DEF NoLeak
<1>7. CASE AllocWalk
  BY <1>7, AllocWalks
<1>8. CASE ReleaseWalk
  BY <1>8, ReleaseWalks
<1>9. CASE WriteFat \/ WriteBackup \/ WriteInfo
  BY <1>9, Writes
<1>10. CASE Remount \/ CountStep \/ CountEnd
  BY <1>10, Mounts
<1>11. QED
  BY <1>2, <1>3, <1>4, <1>5, <1>6, <1>7, <1>8, <1>9, <1>10 DEF Next, Step

(* Every step of alloc, release and a mount keeps the labelling.           *)
THEOREM Invariance == Spec => []IInv
<1>1. IInv /\ [Next]_vars => IInv'
  <2> SUFFICES ASSUME IInv, [Next]_vars PROVE IInv'
    OBVIOUS
  <2>1. PICK list \in Lists, rank \in Ranks : Good(list, rank) /\ NoLeak(list)
    BY DEF IInv
  <2>2. TypeOK /\ BackupCurrent
    BY DEF IInv
  <2>3. CASE UNCHANGED vars
    <3>1. BackupCurrent'
      BY <2>2, <2>3 DEF BackupCurrent, vars, memory, disk
    <3>2. TypeOK' /\ Good(list, rank)'
      BY <2>1, <2>2, <2>3, Stutters
    <3>3. QED
      BY <2>1, <3>1, <3>2 DEF IInv
  <2>4. CASE Next
    <3>1. BackupCurrent'
      BY <2>1, <2>2, <2>4, BackupKept
    <3>2. /\ TypeOK'
          /\ \E l \in Lists, r \in Ranks : Good(l, r)' /\ NoLeak(l)
      BY <2>1, <2>2, <2>4, NextKeeps
    <3>3. QED
      BY <3>1, <3>2 DEF IInv
  <2>5. QED
    BY <2>3, <2>4
<1>2. Init => IInv
  BY InitIsGood DEF IInv
<1>3. QED
  BY <1>1, <1>2, PTL DEF Spec
-----------------------------------------------------------------------------
(***************************************************************************)
(* What the labelling says of the sets that follow links: the clusters     *)
(* reached from a head are those that carry its label.                     *)
(***************************************************************************)
IsTable(fat, ff, ch, list, rank) ==
  /\ fat \in [Clusters -> Clusters \cup {EOF_FLAG}]
  /\ ff \in Clusters /\ ch \in SUBSET Clusters
  /\ list \in Lists /\ rank \in Ranks
  /\ Labelled(fat, ff, ch, list, rank)

HeadOf(h, fat, ff, ch, list, rank) ==
  IsTable(fat, ff, ch, list, rank) /\ h \in ch \cup {ff}

(* The head of a list is the furthest from its end.                        *)
LEMMA HeadIsTop ==
  ASSUME NEW fat, NEW ff, NEW ch, NEW list, NEW rank, NEW h,
         HeadOf(h, fat, ff, ch, list, rank)
  PROVE  /\ h \in Clusters /\ list[h] # LEAK
         /\ list[h] = IF h \in ch THEN h ELSE FREE
         /\ \A c \in Clusters : list[c] = list[h] => rank[c] <= rank[h]
<1>1. CASE h \in ch
  BY <1>1, LabelsDiffer DEF HeadOf, IsTable, Labelled
<1>2. CASE h \notin ch
  <2>1. h = ff
    BY <1>2 DEF HeadOf
  <2>2. QED
    BY <1>2, <2>1, LabelsDiffer DEF HeadOf, IsTable, Labelled
<1>3. QED
  BY <1>1, <1>2

(* There is a cluster of its list at each distance up to the head's.       *)
LEMMA HeadHasNoGap ==
  ASSUME NEW fat, NEW ff, NEW ch, NEW list, NEW rank, NEW h,
         HeadOf(h, fat, ff, ch, list, rank)
  PROVE  \A j \in 0 .. rank[h] : \E e \in Clusters : list[e] = list[h] /\ rank[e] = j
<1>1. /\ fat \in [Clusters -> Clusters \cup {EOF_FLAG}]
      /\ ff \in Clusters /\ ch \in SUBSET Clusters
      /\ list \in Lists /\ rank \in Ranks
      /\ Labelled(fat, ff, ch, list, rank)
  BY DEF HeadOf, IsTable
<1>2. h \in Clusters /\ list[h] # LEAK
  BY HeadIsTop
<1> QED BY <1>1, <1>2, NoGap

(* The clusters that can be reached from a head are those that have its    *)
(* label.                                                                  *)
LEMMA ReachIsLabel ==
  ASSUME NEW fat, NEW ff, NEW ch, NEW list, NEW rank, NEW h,
         HeadOf(h, fat, ff, ch, list, rank)
  PROVE  ReachIn(fat, h) = {c \in Clusters : list[c] = list[h]}
<1>1. /\ h \in Clusters /\ list[h] # LEAK
      /\ \A c \in Clusters : list[c] = list[h] => rank[c] <= rank[h]
  BY HeadIsTop
<1>2. \A j \in 0 .. rank[h] :
        \E e \in Clusters : list[e] = list[h] /\ rank[e] = j
  BY HeadHasNoGap
<1> USE DEF HeadOf, IsTable
<1> DEFINE L == {c \in Clusters : list[c] = list[h]}
<1>3. L \in SUBSET Clusters /\ h \in L /\ Closed(fat, L)
  BY <1>1 DEF Closed, Labelled
<1>4. ReachIn(fat, h) \subseteq L
  <2> SUFFICES ASSUME NEW c \in ReachIn(fat, h) PROVE c \in L
    OBVIOUS
  <2> HIDE DEF L
  <2>1. \A S \in SUBSET Clusters : h \in S /\ Closed(fat, S) => c \in S
    BY DEF ReachIn
  <2>2. QED
    BY <1>3, <2>1
<1>5. L \subseteq ReachIn(fat, h)
  <2> SUFFICES ASSUME NEW S \in SUBSET Clusters, h \in S, Closed(fat, S)
               PROVE  \A c \in L : c \in S
    BY DEF ReachIn
  <2> USE DEF Ranks
  <2> DEFINE Out == {k \in Nat : \E d \in L : d \notin S /\ rank[d] = rank[h] - k}
  <2>1. Out = {}
    <3> SUFFICES ASSUME Out # {} PROVE FALSE
      OBVIOUS
    <3>1. PICK k \in Out : \A j \in Out : <<j, k>> \notin OpToRel(<, Nat)
      BY NatLessThanWellFounded, WFMin
    <3>2. PICK d \in L : d \notin S /\ rank[d] = rank[h] - k
      OBVIOUS
    <3>3. rank[h] \in Nat /\ rank[d] \in Nat /\ k \in Nat
      BY <1>1
    <3>4. k # 0
      BY <1>1, <3>2, <3>3 DEF Labelled
    <3>5. k - 1 \notin Out
      <4>1. k - 1 \in Nat /\ k - 1 < k
        BY <3>3, <3>4
      <4>2. <<k - 1, k>> \in OpToRel(<, Nat)
        BY <3>3, <4>1 DEF OpToRel
      <4>3. QED
        BY <3>1, <4>2
    <3>6. PICK e \in Clusters : list[e] = list[h] /\ rank[e] = rank[h] - (k - 1)
      <4>1. rank[h] - (k - 1) \in 0 .. rank[h]
        BY <3>2, <3>3, <3>4
      <4>2. \A j \in 0 .. rank[h] :
              \E e \in Clusters : list[e] = list[h] /\ rank[e] = j
        BY <1>2
      <4>3. QED
        BY <4>1, <4>2
    <3>7. e \in S
      BY <3>3, <3>4, <3>5, <3>6
    <3>8. /\ fat[e] \in Clusters /\ list[fat[e]] = list[d]
          /\ rank[fat[e]] = rank[d] /\ fat[e] # EOF_FLAG
      BY <1>1, <3>2, <3>3, <3>6, LabelsDiffer DEF Labelled
    <3>9. fat[e] = d /\ fat[e] \in S
      BY <1>1, <3>7, <3>8 DEF Labelled, Closed
    <3>10. QED
      BY <3>2, <3>9
  <2>2. \A c \in L : rank[h] - rank[c] \in Nat /\ rank[c] = rank[h] - (rank[h] - rank[c])
    BY <1>1
  <2>3. QED
    BY <2>1, <2>2
<1>6. QED
  BY <1>4, <1>5

\* Chains and the free list of a labelled table have no cluster in common.
LEMMA HeadsApart ==
  ASSUME NEW fat, NEW ff, NEW ch, NEW list, NEW rank, NEW h, NEW k,
         HeadOf(h, fat, ff, ch, list, rank), HeadOf(k, fat, ff, ch, list, rank),
         h # k
  PROVE  ReachIn(fat, h) \cap ReachIn(fat, k) = {}
<1>1. list[h] # list[k]
  <2>1. /\ h \in Clusters /\ list[h] = IF h \in ch THEN h ELSE FREE
        /\ k \in Clusters /\ list[k] = IF k \in ch THEN k ELSE FREE
    BY HeadIsTop
  <2>2. h \in ch \/ k \in ch
    BY DEF HeadOf
  <2>3. QED
    BY <2>1, <2>2, LabelsDiffer
<1>2. /\ ReachIn(fat, h) = {c \in Clusters : list[c] = list[h]}
      /\ ReachIn(fat, k) = {c \in Clusters : list[c] = list[k]}
  BY ReachIsLabel
<1>3. QED
  BY <1>1, <1>2

\* The distance of a list's first cluster is one less than its clusters.
LEMMA ChainLength ==
  ASSUME NEW fat, NEW ff, NEW ch, NEW list, NEW rank, NEW h,
         HeadOf(h, fat, ff, ch, list, rank)
  PROVE  Cardinality(ReachIn(fat, h)) = rank[h] + 1
<1> DEFINE L == {c \in Clusters : list[c] = list[h]}
           S == 0 .. rank[h]
<1>1. /\ h \in Clusters /\ list[h] # LEAK /\ rank[h] \in Nat
      /\ \A c \in Clusters : list[c] = list[h] => rank[c] <= rank[h]
  <2>1. /\ h \in Clusters /\ list[h] # LEAK
        /\ \A c \in Clusters : list[c] = list[h] => rank[c] <= rank[h]
    BY HeadIsTop
  <2>2. QED
    BY <2>1 DEF HeadOf, IsTable, Ranks
<1>2. ReachIn(fat, h) = L
  BY ReachIsLabel
<1> USE DEF HeadOf, IsTable
<1>3. \A k \in S : \E c \in Clusters : list[c] = list[h] /\ rank[c] = k
  BY HeadHasNoGap
<1>4. \A c \in L : rank[c] \in S
  BY <1>1 DEF Ranks
<1> DEFINE f == [c \in L |-> rank[c]]
<1>5. /\ f \in [L -> S]
      /\ \A c, d \in L : f[c] = f[d] => c = d
      /\ \A k \in S : \E c \in L : f[c] = k
  BY <1>1, <1>3, <1>4 DEF Labelled
<1>6. f \in Bijection(L, S)
  <2> HIDE DEF f, L, S
  <2>1. QED
    BY <1>5 DEF Bijection, Injection, Surjection, IsInjective
<1>7. IsFiniteSet(S) /\ Cardinality(S) = rank[h] + 1
  BY <1>1, FS_Interval
<1>8. Cardinality(L) = Cardinality(S)
  <2>1. IsFiniteSet(L)
    <3>1. IsFiniteSet(Clusters)
      BY FS_Interval, SizeAssumption DEF Clusters
    <3>2. QED
      BY <3>1, FS_Subset
  <2> HIDE DEF f, L, S
  <2>2. QED
    BY <1>6, <1>7, <2>1, FS_Bijection DEF ExistsBijection
<1>9. QED
  BY <1>2, <1>7, <1>8

\* The facts about the table in memory that these lemmas ask for.
LEMMA Table ==
  ASSUME TypeOK, NEW list \in Lists, NEW rank \in Ranks, Good(list, rank)
  PROVE  /\ IsTable(fatBuffer, firstFreeCluster, chains, list, rank)
         /\ Heads = chains \cup {firstFreeCluster}
         /\ \A h \in Heads :
              HeadOf(h, fatBuffer, firstFreeCluster, chains, list, rank)
BY LabelsDiffer DEF TypeOK, Good, Labelled, Heads, IsTable, HeadOf

(* So a labelling shows that chains do not cross.                          *)
LEMMA GoodIsApart ==
  ASSUME TypeOK, NEW list \in Lists, NEW rank \in Ranks, Good(list, rank)
  PROVE  NoCrossLink
<1> SUFFICES ASSUME NEW h \in Heads, NEW k \in Heads, h # k
             PROVE  Reach(h) \cap Reach(k) = {}
  BY DEF NoCrossLink
<1>1. /\ HeadOf(h, fatBuffer, firstFreeCluster, chains, list, rank)
      /\ HeadOf(k, fatBuffer, firstFreeCluster, chains, list, rank)
  BY Table
<1>2. ReachIn(fatBuffer, h) \cap ReachIn(fatBuffer, k) = {}
  BY <1>1, HeadsApart
<1>3. QED
  BY <1>2 DEF Reach
-----------------------------------------------------------------------------
(* Types: no step of alloc, release or a mount leaves the table or an index *)
(* outside its range, for every table size (fat.c).                        *)
THEOREM TypeCorrect == Spec => []TypeOK
<1>1. IInv => TypeOK
  BY DEF IInv
<1>2. QED
  BY Invariance, <1>1, PTL

(* No cluster ever has two owners, whatever the sequence of alloc, release *)
(* and mount (fat.c:83-168, 193-207).                                      *)
THEOREM NeverCrossLinked == Spec => []NoCrossLink
<1>1. IInv => NoCrossLink
  BY GoodIsApart DEF IInv
<1>2. QED
  BY Invariance, <1>1, PTL

(* Every cluster is owned or free at every step, also half way through a   *)
(* call (fat.c:100, 151).                                                  *)
THEOREM NeverLost == Spec => []NoClusterLost
<1>1. IInv => NoClusterLost
  <2> SUFFICES ASSUME IInv PROVE NoClusterLost
    OBVIOUS
  <2>1. PICK list \in Lists, rank \in Ranks : Good(list, rank) /\ NoLeak(list)
    BY DEF IInv
  <2>2. TypeOK
    BY DEF IInv
  <2>3. /\ Heads = chains \cup {firstFreeCluster}
        /\ \A h \in Heads : Reach(h) = {c \in Clusters : list[c] = list[h]}
    BY <2>1, <2>2, Table, ReachIsLabel DEF Reach
  <2>4. ASSUME NEW c \in Clusters
        PROVE  \E h \in Heads : list[c] = list[h]
    <3>1. CASE list[c] = FREE
      BY <2>1, <2>3, <3>1 DEF Good, Labelled
    <3>2. CASE list[c] # FREE
      <4>1. list[c] \in chains /\ list[list[c]] = list[c]
        BY <2>1, <3>2 DEF Good, Labelled, NoLeak
      <4>2. QED
        BY <2>3, <4>1
    <3>3. QED
      BY <3>1, <3>2
  <2>5. QED
    BY <2>3, <2>4 DEF NoClusterLost
<1>2. QED
  BY Invariance, <1>1, PTL

(* The counter that alloc tests keeps its walk on the free list: no read   *)
(* of fatBuffer is ever indexed by EOF_FLAG (fat.c:84-108).                *)
THEOREM AllocNeverRunsOff == Spec => []AllocStaysOnFreeList
<1>1. IInv => AllocStaysOnFreeList
  <2> SUFFICES ASSUME IInv PROVE AllocStaysOnFreeList
    OBVIOUS
  <2>1. PICK list \in Lists, rank \in Ranks : Good(list, rank)
    BY DEF IInv
  <2>2. firstFreeCluster # EOF_FLAG
    BY <2>1, LabelsDiffer DEF Good, Labelled
  <2>3. ASSUME pc = "allocWalk"
        PROVE  pointer # EOF_FLAG /\ fatBuffer[pointer] # EOF_FLAG
    <3>1. /\ pointer \in Clusters /\ list[pointer] = FREE
          /\ rank[pointer] = rank[firstFreeCluster] - i
          /\ length <= rank[firstFreeCluster] /\ i < length
          /\ rank[firstFreeCluster] \in Nat /\ i \in Nat /\ length \in Nat
      BY <2>1, <2>3 DEF IInv, TypeOK, Good, Control, Labelled, Ranks
    <3>2. rank[pointer] # 0
      BY <3>1
    <3>3. QED
      BY <2>1, <3>1, <3>2, LabelsDiffer DEF Good, Labelled
  <2>4. QED
    BY <2>2, <2>3 DEF AllocStaysOnFreeList
<1>2. QED
  BY Invariance, <1>1, PTL

(* Between calls the counter is one less than the clusters of the free     *)
(* list (fat.c:99, 166 against fat.c:193-207).                             *)
THEOREM CounterCorrect == Spec => []CounterIsListLinks
<1>1. IInv => CounterIsListLinks
  <2> SUFFICES ASSUME IInv, pc = "idle"
               PROVE  totalFreeSpace + 1 = Cardinality(Reach(firstFreeCluster))
    BY DEF CounterIsListLinks
  <2>1. PICK list \in Lists, rank \in Ranks : Good(list, rank)
    BY DEF IInv
  <2>2. totalFreeSpace = rank[firstFreeCluster]
    BY <2>1 DEF Good, Control
  <2>3. HeadOf(firstFreeCluster, fatBuffer, firstFreeCluster, chains, list, rank)
    BY <2>1, Table DEF IInv
  <2>5. Cardinality(Reach(firstFreeCluster)) = rank[firstFreeCluster] + 1
    BY <2>3, ChainLength DEF Reach
  <2>4. QED
    BY <2>2, <2>5
<1>2. QED
  BY Invariance, <1>1, PTL

(* Between calls the table on disk, its backup and FSI_Nxt_Free are those  *)
(* in memory (fat.c:113-120, 157-164).                                     *)
THEOREM DiskIsCurrent == Spec => []WriteThrough
<1>1. IInv => WriteThrough
  BY DEF IInv, Good, Control, DiskCurrent, BackupCurrent, WriteThrough
<1>2. QED
  BY Invariance, <1>1, PTL
-----------------------------------------------------------------------------
(***************************************************************************)
(* The refinement of ChainStore.  A chain is known by its sequence: the    *)
(* clusters in the order of their links, no one twice.                     *)
(***************************************************************************)
Tables == [Clusters -> Clusters \cup {EOF_FLAG}]

IsChain(fat, h, s) ==
  /\ s \in Seq(Clusters) /\ Len(s) >= 1 /\ s[1] = h
  /\ \A k \in 1 .. Len(s) - 1 : fat[s[k]] = s[k + 1]
  /\ fat[s[Len(s)]] = EOF_FLAG
  /\ \A j, k \in 1 .. Len(s) : s[j] = s[k] => j = k

(* A sequence of clusters without repetition is shorter than the table.    *)
LEMMA ChainIsShort ==
  ASSUME NEW s \in Seq(Clusters), \A j, k \in 1 .. Len(s) : s[j] = s[k] => j = k
  PROVE  Len(s) <= LastCluster - 1
<1> DEFINE n == Len(s)
           D == 1 .. n
<1>1. /\ IsFiniteSet(Clusters) /\ Cardinality(Clusters) = LastCluster - 1
      /\ IsFiniteSet(D) /\ Cardinality(D) = n
  <2>1. n \in Nat
    OBVIOUS
  <2> HIDE DEF n
  <2>2. IsFiniteSet(D) /\ Cardinality(D) = IF 1 > n THEN 0 ELSE n - 1 + 1
    BY <2>1, FS_Interval
  <2>3. Cardinality(D) = n
    BY <2>1, <2>2
  <2> QED BY <2>2, <2>3, ClustersCount
<1>2. s \in [D -> Clusters] /\ \A j, k \in D : s[j] = s[k] => j = k
  OBVIOUS
<1> HIDE DEF D
<1>3. ~ (Cardinality(Clusters) < Cardinality(D))
  <2>1. ASSUME Cardinality(Clusters) < Cardinality(D) PROVE FALSE
    <3>1. \E j, k \in D : j # k /\ s[j] = s[k]
      BY SMTT(30), <1>1, <1>2, <2>1, FS_PigeonHole
    <3> QED BY <1>2, <3>1
  <2> QED BY <2>1
<1> QED BY <1>1, <1>3, SizeAssumption

(* What a walk along links is, without its recursion.                      *)
IsWalk(fat, c, w) ==
  w = [k \in 0 .. LastCluster |->
        IF k = 0 THEN c
        ELSE IF w[k - 1] = EOF_FLAG THEN EOF_FLAG ELSE fat[w[k - 1]]]

(* Where such a function exists, Walk is one.                              *)
LEMMA WalkIsWalk ==
  ASSUME NEW fat, NEW c, NEW v, IsWalk(fat, c, v)
  PROVE  IsWalk(fat, c, Walk(fat, c))
BY DEF Walk, IsWalk

(* There is one walk only: two would differ for the first time somewhere.  *)
LEMMA WalksAgree ==
  ASSUME NEW fat, NEW c, NEW v, NEW w, IsWalk(fat, c, v), IsWalk(fat, c, w)
  PROVE  v = w
<1> DEFINE Bad == {k \in Nat : k \in 0 .. LastCluster /\ v[k] # w[k]}
<1>1. Bad = {}
  <2> SUFFICES ASSUME Bad # {} PROVE FALSE
    OBVIOUS
  <2>1. PICK k \in Bad : \A j \in Bad : <<j, k>> \notin OpToRel(<, Nat)
    BY NatLessThanWellFounded, WFMin
  <2>2. k \in Nat /\ k \in 0 .. LastCluster /\ v[k] # w[k]
    OBVIOUS
  <2>3. k # 0
    BY <2>2 DEF IsWalk
  <2>4. k - 1 \in Nat /\ k - 1 \in 0 .. LastCluster /\ <<k - 1, k>> \in OpToRel(<, Nat)
    <3>1. k - 1 \in Nat /\ k - 1 \in 0 .. LastCluster /\ k - 1 < k
      BY <2>2, <2>3, SizeAssumption
    <3>2. <<k - 1, k>> \in OpToRel(<, Nat)
      BY <2>2, <3>1 DEF OpToRel
    <3> QED BY <3>1, <3>2
  <2>5. v[k - 1] = w[k - 1]
    BY <2>1, <2>4
  <2>6. v[k] = IF v[k - 1] = EOF_FLAG THEN EOF_FLAG ELSE fat[v[k - 1]]
    BY <2>2, <2>3 DEF IsWalk
  <2>7. w[k] = IF w[k - 1] = EOF_FLAG THEN EOF_FLAG ELSE fat[w[k - 1]]
    BY <2>2, <2>3 DEF IsWalk
  <2> QED BY <2>2, <2>5, <2>6, <2>7
<1>2. \A k \in 0 .. LastCluster : v[k] = w[k]
  BY <1>1, SizeAssumption
<1>3. DOMAIN v = 0 .. LastCluster /\ DOMAIN w = 0 .. LastCluster
  BY DEF IsWalk
<1>4. v = [k \in 0 .. LastCluster |-> v[k]] /\ w = [k \in 0 .. LastCluster |-> w[k]]
  BY <1>3 DEF IsWalk
<1> QED BY <1>2, <1>4

(* The walk from the head of a chain gives its sequence.                   *)
LEMMA ChainSeqIs ==
  ASSUME NEW fat \in Tables, NEW h, NEW s, IsChain(fat, h, s)
  PROVE  ChainSeq(fat, h) = s
<1> DEFINE n == Len(s)
           v == [k \in 0 .. LastCluster |-> IF k < n THEN s[k + 1] ELSE EOF_FLAG]
<1>1. /\ s \in Seq(Clusters) /\ n \in Nat /\ n >= 1 /\ s[1] = h /\ n <= LastCluster
      /\ LastCluster \in Nat
  BY ChainIsShort, SizeAssumption DEF IsChain
<1>2. \A k \in 1 .. n : s[k] \in Clusters /\ s[k] # EOF_FLAG
  BY <1>1, LabelsDiffer
<1>3. /\ \A k \in 1 .. n - 1 : fat[s[k]] = s[k + 1]
      /\ fat[s[n]] = EOF_FLAG
  BY DEF IsChain
<1>4. IsWalk(fat, h, v)
  <2> DEFINE next(k) == IF k = 0 THEN h
                        ELSE IF v[k - 1] = EOF_FLAG THEN EOF_FLAG ELSE fat[v[k - 1]]
  <2>1. ASSUME NEW k \in 0 .. LastCluster PROVE v[k] = next(k)
    <3>1. CASE k = 0
      BY <1>1, <3>1
    <3>2. CASE k # 0 /\ k < n
      <4>1. k - 1 \in 0 .. LastCluster /\ k - 1 < n /\ k \in 1 .. n - 1 /\ (k - 1) + 1 = k
            /\ k \in 1 .. n
        BY <1>1, <3>2
      <4>2. v[k - 1] = s[k] /\ v[k] = s[k + 1]
        BY <3>2, <4>1
      <4> HIDE DEF v, n
      <4> QED BY <1>2, <1>3, <3>2, <4>1, <4>2
    <3>3. CASE k = n
      <4>1. n - 1 \in 0 .. LastCluster /\ n - 1 < n /\ (n - 1) + 1 = n /\ n \in 1 .. n /\ n # 0
        BY <1>1, <3>3
      <4>2. v[n - 1] = s[n] /\ v[n] = EOF_FLAG
        BY <3>3, <4>1
      <4> HIDE DEF v, n
      <4> QED BY <1>2, <1>3, <3>3, <4>1, <4>2
    <3>4. CASE k > n
      <4>1. k - 1 \in 0 .. LastCluster /\ ~(k - 1 < n) /\ k # 0 /\ ~(k < n)
        BY <1>1, <3>4
      <4> QED BY <4>1
    <3> QED BY <1>1, <3>1, <3>2, <3>3, <3>4
  <2>2. v = [k \in 0 .. LastCluster |-> next(k)]
    <3> HIDE DEF next
    <3> QED BY <2>1
  <2> HIDE DEF v
  <2> QED BY <2>2 DEF IsWalk
<1> DEFINE w == Walk(fat, h)
<1>5. w = v
  BY <1>4, WalkIsWalk, WalksAgree
<1> HIDE DEF w
<1>6. {k \in 0 .. LastCluster : w[k] # EOF_FLAG} = 0 .. n - 1
  BY <1>1, <1>2, <1>5
<1>7. Cardinality(0 .. n - 1) = n
  <2>1. 0 \in Int /\ n - 1 \in Int /\ n = (n - 1) - 0 + 1 /\ 0 <= n - 1
    BY <1>1
  <2> HIDE DEF n
  <2> QED BY <2>1, FS_Interval
<1>8. \A k \in 1 .. n : w[k - 1] = s[k]
  BY <1>1, <1>5
<1>9. ChainSeq(fat, h) = [k \in 1 .. n |-> w[k - 1]]
  BY <1>6, <1>7 DEF ChainSeq, w
<1> HIDE DEF v
<1>10. s = [k \in 1 .. n |-> s[k]]
  BY <1>1
<1> HIDE DEF n
<1> QED BY <1>8, <1>9, <1>10

(* A labelled table has the sequence of each of its heads: position k is   *)
(* the cluster that is k - 1 closer to the end.                            *)
LEMMA HeadHasChain ==
  ASSUME NEW fat, NEW ff, NEW ch, NEW list, NEW rank, NEW h,
         HeadOf(h, fat, ff, ch, list, rank)
  PROVE  \E s : /\ IsChain(fat, h, s) /\ Len(s) = rank[h] + 1
                /\ \A k \in 1 .. Len(s) : list[s[k]] = list[h] /\ rank[s[k]] = rank[h] - (k - 1)
<1> DEFINE n == rank[h] + 1
           At(k) == CHOOSE d \in Clusters : list[d] = list[h] /\ rank[d] = rank[h] - (k - 1)
           s == [k \in 1 .. n |-> At(k)]
<1>1. /\ h \in Clusters /\ list[h] # LEAK
      /\ rank[h] \in Nat /\ n \in Nat /\ n >= 1
      /\ list \in Lists /\ rank \in Ranks /\ fat \in Tables
      /\ Labelled(fat, ff, ch, list, rank)
  BY HeadIsTop DEF HeadOf, IsTable, Ranks, Tables
<1>2. \A j \in 0 .. rank[h] : \E e \in Clusters : list[e] = list[h] /\ rank[e] = j
  BY HeadHasNoGap
<1>3. ASSUME NEW k \in 1 .. n
      PROVE  At(k) \in Clusters /\ list[At(k)] = list[h] /\ rank[At(k)] = rank[h] - (k - 1)
  <2>1. rank[h] - (k - 1) \in 0 .. rank[h]
    BY <1>1
  <2> QED BY <1>2, <2>1
<1> HIDE DEF At
<1>4. /\ s \in Seq(Clusters) /\ Len(s) = n
      /\ \A k \in 1 .. n : /\ s[k] \in Clusters /\ list[s[k]] = list[h]
                           /\ rank[s[k]] = rank[h] - (k - 1)
  <2> HIDE DEF n
  <2> QED BY <1>1, <1>3
<1> HIDE DEF s
<1>5. \A c, d \in Clusters : list[c] = list[h] /\ list[d] = list[h] /\ rank[c] = rank[d] => c = d
  BY <1>1 DEF Labelled
<1>6. \A c \in Clusters : list[c] = list[h] =>
        IF fat[c] = EOF_FLAG THEN rank[c] = 0
        ELSE fat[c] \in Clusters /\ list[fat[c]] = list[h] /\ rank[c] = rank[fat[c]] + 1
  BY <1>1 DEF Labelled
<1>7. s[1] = h
  <2>1. 1 \in 1 .. n /\ rank[h] - (1 - 1) = rank[h]
    BY <1>1
  <2> QED BY <1>1, <1>4, <1>5, <2>1
<1>8. ASSUME NEW k \in 1 .. n - 1 PROVE fat[s[k]] = s[k + 1]
  <2>1. k \in 1 .. n /\ k + 1 \in 1 .. n /\ rank[h] - (k - 1) # 0
    BY <1>1
  <2>2. /\ s[k] \in Clusters /\ list[s[k]] = list[h] /\ rank[s[k]] = rank[h] - (k - 1)
        /\ s[k + 1] \in Clusters /\ list[s[k + 1]] = list[h]
        /\ rank[s[k + 1]] = rank[h] - ((k + 1) - 1)
    BY <1>4, <2>1
  <2>3. /\ fat[s[k]] \in Clusters /\ list[fat[s[k]]] = list[h]
        /\ rank[s[k]] = rank[fat[s[k]]] + 1
    BY <1>6, <2>1, <2>2
  <2>4. rank[fat[s[k]]] = rank[s[k + 1]]
    <3>1. rank[fat[s[k]]] \in Nat /\ rank[h] \in Nat /\ k \in Nat
      BY <1>1, <2>3 DEF Ranks
    <3> QED BY <2>2, <2>3, <3>1
  <2> QED BY <1>5, <2>2, <2>3, <2>4
<1>9. fat[s[n]] = EOF_FLAG
  <2>1. n \in 1 .. n /\ rank[h] - (n - 1) = 0
    BY <1>1
  <2>2. s[n] \in Clusters /\ list[s[n]] = list[h] /\ rank[s[n]] = 0
    BY <1>4, <2>1
  <2>3. ASSUME fat[s[n]] # EOF_FLAG PROVE FALSE
    <3>1. fat[s[n]] \in Clusters /\ 0 = rank[fat[s[n]]] + 1
      BY <1>6, <2>2, <2>3
    <3>2. rank[fat[s[n]]] \in Nat
      BY <1>1, <3>1 DEF Ranks
    <3> QED BY <3>1, <3>2
  <2> QED BY <2>3
<1>10. ASSUME NEW j \in 1 .. n, NEW k \in 1 .. n, s[j] = s[k] PROVE j = k
  <2>1. rank[h] - (j - 1) = rank[h] - (k - 1)
    BY <1>4, <1>10
  <2>2. rank[h] \in Nat /\ j \in Int /\ k \in Int
    BY <1>1
  <2> QED BY <2>1, <2>2
<1>11. IsChain(fat, h, s)
  BY <1>1, <1>4, <1>7, <1>8, <1>9, <1>10 DEF IsChain
<1> QED BY <1>4, <1>11

(* An assignment to the table leaves the chains alone that its cluster is  *)
(* not on.                                                                 *)
LEMMA OtherChainStays ==
  ASSUME NEW fat \in Tables, NEW h, NEW s, IsChain(fat, h, s),
         NEW p, NEW x, \A k \in 1 .. Len(s) : s[k] # p
  PROVE  IsChain([fat EXCEPT ![p] = x], h, s)
<1> DEFINE f == [fat EXCEPT ![p] = x]
<1>1. \A c \in Clusters : c # p => f[c] = fat[c]
  BY DEF Tables
<1> HIDE DEF f
<1>2. /\ s \in Seq(Clusters) /\ Len(s) \in Nat /\ Len(s) >= 1
      /\ \A k \in 1 .. Len(s) : s[k] \in Clusters
  BY DEF IsChain
<1>3. \A k \in 1 .. Len(s) : f[s[k]] = fat[s[k]]
  BY <1>1, <1>2
<1>4. \A k \in 1 .. Len(s) - 1 : k \in 1 .. Len(s)
  BY <1>2
<1>5. Len(s) \in 1 .. Len(s)
  BY <1>2
<1> QED BY <1>3, <1>4, <1>5 DEF IsChain, f

(* Ending a chain behind its cluster number n makes two of it.             *)
LEMMA CutMakesTwo ==
  ASSUME NEW fat \in Tables, NEW h, NEW s, IsChain(fat, h, s), NEW n \in Nat,
         1 <= n, n <= Len(s) - 1
  PROVE  LET f == [fat EXCEPT ![s[n]] = EOF_FLAG]
         IN  /\ IsChain(f, h, SubSeq(s, 1, n))
             /\ IsChain(f, fat[s[n]], SubSeq(s, n + 1, Len(s)))
<1> DEFINE p == s[n]
           f == [fat EXCEPT ![p] = EOF_FLAG]
           a == SubSeq(s, 1, n)
           b == SubSeq(s, n + 1, Len(s))
           m == Len(s)
<1>1. /\ s \in Seq(Clusters) /\ m \in Nat /\ s[1] = h /\ n <= m - 1
      /\ \A k \in 1 .. m - 1 : fat[s[k]] = s[k + 1]
      /\ fat[s[m]] = EOF_FLAG
      /\ \A j, k \in 1 .. m : s[j] = s[k] => j = k
      /\ \A k \in 1 .. m : s[k] \in Clusters
  BY DEF IsChain
<1>2. p \in Clusters /\ n \in 1 .. m /\ n \in 1 .. m - 1 /\ m \in 1 .. m /\ m # n
  BY <1>1
<1>3. f[p] = EOF_FLAG /\ \A c \in Clusters : c # p => f[c] = fat[c]
  BY <1>2 DEF Tables
<1> HIDE DEF f
<1>4. \A k \in 1 .. m : k # n => f[s[k]] = fat[s[k]]
  BY <1>1, <1>2, <1>3
<1>5. /\ a \in Seq(Clusters) /\ Len(a) = n
      /\ \A k \in 1 .. n : a[k] = s[k]
  BY <1>1
<1>6. b \in Seq(Clusters) /\ Len(b) = m - n
  BY <1>1
<1>7. \A k \in 1 .. m - n : b[k] = s[k + n]
  BY <1>1
<1> HIDE DEF a, b, p, m
<1>8. IsChain(f, h, a)
  <2>1. 1 \in 1 .. n /\ n \in 1 .. n /\ a[1] = h /\ a[n] = p
    BY <1>1, <1>5 DEF p
  <2>2. ASSUME NEW k \in 1 .. n - 1 PROVE f[a[k]] = a[k + 1]
    <3>1. k \in 1 .. n /\ k + 1 \in 1 .. n /\ k \in 1 .. m /\ k \in 1 .. m - 1 /\ k # n
      BY <1>1
    <3> QED BY <1>1, <1>4, <1>5, <3>1
  <2>3. \A k \in 1 .. n : k \in 1 .. m
    BY <1>1
  <2>4. \A j, k \in 1 .. n : a[j] = a[k] => j = k
    BY <1>1, <1>5, <2>3
  <2> QED BY <1>3, <1>5, <2>1, <2>2, <2>4 DEF IsChain
<1>9. IsChain(f, fat[p], b)
  <2>1. m - n \in Nat /\ m - n >= 1 /\ (m - n) + n = m /\ 1 + n = n + 1
    BY <1>1
  <2>2. b[1] = fat[p] /\ b[m - n] = s[m]
    <3>1. 1 \in 1 .. m - n /\ m - n \in 1 .. m - n
      BY <2>1
    <3>2. b[1] = s[1 + n] /\ b[m - n] = s[(m - n) + n]
      BY <1>7, <3>1
    <3> QED BY <1>1, <1>2, <2>1, <3>2 DEF p
  <2>3. ASSUME NEW k \in 1 .. (m - n) - 1 PROVE f[b[k]] = b[k + 1]
    <3>1. /\ k \in 1 .. m - n /\ k + 1 \in 1 .. m - n /\ k + n \in 1 .. m /\ k + n \in 1 .. m - 1
          /\ k + n # n /\ (k + n) + 1 = (k + 1) + n
      <4>1. m \in Nat /\ k \in Nat /\ k >= 1 /\ k <= (m - n) - 1 /\ n <= m - 1
        BY <1>1
      <4> QED BY <4>1
    <3>2. b[k] = s[k + n] /\ b[k + 1] = s[(k + 1) + n]
      BY <1>7, <3>1
    <3>3. f[s[k + n]] = s[(k + n) + 1]
      BY <1>1, <1>4, <3>1
    <3> QED BY <3>1, <3>2, <3>3
  <2>4. f[b[m - n]] = EOF_FLAG
    BY <1>1, <1>2, <1>4, <2>2
  <2>5. ASSUME NEW j \in 1 .. m - n, NEW k \in 1 .. m - n, b[j] = b[k] PROVE j = k
    <3>1. j + n \in 1 .. m /\ k + n \in 1 .. m
      BY <1>1
    <3>2. s[j + n] = s[k + n]
      BY <1>7, <2>5
    <3>3. j + n = k + n
      BY <1>1, <3>1, <3>2
    <3> QED BY <3>3
  <2> QED BY <1>6, <2>1, <2>2, <2>3, <2>4, <2>5 DEF IsChain
<1> QED BY <1>8, <1>9 DEF f, a, b, p, m

(* Linking the end of a chain to the head of another one joins the two.    *)
LEMMA LinkMakesOne ==
  ASSUME NEW fat \in Tables, NEW h, NEW s, IsChain(fat, h, s),
         NEW g, NEW t, IsChain(fat, g, t),
         \A j \in 1 .. Len(s), k \in 1 .. Len(t) : s[j] # t[k]
  PROVE  IsChain([fat EXCEPT ![s[Len(s)]] = g], h, s \o t)
<1> DEFINE n == Len(s)
           m == Len(t)
           p == s[n]
           f == [fat EXCEPT ![p] = g]
           u == s \o t
<1>1. /\ s \in Seq(Clusters) /\ n \in Nat /\ n >= 1 /\ s[1] = h
      /\ \A k \in 1 .. n - 1 : fat[s[k]] = s[k + 1]
      /\ \A j, k \in 1 .. n : s[j] = s[k] => j = k
      /\ \A k \in 1 .. n : s[k] \in Clusters
  BY DEF IsChain
<1>2. /\ t \in Seq(Clusters) /\ m \in Nat /\ m >= 1 /\ t[1] = g
      /\ \A k \in 1 .. m - 1 : fat[t[k]] = t[k + 1]
      /\ fat[t[m]] = EOF_FLAG
      /\ \A j, k \in 1 .. m : t[j] = t[k] => j = k
      /\ \A k \in 1 .. m : t[k] \in Clusters
  BY DEF IsChain
<1>3. p \in Clusters /\ n \in 1 .. n
  BY <1>1
<1>4. f[p] = g /\ \A c \in Clusters : c # p => f[c] = fat[c]
  BY <1>3 DEF Tables
<1> HIDE DEF f
<1>5. /\ u \in Seq(Clusters) /\ Len(u) = n + m
      /\ \A k \in 1 .. n : u[k] = s[k]
  BY <1>1, <1>2
<1>6. \A k \in 1 .. m : u[k + n] = t[k]
  BY <1>1, <1>2
<1>7. \A k \in 1 .. n + m : k \notin 1 .. n => k - n \in 1 .. m /\ k = (k - n) + n
  BY <1>1, <1>2
<1>8. \A j \in 1 .. n, k \in 1 .. m : s[j] # t[k]
  OBVIOUS
<1> HIDE DEF u, n, m
<1>9. ASSUME NEW k \in 1 .. (n + m) - 1 PROVE f[u[k]] = u[k + 1]
  <2>1. CASE k < n
    <3>1. k \in 1 .. n /\ k + 1 \in 1 .. n /\ k \in 1 .. n - 1 /\ k # n
      BY <1>1, <2>1
    <3>2. s[k] # p /\ u[k] = s[k] /\ u[k + 1] = s[k + 1]
      BY <1>1, <1>3, <1>5, <3>1
    <3> QED BY <1>1, <1>4, <3>1, <3>2
  <2>2. CASE k = n
    <3>1. 1 \in 1 .. m /\ n + 1 = 1 + n
      BY <1>1, <1>2
    <3>2. u[k] = p /\ u[k + 1] = t[1]
      BY <1>3, <1>5, <1>6, <2>2, <3>1
    <3> QED BY <1>2, <1>4, <3>2
  <2>3. CASE k > n
    <3> DEFINE j == k - n
    <3>1. /\ j \in 1 .. m /\ j + 1 \in 1 .. m /\ j \in 1 .. m - 1
          /\ k = j + n /\ k + 1 = (j + 1) + n
      BY <1>1, <1>2, <2>3
    <3> HIDE DEF j
    <3>2. u[k] = t[j] /\ u[k + 1] = t[j + 1]
      BY <1>6, <3>1
    <3>3. t[j] # p /\ t[j] \in Clusters
      BY <1>2, <1>3, <1>8, <3>1
    <3> QED BY <1>2, <1>4, <3>1, <3>2, <3>3
  <2> QED BY <1>1, <1>2, <2>1, <2>2, <2>3
<1>10. f[u[n + m]] = EOF_FLAG
  <2>1. m \in 1 .. m /\ n + m = m + n
    BY <1>1, <1>2
  <2>2. u[n + m] = t[m] /\ t[m] # p /\ t[m] \in Clusters
    BY <1>2, <1>3, <1>6, <1>8, <2>1
  <2> QED BY <1>2, <1>4, <2>2
<1>11. ASSUME NEW j \in 1 .. n + m, NEW k \in 1 .. n + m, u[j] = u[k] PROVE j = k
  <2>1. CASE j \in 1 .. n /\ k \in 1 .. n
    BY <1>1, <1>5, <1>11, <2>1
  <2>2. CASE j \in 1 .. n /\ k \notin 1 .. n
    <3>1. u[j] = s[j] /\ u[k] = t[k - n] /\ k - n \in 1 .. m
      BY <1>5, <1>6, <1>7, <2>2
    <3> QED BY <1>8, <1>11, <2>2, <3>1
  <2>3. CASE j \notin 1 .. n /\ k \in 1 .. n
    <3>1. u[k] = s[k] /\ u[j] = t[j - n] /\ j - n \in 1 .. m
      BY <1>5, <1>6, <1>7, <2>3
    <3> QED BY <1>8, <1>11, <2>3, <3>1
  <2>4. CASE j \notin 1 .. n /\ k \notin 1 .. n
    <3>1. u[j] = t[j - n] /\ j - n \in 1 .. m /\ u[k] = t[k - n] /\ k - n \in 1 .. m
      BY <1>6, <1>7, <2>4
    <3>2. j - n = k - n
      BY <1>2, <1>11, <3>1
    <3> QED BY <1>1, <1>7, <2>4, <3>2
  <2> QED BY <2>1, <2>2, <2>3, <2>4
<1>12. u[1] = h
  BY <1>1, <1>5
<1>13. n + m \in Nat /\ n + m >= 1
  BY <1>1, <1>2
<1> QED BY <1>5, <1>9, <1>10, <1>11, <1>12, <1>13 DEF IsChain, f, u, n, p


-----------------------------------------------------------------------------
FreeSeq == ChainSeq(fatBuffer, firstFreeCluster)
ChainsSeq == [h \in chains |-> ChainSeq(fatBuffer, h)]

(* The sequence of each head, with the labels of its clusters.             *)
LEMMA SeqOfHead ==
  ASSUME TypeOK, NEW list \in Lists, NEW rank \in Ranks, Good(list, rank),
         NEW h \in chains \cup {firstFreeCluster}, NEW s, s = ChainSeq(fatBuffer, h)
  PROVE  /\ IsChain(fatBuffer, h, s) /\ Len(s) = rank[h] + 1 /\ rank[h] \in Nat
         /\ \A k \in 1 .. Len(s) :
              s[k] \in Clusters /\ list[s[k]] = list[h] /\ rank[s[k]] = rank[h] - (k - 1)
         /\ list[h] = IF h \in chains THEN h ELSE FREE
<1>1. HeadOf(h, fatBuffer, firstFreeCluster, chains, list, rank)
  BY Table
<1>2. /\ h \in Clusters /\ list[h] = IF h \in chains THEN h ELSE FREE
  BY <1>1, HeadIsTop
<1>3. fatBuffer \in Tables /\ rank[h] \in Nat
  BY <1>2 DEF TypeOK, Tables, Ranks
<1>4. PICK t : /\ IsChain(fatBuffer, h, t) /\ Len(t) = rank[h] + 1
               /\ \A k \in 1 .. Len(t) : list[t[k]] = list[h] /\ rank[t[k]] = rank[h] - (k - 1)
  BY <1>1, HeadHasChain
<1>5. s = t
  BY <1>3, <1>4, ChainSeqIs
<1>6. \A k \in 1 .. Len(s) : s[k] \in Clusters
  BY <1>4, <1>5 DEF IsChain
<1> QED BY <1>2, <1>3, <1>4, <1>5, <1>6

(* alloc's cut takes the first clusters of the free sequence.              *)
LEMMA CutTakes ==
  ASSUME TypeOK, NEW list \in Lists, NEW rank \in Ranks, Good(list, rank),
         AllocCut
  PROVE  length \in 1 .. Len(FreeSeq) /\ Abstract!Take(length)
<1> DEFINE s == FreeSeq
           ff == firstFreeCluster
           n == length
           p == pointer
<1>1. /\ p \in Clusters /\ list[p] = FREE /\ rank[p] = rank[ff] - (n - 1)
      /\ n \in Nat /\ 1 <= n /\ n <= rank[ff] /\ start = ff
  <2>1. /\ p \in Clusters /\ list[p] = FREE /\ rank[p] = rank[ff] - i
        /\ n <= rank[ff] /\ 0 < n /\ i = n - 1 /\ start = ff
    BY DEF AllocCut, Good, Control
  <2> QED BY <2>1 DEF TypeOK
<1>2. /\ IsChain(fatBuffer, ff, s) /\ Len(s) = rank[ff] + 1 /\ rank[ff] \in Nat
      /\ \A k \in 1 .. Len(s) :
           s[k] \in Clusters /\ list[s[k]] = list[ff] /\ rank[s[k]] = rank[ff] - (k - 1)
      /\ list[ff] = IF ff \in chains THEN ff ELSE FREE
  BY SeqOfHead DEF FreeSeq
<1>3. /\ list[ff] = FREE /\ ff \notin chains
      /\ \A c, d \in Clusters : list[c] = FREE /\ list[d] = FREE /\ rank[c] = rank[d] => c = d
      /\ ff \in Clusters /\ chains \in SUBSET Clusters /\ fatBuffer \in Tables
  BY <1>2, LabelsDiffer DEF Good, Labelled, TypeOK, Tables
<1>4. /\ firstFreeCluster' = fatBuffer[p] /\ fatBuffer' = [fatBuffer EXCEPT ![p] = EOF_FLAG]
      /\ chains' = chains \cup {ff}
  BY <1>1 DEF AllocCut, CutAfter, nextBlock
<1> HIDE DEF s
<1>5. p = s[n] /\ n \in 1 .. Len(s) /\ n <= Len(s) - 1 /\ Len(s) \in Nat
  <2>1. n \in 1 .. Len(s) /\ n <= Len(s) - 1 /\ Len(s) \in Nat
    BY <1>1, <1>2
  <2> QED BY <1>1, <1>2, <1>3, <2>1
<1>6. /\ IsChain(fatBuffer', ff, SubSeq(s, 1, n))
      /\ IsChain(fatBuffer', firstFreeCluster', SubSeq(s, n + 1, Len(s)))
  BY <1>1, <1>2, <1>3, <1>4, <1>5, CutMakesTwo
<1>7. fatBuffer' \in Tables
  BY <1>1, <1>3, <1>4 DEF Tables
<1>8. /\ ChainSeq(fatBuffer', ff) = SubSeq(s, 1, n)
      /\ ChainSeq(fatBuffer', firstFreeCluster') = SubSeq(s, n + 1, Len(s))
  BY <1>6, <1>7, ChainSeqIs
<1>9. ASSUME NEW h \in chains
      PROVE  ChainSeq(fatBuffer', h) = ChainSeq(fatBuffer, h)
  <2> DEFINE t == ChainSeq(fatBuffer, h)
  <2>1. /\ IsChain(fatBuffer, h, t) /\ list[h] = h
        /\ \A k \in 1 .. Len(t) : t[k] \in Clusters /\ list[t[k]] = list[h]
    BY SeqOfHead
  <2> HIDE DEF t
  <2>2. h # FREE
    BY <1>3, LabelsDiffer
  <2>3. \A k \in 1 .. Len(t) : t[k] # p
    BY <1>1, <2>1, <2>2
  <2>4. IsChain(fatBuffer', h, t)
    BY <1>3, <1>4, <2>1, <2>3, OtherChainStays
  <2> QED BY <1>7, <2>4, ChainSeqIs DEF t
<1>10. s[1] = ff
  BY <1>2 DEF IsChain
<1> DEFINE ch == ChainsSeq
<1>11. ch' = [h \in DOMAIN ch \cup {s[1]} |-> IF h = s[1] THEN SubSeq(s, 1, n) ELSE ch[h]]
  BY <1>3, <1>4, <1>8, <1>9, <1>10 DEF ChainsSeq
<1>12. s' = SubSeq(s, n + 1, Len(s))
  BY <1>8 DEF FreeSeq, s
<1> QED BY <1>1, <1>5, <1>11, <1>12
        DEF Abstract!Take, Abstract!Grants, Abstract!Taken, Abstract!Rest, ChainsSeq, FreeSeq, s

(* release's splice gives a chain back whole.                              *)
LEMMA SpliceGives ==
  ASSUME TypeOK, NEW list \in Lists, NEW rank \in Ranks, Good(list, rank),
         NEW c \in chains \ {2}, NEW last \in Clusters,
         list[last] = c, fatBuffer[last] = EOF_FLAG, Splice(last, c)
  PROVE  c \in DOMAIN ChainsSeq /\ Abstract!Give(c)
<1> DEFINE s == ChainSeq(fatBuffer, c)
           t == FreeSeq
           ff == firstFreeCluster
<1>1. /\ IsChain(fatBuffer, c, s) /\ Len(s) = rank[c] + 1 /\ rank[c] \in Nat /\ list[c] = c
      /\ \A k \in 1 .. Len(s) :
           s[k] \in Clusters /\ list[s[k]] = list[c] /\ rank[s[k]] = rank[c] - (k - 1)
  BY SeqOfHead
<1>2. /\ IsChain(fatBuffer, ff, t)
      /\ \A k \in 1 .. Len(t) : t[k] \in Clusters /\ list[t[k]] = list[ff]
  BY SeqOfHead DEF FreeSeq
<1>3. /\ list[ff] = FREE
      /\ \A d, e \in Clusters : list[d] = c /\ list[e] = c /\ rank[d] = rank[e] => d = e
      /\ rank[last] = 0
      /\ ff \in Clusters /\ chains \in SUBSET Clusters /\ fatBuffer \in Tables
      /\ c # FREE /\ c # LEAK
  BY LabelsDiffer DEF Good, Labelled, TypeOK, Tables
<1>4. /\ firstFreeCluster' = c /\ fatBuffer' = [fatBuffer EXCEPT ![last] = ff]
      /\ chains' = chains \ {c}
  BY DEF Splice, LinkToFree, FreeHead
<1> HIDE DEF s, t
<1>5. last = s[Len(s)]
  <2>1. Len(s) \in 1 .. Len(s) /\ rank[c] - (Len(s) - 1) = 0
    BY <1>1
  <2> DEFINE e == s[Len(s)]
  <2>2. e \in Clusters /\ list[e] = c /\ rank[e] = 0
    BY <1>1, <2>1
  <2> HIDE DEF e
  <2>3. last = e
    BY <1>3, <2>2
  <2> QED BY <2>3 DEF e
<1>6. IsChain(fatBuffer', c, s \o t)
  <2>1. \A j \in 1 .. Len(s), k \in 1 .. Len(t) : s[j] # t[k]
    BY <1>1, <1>2, <1>3
  <2> QED BY <1>1, <1>2, <1>3, <1>4, <1>5, <2>1, LinkMakesOne
<1>7. fatBuffer' \in Tables
  BY <1>3, <1>4 DEF Tables
<1>8. ChainSeq(fatBuffer', c) = s \o t
  BY <1>6, <1>7, ChainSeqIs
<1>9. ASSUME NEW h \in chains \ {c}
      PROVE  ChainSeq(fatBuffer', h) = ChainSeq(fatBuffer, h)
  <2> DEFINE u == ChainSeq(fatBuffer, h)
  <2>1. /\ IsChain(fatBuffer, h, u) /\ list[h] = h
        /\ \A k \in 1 .. Len(u) : u[k] \in Clusters /\ list[u[k]] = list[h]
    BY SeqOfHead
  <2> HIDE DEF u
  <2>2. \A k \in 1 .. Len(u) : u[k] # last
    BY <2>1
  <2>3. IsChain(fatBuffer', h, u)
    BY <1>3, <1>4, <2>1, <2>2, OtherChainStays
  <2> QED BY <1>7, <2>3, ChainSeqIs DEF u
<1> DEFINE ch == ChainsSeq
<1>10. ch' = [h \in DOMAIN ch \ {c} |-> ch[h]]
  BY <1>3, <1>4, <1>9 DEF ChainsSeq
<1>11. t' = ch[c] \o t /\ c \in DOMAIN ch
  BY <1>4, <1>8 DEF ChainsSeq, FreeSeq, s, t
<1>12. Abstract!Without(ch, c) = [h \in DOMAIN ch \ {c} |-> ch[h]]
  BY DEF Abstract!Without, Abstract!Restrict
<1> HIDE DEF ch
<1> QED BY <1>10, <1>11, <1>12 DEF Abstract!Give, ChainsSeq, FreeSeq, t, ch

(* The formatted volume has the sequences that ChainStore starts with.     *)
LEMMA InitIsMapped == Init => Abstract!Init
<1> SUFFICES ASSUME Init PROVE Abstract!Init
  OBVIOUS
<1> DEFINE a == [k \in 1 .. RootSize |-> k + 1]
           b == [k \in 1 .. LastCluster - RootSize - 1 |-> k + RootSize + 1]
           m == LastCluster - RootSize - 1
<1>1. /\ LastCluster \in Nat /\ RootSize \in Nat /\ RootSize >= 1
      /\ RootSize + 2 <= LastCluster /\ m \in Nat /\ m >= 1
  BY SizeAssumption
<1>2. /\ \A c \in Clusters : fatBuffer[c] = IF c = RootSize + 1 \/ c = LastCluster
                                            THEN EOF_FLAG ELSE c + 1
      /\ firstFreeCluster = RootSize + 2 /\ chains = {2}
      /\ fatBuffer \in Tables
  <2>1. RootSize + 1 \in Clusters /\ RootSize + 1 # LastCluster
    BY <1>1 DEF Clusters
  <2>2. \A c \in Clusters : c # LastCluster => c + 1 \in Clusters
    BY <1>1 DEF Clusters
  <2>3. fatInit \in Tables
    BY <2>2 DEF fatInit, Tables
  <2> QED BY <2>1, <2>3 DEF Init, fatInit, Tables
<1>3. IsChain(fatBuffer, 2, a)
  <2>1. a \in Seq(Clusters) /\ Len(a) = RootSize /\ \A k \in 1 .. RootSize : a[k] = k + 1
    BY <1>1 DEF Clusters
  <2> HIDE DEF a
  <2>2. ASSUME NEW k \in 1 .. RootSize - 1 PROVE fatBuffer[a[k]] = a[k + 1]
    <3>1. /\ k \in 1 .. RootSize /\ k + 1 \in 1 .. RootSize /\ k + 1 \in Clusters
          /\ k + 1 # RootSize + 1 /\ k + 1 # LastCluster
      BY <1>1 DEF Clusters
    <3> QED BY <1>2, <2>1, <3>1
  <2>3. fatBuffer[a[RootSize]] = EOF_FLAG
    <3>1. RootSize \in 1 .. RootSize /\ RootSize + 1 \in Clusters
      BY <1>1 DEF Clusters
    <3> QED BY <1>2, <2>1, <3>1
  <2>4. a[1] = 2
    BY <1>1, <2>1
  <2>5. \A j, k \in 1 .. RootSize : a[j] = a[k] => j = k
    BY <1>1, <2>1
  <2> QED BY <1>1, <2>1, <2>2, <2>3, <2>4, <2>5 DEF IsChain
<1>4. IsChain(fatBuffer, firstFreeCluster, b)
  <2>1. b \in Seq(Clusters) /\ Len(b) = m /\ \A k \in 1 .. m : b[k] = k + RootSize + 1
    BY <1>1 DEF Clusters
  <2>2. m + RootSize + 1 = LastCluster /\ m \in 1 .. m
    BY <1>1
  <2> HIDE DEF b
  <2>3. ASSUME NEW k \in 1 .. m - 1 PROVE fatBuffer[b[k]] = b[k + 1]
    <3>1. /\ k \in 1 .. m /\ k + 1 \in 1 .. m /\ k + RootSize + 1 \in Clusters
          /\ k + RootSize + 1 # RootSize + 1 /\ k + RootSize + 1 # LastCluster
          /\ (k + RootSize + 1) + 1 = (k + 1) + RootSize + 1
      BY <1>1 DEF Clusters
    <3> QED BY <1>2, <2>1, <3>1
  <2> HIDE DEF m
  <2>4. fatBuffer[b[m]] = EOF_FLAG
    <3>1. LastCluster \in Clusters
      BY <1>1 DEF Clusters
    <3> QED BY <1>2, <2>1, <2>2, <3>1
  <2>5. b[1] = firstFreeCluster
    BY <1>1, <1>2, <2>1
  <2>6. \A j, k \in 1 .. m : b[j] = b[k] => j = k
    BY <1>1, <2>1
  <2> QED BY <1>1, <2>1, <2>3, <2>4, <2>5, <2>6 DEF IsChain
<1> HIDE DEF a, b
<1>5. ChainSeq(fatBuffer, 2) = a /\ ChainSeq(fatBuffer, firstFreeCluster) = b
  BY <1>2, <1>3, <1>4, ChainSeqIs
<1>6. ChainsSeq = [h \in {2} |-> a]
  BY <1>2, <1>5 DEF ChainsSeq
<1> QED BY <1>5, <1>6 DEF Abstract!Init, ChainsSeq, a, b

(* release is never at work on the root directory's chain.                 *)
NotRoot == pc = "releaseWalk" => start # 2

(* Only a releasable chain is released.                                    *)
LEMMA NotRootKept ==
  ASSUME NotRoot, [Next]_vars
  PROVE  NotRoot'
<1>1. CASE UNCHANGED vars
  BY <1>1 DEF NotRoot, vars, locals
<1>2. CASE \E c \in Releasable : ReleaseSingle(c) \/ ReleaseBegin(c)
  BY <1>2 DEF NotRoot, Releasable, ReleaseSingle, ReleaseBegin, Splice
<1>3. CASE (\E n \in Requests : AllocBegin(n)) \/ Remount
  BY <1>3 DEF NotRoot, AllocBegin, Remount
<1>4. CASE Step
  BY <1>4 DEF NotRoot, Step, AllocWalk, AllocCut, ReleaseWalk, ReleaseSplice, Splice,
              WriteFat, WriteBackup, WriteInfo, CountStep, CountEnd, Return, locals
<1> QED BY <1>1, <1>2, <1>3, <1>4 DEF Next

(* A step that leaves the table in memory leaves its sequences.            *)
LEMMA SameTable ==
  ASSUME UNCHANGED <<fatBuffer, firstFreeCluster, chains>>
  PROVE  UNCHANGED Abstract!vars
BY DEF Abstract!vars

(* Each step of the allocator is a step of ChainStore or leaves it.        *)
LEMMA StepIsMapped ==
  ASSUME IInv, NotRoot, [Next]_vars
  PROVE  [Abstract!Next]_(Abstract!vars)
<1>1. PICK list \in Lists, rank \in Ranks : Good(list, rank)
  BY DEF IInv
<1>2. TypeOK
  BY DEF IInv
<1>3. CASE UNCHANGED vars
  BY <1>3, SameTable DEF vars, memory
<1>4. CASE AllocCut
  <2>1. length \in 1 .. Len(FreeSeq) /\ Abstract!Take(length)
    BY <1>1, <1>2, <1>4, CutTakes
  <2> QED BY <2>1 DEF Abstract!Next, FreeSeq
<1>5. ASSUME NEW c \in Releasable, ReleaseSingle(c)
      PROVE  Abstract!Next
  <2>1. /\ c \in chains \ {2} /\ c \in Clusters /\ list[c] = c /\ fatBuffer[c] = EOF_FLAG
        /\ Splice(c, c)
    BY <1>1, <1>5 DEF Releasable, ReleaseSingle, Good, Labelled
  <2>2. c \in DOMAIN ChainsSeq /\ Abstract!Give(c)
    BY <1>1, <1>2, <2>1, SpliceGives
  <2> QED BY <2>2 DEF Abstract!Next, ChainsSeq
<1>6. CASE ReleaseSplice
  <2>1. /\ start \in chains \ {2} /\ current \in Clusters /\ list[current] = start
        /\ fatBuffer[current] = EOF_FLAG /\ Splice(current, start)
    BY <1>1, <1>6 DEF ReleaseSplice, NotRoot, Good, Control
  <2>2. start \in DOMAIN ChainsSeq /\ Abstract!Give(start)
    BY <1>1, <1>2, <2>1, SpliceGives
  <2> QED BY <2>2 DEF Abstract!Next, ChainsSeq
<1>7. CASE Remount
  <2>1. UNCHANGED <<fatBuffer, firstFreeCluster, chains>>
    BY <1>1, <1>7 DEF Remount, Good, Control, DiskCurrent
  <2> QED BY <2>1, SameTable
<1>8. CASE \/ \E n \in Requests : AllocBegin(n)
           \/ \E c \in Releasable : ReleaseBegin(c)
           \/ AllocWalk \/ ReleaseWalk
           \/ WriteFat \/ WriteBackup \/ WriteInfo
           \/ CountStep \/ CountEnd
  <2>1. UNCHANGED <<fatBuffer, firstFreeCluster, chains>>
    BY <1>8 DEF AllocBegin, ReleaseBegin, AllocWalk, ReleaseWalk, WriteFat, WriteBackup,
                WriteInfo, CountStep, CountEnd, memory
  <2> QED BY <2>1, SameTable
<1> QED BY <1>3, <1>4, <1>5, <1>6, <1>7, <1>8 DEF Next, Step

(* alloc and release implement ChainStore, for every table size: a chain   *)
(* keeps its clusters in their order until it is released, and what is     *)
(* released last is handed out first, in its old order (fat.c:83-168).     *)
THEOREM ChainStoreIsImplemented == Spec => ImplementsChainStore
<1>1. Init => NotRoot
  BY DEF Init, NotRoot
<1>2. NotRoot /\ [Next]_vars => NotRoot'
  BY NotRootKept
<1>3. Spec => []NotRoot
  BY <1>1, <1>2, PTL DEF Spec
<1>4. IInv /\ NotRoot /\ [Next]_vars => [Abstract!Next]_(Abstract!vars)
  BY StepIsMapped
<1>5. Init => Abstract!Init
  BY InitIsMapped
<1> QED BY <1>3, <1>4, <1>5, Invariance, PTL DEF Spec, ImplementsChainStore, Abstract!Spec

-----------------------------------------------------------------------------
(***************************************************************************)
(* With crashes.                                                           *)
(***************************************************************************)

(***************************************************************************)
(* Restricting a labelled table to the chains R and to the list that       *)
(* starts at g.                                                            *)
(***************************************************************************)
RestrictList(list, rank, g, R) ==
  [c \in Clusters |->
     IF list[c] = list[g] THEN (IF rank[c] <= rank[g] THEN FREE ELSE LEAK)
     ELSE IF list[c] \in R THEN list[c] ELSE LEAK]

(* From a labelling of a table to one for fewer chains and another head of *)
(* the free list: what is left over is lost.                               *)
LEMMA RestrictLabels ==
  ASSUME NEW fat, NEW ff, NEW ch, NEW list, NEW rank,
         IsTable(fat, ff, ch, list, rank),
         NEW g \in Clusters, NEW R \in SUBSET ch,
         list[g] # LEAK, list[g] \notin R
  PROVE  IsTable(fat, g, R, RestrictList(list, rank, g, R), rank)
<1> DEFINE l == RestrictList(list, rank, g, R)
<1> USE LabelsDiffer DEF IsTable, Lists, Ranks
<1>1. /\ l \in Lists
      /\ \A c \in Clusters :
           l[c] = IF list[c] = list[g] THEN (IF rank[c] <= rank[g] THEN FREE ELSE LEAK)
                  ELSE IF list[c] \in R THEN list[c] ELSE LEAK
  BY DEF RestrictList
<1> HIDE DEF l
<1>2. R \in SUBSET Clusters /\ \A h \in R : list[h] = h
  BY DEF Labelled
<1>3. \A c \in Clusters : l[c] # LEAK =>
        /\ list[c] # LEAK
        /\ \/ list[c] = list[g] /\ rank[c] <= rank[g] /\ l[c] = FREE
           \/ list[c] # list[g] /\ list[c] \in R /\ l[c] = list[c]
  BY <1>1, <1>2
<1>4. \A c \in Clusters : l[c] # LEAK =>
        IF fat[c] = EOF_FLAG THEN rank[c] = 0
        ELSE /\ fat[c] \in Clusters
             /\ l[fat[c]] = l[c]
             /\ rank[c] = rank[fat[c]] + 1
  <2> SUFFICES ASSUME NEW c \in Clusters, l[c] # LEAK
               PROVE  IF fat[c] = EOF_FLAG THEN rank[c] = 0
                      ELSE /\ fat[c] \in Clusters
                           /\ l[fat[c]] = l[c]
                           /\ rank[c] = rank[fat[c]] + 1
    OBVIOUS
  <2>1. CASE fat[c] = EOF_FLAG
    BY <1>3, <2>1 DEF Labelled
  <2>2. CASE fat[c] # EOF_FLAG
    <3>1. /\ fat[c] \in Clusters /\ list[fat[c]] = list[c]
          /\ rank[c] = rank[fat[c]] + 1
      BY <1>3, <2>2 DEF Labelled
    <3>2. /\ rank[c] \in Nat /\ rank[fat[c]] \in Nat /\ rank[g] \in Nat
      BY <3>1
    <3>3. l[fat[c]] = l[c]
      BY <1>1, <1>3, <3>1, <3>2
    <3>4. QED
      BY <2>2, <3>1, <3>3
  <2>3. QED
    BY <2>1, <2>2
<1>5. \A c, d \in Clusters : l[c] # LEAK /\ l[c] = l[d] /\ rank[c] = rank[d] => c = d
  <2> SUFFICES ASSUME NEW c \in Clusters, NEW d \in Clusters,
                      l[c] # LEAK, l[c] = l[d], rank[c] = rank[d]
               PROVE  c = d
    OBVIOUS
  <2>1. list[c] = list[d] /\ list[c] # LEAK
    BY <1>2, <1>3
  <2>2. QED
    BY <2>1 DEF Labelled
<1>6. l[g] = FREE
  BY <1>1
<1>7. \A c \in Clusters : l[c] = FREE => rank[c] <= rank[g]
  BY <1>2, <1>3
<1>8. \A h \in R : l[h] = h
  BY <1>1, <1>2
<1>9. \A c \in Clusters : l[c] \notin {FREE, LEAK} =>
        l[c] \in R /\ rank[c] <= rank[l[c]]
  <2> SUFFICES ASSUME NEW c \in Clusters, l[c] \notin {FREE, LEAK}
               PROVE  l[c] \in R /\ rank[c] <= rank[l[c]]
    OBVIOUS
  <2>1. list[c] \in R /\ l[c] = list[c]
    BY <1>3
  <2>2. list[c] \notin {FREE, LEAK}
    BY <2>1
  <2>3. QED
    BY <2>1, <2>2 DEF Labelled
<1>10. Labelled(fat, g, R, l, rank)
  BY <1>2, <1>4, <1>5, <1>6, <1>7, <1>8, <1>9 DEF Labelled
<1>11. QED
  BY <1>1, <1>2, <1>10 DEF l
-----------------------------------------------------------------------------
(***************************************************************************)
(* The inductive invariant.  Owned tells whether the chain the task works  *)
(* on is handed out or lies at the front of the free list; all other       *)
(* chains are those the entries on disk record.                            *)
(***************************************************************************)
Owned ==
  \/ pc = "releaseWalk"
  \/ Writing /\ op = "alloc"
  \/ task = "file" /\ pc = "idle"

Holding ==
  /\ entries \subseteq Clusters \ {2}
  /\ 2 \in chains
  /\ task \in {"none", "file", "grow", "refused", "delete"}
  /\ task = "none" =>
       /\ target = EOF_FLAG /\ chains = Recorded /\ pc \in {"idle", "count"}
  /\ task # "none" =>
       /\ target \in Clusters \ {2}
       /\ chains \ {target} = Recorded \ {target}
       /\ IF Owned THEN target \in chains ELSE target = firstFreeCluster
       /\ pc # "idle" => start = target
       /\ pc # "count"
  /\ task = "file" /\ pc # "idle" => op = "alloc" /\ target \notin entries
  /\ task = "delete" => op # "alloc"
  /\ task = "refused" => pc = "idle"

(***************************************************************************)
(* The links a growing file had: none has changed but that of its last     *)
(* cluster, and its clusters are either still its chain or the first ones  *)
(* of the free list, from which alloc takes one more than they are.        *)
(***************************************************************************)
KeptLinks ==
  /\ target \in DOMAIN kept /\ DOMAIN kept \subseteq Clusters
  /\ \A c \in DOMAIN kept :
       kept[c] # target /\ (kept[c] # EOF_FLAG => fatBuffer[c] = kept[c])

KeptIsChain(list) == \A c \in DOMAIN kept : list[c] = target

KeptIsFront(list, rank) ==
  \A c \in DOMAIN kept :
    /\ list[c] = FREE
    /\ rank[c] + Cardinality(DOMAIN kept) > rank[firstFreeCluster]

KeptIs(list, rank) ==
  /\ task \in {"none", "delete", "refused"} => kept = <<>>
  /\ task = "file" =>
       kept = <<>> \/ (pc = "idle" /\ KeptLinks /\ KeptIsChain(list))
  /\ task = "grow" =>
       /\ KeptLinks
       /\ pc = "allocWalk" => length = GrownLength
       /\ IF Owned THEN KeptIsChain(list) ELSE KeptIsFront(list, rank)
       /\ pc = "releaseWalk" => Cardinality(DOMAIN kept) = rank[target] + 1

\* While the table waits to be written, the disk holds the one before it.
OldDisk(list) ==
  pc = "writeFat" /\ ~Exposed =>
    \E dl, dr :
      /\ IsTable(diskFat, fsiNxtFree, Recorded, dl, dr)
      /\ \A c \in Clusters : dl[c] = LEAK =>
           c \in leaked \/ (op = "release" /\ list[c] = FREE)

CrashGood(list, rank) ==
  /\ list \in Lists /\ rank \in Ranks
  /\ Good(list, rank)
  /\ KeptIs(list, rank)
  /\ OldDisk(list)
  /\ leaked = {c \in Clusters : list[c] = LEAK}

CrashIInv ==
  /\ TypeOK /\ Holding
  /\ \E list \in Lists, rank \in Ranks : CrashGood(list, rank)

(* A formatted volume has a labelling.                                     *)
LEMMA CrashBegins == CrashInit => CrashIInv
<1> SUFFICES ASSUME CrashInit PROVE CrashIInv
  OBVIOUS
<1>1. Init /\ pc = "idle" /\ op = "none" /\ chains = {2} /\ 2 \in Clusters
  BY SizeAssumption DEF CrashInit, Init, Clusters
<1>2. PICK list \in Lists, rank \in Ranks : Good(list, rank) /\ NoLeak(list)
  BY <1>1, InitIsGood
<1>3. TypeOK
  BY <1>1, InitIsGood
<1>4. Holding
  BY <1>1 DEF Holding, CrashInit, Recorded
<1>5. CrashGood(list, rank)
  BY <1>1, <1>2 DEF CrashGood, KeptIs, OldDisk, CrashInit, NoLeak
<1>6. QED
  BY <1>3, <1>4, <1>5 DEF CrashIInv
-----------------------------------------------------------------------------
(***************************************************************************)
(* What the disk holds.  A labelled table on disk is sound, and what it    *)
(* does not reach is what carries the label LEAK.                          *)
(***************************************************************************)
LEMMA LabelledIsSound ==
  ASSUME NEW dl, NEW dr, IsTable(diskFat, fsiNxtFree, Recorded, dl, dr)
  PROVE  DiskSound /\ Unreachable = {c \in Clusters : dl[c] = LEAK}
<1>1. \A h \in Recorded \cup {fsiNxtFree} :
        HeadOf(h, diskFat, fsiNxtFree, Recorded, dl, dr)
  BY DEF HeadOf
<1>2. /\ fsiNxtFree \in Clusters /\ fsiNxtFree # EOF_FLAG
      /\ fsiNxtFree \notin Recorded /\ Recorded \in SUBSET Clusters
      /\ dl[fsiNxtFree] = FREE /\ \A h \in Recorded : dl[h] = h
  BY LabelsDiffer DEF IsTable, Labelled
<1>3. DiskSound
  <2>1. ASSUME NEW h \in Recorded \cup {fsiNxtFree},
               NEW k \in Recorded \cup {fsiNxtFree}, h # k
        PROVE  OnDisk(h) \cap OnDisk(k) = {}
    BY <1>1, <2>1, HeadsApart DEF OnDisk
  <2>2. QED
    BY <1>2, <2>1 DEF DiskSound
<1>4. \A h \in Recorded \cup {fsiNxtFree} :
        OnDisk(h) = {c \in Clusters : dl[c] = dl[h]}
  BY <1>1, ReachIsLabel DEF OnDisk
<1>5. ASSUME NEW c \in Clusters
      PROVE  c \in Unreachable <=> dl[c] = LEAK
  <2>1. c \in Unreachable <=>
          \A h \in Recorded \cup {fsiNxtFree} : dl[c] # dl[h]
    BY <1>4 DEF Unreachable
  <2>2. CASE dl[c] = LEAK
    BY <1>2, <2>1, <2>2, LabelsDiffer
  <2>3. CASE dl[c] = FREE
    BY <1>2, <2>1, <2>3, LabelsDiffer
  <2>4. CASE dl[c] \notin {FREE, LEAK}
    <3>1. dl[c] \in Recorded
      BY <2>4 DEF IsTable, Labelled
    <3>2. QED
      BY <1>2, <2>1, <2>4, <3>1
  <2>5. QED
    BY <2>2, <2>3, <2>4
<1>6. QED
  BY <1>3, <1>5 DEF Unreachable

\* Outside the two windows the disk holds a labelled table, and what that
\* table leaks besides earlier losses is the chain the task works on.
OnDiskIs(list, dl, dr) ==
  /\ IsTable(diskFat, fsiNxtFree, Recorded, dl, dr)
  /\ pc \notin {"writeBackup", "writeInfo"} =>
       \A c \in Clusters : dl[c] = LEAK =>
         \/ c \in leaked
         \/ Owned /\ list[c] = target
         \/ pc = "writeFat" /\ op = "release" /\ list[c] = FREE

\* The table in memory, as an entry on disk and the free list g see it.
LEMMA MemoryRestricted ==
  ASSUME TypeOK, NEW list, NEW rank, CrashGood(list, rank),
         NEW g \in Clusters, Recorded \in SUBSET chains,
         list[g] # LEAK, list[g] \notin Recorded
  PROVE  IsTable(fatBuffer, g, Recorded, RestrictList(list, rank, g, Recorded), rank)
<1>1. IsTable(fatBuffer, firstFreeCluster, chains, list, rank)
  BY Table DEF CrashGood
<1>2. QED
  BY <1>1, RestrictLabels

(* When memory and disk agree, the disk has the labelling in which the     *)
(* chains no entry names are lost.                                         *)
LEMMA CurrentDisk ==
  ASSUME TypeOK, Holding, NEW list, NEW rank, CrashGood(list, rank), ~Exposed,
         pc \in {"idle", "allocWalk", "releaseWalk", "count"}
  PROVE  \E dl, dr :
           /\ IsTable(diskFat, fsiNxtFree, Recorded, dl, dr)
           /\ \A c \in Clusters : dl[c] = LEAK =>
                c \in leaked \/ (Owned /\ list[c] = target)
<1> DEFINE l == RestrictList(list, rank, firstFreeCluster, Recorded)
<1>1. /\ diskFat = fatBuffer /\ fsiNxtFree = firstFreeCluster
      /\ ~Writing
  BY DEF CrashGood, Good, Control, DiskCurrent, Writing
<1>2. /\ firstFreeCluster \in Clusters /\ list[firstFreeCluster] = FREE
      /\ chains \in SUBSET Clusters
      /\ Labelled(fatBuffer, firstFreeCluster, chains, list, rank)
      /\ Recorded \in SUBSET Clusters
  BY DEF CrashGood, Good, Labelled, TypeOK, Holding, Recorded
<1>3. Recorded \in SUBSET chains
  <2>1. CASE task = "none" \/ target \in chains
    BY <2>1 DEF Holding
  <2>2. CASE task # "none" /\ target \notin chains
    <3>1. ~Owned /\ chains \ {target} = Recorded \ {target} /\ target # 2
      BY <2>2 DEF Holding
    <3>2. target \notin entries
      <4>1. CASE task = "file"
        BY <3>1, <4>1 DEF Holding, Owned
      <4>2. CASE task # "file"
        BY <2>2, <3>1, <4>2 DEF Holding, Owned, Exposed, Released
      <4>3. QED
        BY <4>1, <4>2
    <3>3. QED
      BY <3>1, <3>2 DEF Recorded
  <2>3. QED
    BY <2>1, <2>2
<1>4. IsTable(diskFat, fsiNxtFree, Recorded, l, rank)
  BY <1>1, <1>2, <1>3, LabelsDiffer, MemoryRestricted
<1>5. ASSUME NEW c \in Clusters, l[c] = LEAK
      PROVE  c \in leaked \/ (Owned /\ list[c] = target)
  <2>1. list[c] # FREE /\ list[c] \notin Recorded
    <3>1. l[c] = IF list[c] = list[firstFreeCluster]
                 THEN (IF rank[c] <= rank[firstFreeCluster] THEN FREE ELSE LEAK)
                 ELSE IF list[c] \in Recorded THEN list[c] ELSE LEAK
      BY DEF RestrictList
    <3>2. list[c] = FREE => rank[c] <= rank[firstFreeCluster]
      BY <1>2 DEF Labelled
    <3>3. QED
      BY <1>2, <1>5, <3>1, <3>2, LabelsDiffer
  <2>2. CASE list[c] = LEAK
    BY <2>2 DEF CrashGood
  <2>3. CASE list[c] # LEAK
    <3>1. list[c] \in chains
      BY <1>2, <2>1, <2>3 DEF Labelled
    <3>2. list[c] = target /\ task # "none"
      BY <2>1, <3>1 DEF Holding
    <3>3. target # firstFreeCluster
      BY <1>2, <3>1, <3>2, LabelsDiffer DEF Labelled
    <3>4. QED
      BY <3>2, <3>3 DEF Holding
  <2>4. QED
    BY <2>2, <2>3
<1> HIDE DEF l
<1>6. QED
  BY <1>4, <1>5

(* Outside of the windows the disk always has a labelling.                 *)
LEMMA DiskLabels ==
  ASSUME TypeOK, Holding, NEW list, NEW rank, CrashGood(list, rank), ~Exposed
  PROVE  \E dl, dr : OnDiskIs(list, dl, dr)
<1>1. CASE pc \in {"idle", "allocWalk", "releaseWalk", "count"}
  BY <1>1, CurrentDisk DEF OnDiskIs
<1>2. CASE pc = "writeFat"
  BY <1>2 DEF CrashGood, OldDisk, OnDiskIs
<1>3. CASE pc \in {"writeBackup", "writeInfo"}
  <2>1. /\ diskFat = fatBuffer /\ Writing /\ pc # "idle" /\ task # "none"
        /\ Labelled(fatBuffer, firstFreeCluster, chains, list, rank)
        /\ \/ op = "alloc" /\ start \in chains /\ fsiNxtFree = start
           \/ op = "release" /\ fsiNxtFree \in Clusters /\ list[fsiNxtFree] = FREE
    BY <1>3 DEF CrashGood, Good, Control, Writing, Holding
  <2>2. target \notin entries /\ target # 2
    BY <1>3, <2>1 DEF Holding, Exposed, Released
  <2>3. Recorded \in SUBSET chains /\ target \notin Recorded /\ start = target
    BY <2>1, <2>2 DEF Holding, Recorded
  <2>4. /\ fsiNxtFree \in Clusters
        /\ list[fsiNxtFree] # LEAK /\ list[fsiNxtFree] \notin Recorded
    <3>1. Recorded \in SUBSET Clusters /\ chains \in SUBSET Clusters
      BY <2>1, <2>3 DEF Labelled
    <3>2. CASE op = "alloc"
      BY <2>1, <2>3, <3>1, <3>2, LabelsDiffer DEF Labelled
    <3>3. CASE op = "release"
      BY <2>1, <3>1, <3>3, LabelsDiffer
    <3>4. QED
      BY <2>1, <3>2, <3>3
  <2>5. IsTable(diskFat, fsiNxtFree, Recorded,
                RestrictList(list, rank, fsiNxtFree, Recorded), rank)
    BY <2>1, <2>3, <2>4, MemoryRestricted
  <2>6. QED
    BY <1>3, <2>5 DEF OnDiskIs
<1>4. QED
  BY <1>1, <1>2, <1>3 DEF TypeOK

\* Inside the windows the chain of an entry on disk runs into the list that
\* FSI_Nxt_Free names.
LEMMA ExposedIsUnsound ==
  ASSUME TypeOK, Holding, NEW list, NEW rank, CrashGood(list, rank), Exposed
  PROVE  ~DiskSound
<1>1. /\ task \in {"delete", "grow", "refused"} /\ target \in entries /\ Released
      /\ target \in Clusters /\ target \in Recorded
  BY DEF Exposed, Holding, Recorded
<1>2. /\ Labelled(fatBuffer, firstFreeCluster, chains, list, rank)
      /\ IsTable(fatBuffer, firstFreeCluster, chains, list, rank)
      /\ HeadOf(firstFreeCluster, fatBuffer, firstFreeCluster, chains, list, rank)
  BY Table DEF CrashGood, Good, IsTable, HeadOf
<1>3. ASSUME NEW fat, NEW h \in Clusters PROVE h \in ReachIn(fat, h)
  BY DEF ReachIn
<1>4. CASE fsiNxtFree = target
  <2>1. target \in OnDisk(target) /\ target \in OnDisk(fsiNxtFree)
    BY <1>1, <1>3, <1>4 DEF OnDisk
  <2>2. QED
    BY <1>1, <2>1 DEF DiskSound
<1>5. CASE fsiNxtFree # target
  <2>1. /\ op = "release" /\ Writing /\ diskFat = fatBuffer
        /\ fsiNxtFree \in Clusters /\ list[fsiNxtFree] = FREE
        /\ target = firstFreeCluster
    <3>1. CASE Writing
      BY <1>1, <1>5, <3>1
         DEF CrashGood, Good, Control, Holding, Owned, Released, Writing
    <3>2. CASE ~Writing
      BY <1>1, <1>5, <3>2
         DEF CrashGood, Good, Control, DiskCurrent, Holding, Owned, Released,
             Writing, TypeOK
    <3>3. QED
      BY <3>1, <3>2
  <2>2. OnDisk(target) = {c \in Clusters : list[c] = list[firstFreeCluster]}
    BY <1>2, <2>1, ReachIsLabel DEF OnDisk
  <2>3. list[firstFreeCluster] = FREE
    BY <1>2 DEF Labelled
  <2>4. fsiNxtFree \in OnDisk(target) /\ fsiNxtFree \in OnDisk(fsiNxtFree)
    BY <1>3, <2>1, <2>2, <2>3 DEF OnDisk
  <2>5. QED
    BY <1>1, <2>4 DEF DiskSound
<1>6. QED
  BY <1>4, <1>5
-----------------------------------------------------------------------------
(***************************************************************************)
(* The steps.  A crash loads the table of the disk with the labelling it   *)
(* has; the other steps keep the labelling, cut it or splice it.           *)
(***************************************************************************)
LEMMA CrashKeeps ==
  ASSUME TypeOK, Holding, NEW list, NEW rank, CrashGood(list, rank), Crash
  PROVE  CrashIInv'
<1>1. ~Exposed
  BY ExposedIsUnsound DEF Crash
<1>2. PICK dl, dr : IsTable(diskFat, fsiNxtFree, Recorded, dl, dr)
  BY <1>1, DiskLabels DEF OnDiskIs
<1>3. /\ dl \in Lists /\ dr \in Ranks /\ fsiNxtFree \in Clusters
      /\ Recorded \in SUBSET Clusters /\ dl[fsiNxtFree] = FREE
      /\ dr[fsiNxtFree] \in Nat
      /\ Labelled(diskFat, fsiNxtFree, Recorded, dl, dr)
  BY <1>2 DEF IsTable, Labelled, Ranks
<1>4. /\ fatBuffer' = diskFat /\ firstFreeCluster' = fsiNxtFree
      /\ pc' = "count" /\ op' = "mount" /\ pointer' = fsiNxtFree /\ length' = 0
      /\ diskFat' = diskFat /\ fsiNxtFree' = fsiNxtFree
      /\ chains' = Recorded /\ entries' = entries /\ task' = "none"
      /\ target' = EOF_FLAG /\ kept' = <<>>
      /\ leaked' = {c \in Clusters : dl[c] = LEAK}
  BY <1>2, LabelledIsSound DEF Crash, disk
<1>5. TypeOK'
  BY <1>3, <1>4 DEF TypeOK, Crash, disk
<1>6. Holding'
  BY <1>4 DEF Holding, Recorded
<1>7. Good(dl, dr)'
  BY <1>3, <1>4 DEF Good, Control, DiskCurrent, Writing
<1>8. CrashGood(dl, dr)'
  BY <1>3, <1>4, <1>7 DEF CrashGood, KeptIs, OldDisk
<1>9. QED
  BY <1>3, <1>5, <1>6, <1>8 DEF CrashIInv

\* A step that leaves the labels, the links and the task alone, and does not
\* enter the state in which the table waits to be written.
LEMMA SameLabels ==
  ASSUME TypeOK, Holding, NEW list, NEW rank, CrashGood(list, rank),
         TypeOK' /\ Good(list, rank)',
         Holding', KeptIs(list, rank)',
         leaked' = leaked, pc' # "writeFat"
  PROVE  CrashIInv'
<1>1. OldDisk(list)'
  BY DEF OldDisk
<1>2. CrashGood(list, rank)'
  BY <1>1 DEF CrashGood
<1>3. list \in Lists /\ rank \in Ranks
  BY DEF CrashGood
<1>4. QED
  BY <1>2, <1>3 DEF CrashIInv

(* The steps of the walks and the writes of the tables keep the invariant. *)
LEMMA WalksKeep ==
  ASSUME TypeOK, Holding, NEW list, NEW rank, CrashGood(list, rank), CrashStep,
         \/ AllocWalk \/ ReleaseWalk \/ WriteFat \/ WriteBackup
         \/ CountStep \/ CountEnd
  PROVE  CrashIInv'
<1>1. TypeOK' /\ Good(list, rank)'
  BY AllocWalks, ReleaseWalks, Writes, Mounts DEF CrashGood
<1>2. /\ task' = task /\ target' = target /\ entries' = entries
      /\ kept' = kept /\ leaked' = leaked
  BY DEF CrashStep, AllocWalk, ReleaseWalk, WriteFat, WriteBackup, CountStep,
         CountEnd
<1>3. /\ fatBuffer' = fatBuffer /\ firstFreeCluster' = firstFreeCluster
      /\ chains' = chains
  BY DEF AllocWalk, ReleaseWalk, WriteFat, WriteBackup, CountStep, CountEnd,
         memory
<1>4. /\ pc' # "writeFat"
      /\ \/ /\ pc' = pc /\ op' = op /\ start' = start
            /\ pc = "allocWalk" => length' = length
         \/ Writing /\ Writing' /\ op' = op /\ start' = start
         \/ pc = "count" /\ pc' = "idle"
  BY DEF AllocWalk, ReleaseWalk, WriteFat, WriteBackup, CountStep, CountEnd,
         Return, locals, Writing
<1>5. Holding' /\ KeptIs(list, rank)'
  <2>1. CASE pc = "count"
    <3>1. task = "none" /\ target = EOF_FLAG /\ kept = <<>>
      BY <2>1 DEF Holding, CrashGood, KeptIs
    <3>2. pc' \in {"idle", "count"}
      BY <1>4, <2>1 DEF Writing
    <3>3. QED
      BY <1>2, <1>3, <3>1, <3>2 DEF Holding, KeptIs, CrashGood, Recorded
  <2>2. CASE pc # "count"
    <3>0. pc # "idle"
      BY DEF AllocWalk, ReleaseWalk, WriteFat, WriteBackup, CountStep, CountEnd
    <3>1. /\ pc' \notin {"idle", "count"} /\ start' = start /\ op' = op
          /\ pc' = "releaseWalk" <=> pc = "releaseWalk"
          /\ pc' = "allocWalk" <=> pc = "allocWalk"
          /\ pc = "allocWalk" => length' = length
          /\ Owned' <=> Owned
      <4>1. CASE pc' = pc /\ op' = op
        BY <1>2, <1>4, <2>2, <3>0, <4>1 DEF Owned, Writing
      <4>2. CASE Writing /\ Writing' /\ op' = op /\ start' = start
        BY <1>2, <2>2, <3>0, <4>2 DEF Owned, Writing
      <4>3. QED
        BY <1>4, <2>2, <4>1, <4>2
    <3>3. Holding'
      BY <1>2, <1>3, <2>2, <3>1, <3>0 DEF Holding, Recorded
    <3>4. KeptIs(list, rank)'
      BY <1>2, <1>3, <3>1, <3>0
         DEF KeptIs, KeptLinks, KeptIsChain, KeptIsFront, CrashGood, GrownLength
    <3>5. QED
      BY <3>3, <3>4
  <2>3. QED
    BY <2>1, <2>2
<1>6. QED
  BY <1>1, <1>2, <1>4, <1>5, SameLabels

\* The last write of a call: the file that grew has its chain again.
LEMMA InfoKeeps ==
  ASSUME TypeOK, Holding, NEW list, NEW rank, CrashGood(list, rank), CrashStep,
         WriteInfo
  PROVE  CrashIInv'
<1>1. TypeOK' /\ Good(list, rank)'
  BY Writes DEF CrashGood
<1>2. /\ target' = target /\ entries' = entries
      /\ kept' = kept /\ leaked' = leaked
      /\ task' = IF task = "grow" /\ op = "alloc" THEN "file" ELSE task
      /\ pc = "writeInfo" /\ pc' = "idle" /\ Writing
      /\ fatBuffer' = fatBuffer /\ firstFreeCluster' = firstFreeCluster
      /\ chains' = chains
  BY DEF CrashStep, WriteInfo, Return, Writing
<1>3. task \in {"file", "grow", "delete"} /\ op \in {"alloc", "release"}
  BY <1>2 DEF Holding, CrashGood, Good, Control
<1>4. Owned' <=> Owned
  <2>1. Owned <=> op = "alloc"
    BY <1>2 DEF Owned, Writing
  <2>2. Owned' <=> task' = "file"
    BY <1>2 DEF Owned, Writing
  <2>3. task' = "file" <=> op = "alloc"
    BY <1>2, <1>3 DEF Holding
  <2>4. QED
    BY <2>1, <2>2, <2>3
<1>5. Holding'
  <2>1. /\ target \in Clusters \ {2}
        /\ chains \ {target} = Recorded \ {target}
        /\ IF Owned THEN target \in chains ELSE target = firstFreeCluster
        /\ entries \subseteq Clusters \ {2} /\ 2 \in chains
    BY <1>3 DEF Holding
  <2>2. /\ task' \in {"file", "grow", "delete"}
        /\ Recorded' = Recorded
        /\ task' = "delete" => op' # "alloc"
    BY <1>2, <1>3 DEF Recorded, WriteInfo, Return
  <2>3. IF Owned' THEN target' \in chains' ELSE target' = firstFreeCluster'
    BY <1>2, <1>4, <2>1
  <2>4. QED
    BY <1>2, <2>1, <2>2, <2>3 DEF Holding
<1>6. KeptIs(list, rank)'
  <2>1. CASE task = "delete"
    BY <1>2, <2>1 DEF KeptIs, CrashGood
  <2>2. CASE task = "file"
    BY <1>2, <2>2 DEF KeptIs, CrashGood
  <2>3. CASE task = "grow" /\ op = "alloc"
    BY <1>2, <2>3 DEF KeptIs, CrashGood, Owned, KeptLinks, KeptIsChain
  <2>4. CASE task = "grow" /\ op # "alloc"
    BY <1>2, <1>4, <2>4
       DEF KeptIs, CrashGood, KeptLinks, KeptIsChain, KeptIsFront
  <2>5. QED
    BY <1>3, <2>1, <2>2, <2>3, <2>4
<1>7. QED
  BY <1>1, <1>2, <1>5, <1>6, SameLabels

(* The clusters of a file that grows are finitely many.                    *)
LEMMA KeptSize ==
  ASSUME KeptLinks
  PROVE  Cardinality(DOMAIN kept) \in Nat
<1>1. IsFiniteSet(Clusters)
  BY FS_Interval, SizeAssumption DEF Clusters
<1>2. IsFiniteSet(DOMAIN kept)
  BY <1>1, FS_Subset DEF KeptLinks
<1>3. QED
  BY <1>2, FS_CardinalityType

\* alloc's cut: the new chain is the front of the free list, and takes one
\* cluster more than a growing file had.
LEMMA CutKeeps ==
  ASSUME TypeOK, Holding, NEW list, NEW rank, CrashGood(list, rank), CrashStep,
         AllocCut
  PROVE  CrashIInv'
<1>1. /\ pc = "allocWalk" /\ i = length - 1 /\ op = "alloc"
      /\ start = firstFreeCluster
      /\ pointer \in Clusters /\ list[pointer] = FREE
      /\ rank[pointer] = rank[firstFreeCluster] - i
      /\ task \in {"file", "grow"} /\ target = firstFreeCluster /\ ~Owned
      /\ length \in Nat /\ length > 0
  BY DEF AllocCut, CrashGood, Good, Control, Holding, Owned, Writing, TypeOK
<1>2. PICK l \in Lists, r \in Ranks :
         /\ l = CutList(firstFreeCluster, list, rank, pointer)
         /\ r = CutRank(list, rank, pointer)
         /\ Good(l, r)'
  BY AllocCuts DEF CrashGood
<1>3. TypeOK'
  BY AllocCuts DEF CrashGood
<1>4. /\ task' = task /\ target' = target /\ entries' = entries
      /\ kept' = kept /\ leaked' = leaked
      /\ fatBuffer' = [fatBuffer EXCEPT ![pointer] = EOF_FLAG]
      /\ chains' = chains \cup {target} /\ start' = start
      /\ diskFat' = diskFat /\ fsiNxtFree' = fsiNxtFree
      /\ pc' = "writeFat" /\ op' = op
  BY <1>1 DEF CrashStep, AllocCut, CutAfter, locals, disk
<1>5. /\ firstFreeCluster \in Clusters /\ list[firstFreeCluster] = FREE
      /\ fatBuffer \in [Clusters -> Clusters \cup {EOF_FLAG}]
      /\ list \in Lists /\ rank \in Ranks
      /\ leaked = {c \in Clusters : list[c] = LEAK}
  BY DEF CrashGood, Good, Labelled, TypeOK
<1>6. Owned' /\ Recorded' = Recorded /\ (Exposed' <=> Exposed)
  BY <1>1, <1>4 DEF Owned, Writing, Recorded, Exposed, Released
<1>7. Holding'
  BY <1>1, <1>4, <1>6 DEF Holding
<1>8. leaked' = {c \in Clusters : l[c] = LEAK}
  BY <1>2, <1>4, <1>5, NoneLeaks
<1>9. OldDisk(l)'
  <2> SUFFICES ASSUME ~Exposed
               PROVE  \E dl, dr :
                        /\ IsTable(diskFat, fsiNxtFree, Recorded, dl, dr)
                        /\ \A c \in Clusters : dl[c] = LEAK => c \in leaked
    BY <1>4, <1>6 DEF OldDisk
  <2>1. QED
    BY <1>1, CurrentDisk
<1>10. KeptIs(l, r)'
  <2>1. CASE task = "file"
    BY <1>1, <1>4, <2>1 DEF KeptIs, CrashGood
  <2>2. CASE task = "grow"
    <3>1. KeptLinks /\ KeptIsFront(list, rank) /\ length = GrownLength
      BY <1>1, <2>2 DEF KeptIs, CrashGood
    <3>2. Cardinality(DOMAIN kept) \in Nat /\ i = Cardinality(DOMAIN kept)
      BY <1>1, <3>1, KeptSize DEF GrownLength
    <3>3. \A c \in DOMAIN kept :
            c \in Clusters /\ list[c] = FREE /\ rank[c] > rank[pointer]
      <4>1. \A c \in Clusters : rank[c] \in Nat
        BY <1>5 DEF Ranks
      <4>2. QED
        BY <1>1, <1>5, <3>1, <3>2, <4>1 DEF KeptLinks, KeptIsFront
    <3>4. KeptLinks'
      <4>1. \A c \in DOMAIN kept : c # pointer
        BY <1>1, <1>5, <3>3 DEF Ranks
      <4>2. \A c \in DOMAIN kept : fatBuffer'[c] = fatBuffer[c]
        BY <1>4, <1>5, <3>3, <4>1
      <4>3. QED
        BY <1>4, <3>1, <4>2 DEF KeptLinks
    <3>5. KeptIsChain(l)'
      <4>1. \A c \in DOMAIN kept : rank[c] \in Nat /\ rank[pointer] \in Nat
        BY <1>1, <1>5, <3>3 DEF Ranks
      <4>2. QED
        BY <1>1, <1>2, <1>4, <3>3, <4>1 DEF KeptIsChain, CutList
    <3>6. QED
      BY <1>4, <1>6, <2>2, <3>4, <3>5 DEF KeptIs
  <2>3. QED
    BY <1>1, <2>1, <2>2
<1>11. CrashGood(l, r)'
  BY <1>2, <1>8, <1>9, <1>10 DEF CrashGood
<1>12. QED
  BY <1>2, <1>3, <1>7, <1>11 DEF CrashIInv

(***************************************************************************)
(* A splice: the whole chain of a task becomes the front of the free list. *)
(* It ends the walk of release, and is the first step of a task whose      *)
(* chain is a single cluster.                                              *)
(***************************************************************************)
KeptAre(list, rank, t, k) ==
  /\ t \in DOMAIN k
  /\ \A c \in DOMAIN k :
       /\ c \in Clusters /\ list[c] = t /\ k[c] # t
       /\ k[c] # EOF_FLAG => fatBuffer[c] = k[c]
  /\ Cardinality(DOMAIN k) = rank[t] + 1

SpliceStep(list, rank) ==
  /\ pc \in {"idle", "releaseWalk"} /\ ~Exposed
  /\ target' \in chains \ {2} /\ (Owned => target' = target)
  /\ chains \ {target'} = Recorded \ {target'}
  /\ \E last \in Clusters : fatBuffer[last] = EOF_FLAG /\ Splice(last, target')
  /\ task' \in {"grow", "delete"} /\ start' = target' /\ op' = "release"
  /\ UNCHANGED <<disk, entries, leaked>>
  /\ task' = "delete" => kept' = <<>>
  /\ task' = "grow" => KeptAre(list, rank, target', kept')

SpliceResult(list, rank, s) ==
  \E l \in Lists, r \in Ranks :
    /\ l = SpliceList(list, s)
    /\ r = SpliceRank(firstFreeCluster, list, rank, s)
    /\ Good(l, r)'

(* What is left to show when a chain has been put before the free list.    *)
LEMMA SpliceEnds ==
  ASSUME TypeOK, Holding, NEW list, NEW rank, CrashGood(list, rank), TypeOK',
         SpliceStep(list, rank), SpliceResult(list, rank, target')
  PROVE  CrashIInv'
<1> DEFINE t == target'
<1>1. PICK l \in Lists, r \in Ranks :
         /\ l = SpliceList(list, t)
         /\ r = SpliceRank(firstFreeCluster, list, rank, t)
         /\ Good(l, r)'
  BY DEF SpliceResult
<1>2. PICK last \in Clusters : fatBuffer[last] = EOF_FLAG /\ Splice(last, t)
  BY DEF SpliceStep
<1>3. /\ pc' = "writeFat" /\ op' = "release" /\ start' = t
      /\ fatBuffer' = [fatBuffer EXCEPT ![last] = firstFreeCluster]
      /\ firstFreeCluster' = t /\ chains' = chains \ {t}
      /\ diskFat' = diskFat /\ fsiNxtFree' = fsiNxtFree
      /\ entries' = entries /\ leaked' = leaked
      /\ task' \in {"grow", "delete"} /\ t \in chains /\ t # 2
  BY <1>2 DEF SpliceStep, Splice, LinkToFree, FreeHead, disk
<1>4. /\ firstFreeCluster \in Clusters /\ list[firstFreeCluster] = FREE
      /\ fatBuffer \in [Clusters -> Clusters \cup {EOF_FLAG}]
      /\ list \in Lists /\ rank \in Ranks
      /\ t \in Clusters /\ list[t] = t
      /\ leaked = {c \in Clusters : list[c] = LEAK}
  BY <1>3 DEF CrashGood, Good, Labelled, TypeOK
<1>5. Recorded' = Recorded /\ ~Owned' /\ ~Exposed
  BY <1>3 DEF Recorded, Owned, Writing, SpliceStep
<1>6. Holding'
  <2>1. chains' \ {t} = Recorded' \ {t}
    BY <1>3, <1>5 DEF SpliceStep
  <2>2. entries' \subseteq Clusters \ {2} /\ 2 \in chains'
    BY <1>3 DEF Holding
  <2>3. QED
    BY <1>3, <1>4, <1>5, <2>1, <2>2 DEF Holding
<1>7. leaked' = {c \in Clusters : l[c] = LEAK}
  BY <1>1, <1>3, <1>4, NoneLeaks
<1>8. OldDisk(l)'
  <2>1. PICK dl, dr :
          /\ IsTable(diskFat, fsiNxtFree, Recorded, dl, dr)
          /\ \A c \in Clusters : dl[c] = LEAK =>
               c \in leaked \/ (Owned /\ list[c] = target)
    BY <1>5, CurrentDisk DEF SpliceStep
  <2>2. ASSUME NEW c \in Clusters, dl[c] = LEAK
        PROVE  c \in leaked \/ l[c] = FREE
    <3>1. c \in leaked \/ list[c] = t
      BY <2>1, <2>2 DEF SpliceStep
    <3>2. QED
      BY <1>1, <3>1 DEF SpliceList
  <2>3. QED
    BY <1>3, <1>5, <2>1, <2>2 DEF OldDisk
<1>9. KeptIs(l, r)'
  <2>1. CASE task' = "delete"
    BY <2>1 DEF KeptIs, SpliceStep
  <2>2. CASE task' = "grow"
    <3>1. KeptAre(list, rank, t, kept')
      BY <2>2 DEF SpliceStep
    <3>2. KeptLinks'
      <4>1. \A c \in DOMAIN kept' : kept'[c] # EOF_FLAG => fatBuffer'[c] = kept'[c]
        BY <1>2, <1>3, <1>4, <3>1 DEF KeptAre
      <4>2. QED
        BY <3>1, <4>1 DEF KeptLinks, KeptAre
    <3>3. KeptIsFront(l, r)'
      <4>1. r[t] = rank[t] + rank[firstFreeCluster] + 1
        BY <1>1, <1>4 DEF SpliceRank
      <4>2. \A c \in DOMAIN kept' :
              /\ l[c] = FREE /\ rank[c] \in Nat
              /\ r[c] = rank[c] + rank[firstFreeCluster] + 1
        BY <1>1, <1>4, <3>1 DEF SpliceRank, SpliceList, KeptAre, Ranks
      <4>3. rank[t] \in Nat /\ rank[firstFreeCluster] \in Nat
        BY <1>4 DEF Ranks
      <4>4. Cardinality(DOMAIN kept') = rank[t] + 1
        BY <3>1 DEF KeptAre
      <4>5. QED
        BY <1>3, <4>1, <4>2, <4>3, <4>4 DEF KeptIsFront
    <3>4. QED
      BY <1>3, <1>5, <2>2, <3>2, <3>3 DEF KeptIs
  <2>3. QED
    BY <1>3, <2>1, <2>2
<1>10. CrashGood(l, r)'
  BY <1>1, <1>7, <1>8, <1>9 DEF CrashGood
<1>11. QED
  BY <1>1, <1>6, <1>10 DEF CrashIInv

(* The splice at the end of release's walk keeps the invariant.            *)
LEMMA SpliceKeeps ==
  ASSUME TypeOK, Holding, NEW list, NEW rank, CrashGood(list, rank), CrashStep,
         ReleaseSplice
  PROVE  CrashIInv'
<1>1. /\ pc = "releaseWalk" /\ Owned /\ ~Exposed /\ op = "release"
      /\ task \in {"grow", "delete"} /\ start = target
      /\ target \in chains /\ target # 2
      /\ chains \ {target} = Recorded \ {target}
      /\ current \in Clusters /\ fatBuffer[current] = EOF_FLAG
  BY DEF ReleaseSplice, CrashGood, Good, Control, Holding, Owned, Exposed,
         Released
<1>2. /\ task' = task /\ target' = target /\ entries' = entries
      /\ kept' = kept /\ leaked' = leaked /\ start' = start /\ op' = op
      /\ UNCHANGED disk /\ Splice(current, start)
  BY <1>1 DEF CrashStep, ReleaseSplice, locals
<1>3. TypeOK' /\ SpliceResult(list, rank, target')
  <2>1. TypeOK' /\ SpliceResult(list, rank, start)
    BY WalkReleases DEF CrashGood, SpliceResult
  <2>2. QED
    BY <1>1, <1>2, <2>1
<1>4. task = "grow" => KeptAre(list, rank, target, kept)
  BY <1>1 DEF KeptAre, KeptIs, KeptLinks, KeptIsChain, CrashGood
<1>5. task = "delete" => kept = <<>>
  BY DEF KeptIs, CrashGood
<1>6. SpliceStep(list, rank)
  BY <1>1, <1>2, <1>4, <1>5 DEF SpliceStep, disk
<1>7. QED
  BY <1>3, <1>6, SpliceEnds

\* What the first step of a growth keeps in mind.
LEMMA KeptAtRelease ==
  ASSUME TypeOK, NEW list, NEW rank, CrashGood(list, rank), NEW t \in chains,
         NEW k, k = [c \in Reach(t) |-> fatBuffer[c]]
  PROVE  KeptAre(list, rank, t, k)
<1>1. /\ HeadOf(t, fatBuffer, firstFreeCluster, chains, list, rank)
      /\ Labelled(fatBuffer, firstFreeCluster, chains, list, rank)
      /\ list \in Lists /\ rank \in Ranks
  BY Table DEF CrashGood, Good, HeadOf
<1>2. /\ t \in Clusters /\ list[t] = t /\ t # LEAK
      /\ \A c \in Clusters : list[c] = list[t] => rank[c] <= rank[t]
  <2>1. /\ t \in Clusters /\ list[t] # LEAK
        /\ \A c \in Clusters : list[c] = list[t] => rank[c] <= rank[t]
    BY <1>1, HeadIsTop
  <2>2. QED
    BY <1>1, <2>1 DEF Labelled
<1>3. Reach(t) = {c \in Clusters : list[c] = t}
  BY <1>1, <1>2, ReachIsLabel DEF Reach
<1>4. Cardinality(Reach(t)) = rank[t] + 1
  BY <1>1, ChainLength DEF Reach
<1>5. ASSUME NEW c \in Clusters, list[c] = t PROVE fatBuffer[c] # t
  <2>1. CASE fatBuffer[c] = EOF_FLAG
    BY <1>2, <2>1, LabelsDiffer
  <2>2. CASE fatBuffer[c] # EOF_FLAG
    <3>1. rank[c] = rank[fatBuffer[c]] + 1
      BY <1>1, <1>2, <1>5, <2>2 DEF Labelled
    <3>2. rank[c] <= rank[t] /\ rank[c] \in Nat /\ rank[t] \in Nat
      BY <1>1, <1>2, <1>5 DEF Ranks
    <3>3. QED
      BY <3>1, <3>2
  <2>3. QED
    BY <2>1, <2>2
<1>6. QED
  BY <1>2, <1>3, <1>4, <1>5 DEF KeptAre

\* The release a growth or a deletion begins with.
ReleaseOf(t) == ReleaseSingle(t) \/ ReleaseBegin(t)

(* So does the release that begins a growth or a deletion.                 *)
LEMMA ReleasesKeep ==
  ASSUME TypeOK, Holding, NEW list, NEW rank, CrashGood(list, rank),
         pc = "idle", ~Exposed,
         NEW t \in chains \ {2}, t = target', ReleaseOf(t),
         Owned => t = target, chains \ {t} = Recorded \ {t},
         task' \in {"grow", "delete"}, UNCHANGED <<entries, leaked>>,
         task' = "delete" => kept' = <<>>,
         task' = "grow" => KeptAre(list, rank, t, kept')
  PROVE  CrashIInv'
<1>1. t \in chains /\ t \in Clusters /\ list \in Lists /\ rank \in Ranks
      /\ Good(list, rank)
  BY DEF TypeOK, CrashGood
<1>2. CASE ReleaseSingle(t)
  <2>1. TypeOK' /\ SpliceResult(list, rank, t)
    BY <1>1, <1>2, SingleReleases DEF SpliceResult
  <2>2. /\ fatBuffer[t] = EOF_FLAG /\ Splice(t, t)
        /\ start' = t /\ op' = "release" /\ UNCHANGED disk
    BY <1>2 DEF ReleaseSingle
  <2>3. SpliceStep(list, rank)
    <3>1. \E last \in Clusters : fatBuffer[last] = EOF_FLAG /\ Splice(last, target')
      BY <1>1, <2>2
    <3>2. KeptAre(list, rank, t, kept') => KeptAre(list, rank, target', kept')
      OBVIOUS
    <3>3. QED
      BY <1>1, <2>2, <3>1, <3>2 DEF SpliceStep, disk
  <2>4. QED
    BY <2>1, <2>3, SpliceEnds
<1>3. CASE ReleaseBegin(t)
  <2>1. TypeOK' /\ Good(list, rank)'
    BY <1>1, <1>3, ReleaseBegins
  <2>2. /\ pc' = "releaseWalk" /\ op' = "release" /\ start' = t
        /\ fatBuffer' = fatBuffer /\ firstFreeCluster' = firstFreeCluster
        /\ chains' = chains /\ Owned'
    BY <1>3 DEF ReleaseBegin, memory, Owned
  <2>3. Holding'
    <3>1. Recorded' = Recorded /\ entries' \subseteq Clusters \ {2} /\ 2 \in chains'
      BY <2>2 DEF Recorded, Holding
    <3>2. QED
      BY <1>1, <2>2, <3>1 DEF Holding
  <2>4. KeptIs(list, rank)'
    <3>1. CASE task' = "delete"
      BY <3>1 DEF KeptIs
    <3>2. CASE task' = "grow"
      <4>1. KeptAre(list, rank, t, kept')
        BY <3>2
      <4>2. KeptLinks' /\ KeptIsChain(list)'
        BY <2>2, <4>1 DEF KeptAre, KeptLinks, KeptIsChain
      <4>3. Cardinality(DOMAIN kept') = rank[target'] + 1
        BY <4>1 DEF KeptAre
      <4>4. QED
        BY <2>2, <3>2, <4>2, <4>3 DEF KeptIs
    <3>3. QED
      BY <3>1, <3>2
  <2>5. QED
    BY <2>1, <2>2, <2>3, <2>4, SameLabels
<1>4. QED
  BY <1>2, <1>3 DEF ReleaseOf

(* b_write's release of a file that needs more clusters.                   *)
LEMMA GrowBeginKeeps ==
  ASSUME TypeOK, Holding, NEW list, NEW rank, CrashGood(list, rank), GrowBegin
  PROVE  CrashIInv'
<1> DEFINE t == target
<1>1. /\ pc = "idle" /\ task = "file" /\ t \in chains \ {2} /\ ReleaseOf(t)
      /\ chains \ {t} = Recorded \ {t} /\ target' = t /\ task' = "grow"
      /\ kept' = [c \in Reach(t) |-> fatBuffer[c]]
      /\ UNCHANGED <<entries, leaked>> /\ ~Exposed
  BY DEF GrowBegin, ReleaseSingle, ReleaseBegin, ReleaseOf, Holding, Owned,
         Exposed
<1>2. KeptAre(list, rank, t, kept')
  BY <1>1, KeptAtRelease
<1>3. QED
  BY <1>1, <1>2, ReleasesKeep

(* fs_delete's release.                                                    *)
LEMMA DeleteBeginKeeps ==
  ASSUME TypeOK, Holding, NEW list, NEW rank, CrashGood(list, rank),
         NEW h \in entries, DeleteBegin(h)
  PROVE  CrashIInv'
<1>1. /\ pc = "idle" /\ task = "none" /\ h \in chains \ {2} /\ ReleaseOf(h)
      /\ chains \ {h} = Recorded \ {h} /\ target' = h /\ task' = "delete"
      /\ ~Owned /\ ~Exposed /\ kept' = <<>>
      /\ UNCHANGED <<entries, leaked>>
  BY DEF DeleteBegin, ReleaseSingle, ReleaseBegin, ReleaseOf, Holding, Owned,
         Writing, Exposed, Recorded, CrashGood, KeptIs
<1>2. QED
  BY <1>1, ReleasesKeep

(* The alloc of a new file, and of one that grows.                         *)
LEMMA AllocBeginKeeps ==
  ASSUME TypeOK, Holding, NEW list, NEW rank, CrashGood(list, rank),
         (\E n \in Requests : Create(n)) \/ GrowAlloc
  PROVE  CrashIInv'
<1>1. list \in Lists /\ rank \in Ranks /\ Good(list, rank)
      /\ firstFreeCluster \in Clusters /\ list[firstFreeCluster] = FREE
      /\ \A h \in chains : list[h] = h /\ h \in Clusters
  BY DEF CrashGood, Good, Labelled
<1>2. firstFreeCluster \notin chains /\ firstFreeCluster # 2
  BY <1>1, LabelsDiffer DEF Holding
<1>3. CASE \E n \in Requests : Create(n)
  <2>1. PICK n \in Requests : Create(n)
    BY <1>3
  <2>2. n \in Nat \ {0} /\ AllocBegin(n)
    BY <2>1, SizeAssumption DEF Create
  <2>3. TypeOK' /\ Good(list, rank)'
    BY <1>1, <2>2, AllocBegins
  <2>4. /\ task = "none" /\ task' = "file" /\ target' = firstFreeCluster
        /\ pc' = "allocWalk" /\ op' = "alloc" /\ start' = firstFreeCluster
        /\ firstFreeCluster' = firstFreeCluster /\ chains' = chains
        /\ UNCHANGED <<entries, kept, leaked>>
    BY <2>1 DEF Create, AllocBegin, memory
  <2>5. Holding'
    BY <1>1, <1>2, <2>4 DEF Holding, Recorded, Owned, Writing
  <2>6. KeptIs(list, rank)'
    BY <2>4 DEF KeptIs, CrashGood
  <2>7. QED
    BY <2>3, <2>4, <2>5, <2>6, SameLabels
<1>4. CASE GrowAlloc
  <2>1. /\ pc = "idle" /\ task = "grow" /\ AllocBegin(GrownLength)
        /\ task' = "grow" /\ target' = firstFreeCluster
        /\ pc' = "allocWalk" /\ op' = "alloc" /\ start' = firstFreeCluster
        /\ firstFreeCluster' = firstFreeCluster /\ chains' = chains
        /\ fatBuffer' = fatBuffer /\ length' = GrownLength
        /\ UNCHANGED <<entries, kept, leaked>>
    BY <1>4 DEF GrowAlloc, AllocBegin, memory
  <2>2. ~Owned /\ ~Owned' /\ target = firstFreeCluster
    BY <2>1 DEF Owned, Writing, Holding
  <2>3. KeptLinks /\ KeptIsFront(list, rank)
    BY <2>1, <2>2 DEF CrashGood, KeptIs
  <2>4. GrownLength \in Nat \ {0}
    BY <2>3, KeptSize DEF GrownLength
  <2>5. TypeOK' /\ Good(list, rank)'
    BY <1>1, <2>1, <2>4, AllocBegins
  <2>6. Holding'
    BY <1>1, <1>2, <2>1, <2>2 DEF Holding, Recorded
  <2>7. KeptIs(list, rank)'
    BY <2>1, <2>2, <2>3
       DEF KeptIs, KeptLinks, KeptIsFront, KeptIsChain, GrownLength
  <2>8. QED
    BY <2>1, <2>5, <2>6, <2>7, SameLabels
<1>5. QED
  BY <1>3, <1>4

\* The steps that touch entries and the task only.
LEMMA TaskKeeps ==
  ASSUME TypeOK, Holding, NEW list, NEW rank, CrashGood(list, rank),
         \/ \E h \in entries : OpenToWrite(h)
         \/ GrowRefused \/ Commit \/ DeleteEnd
  PROVE  CrashIInv'
<1>1. /\ list \in Lists /\ rank \in Ranks /\ Good(list, rank)
      /\ firstFreeCluster \in Clusters /\ list[firstFreeCluster] = FREE
      /\ \A h \in chains : list[h] = h /\ h \in Clusters
  BY DEF CrashGood, Good, Labelled
<1>2. UNCHANGED vars /\ pc = "idle" /\ leaked' = leaked
  BY DEF OpenToWrite, GrowRefused, Commit, DeleteEnd, Holding
<1>3. /\ pc' = "idle" /\ op' = op /\ start' = start /\ fatBuffer' = fatBuffer
      /\ firstFreeCluster' = firstFreeCluster /\ chains' = chains
      /\ pc' # "writeFat" /\ op = "none" /\ firstFreeCluster \notin chains
  BY <1>1, <1>2, LabelsDiffer DEF vars, memory, locals, Good, Control
<1>4. TypeOK' /\ Good(list, rank)'
  BY <1>1, <1>2, Stutters
<1>5. ASSUME NEW h \in entries, OpenToWrite(h)
      PROVE  Holding' /\ KeptIs(list, rank)'
  <2>1. /\ task = "none" /\ task' = "file" /\ target' = h
        /\ entries' = entries /\ kept' = kept
    BY <1>5 DEF OpenToWrite
  <2>2. QED
    BY <1>2, <1>3, <2>1
       DEF Holding, Recorded, Owned, KeptIs, CrashGood
<1>6. ASSUME GrowRefused
      PROVE  Holding' /\ KeptIs(list, rank)'
  BY <1>2, <1>3, <1>6
     DEF GrowRefused, Holding, Recorded, Owned, Writing, KeptIs, CrashGood
<1>7. ASSUME Commit
      PROVE  Holding' /\ KeptIs(list, rank)'
  <2>1. /\ task \in {"file", "refused"} /\ task' = "none" /\ target' = EOF_FLAG
        /\ kept' = <<>>
        /\ entries' = IF task = "file" THEN (entries \ {target}) \cup {target}
                                       ELSE entries \ {target}
    BY <1>7 DEF Commit, CommitEntry
  <2>2. /\ target \in Clusters \ {2} /\ chains \ {target} = Recorded \ {target}
        /\ IF task = "file" THEN target \in chains ELSE target \notin chains
    BY <1>2, <1>3, <2>1 DEF Holding, Owned, Writing
  <2>3. chains = Recorded' /\ entries' \subseteq Clusters \ {2}
    BY <2>1, <2>2 DEF Recorded, Holding
  <2>4. QED
    BY <1>3, <2>1, <2>3 DEF Holding, KeptIs
<1>8. ASSUME DeleteEnd
      PROVE  Holding' /\ KeptIs(list, rank)'
  <2>1. /\ task = "delete" /\ task' = "none" /\ target' = EOF_FLAG
        /\ kept' = <<>> /\ entries' = entries \ {target}
    BY <1>8 DEF DeleteEnd, CrashGood, KeptIs
  <2>2. /\ target \in Clusters \ {2} /\ chains \ {target} = Recorded \ {target}
        /\ target \notin chains
    BY <1>2, <1>3, <2>1 DEF Holding, Owned, Writing
  <2>3. chains = Recorded' /\ entries' \subseteq Clusters \ {2}
    BY <2>1, <2>2 DEF Recorded, Holding
  <2>4. QED
    BY <1>3, <2>1, <2>3 DEF Holding, KeptIs
<1>9. Holding' /\ KeptIs(list, rank)'
  BY <1>5, <1>6, <1>7, <1>8
<1>10. QED
  BY <1>2, <1>3, <1>4, <1>9, SameLabels

(* A mount between calls.                                                  *)
LEMMA RemountKeeps ==
  ASSUME TypeOK, Holding, NEW list, NEW rank, CrashGood(list, rank),
         task = "none", Remount, UNCHANGED dirVars
  PROVE  CrashIInv'
<1>1. TypeOK' /\ Good(list, rank)'
  BY Mounts DEF CrashGood
<1>2. /\ pc' = "count" /\ chains' = chains /\ task' = task /\ target' = target
      /\ entries' = entries /\ kept' = kept /\ leaked' = leaked
  BY DEF Remount, dirVars
<1>3. Holding' /\ KeptIs(list, rank)'
  BY <1>2 DEF Holding, Recorded, KeptIs, CrashGood
<1>4. QED
  BY <1>1, <1>2, <1>3, SameLabels

(* Nothing changes when nothing happens.                                   *)
LEMMA StutterKeeps ==
  ASSUME TypeOK, Holding, NEW list, NEW rank, CrashGood(list, rank),
         UNCHANGED crashVars
  PROVE  CrashIInv'
<1>1. UNCHANGED vars /\ UNCHANGED dirVars
  BY DEF crashVars
<1>2. TypeOK' /\ Good(list, rank)'
  BY <1>1, Stutters DEF CrashGood
<1>3. /\ UNCHANGED <<pc, op, start, length, fatBuffer, firstFreeCluster, chains>>
      /\ UNCHANGED <<diskFat, fsiNxtFree, entries, task, target, kept, leaked>>
  BY <1>1 DEF vars, dirVars, memory, disk, locals
<1>4. Holding' /\ KeptIs(list, rank)' /\ OldDisk(list)'
  BY <1>3
     DEF Holding, Recorded, Owned, Writing, KeptIs, KeptLinks, KeptIsChain,
         KeptIsFront, GrownLength, OldDisk, Exposed, Released, CrashGood
<1>5. CrashGood(list, rank)' /\ list \in Lists /\ rank \in Ranks
  BY <1>2, <1>3, <1>4 DEF CrashGood
<1>6. QED
  BY <1>2, <1>4, <1>5 DEF CrashIInv

(* Every step of a caller and every crash keep a labelling of the table in *)
(* memory, and outside of the windows one of the disk.                     *)
THEOREM CrashInvariance == CrashSpec => []CrashIInv
<1>1. CrashIInv /\ [CrashNext]_crashVars => CrashIInv'
  <2> SUFFICES ASSUME CrashIInv, [CrashNext]_crashVars PROVE CrashIInv'
    OBVIOUS
  <2>1. PICK list \in Lists, rank \in Ranks : CrashGood(list, rank)
    BY DEF CrashIInv
  <2>2. TypeOK /\ Holding
    BY DEF CrashIInv
  <2>3. CASE UNCHANGED crashVars
    BY <2>1, <2>2, <2>3, StutterKeeps
  <2>4. CASE (\E n \in Requests : Create(n)) \/ GrowAlloc
    BY <2>1, <2>2, <2>4, AllocBeginKeeps
  <2>5. CASE \/ \E h \in entries : OpenToWrite(h)
             \/ GrowRefused \/ Commit \/ DeleteEnd
    BY <2>1, <2>2, <2>5, TaskKeeps
  <2>6. CASE \E h \in entries : DeleteBegin(h)
    BY <2>1, <2>2, <2>6, DeleteBeginKeeps
  <2>7. CASE GrowBegin
    BY <2>1, <2>2, <2>7, GrowBeginKeeps
  <2>8. CASE task = "none" /\ Remount /\ UNCHANGED dirVars
    BY <2>1, <2>2, <2>8, RemountKeeps
  <2>9. CASE CrashStep
    <3>1. CASE \/ AllocWalk \/ ReleaseWalk \/ WriteFat \/ WriteBackup
               \/ CountStep \/ CountEnd
      BY <2>1, <2>2, <2>9, <3>1, WalksKeep
    <3>2. CASE AllocCut
      BY <2>1, <2>2, <2>9, <3>2, CutKeeps
    <3>3. CASE ReleaseSplice
      BY <2>1, <2>2, <2>9, <3>3, SpliceKeeps
    <3>4. CASE WriteInfo
      BY <2>1, <2>2, <2>9, <3>4, InfoKeeps
    <3>5. QED
      BY <2>9, <3>1, <3>2, <3>3, <3>4 DEF CrashStep, Step
  <2>10. CASE Crash
    BY <2>1, <2>2, <2>10, CrashKeeps
  <2>11. QED
    BY <2>3, <2>4, <2>5, <2>6, <2>7, <2>8, <2>9, <2>10 DEF CrashNext
<1>2. QED
  BY CrashBegins, <1>1, PTL DEF CrashSpec
-----------------------------------------------------------------------------
(* Types: a crash at any step, and the table it leaves to be loaded, keeps *)
(* every link and index in range (fat.c, fsInit.c).                        *)
THEOREM CrashTypeCorrect == CrashSpec => []TypeOK
<1>1. CrashIInv => TypeOK
  BY DEF CrashIInv
<1>2. QED
  BY CrashInvariance, <1>1, PTL

(* After any number of crashes no cluster in memory has two owners, for    *)
(* every size of the table (fat.c:83-168).                                 *)
THEOREM NeverCrossLinkedAgain == CrashSpec => []RecoveredNoCrossLink
<1>1. CrashIInv => RecoveredNoCrossLink
  BY GoodIsApart DEF CrashIInv, CrashGood, RecoveredNoCrossLink
<1>2. QED
  BY CrashInvariance, <1>1, PTL

(* The disk is sound at every step outside the two windows of Exposed, so  *)
(* a crash there can only leak (fat.c:112-120, directory.c:690-724,        *)
(* b_io.c:523-524).                                                        *)
THEOREM SoundAlways == CrashSpec => []SoundOutsideWindows
<1>1. CrashIInv => SoundOutsideWindows
  <2> SUFFICES ASSUME CrashIInv, ~Exposed PROVE DiskSound
    BY DEF SoundOutsideWindows
  <2>1. PICK list, rank : CrashGood(list, rank)
    BY DEF CrashIInv
  <2>2. PICK dl, dr : IsTable(diskFat, fsiNxtFree, Recorded, dl, dr)
    BY <2>1, DiskLabels DEF CrashIInv, OnDiskIs
  <2>3. QED
    BY <2>2, LabelledIsSound
<1>2. QED
  BY CrashInvariance, <1>1, PTL

(* Inside the windows it is not: the entry on disk leads into the free     *)
(* list on disk (directory.c:690-724, b_io.c:523-524).                     *)
THEOREM UnsoundInWindows == CrashSpec => [](Exposed => ~DiskSound)
<1>1. CrashIInv => (Exposed => ~DiskSound)
  BY ExposedIsUnsound DEF CrashIInv
<1>2. QED
  BY CrashInvariance, <1>1, PTL

(* What a crash costs beyond earlier losses is the chain in progress,      *)
(* outside the windows and the last writes (fat.c:113-120, 157-164).       *)
THEOREM CostIsTheChain == CrashSpec => []CrashCostsTheChain
<1>1. CrashIInv => CrashCostsTheChain
  <2> SUFFICES ASSUME CrashIInv, pc \notin {"writeBackup", "writeInfo"},
                      ~Exposed
               PROVE  Unreachable \subseteq leaked \cup
                        (IF target = EOF_FLAG THEN {} ELSE Reach(target))
    BY DEF CrashCostsTheChain
  <2>1. PICK list, rank : CrashGood(list, rank)
    BY DEF CrashIInv
  <2>2. TypeOK /\ Holding
    BY DEF CrashIInv
  <2>3. PICK dl, dr : OnDiskIs(list, dl, dr)
    BY <2>1, <2>2, DiskLabels
  <2>4. Unreachable = {c \in Clusters : dl[c] = LEAK}
    BY <2>3, LabelledIsSound DEF OnDiskIs
  <2>5. /\ Labelled(fatBuffer, firstFreeCluster, chains, list, rank)
        /\ \A h \in chains \cup {firstFreeCluster} :
             HeadOf(h, fatBuffer, firstFreeCluster, chains, list, rank)
    BY <2>1, <2>2, Table DEF CrashGood, Good, HeadOf
  <2>6. ASSUME NEW c \in Clusters, dl[c] = LEAK, c \notin leaked
        PROVE  target # EOF_FLAG /\ c \in Reach(target)
    <3>1. CASE Owned /\ list[c] = target
      <4>1. target \in chains /\ target \in Clusters
        BY <2>2, <2>6, <3>1 DEF Holding, Owned, Writing
      <4>2. list[target] = target
        BY <2>5, <4>1 DEF Labelled
      <4>3. Reach(target) = {d \in Clusters : list[d] = list[target]}
        BY <2>5, <4>1, ReachIsLabel DEF Reach
      <4>4. QED
        BY <3>1, <4>1, <4>2, <4>3, LabelsDiffer
    <3>2. CASE pc = "writeFat" /\ op = "release" /\ list[c] = FREE
      <4>1. target = firstFreeCluster /\ target \in Clusters
        BY <2>2, <3>2 DEF Holding, Owned, Writing
      <4>2. list[target] = FREE
        BY <2>5, <4>1 DEF Labelled
      <4>3. Reach(target) = {d \in Clusters : list[d] = list[target]}
        BY <2>5, <4>1, ReachIsLabel DEF Reach
      <4>4. QED
        BY <3>2, <4>1, <4>2, <4>3, LabelsDiffer
    <3>3. QED
      BY <2>3, <2>6, <3>1, <3>2 DEF OnDiskIs
  <2>7. QED
    BY <2>4, <2>6
<1>2. QED
  BY CrashInvariance, <1>1, PTL

(* A file that grew by release and alloc has all its old clusters, linked  *)
(* as they were, behind the same first one (b_io.c:523-524).               *)
THEOREM GrowthKeepsAlways == CrashSpec => []GrowthKeepsClusters
<1>1. CrashIInv => GrowthKeepsClusters
  <2> SUFFICES ASSUME CrashIInv, task = "file", pc = "idle", kept # <<>>
               PROVE  /\ target \in DOMAIN kept
                      /\ DOMAIN kept \subseteq Reach(target)
                      /\ \A c \in DOMAIN kept :
                           kept[c] # EOF_FLAG => fatBuffer[c] = kept[c]
                      /\ \A c \in DOMAIN kept : kept[c] # target
    BY DEF GrowthKeepsClusters
  <2>1. PICK list, rank : CrashGood(list, rank)
    BY DEF CrashIInv
  <2>2. KeptLinks /\ KeptIsChain(list)
    BY <2>1 DEF CrashGood, KeptIs
  <2>3. target \in chains
    BY DEF CrashIInv, Holding, Owned
  <2>4. /\ HeadOf(target, fatBuffer, firstFreeCluster, chains, list, rank)
        /\ list[target] = target
    BY <2>1, <2>3, Table DEF CrashIInv, CrashGood, Good, Labelled, HeadOf
  <2>5. Reach(target) = {c \in Clusters : list[c] = target}
    BY <2>4, ReachIsLabel DEF Reach
  <2>6. QED
    BY <2>2, <2>5 DEF KeptLinks, KeptIsChain
<1>2. QED
  BY CrashInvariance, <1>1, PTL
=============================================================================
