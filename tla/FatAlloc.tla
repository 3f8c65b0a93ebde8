------------------------------ MODULE FatAlloc ------------------------------
(***************************************************************************)
(* The cluster allocator of fat.c.                                         *)
(*                                                                         *)
(* The file allocation table (FAT) is an array indexed by cluster number:  *)
(* every entry holds the next cluster of the same chain or EOF_FLAG.  A    *)
(* chain is a file, a directory or the list of free clusters; the free     *)
(* list is the chain that starts at firstFreeCluster.  alloc cuts a prefix *)
(* off the free list, release puts a whole chain back in front of it, and  *)
(* both then write the table, its backup and the FSInfo sector to disk.    *)
(*                                                                         *)
(* The program is single threaded and a call runs to its end, but its      *)
(* loops follow pointers and its disk writes are separate calls of         *)
(* LBAwrite, so one iteration of a loop and one LBAwrite are a step each.  *)
(***************************************************************************)
EXTENDS Integers, Sequences, FiniteSets

CONSTANTS LastCluster,   \* lastFreeCluster: the highest entry fatInit links
          RootSize,      \* rootSize: clusters of the root directory
          Requests       \* the lengths callers ask alloc for

ASSUME SizeAssumption ==
  /\ LastCluster \in Nat
  /\ RootSize \in Nat \ {0}
  /\ RootSize + 2 <= LastCluster
  /\ Requests \subseteq Nat \ {0}

EOF_FLAG == -1                   \* 0xffffffff, read into an int
Clusters == 2 .. LastCluster     \* entries 0 and 1 are reserved

VARIABLES
  fatBuffer,          \* the table in memory
  firstFreeCluster,   \* head of the free list
  totalFreeSpace,     \* the allocator's count of free clusters
  diskFat,            \* the table on disk
  diskFatBackup,      \* its second copy, written but never read back
  fsiNxtFree,         \* FSI_Nxt_Free in the FSInfo sector on disk
  chains,             \* first clusters handed out by alloc, not yet released
  pc, op,             \* where the running call is, and which call it is
  start, pointer, current, length, i   \* its local variables

memory == <<fatBuffer, firstFreeCluster, totalFreeSpace>>
disk   == <<diskFat, diskFatBackup, fsiNxtFree>>
locals == <<op, start, pointer, current, length, i>>
vars   == <<memory, disk, chains, pc, locals>>

nextBlock(c) == fatBuffer[c]

(***************************************************************************)
(* fatInit links all clusters into one free list; initFileSystem then      *)
(* allocates the root directory from its front and counts what is left.    *)
(***************************************************************************)
fatInit == [c \in Clusters |-> IF c = LastCluster THEN EOF_FLAG ELSE c + 1]

Init ==
  /\ fatBuffer = [fatInit EXCEPT ![RootSize + 1] = EOF_FLAG]
  /\ firstFreeCluster = RootSize + 2
  /\ totalFreeSpace = LastCluster - (RootSize + 2)
  /\ diskFat = fatBuffer /\ diskFatBackup = fatBuffer
  /\ fsiNxtFree = firstFreeCluster
  /\ chains = {2}
  /\ pc = "idle" /\ op = "none"
  /\ start = EOF_FLAG /\ pointer = EOF_FLAG /\ current = EOF_FLAG
  /\ length = 0 /\ i = 0

-----------------------------------------------------------------------------
(* int alloc(int fileLength) *)

EnoughSpaceOffByOne(fileLength) == fileLength <= totalFreeSpace + 1
EnoughSpace(fileLength) == fileLength <= totalFreeSpace

CutAfterForgotten(c) == fatBuffer
CutAfter(c) == [fatBuffer EXCEPT ![c] = EOF_FLAG]

AllocBegin(fileLength) ==
  /\ pc = "idle"
  /\ EnoughSpace(fileLength)
  /\ pc' = "allocWalk" /\ op' = "alloc"
  /\ start' = firstFreeCluster
  /\ pointer' = firstFreeCluster
  /\ length' = fileLength
  /\ i' = 0
  /\ UNCHANGED <<memory, disk, chains, current>>

AllocWalk ==
  /\ pc = "allocWalk"
  /\ i < length - 1
  /\ pointer' = nextBlock(pointer)
  /\ i' = i + 1
  /\ UNCHANGED <<memory, disk, chains, pc, op, start, current, length>>

AllocCut ==
  /\ pc = "allocWalk"
  /\ i = length - 1
  /\ firstFreeCluster' = nextBlock(pointer)
  /\ fatBuffer' = CutAfter(pointer)
  /\ totalFreeSpace' = totalFreeSpace - length
  /\ chains' = chains \cup {start}
  /\ pc' = "writeFat"
  /\ UNCHANGED <<disk, locals>>

-----------------------------------------------------------------------------
(* int release(int startingBlock): the caller passes the first cluster of  *)
(* a chain it owns; the root directory's chain is never released.          *)

FreeHead(last, first) == first

LinkToFreeForgotten(last, first) == fatBuffer
LinkToFree(last, first) == [fatBuffer EXCEPT ![last] = firstFreeCluster]

Splice(last, first) ==
  /\ fatBuffer' = LinkToFree(last, first)
  /\ firstFreeCluster' = FreeHead(last, first)
  /\ chains' = chains \ {first}
  /\ pc' = "writeFat"

ReleaseSingle(startingBlock) ==
  /\ pc = "idle"
  /\ fatBuffer[startingBlock] = EOF_FLAG
  /\ Splice(startingBlock, startingBlock)
  /\ op' = "release" /\ start' = startingBlock /\ length' = 1
  /\ UNCHANGED <<totalFreeSpace, disk, pointer, current, i>>

ReleaseBegin(startingBlock) ==
  /\ pc = "idle"
  /\ fatBuffer[startingBlock] # EOF_FLAG
  /\ pc' = "releaseWalk" /\ op' = "release"
  /\ start' = startingBlock
  /\ pointer' = startingBlock
  /\ length' = 0
  /\ UNCHANGED <<memory, disk, chains, current, i>>

ReleaseWalk ==
  /\ pc = "releaseWalk"
  /\ pointer # EOF_FLAG
  /\ current' = pointer
  /\ pointer' = nextBlock(pointer)
  /\ length' = length + 1
  /\ UNCHANGED <<memory, disk, chains, pc, op, start, i>>

ReleaseSplice ==
  /\ pc = "releaseWalk"
  /\ pointer = EOF_FLAG
  /\ Splice(current, start)
  /\ UNCHANGED <<totalFreeSpace, disk, locals>>

-----------------------------------------------------------------------------
(* The three LBAwrite calls that end alloc and release, in program order.  *)

Return ==
  /\ pc' = "idle" /\ op' = "none"
  /\ start' = EOF_FLAG /\ pointer' = EOF_FLAG /\ current' = EOF_FLAG
  /\ length' = 0 /\ i' = 0

WriteFat ==
  /\ pc = "writeFat"
  /\ diskFat' = fatBuffer
  /\ pc' = "writeBackup"
  /\ UNCHANGED <<memory, diskFatBackup, fsiNxtFree, chains, locals>>

WriteBackup ==
  /\ pc = "writeBackup"
  /\ diskFatBackup' = fatBuffer
  /\ pc' = "writeInfo"
  /\ UNCHANGED <<memory, diskFat, fsiNxtFree, chains, locals>>

\* the value of FSI_Nxt_Free that both calls write
FreeHintStale == IF op = "alloc" THEN start ELSE firstFreeCluster
FreeHint == firstFreeCluster

\* release adds the length to the counter only after its last write
TotalAfterForgotten == totalFreeSpace
TotalAfter == IF op = "release" THEN totalFreeSpace + length
                                ELSE totalFreeSpace

WriteInfo ==
  /\ pc = "writeInfo"
  /\ fsiNxtFree' = FreeHint
  /\ totalFreeSpace' = TotalAfter
  /\ Return
  /\ UNCHANGED <<fatBuffer, firstFreeCluster, diskFat, diskFatBackup, chains>>

-----------------------------------------------------------------------------
(* The shell exits and is started again: initFileSystem reads the table    *)
(* and FSI_Nxt_Free back, and calculateTotFreeSpace counts the links of    *)
(* the free list.                                                          *)

CountBound == LastCluster        \* bound of the counter on a cyclic list

Remount ==
  /\ pc = "idle"
  /\ fatBuffer' = diskFat
  /\ firstFreeCluster' = fsiNxtFree
  /\ totalFreeSpace' = 0
  /\ pc' = "count" /\ op' = "mount"
  /\ pointer' = fsiNxtFree
  /\ length' = 0
  /\ UNCHANGED <<disk, chains, start, current, i>>

CountStepStays ==
  /\ pc = "count"
  /\ fatBuffer[pointer] # EOF_FLAG
  /\ length' = IF length < CountBound THEN length + 1 ELSE length
  /\ UNCHANGED <<memory, disk, chains, pc, op, start, pointer, current, i>>

CountStep ==
  /\ pc = "count"
  /\ fatBuffer[pointer] # EOF_FLAG
  /\ pointer' = nextBlock(pointer)
  /\ length' = IF length < CountBound THEN length + 1 ELSE length
  /\ UNCHANGED <<memory, disk, chains, pc, op, start, current, i>>

CountEnd ==
  /\ pc = "count"
  /\ fatBuffer[pointer] = EOF_FLAG
  /\ totalFreeSpace' = length
  /\ Return
  /\ UNCHANGED <<fatBuffer, firstFreeCluster, disk, chains>>

-----------------------------------------------------------------------------
Releasable == chains \ {2}       \* every chain but the root directory's

Step ==                          \* the steps of a call that has begun
  \/ AllocWalk \/ AllocCut
  \/ ReleaseWalk \/ ReleaseSplice
  \/ WriteFat \/ WriteBackup \/ WriteInfo
  \/ CountStep \/ CountEnd

Next ==
  \/ \E n \in Requests : AllocBegin(n)
  \/ \E c \in Releasable : ReleaseSingle(c) \/ ReleaseBegin(c)
  \/ Remount
  \/ Step

Spec == Init /\ [][Next]_vars

\* A call that has begun runs on: nothing in the program can suspend it.
FairSpec == Spec /\ WF_vars(Step)
-----------------------------------------------------------------------------
(* What the clusters of a chain are, without following it: the smallest    *)
(* set of clusters that holds its first one and every successor.           *)
Closed(fat, S) == \A c \in S : fat[c] # EOF_FLAG => fat[c] \in S

ReachIn(fat, first) ==
  {c \in Clusters :
     \A S \in SUBSET Clusters : first \in S /\ Closed(fat, S) => c \in S}

Reach(first) == ReachIn(fatBuffer, first)

Heads == (chains \cup {firstFreeCluster}) \ {EOF_FLAG}

(* Every variable holds a value of its C type's meaningful range: links    *)
(* and heads are clusters or EOF_FLAG, counters are non-negative (fat.c).  *)
TypeOK ==
  /\ fatBuffer \in [Clusters -> Clusters \cup {EOF_FLAG}]
  /\ diskFat \in [Clusters -> Clusters \cup {EOF_FLAG}]
  /\ diskFatBackup \in [Clusters -> Clusters \cup {EOF_FLAG}]
  /\ firstFreeCluster \in Clusters \cup {EOF_FLAG}
  /\ fsiNxtFree \in Clusters \cup {EOF_FLAG}
  /\ totalFreeSpace \in Nat
  /\ chains \in SUBSET Clusters
  /\ pc \in {"idle", "allocWalk", "releaseWalk", "writeFat", "writeBackup",
             "writeInfo", "count"}
  /\ op \in {"none", "alloc", "release", "mount"}
  /\ {start, pointer, current} \subseteq Clusters \cup {EOF_FLAG}
  /\ {length, i} \subseteq Nat

(* Two chains never share a cluster, and no chain shares one with the free *)
(* list: whatever alloc and release (fat.c) are asked in whatever order,   *)
(* a cluster belongs to one owner, so a write to a file stays in the file. *)
NoCrossLink ==
  \A h, k \in Heads : h # k => Reach(h) \cap Reach(k) = {}

(* No cluster is ever lost: each one can be reached from a chain that has  *)
(* an owner or from the free list, also between the two assignments that   *)
(* cut (fat.c:100) or splice (fat.c:151) a chain.                          *)
NoClusterLost == UNION {Reach(h) : h \in Heads} = Clusters

(* alloc tests only the counter, then follows links without looking at     *)
(* them (fat.c:84-108). The counter keeps it on the free list: it never    *)
(* meets EOF_FLAG on the way, and it never leaves the list empty.          *)
AllocStaysOnFreeList ==
  /\ firstFreeCluster # EOF_FLAG
  /\ pc = "allocWalk" => pointer # EOF_FLAG /\ fatBuffer[pointer] # EOF_FLAG

(* Between calls the counter that alloc decrements and release increments  *)
(* is what calculateTotFreeSpace would count again: the number of links of *)
(* the free list, one less than its clusters.                              *)
CounterIsListLinks ==
  pc = "idle" => totalFreeSpace + 1 = Cardinality(Reach(firstFreeCluster))

(* Between calls the disk holds exactly what memory holds, so killing the  *)
(* shell at its prompt loses nothing of the table (fat.c:113-120,157-164). *)
WriteThrough ==
  pc = "idle" =>
    /\ diskFat = fatBuffer /\ diskFatBackup = fatBuffer
    /\ fsiNxtFree = firstFreeCluster

(* Every loop over the table ends: alloc, release and the count of a mount *)
(* return to their caller (fat.c:95,145,195).                              *)
CallReturns == pc # "idle" ~> pc = "idle"
-----------------------------------------------------------------------------
\* Position k of the chain that starts at c; EOF_FLAG once it has ended.
Walk(fat, c) ==
  LET w[k \in 0 .. LastCluster] ==
        IF k = 0 THEN c
        ELSE IF w[k - 1] = EOF_FLAG THEN EOF_FLAG ELSE fat[w[k - 1]]
  IN  w

\* The chain that starts at c as a sequence of clusters.
ChainSeq(fat, c) ==
  LET w == Walk(fat, c)
      n == Cardinality({k \in 0 .. LastCluster : w[k] # EOF_FLAG})
  IN  [k \in 1 .. n |-> w[k - 1]]

Abstract == INSTANCE ChainStore WITH
  Root      <- 2,
  RootChain <- [k \in 1 .. RootSize |-> k + 1],
  InitFree  <- [k \in 1 .. LastCluster - RootSize - 1 |-> k + RootSize + 1],
  free      <- ChainSeq(fatBuffer, firstFreeCluster),
  chain     <- [h \in chains |-> ChainSeq(fatBuffer, h)]

(* alloc and release, with their loops and separate assignments, do to the *)
(* table what Take and Give do to sequences: a chain keeps its clusters    *)
(* and their order until it is released, and alloc hands out the clusters  *)
(* released last, in their old order.                                      *)
ImplementsChainStore == Abstract!Spec
=============================================================================
