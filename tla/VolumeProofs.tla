---------------------------- MODULE VolumeProofs ----------------------------
(***************************************************************************)
(* What a start finds on the volume after any number of earlier starts,    *)
(* each of them killed after any of its steps.  What is on disk is always  *)
(* one of two: no first free cluster yet, as long as the format has not    *)
(* come to the write of block 1, or a sound table, its copy and the first  *)
(* cluster of its free list.                                               *)
(***************************************************************************)
EXTENDS Volume, TLAPS

(* The table t has the root first, then what was allocated, and from f on  *)
(* the free list.                                                          *)
Sound(t, f) ==
  /\ f \in RootSize + 2 .. LastCluster
  /\ \A c \in {RootSize + 1, f - 1, LastCluster} : t[c] = EOF_FLAG
  /\ \A c \in 2 .. RootSize \cup f .. LastCluster - 1 : t[c] = c + 1

(* What fatInit has linked when it comes to entry n. *)
Linked(t, n) == t[0] = RESERVED /\ \A c \in 2 .. n - 1 : t[c] = Link(c)

Types ==
  /\ table \in [FatEntries -> Int] /\ fatBuffer \in [FatEntries -> Int]
  /\ firstFreeCluster \in Int /\ counter \in Int

DiskIInv ==
  /\ table[0] \in {0, RESERVED}
  /\ fsiNxtFree # 0 => Sound(table, fsiNxtFree) /\ tableBackup = table
  /\ ~magic => fsiNxtFree = 0 /\ pc \in {"off", "writeVCB"}

FormatIInv ==
  /\ pc \in FormatSteps \cup {"off"} => counter = 0
  /\ pc \in FormatSteps \ {"writeRoot", "writeInfo"} => fsiNxtFree = 0
  /\ pc = "fatInit" => /\ firstFreeCluster = 2 /\ i \in 2 .. LastCluster + 1
                       /\ Linked(fatBuffer, i)
  /\ pc \in {"writeTable", "writeTableBackup", "allocRoot"} =>
       firstFreeCluster = 2 /\ Linked(fatBuffer, LastCluster + 1)
  /\ pc \in {"allocTable", "allocBackup", "allocInfo", "writeRoot", "writeInfo"} =>
       Sound(fatBuffer, firstFreeCluster) /\ fatBuffer[0] = RESERVED
  /\ pc \in {"allocBackup", "allocInfo", "writeRoot", "writeInfo"} => table = fatBuffer
  /\ pc \in {"allocInfo", "writeRoot", "writeInfo"} => tableBackup = fatBuffer
  /\ pc \in {"writeRoot", "writeInfo"} => fsiNxtFree = firstFreeCluster

(* A mount with no first free cluster never comes to the end of its count: *)
(* entry 0 leads to itself or, when fatInit has been there, out of memory. *)
StartIInv ==
  /\ pc \in {"rootSize", "count", "ready"} =>
       fatBuffer = table /\ firstFreeCluster = fsiNxtFree
  /\ pc = "count" /\ firstFreeCluster = 0 => i \in {0, RESERVED}
  /\ pc = "count" /\ firstFreeCluster # 0 =>
       i \in firstFreeCluster .. LastCluster /\ counter = i - firstFreeCluster
  /\ pc = "ready" => /\ firstFreeCluster # 0
                     /\ totalFreeSpace = LastCluster - firstFreeCluster

IInv == Types /\ DiskIInv /\ FormatIInv /\ StartIInv

-----------------------------------------------------------------------------
(* alloc(n) leaves a sound table sound: it cuts the free list behind its   *)
(* n-th cluster (fat.c:81-125).                                            *)
LEMMA CutKeepsSound ==
  ASSUME NEW t \in [FatEntries -> Int], NEW f, Sound(t, f),
         NEW n \in Nat, 0 < n, n <= LastCluster - f
  PROVE  Sound([t EXCEPT ![f + n - 1] = EOF_FLAG], f + n)
BY VolumeAssumption DEF Sound, FatEntries, EOF_FLAG

(* alloc of the root leaves a sound table of what fatInit has linked.      *)
LEMMA RootLeavesSound ==
  ASSUME NEW t \in [FatEntries -> Int], Linked(t, LastCluster + 1)
  PROVE  /\ t[RootSize + 1] = RootSize + 2
         /\ Sound([t EXCEPT ![RootSize + 1] = EOF_FLAG], RootSize + 2)
<1>1. \A c \in 2 .. LastCluster : t[c] = Link(c)
  BY VolumeAssumption DEF Linked
<1> QED BY <1>1, VolumeAssumption DEF Sound, FatEntries, EOF_FLAG, Link

(* The remainder of a small number is the number.                          *)
LEMMA SmallMod ==
  ASSUME NEW x \in Nat, NEW m \in Nat, x < m
  PROVE  x % m = x
OBVIOUS

-----------------------------------------------------------------------------
(* A volume that was never formatted satisfies the invariant.              *)
LEMMA InitSatisfies == Init => IInv
<1> SUFFICES ASSUME Init PROVE IInv
  OBVIOUS
<1>1. ZeroTable \in [FatEntries -> Int] /\ ZeroTable[0] = 0
  BY VolumeAssumption DEF ZeroTable, FatEntries
<1> QED
  BY <1>1 DEF Init, IInv, Types, DiskIInv, FormatIInv, StartIInv, FormatSteps

(* The writes of the format, up to the one of block 1. *)
LEMMA FormatKeeps ==
  ASSUME IInv,
         Format \/ WriteVCB \/ WriteVCBBackup \/ FatInitStep \/ FatInitEnd
  PROVE  IInv'
<1> USE DEF FormatSteps
<1>1. CASE Format
  BY <1>1 DEF Format, GoTo, disk, memory, locals, IInv, Types, DiskIInv,
     FormatIInv, StartIInv
<1>2. CASE WriteVCB
  BY <1>2 DEF WriteVCB, GoTo, memory, locals, IInv, Types, DiskIInv,
     FormatIInv, StartIInv
<1>3. CASE WriteVCBBackup
  <2>1. ZeroTable \in [FatEntries -> Int]
    BY DEF ZeroTable
  <2>2. fatBuffer' \in [FatEntries -> Int] /\ Linked(fatBuffer', 2)
    BY <1>3, <2>1, VolumeAssumption
    DEF WriteVCBBackup, Linked, FatEntries, RESERVED
  <2> QED
    BY <1>3, <2>2, VolumeAssumption
    DEF WriteVCBBackup, GoTo, memory, locals, IInv, Types, DiskIInv,
        FormatIInv, StartIInv
<1>4. CASE FatInitStep
  <2>1. fatBuffer \in [FatEntries -> Int] /\ i \in 2 .. LastCluster
        /\ Linked(fatBuffer, i)
    BY <1>4, VolumeAssumption DEF FatInitStep, IInv, Types, FormatIInv
  <2>2. Link(i) \in Int
    BY <2>1, VolumeAssumption DEF Link, EOF_FLAG
  <2>3. fatBuffer' \in [FatEntries -> Int] /\ Linked(fatBuffer', i')
    BY <1>4, <2>1, <2>2, VolumeAssumption DEF FatInitStep, Linked, FatEntries
  <2> QED
    BY <1>4, <2>1, <2>3, VolumeAssumption
    DEF FatInitStep, disk, IInv, Types, DiskIInv, FormatIInv, StartIInv
<1>5. CASE FatInitEnd
  <2>1. i = LastCluster + 1
    BY <1>5, VolumeAssumption DEF FatInitEnd, GoTo, IInv, FormatIInv
  <2> QED
    BY <1>5, <2>1 DEF FatInitEnd, GoTo, disk, locals, IInv, Types, DiskIInv,
       FormatIInv, StartIInv
<1> QED BY <1>1, <1>2, <1>3, <1>4, <1>5

(* alloc of the root, the two writes of each table and those of block 1    *)
(* and of the root.                                                        *)
LEMMA TablesKeep ==
  ASSUME IInv, WriteTable \/ WriteTableBackup \/ AllocRoot \/ WriteRoot \/ WriteInfo
  PROVE  IInv'
<1> USE DEF FormatSteps
<1>1. CASE WriteTable
  <2>1. fatBuffer[0] = RESERVED
    BY <1>1 DEF WriteTable, GoTo, IInv, FormatIInv, Linked
  <2> QED
    BY <1>1, <2>1 DEF WriteTable, GoTo, memory, locals, IInv, Types, DiskIInv,
       FormatIInv, StartIInv
<1>2. CASE WriteTableBackup
  BY <1>2 DEF WriteTableBackup, GoTo, memory, locals, IInv, Types, DiskIInv,
     FormatIInv, StartIInv
<1>3. CASE AllocRoot
  <2>1. fatBuffer \in [FatEntries -> Int] /\ Linked(fatBuffer, LastCluster + 1)
    BY <1>3 DEF AllocRoot, GoTo, IInv, Types, FormatIInv
  <2>2. firstFreeCluster' = RootSize + 2 /\ Sound(fatBuffer', RootSize + 2)
    BY <1>3, <2>1, RootLeavesSound DEF AllocRoot
  <2>3. fatBuffer' \in [FatEntries -> Int] /\ fatBuffer'[0] = RESERVED
    BY <1>3, <2>1, VolumeAssumption DEF AllocRoot, Linked, FatEntries, EOF_FLAG
  <2> QED
    BY <1>3, <2>2, <2>3, VolumeAssumption
    DEF AllocRoot, GoTo, disk, locals, IInv, Types, DiskIInv, FormatIInv, StartIInv
<1>4. CASE WriteRoot
  BY <1>4 DEF WriteRoot, GoTo, memory, locals, IInv, Types, DiskIInv,
     FormatIInv, StartIInv
<1>5. CASE WriteInfo
  <2>1. Sound(fatBuffer, firstFreeCluster) /\ table = fatBuffer
        /\ tableBackup = fatBuffer /\ counter = 0
    BY <1>5 DEF WriteInfo, GoTo, IInv, FormatIInv
  <2>2. firstFreeCluster \in 1 .. LastCluster
    BY <2>1, VolumeAssumption DEF Sound
  <2> QED
    BY <1>5, <2>1, <2>2
    DEF WriteInfo, GoTo, NxtFree, memory, IInv, Types, DiskIInv, FormatIInv, StartIInv
<1> QED BY <1>1, <1>2, <1>3, <1>4, <1>5

(* A mount, its two loops, and what alloc does once it is ready.           *)
LEMMA StartKeeps ==
  ASSUME LastCluster + 1 < RESERVED, IInv,
         Mount \/ FollowLink \/ RootSizeEnd \/ CountEnd \/ \E n \in Requests : Use(n)
  PROVE  IInv'
<1> USE DEF FormatSteps
<1>1. CASE Mount
  <2>1. fsiNxtFree \in Int
    BY VolumeAssumption DEF IInv, DiskIInv, Sound
  <2> QED
    BY <1>1, <2>1 DEF Mount, GoTo, disk, IInv, Types, DiskIInv, FormatIInv, StartIInv
<1>2. CASE FollowLink
  <2>1. fatBuffer = table /\ firstFreeCluster = fsiNxtFree
        /\ i \in FatEntries /\ fatBuffer[i] # EOF_FLAG
        /\ counter' = (counter + 1) % MaxCount /\ i' = fatBuffer[i]
    BY <1>2 DEF FollowLink, Looping, IInv, StartIInv
  <2>2. counter' \in Int
    BY <2>1, VolumeAssumption DEF MaxCount, IInv, Types
  <2>3. CASE pc = "rootSize"
    BY <1>2, <2>2, <2>3
    DEF FollowLink, disk, memory, IInv, Types, DiskIInv, FormatIInv, StartIInv
  <2>4. CASE pc = "count" /\ firstFreeCluster = 0
    <3>1. i = 0
      BY <2>1, <2>4, VolumeAssumption DEF FatEntries, RESERVED, IInv, StartIInv
    <3>2. i' \in {0, RESERVED}
      BY <2>1, <3>1 DEF IInv, DiskIInv
    <3> QED
      BY <1>2, <2>2, <2>4, <3>2
      DEF FollowLink, disk, memory, IInv, Types, DiskIInv, FormatIInv, StartIInv
  <2>5. CASE pc = "count" /\ firstFreeCluster # 0
    <3>1. Sound(fatBuffer, firstFreeCluster)
          /\ i \in firstFreeCluster .. LastCluster /\ counter = i - firstFreeCluster
      BY <2>1, <2>5 DEF IInv, DiskIInv, StartIInv
    <3>2. i # LastCluster /\ firstFreeCluster \in Int /\ firstFreeCluster > 0
      BY <2>1, <3>1, VolumeAssumption DEF Sound
    <3>3. i \in firstFreeCluster .. LastCluster - 1 /\ i' = i + 1
      BY <2>1, <3>1, <3>2, VolumeAssumption DEF Sound
    <3>4. counter + 1 \in Nat /\ MaxCount \in Nat /\ counter + 1 < MaxCount
      BY <3>1, <3>2, <3>3, VolumeAssumption DEF MaxCount
    <3>5. counter' = i' - firstFreeCluster
      BY <2>1, <3>1, <3>2, <3>3, <3>4, SmallMod
    <3>6. i' \in firstFreeCluster .. LastCluster
      BY <3>2, <3>3, VolumeAssumption
    <3> QED
      BY <1>2, <2>2, <2>5, <3>5, <3>6
      DEF FollowLink, disk, memory, IInv, Types, DiskIInv, FormatIInv, StartIInv
  <2> QED BY <1>2, <2>3, <2>4, <2>5 DEF FollowLink, Looping
<1>3. CASE RootSizeEnd
  <2>1. firstFreeCluster = fsiNxtFree /\ fatBuffer = table
    BY <1>3 DEF RootSizeEnd, GoTo, IInv, StartIInv
  <2>2. firstFreeCluster # 0 =>
          firstFreeCluster \in firstFreeCluster .. LastCluster
          /\ 0 = firstFreeCluster - firstFreeCluster
    BY <2>1, VolumeAssumption DEF IInv, DiskIInv, Sound
  <2> QED
    BY <1>3, <2>1, <2>2
    DEF RootSizeEnd, GoTo, disk, IInv, Types, DiskIInv, FormatIInv, StartIInv
<1>4. CASE CountEnd
  <2>1. fatBuffer = table /\ firstFreeCluster = fsiNxtFree
        /\ i \in FatEntries /\ fatBuffer[i] = EOF_FLAG /\ pc = "count"
    BY <1>4 DEF CountEnd, GoTo, IInv, StartIInv
  <2>2. firstFreeCluster # 0
    <3> SUFFICES ASSUME firstFreeCluster = 0 PROVE FALSE
      OBVIOUS
    <3>1. i = 0
      BY <2>1, VolumeAssumption DEF FatEntries, RESERVED, IInv, StartIInv
    <3> QED BY <2>1, <3>1 DEF EOF_FLAG, RESERVED, IInv, DiskIInv
  <2>3. Sound(fatBuffer, firstFreeCluster) /\ i \in firstFreeCluster .. LastCluster
        /\ counter = i - firstFreeCluster
    BY <2>1, <2>2 DEF IInv, DiskIInv, StartIInv
  <2>4. i = LastCluster
    BY <2>1, <2>3, VolumeAssumption DEF Sound, EOF_FLAG
  <2> QED
    BY <1>4, <2>2, <2>3, <2>4
    DEF CountEnd, GoTo, disk, locals, IInv, Types, DiskIInv, FormatIInv, StartIInv
<1>5. ASSUME NEW n \in Requests, Use(n)
      PROVE  IInv'
  <2>1. fatBuffer = table /\ firstFreeCluster = fsiNxtFree /\ firstFreeCluster # 0
        /\ totalFreeSpace = LastCluster - firstFreeCluster /\ pc = "ready"
    BY <1>5 DEF Use, IInv, StartIInv
  <2>2. Sound(fatBuffer, firstFreeCluster) /\ fatBuffer \in [FatEntries -> Int]
    BY <2>1 DEF IInv, Types, DiskIInv
  <2>3. n \in Nat /\ 0 < n /\ n <= LastCluster - firstFreeCluster
    BY <1>5, <2>1, VolumeAssumption DEF Use
  <2>4. fatBuffer' = [fatBuffer EXCEPT ![firstFreeCluster + n - 1] = EOF_FLAG]
        /\ table' = fatBuffer' /\ tableBackup' = fatBuffer'
        /\ firstFreeCluster' = firstFreeCluster + n
        /\ fsiNxtFree' = firstFreeCluster + n
        /\ totalFreeSpace' = totalFreeSpace - n
        /\ pc' = pc /\ magic' = magic /\ counter' = counter
    BY <1>5 DEF Use, locals
  <2>5. Sound(fatBuffer', firstFreeCluster')
    BY <2>2, <2>3, <2>4, CutKeepsSound
  <2>6. firstFreeCluster \in RootSize + 2 .. LastCluster
    BY <2>2 DEF Sound
  <2>7. fatBuffer' \in [FatEntries -> Int] /\ fatBuffer'[0] = fatBuffer[0]
        /\ firstFreeCluster' \in Int /\ firstFreeCluster' # 0
        /\ totalFreeSpace' = LastCluster - firstFreeCluster'
    BY <2>1, <2>2, <2>3, <2>4, <2>6, VolumeAssumption DEF FatEntries, EOF_FLAG
  <2> QED
    BY <2>1, <2>4, <2>5, <2>7
    DEF IInv, Types, DiskIInv, FormatIInv, StartIInv
<1> QED BY <1>1, <1>2, <1>3, <1>4, <1>5

(* A start that ends, at whatever step, leaves the disk as it was.         *)
LEMMA EndKeeps ==
  ASSUME IInv, LoopDies \/ Die \/ UNCHANGED vars
  PROVE  IInv'
<1> USE DEF FormatSteps
<1>1. ZeroTable \in [FatEntries -> Int]
  BY DEF ZeroTable
<1>2. CASE LoopDies
  <2>1. magic
    BY <1>2 DEF LoopDies, Looping, IInv, DiskIInv
  <2> QED
    BY <1>1, <1>2, <2>1 DEF LoopDies, Forget, disk, IInv, Types, DiskIInv,
       FormatIInv, StartIInv
<1>3. CASE Die
  BY <1>1, <1>3 DEF Die, Forget, disk, IInv, Types, DiskIInv, FormatIInv, StartIInv
<1>4. CASE UNCHANGED vars
  BY <1>4 DEF vars, disk, memory, locals, IInv, Types, DiskIInv, FormatIInv,
     StartIInv, Sound, Linked
<1> QED BY <1>2, <1>3, <1>4

(* In every start that has come to its end, the free list in memory and on *)
(* disk is sound and totalFreeSpace counts it, for every volume with fewer *)
(* entries than the number that entry 0 holds.                             *)
THEOREM StartsFindFreeList ==
  ASSUME LastCluster + 1 < RESERVED
  PROVE  Spec => []FreeListIsSound
<1>1. IInv /\ [Next]_vars => IInv'
  BY FormatKeeps, TablesKeep, StartKeeps, EndKeeps DEF Next, Step
<1>2. IInv => FreeListIsSound
  <2> SUFFICES ASSUME IInv, pc = "ready"
               PROVE  FreeListIsSound
    BY DEF FreeListIsSound
  <2>1. fatBuffer = table /\ firstFreeCluster = fsiNxtFree
        /\ totalFreeSpace = LastCluster - firstFreeCluster
        /\ Sound(table, fsiNxtFree) /\ tableBackup = table
    BY DEF IInv, DiskIInv, StartIInv
  <2> QED BY <2>1, VolumeAssumption DEF Sound, FreeListIsSound
<1> QED BY <1>1, <1>2, InitSatisfies, PTL DEF Spec
=============================================================================
