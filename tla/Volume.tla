------------------------------- MODULE Volume -------------------------------
(***************************************************************************)
(* initFileSystem (fsInit.c): the first start of the program on a volume   *)
(* formats it, every later one mounts it, and block 0 alone tells which.   *)
(* Each write to disk is a step, and so is each iteration of the loops of  *)
(* fatInit and calculateTotFreeSpace; the program can die after any step.  *)
(***************************************************************************)
EXTENDS Integers, FiniteSets

CONSTANTS
  LastCluster,     \* lastFreeCluster, the last entry that fatInit links
  RootSize,        \* clusters of the root directory, 4
  RootBlock,       \* dataStart + 1, which a mount takes for a cluster
  Requests,        \* how many clusters are allocated at a time, once it is ready
  DiesInFormat     \* whether the program may die before it is formatted

ASSUME VolumeAssumption ==
  /\ LastCluster \in Nat /\ RootSize \in Nat \ {0}
  /\ RootSize + 2 <= LastCluster
  /\ RootBlock \in 2 .. LastCluster
  /\ Requests \subseteq Nat \ {0}
  /\ DiesInFormat \in BOOLEAN

VARIABLES
  magic, magicBackup,      \* whether blocks 0 and 6 end with 55 AA
  table, tableBackup,      \* the two tables on disk
  fsiNxtFree,              \* FSI_Nxt_Free in block 1
  rootWritten,             \* whether the root's blocks hold "." and ".."
  pc,                      \* where initFileSystem is
  fatBuffer, firstFreeCluster, totalFreeSpace, rootSize,   \* memory
  i, counter               \* the variables of the loop in progress

disk   == <<magic, magicBackup, table, tableBackup, fsiNxtFree, rootWritten>>
memory == <<fatBuffer, firstFreeCluster, totalFreeSpace, rootSize>>
locals == <<i, counter>>
vars   == <<disk, memory, pc, locals>>

EOF_FLAG    == -1
RESERVED    == 268435448                  \* 0x0ffffff8
FatEntries  == 0 .. LastCluster + 1       \* one more than fatInit links
MaxCount    == LastCluster + 2            \* bound of a count, which wraps
ZeroTable   == [c \in FatEntries |-> 0]
FormatSteps == {"writeVCB", "writeVCBBackup", "fatInit", "writeTable",
                "writeTableBackup", "allocRoot", "allocTable", "allocBackup",
                "allocInfo", "writeRoot", "writeInfo"}

\* a volume that startPartitionSystem has just made: all zero
Init ==
  /\ magic = FALSE /\ magicBackup = FALSE
  /\ table = ZeroTable /\ tableBackup = ZeroTable
  /\ fsiNxtFree = 0 /\ rootWritten = FALSE
  /\ fatBuffer = ZeroTable /\ firstFreeCluster = 0 /\ totalFreeSpace = 0
  /\ rootSize = 0
  /\ pc = "off" /\ i = 0 /\ counter = 0

-----------------------------------------------------------------------------
GoTo(from, to) == pc = from /\ pc' = to

Format ==
  /\ GoTo("off", "writeVCB") /\ ~magic
  /\ UNCHANGED <<disk, memory, locals>>

Mount ==
  /\ GoTo("off", "rootSize") /\ magic
  /\ fatBuffer' = table
  /\ firstFreeCluster' = fsiNxtFree /\ i' = RootBlock
  /\ UNCHANGED <<disk, totalFreeSpace, rootSize, counter>>

\* LBAwrite(buffer, 1, 0): the magic number is the first thing written
WriteVCB ==
  /\ GoTo("writeVCB", "writeVCBBackup") /\ magic' = TRUE
  /\ UNCHANGED <<magicBackup, table, tableBackup, fsiNxtFree, rootWritten,
                 memory, locals>>

WriteVCBBackup ==
  /\ GoTo("writeVCBBackup", "fatInit") /\ magicBackup' = TRUE
  /\ fatBuffer' = [ZeroTable EXCEPT ![0] = RESERVED, ![1] = RESERVED]
  /\ firstFreeCluster' = 2 /\ i' = 2
  /\ UNCHANGED <<magic, table, tableBackup, fsiNxtFree, rootWritten,
                 totalFreeSpace, rootSize, counter>>

\* for (i = firstFreeCluster; i < numberOfBlocks - 338; i++)
LinkShort(c) == IF c >= LastCluster - 1 THEN EOF_FLAG ELSE c + 1
Link(c) == IF c = LastCluster THEN EOF_FLAG ELSE c + 1

FatInitStep ==
  /\ pc = "fatInit" /\ i <= LastCluster
  /\ fatBuffer' = [fatBuffer EXCEPT ![i] = Link(i)]
  /\ i' = i + 1
  /\ UNCHANGED <<disk, firstFreeCluster, totalFreeSpace, rootSize, pc, counter>>

FatInitEnd ==
  /\ GoTo("fatInit", "writeTable") /\ i > LastCluster
  /\ totalFreeSpace' = LastCluster + 1 - firstFreeCluster
  /\ UNCHANGED <<disk, fatBuffer, firstFreeCluster, rootSize, locals>>

WriteTable ==
  /\ \/ GoTo("writeTable", "writeTableBackup")
     \/ GoTo("allocTable", "allocBackup")
  /\ table' = fatBuffer
  /\ UNCHANGED <<magic, magicBackup, tableBackup, fsiNxtFree, rootWritten,
                 memory, locals>>

WriteTableBackup ==
  /\ \/ GoTo("writeTableBackup", "allocRoot")
     \/ GoTo("allocBackup", "allocInfo")
  /\ tableBackup' = fatBuffer
  /\ UNCHANGED <<magic, magicBackup, table, fsiNxtFree, rootWritten,
                 memory, locals>>

\* alloc(rootSize) on the list that fatInit has made
AllocRoot ==
  /\ GoTo("allocRoot", "allocTable")
  /\ rootSize' = RootSize
  /\ firstFreeCluster' = fatBuffer[RootSize + 1]
  /\ fatBuffer' = [fatBuffer EXCEPT ![RootSize + 1] = EOF_FLAG]
  /\ totalFreeSpace' = totalFreeSpace - RootSize
  /\ UNCHANGED <<disk, locals>>

\* in alloc, and again at the end of initFileSystem
NxtFreeForgotten == 0
NxtFree == firstFreeCluster

WriteInfo ==
  /\ \/ GoTo("allocInfo", "writeRoot") /\ UNCHANGED i
     \/ GoTo("writeInfo", "count") /\ i' = firstFreeCluster
  /\ fsiNxtFree' = NxtFree
  /\ UNCHANGED <<magic, magicBackup, table, tableBackup, rootWritten, memory, counter>>

WriteRoot ==
  /\ GoTo("writeRoot", "writeInfo") /\ rootWritten' = TRUE
  /\ UNCHANGED <<magic, magicBackup, table, tableBackup, fsiNxtFree, memory, locals>>

-----------------------------------------------------------------------------
(* The two loops over the table: returnBlockSize in a mount, from          *)
(* RootBlock, and calculateTotFreeSpace.  An entry outside the table is    *)
(* far outside the program's memory, and reading it ends the program.      *)
Looping == pc \in {"rootSize", "count"}

FollowLink ==
  /\ Looping /\ i \in FatEntries /\ fatBuffer[i] # EOF_FLAG
  /\ i' = fatBuffer[i]
  /\ counter' = (counter + 1) % MaxCount
  /\ UNCHANGED <<disk, memory, pc>>

RootSizeEnd ==
  /\ GoTo("rootSize", "count") /\ i \in FatEntries /\ fatBuffer[i] = EOF_FLAG
  /\ rootSize' = counter + 1
  /\ i' = firstFreeCluster /\ counter' = 0
  /\ UNCHANGED <<disk, fatBuffer, firstFreeCluster, totalFreeSpace>>

CountEnd ==
  /\ GoTo("count", "ready") /\ i \in FatEntries /\ fatBuffer[i] = EOF_FLAG
  /\ totalFreeSpace' = counter
  /\ UNCHANGED <<disk, fatBuffer, firstFreeCluster, rootSize, locals>>

(* alloc of a file or directory between starts, with its writes, as one    *)
(* step; FatAlloc has the steps, and release.                              *)
Use(n) ==
  /\ pc = "ready" /\ n <= totalFreeSpace
  /\ LET cut == [fatBuffer EXCEPT ![firstFreeCluster + n - 1] = EOF_FLAG]
     IN  fatBuffer' = cut /\ table' = cut /\ tableBackup' = cut
  /\ firstFreeCluster' = firstFreeCluster + n
  /\ fsiNxtFree' = firstFreeCluster + n
  /\ totalFreeSpace' = totalFreeSpace - n
  /\ UNCHANGED <<magic, magicBackup, rootWritten, rootSize, pc, locals>>

Forget == /\ fatBuffer' = ZeroTable /\ firstFreeCluster' = 0
          /\ totalFreeSpace' = 0 /\ rootSize' = 0 /\ i' = 0 /\ counter' = 0

LoopDies ==
  /\ Looping /\ i \notin FatEntries
  /\ pc' = "fault"
  /\ Forget /\ UNCHANGED disk

\* the program is killed, or ends after its work
Die ==
  /\ pc # "off" /\ pc' = "off"
  /\ pc \in FormatSteps => DiesInFormat
  /\ Forget /\ UNCHANGED disk

Step ==
  \/ Format \/ Mount
  \/ WriteVCB \/ WriteVCBBackup \/ FatInitStep \/ FatInitEnd
  \/ WriteTable \/ WriteTableBackup \/ AllocRoot \/ WriteInfo \/ WriteRoot
  \/ FollowLink \/ RootSizeEnd \/ CountEnd \/ LoopDies

Next == Step \/ Die \/ \E n \in Requests : Use(n)

\* one thread, which takes its next step
Spec == Init /\ [][Next]_vars /\ WF_vars(Step)
-----------------------------------------------------------------------------
(* A start that comes to its end, by format or by mount, has a table in    *)
(* memory that is the one on disk and its copy: the root is the first      *)
(* clusters, what was allocated comes after it, every other cluster is on  *)
(* the free list, of which totalFreeSpace counts the links, whatever step  *)
(* of the format an earlier start was killed after (fsInit.c:73-191).      *)
FreeListIsSound ==
  pc = "ready" =>
    /\ table = fatBuffer /\ tableBackup = fatBuffer
    /\ fsiNxtFree = firstFreeCluster /\ firstFreeCluster >= RootSize + 2
    /\ \A c \in {RootSize + 1, firstFreeCluster - 1, LastCluster} : fatBuffer[c] = EOF_FLAG
    /\ \A c \in 2 .. RootSize \cup firstFreeCluster .. LastCluster - 1 :
         fatBuffer[c] = c + 1
    /\ totalFreeSpace = LastCluster - firstFreeCluster

(* The buffers that rootSize measures hold the root, whose entries "would  *)
(* occupy exactly 4 blocks" (fsInit.c:126, 186, directory.c:234).          *)
RootFitsBuffer == pc = "ready" => rootSize >= RootSize

(* A format comes to its end unless the program is killed, and once a      *)
(* start has come to its end, so does every later one: no kill leaves      *)
(* returnBlockSize or calculateTotFreeSpace a list without an end          *)
(* (fsInit.c:73-191, fat.c:177-203).                                       *)
LaterStartsEnd ==
  /\ pc \in FormatSteps ~> pc \in {"ready", "off"}
  /\ [](pc = "ready" => [](Looping ~> pc \in {"ready", "off"}))

(* A start comes to its end unless the program is killed: block 0 has told *)
(* rightly whether there is a table to count in (fsInit.c:71-73, 186-191). *)
StartEnds == (Looping \/ pc \in FormatSteps) ~> pc \in {"ready", "off"}
=============================================================================
