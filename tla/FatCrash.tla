------------------------------ MODULE FatCrash ------------------------------
(***************************************************************************)
(* The allocator under the operations that call it, with crashes.          *)
(*                                                                         *)
(* A chain is of use after a restart only if a directory entry on disk     *)
(* records its first cluster.  Creating a file or a directory allocates    *)
(* first and writes the entry afterwards; deleting one releases first and  *)
(* clears the entry afterwards (fs_delete, fs_rmdir); a file that grows is *)
(* released and allocated anew, one cluster longer, its old contents       *)
(* staying where they are on disk (b_write).  The shell can die between    *)
(* any two writes; initFileSystem then loads what the disk holds.          *)
(***************************************************************************)
EXTENDS FatAlloc

VARIABLES
  entries,   \* first clusters recorded in directory entries on disk
  task,      \* the operation in progress
  target,    \* the first cluster it works on
  kept,      \* history: the links of a file's chain before it was released
  leaked     \* history: the clusters earlier crashes left unreachable

dirVars   == <<entries, task, target, kept, leaked>>
crashVars == <<vars, dirVars>>

CrashInit ==
  /\ Init
  /\ entries = {}
  /\ task = "none" /\ target = EOF_FLAG
  /\ kept = <<>> /\ leaked = {}

-----------------------------------------------------------------------------
(* Creating: the first b_write of a new file, or fs_mkdir. *)

Create(n) ==
  /\ task = "none"
  /\ AllocBegin(n)
  /\ task' = "file" /\ target' = firstFreeCluster
  /\ UNCHANGED <<entries, kept, leaked>>

\* b_open of a file that exists; its entry stays on disk as it is
OpenToWrite(h) ==
  /\ task = "none" /\ pc = "idle"
  /\ task' = "file" /\ target' = h
  /\ UNCHANGED <<vars, entries, kept, leaked>>

(* b_write of more than the clusters hold: release, then alloc the old     *)
(* length plus one.                                                        *)
GrowBegin ==
  /\ task = "file" /\ target # EOF_FLAG
  /\ ReleaseSingle(target) \/ ReleaseBegin(target)
  /\ task' = "grow"
  /\ kept' = [c \in Reach(target) |-> fatBuffer[c]]
  /\ UNCHANGED <<entries, target, leaked>>

GrownLengthDelta == 1
GrownLength == Cardinality(DOMAIN kept) + 1

GrowAlloc ==
  /\ task = "grow"
  /\ AllocBegin(GrownLength)
  /\ target' = firstFreeCluster
  /\ UNCHANGED <<entries, task, kept, leaked>>

\* alloc returns -1, which becomes the file's first cluster
GrowRefused ==
  /\ task = "grow" /\ pc = "idle"
  /\ ~EnoughSpace(GrownLength)
  /\ task' = "refused" /\ kept' = <<>>
  /\ UNCHANGED <<vars, entries, target, leaked>>

\* commitDE, or the parent directory that fs_mkdir writes
CommitEntryOldStays(old, new) == entries \cup new
CommitEntry(old, new) == (entries \ {old}) \cup new

Commit ==
  /\ pc = "idle"
  /\ \/ task = "file"    /\ entries' = CommitEntry(target, {target})
     \/ task = "refused" /\ entries' = CommitEntry(target, {})
  /\ task' = "none" /\ target' = EOF_FLAG /\ kept' = <<>>
  /\ UNCHANGED <<vars, leaked>>

-----------------------------------------------------------------------------
(* fs_delete and fs_rmdir: release, then write the parent directory. *)

DeleteBegin(h) ==
  /\ task = "none"
  /\ ReleaseSingle(h) \/ ReleaseBegin(h)
  /\ task' = "delete" /\ target' = h
  /\ UNCHANGED <<entries, kept, leaked>>

DeleteEnd ==
  /\ task = "delete" /\ pc = "idle"
  /\ entries' = entries \ {target}
  /\ task' = "none" /\ target' = EOF_FLAG
  /\ UNCHANGED <<vars, kept, leaked>>

-----------------------------------------------------------------------------
(* What the disk holds: the chains it records, and the free list it would  *)
(* be given back after a crash.                                            *)

OnDisk(first) == ReachIn(diskFat, first)

Recorded == entries \cup {2}

DiskSound ==
  /\ fsiNxtFree # EOF_FLAG
  /\ \A h, k \in Recorded : h # k => OnDisk(h) \cap OnDisk(k) = {}
  /\ \A h \in Recorded : OnDisk(h) \cap OnDisk(fsiNxtFree) = {}

Unreachable ==
  Clusters \ UNION {OnDisk(h) : h \in Recorded \cup {fsiNxtFree}}

(* The shell dies and is started again.  What a volume does whose disk was *)
(* left unsound is not followed further.                                   *)
Crash ==
  /\ DiskSound
  /\ pc # "count"
  /\ task # "none" \/ pc # "idle"
  /\ fatBuffer' = diskFat
  /\ firstFreeCluster' = fsiNxtFree
  /\ totalFreeSpace' = 0
  /\ pc' = "count" /\ op' = "mount"
  /\ pointer' = fsiNxtFree
  /\ length' = 0 /\ i' = 0 /\ start' = EOF_FLAG /\ current' = EOF_FLAG
  /\ chains' = Recorded
  /\ task' = "none" /\ target' = EOF_FLAG /\ kept' = <<>>
  /\ leaked' = Unreachable
  /\ UNCHANGED <<disk, entries>>

CrashStep ==
  /\ Step
  /\ task' = IF task = "grow" /\ pc = "writeInfo" /\ op = "alloc"
               THEN "file" ELSE task
  /\ UNCHANGED <<entries, target, kept, leaked>>

CrashNext ==
  \/ \E n \in Requests : Create(n)
  \/ \E h \in entries : OpenToWrite(h) \/ DeleteBegin(h)
  \/ GrowBegin \/ GrowAlloc \/ GrowRefused \/ Commit \/ DeleteEnd
  \/ task = "none" /\ Remount /\ UNCHANGED dirVars
  \/ CrashStep
  \/ Crash

CrashSpec == CrashInit /\ [][CrashNext]_crashVars
-----------------------------------------------------------------------------
(* The time in which a directory entry on disk names clusters that the     *)
(* free list on disk also holds: from release's write of the table until   *)
(* the entry is cleared or the longer chain has been allocated.            *)
Released == ~(op = "release" /\ pc \in {"releaseWalk", "writeFat"})

Exposed ==
  /\ task \in {"delete", "grow", "refused"}
  /\ target \in entries
  /\ Released

(* Whatever the moment of a crash, outside those two windows the disk      *)
(* holds disjoint chains and a free list apart from all of them: an        *)
(* interrupted alloc, and a file not yet committed, can only leak; and the *)
(* windows are closed again by the cleared entry or the longer chain       *)
(* (fat.c:112-120, directory.c:690-724, b_io.c:523-524).                   *)
SoundOutsideWindows == ~Exposed => DiskSound

(* Growing a file by release and alloc (b_io.c:523-524) keeps its data:    *)
(* the new chain starts at the same cluster, holds every old cluster and   *)
(* follows the old links, because alloc hands out first what was released  *)
(* last.                                                                   *)
GrowthKeepsClusters ==
  task = "file" /\ pc = "idle" /\ kept # <<>> =>
    /\ target \in DOMAIN kept
    /\ DOMAIN kept \subseteq Reach(target)
    /\ \A c \in DOMAIN kept :
         kept[c] # EOF_FLAG => fatBuffer[c] = kept[c]
    /\ \A c \in DOMAIN kept : kept[c] # target

(* A crash costs at most the chain in progress: what no entry and no list  *)
(* on disk reaches is that chain or was lost to an earlier crash.  Not so  *)
(* in the last step of alloc and release, between the write of the table   *)
(* and that of FSI_Nxt_Free (fat.c:113-120,157-164).                       *)
CrashCostsTheChain ==
  pc \notin {"writeBackup", "writeInfo"} /\ ~Exposed =>
    Unreachable \subseteq leaked \cup
      (IF target = EOF_FLAG THEN {} ELSE Reach(target))

(* After any number of crashes no cluster in memory has two owners.        *)
RecoveredNoCrossLink == task # "refused" => NoCrossLink
=============================================================================
