--------------------------- MODULE DirectoryCrash ---------------------------
(***************************************************************************)
(* The calls of Directory in the order in which they write: alloc and      *)
(* release with the table, the block of the parent that has the entry, and *)
(* the blocks of a new directory.  The shell can die between any two.      *)
(* FatCrash has the writes of the table; here they are one.                *)
(***************************************************************************)
EXTENDS Directory

CONSTANT RootStart    \* rootStart as initFileSystem computes it on a mount

ASSUME CrashAssumption == RootStart \in Nat

VARIABLE task      \* the call in progress and what it still writes

crashVars == <<vars, task>>

Idle == [op |-> "none"]

CrashInit == Init /\ task = Idle

Begin(op, d, i, e) == task' = [op |-> op, dir |-> d, index |-> i, entry |-> e]

-----------------------------------------------------------------------------
(* fs_mkdir: alloc, then the parent, then the new directory.  Without an   *)
(* unused entry in the parent positionIndex stays -1: the parent is        *)
(* written as it was, and the program aborts at the end.                   *)

PositionIndexFromStart(d) == IF UnusedSlots(d) = {} THEN 1 ELSE FirstUnused(d)
PositionIndex(d) == IF UnusedSlots(d) = {} THEN -1 ELSE FirstUnused(d)

MkdirAlloc(p) ==
  LET h == Parsed(p)
  IN  /\ task = Idle /\ h.index = -1
      /\ Allocated(DirClusters)
      /\ Begin("mkdir", h.parent, PositionIndex(h.parent),
               Entry(Last(p.comps), Alloc(DirClusters), TRUE))
      /\ UNCHANGED <<dirs, currentDir, rootStart>>

WrittenParent ==
  IF task.index = -1 THEN dirs ELSE WithEntry(task.dir, task.index, task.entry)

MkdirParent ==
  /\ task.op = "mkdir"
  /\ dirs' = WrittenParent
  /\ task' = [task EXCEPT !.op = "mkdirBlocks"]
  /\ UNCHANGED <<alloced, currentDir, rootStart>>

\* initFileSystem of the next start
Started == currentDir' = <<>> /\ rootStart' = RootStart

MkdirBlocks ==
  /\ task.op = "mkdirBlocks"
  /\ dirs' = WithDirectory(dirs, task.dir, task.entry.first)
  /\ task' = Idle
  /\ IF task.index = -1 THEN Started ELSE UNCHANGED <<currentDir, rootStart>>
  /\ UNCHANGED alloced

-----------------------------------------------------------------------------
(* fs_rmdir and fs_delete: release, then the parent. *)

RmdirRelease(p) ==
  LET h == Parsed(p)
  IN  /\ task = Idle /\ MayRemove(h)
      /\ Released(dirs[h.element.first].self)
      /\ Begin("remove", h.parent, h.index, h.element)
      /\ UNCHANGED <<dirs, currentDir, rootStart>>

DeleteRelease(p) ==
  LET h == Parsed(p)
  IN  /\ task = Idle /\ h.index > 0 /\ ~h.element.isDir
      /\ Released(h.element.first)
      /\ Begin("remove", h.parent, h.index, h.element)
      /\ UNCHANGED <<dirs, currentDir, rootStart>>

RemoveParent ==
  /\ task.op = "remove"
  /\ dirs' = Restrict(Cleared(task.dir, task.index),
                      DOMAIN dirs \ {task.entry.first})
  /\ task' = Idle
  /\ UNCHANGED <<alloced, currentDir, rootStart>>

-----------------------------------------------------------------------------
(* A new file: alloc in its first b_write, the parent in b_close. *)

FileAlloc(p) ==
  LET h == Parsed(p)
  IN  /\ task = Idle /\ h.index = -1 /\ UnusedSlots(h.parent) # {}
      /\ Store!Grants(free, 1) /\ Allocated(1)
      /\ Begin("file", h.parent, FirstUnused(h.parent),
               Entry(Last(p.comps), Alloc(1), FALSE))
      /\ UNCHANGED <<dirs, currentDir, rootStart>>

FileParent ==
  /\ task.op = "file"
  /\ dirs' = WrittenParent
  /\ task' = Idle
  /\ UNCHANGED <<alloced, currentDir, rootStart>>

-----------------------------------------------------------------------------
(* The times in which an entry on disk leads to a directory that was not   *)
(* written, or to clusters that are free.  What becomes of a volume that   *)
(* the shell leaves then is not followed.                                  *)
Exposed == task.op = "remove" \/ (task.op = "mkdirBlocks" /\ task.index # -1)

\* the shell dies, or ends, and is started again
CrashRestart == ~Exposed /\ Started /\ task' = Idle /\ UNCHANGED <<alloced, dirs>>

Room(p) == Cardinality(Used) < MaxEntries /\ Len(FullPath(p)) <= MaxDepth

CrashNext ==
  \/ \E p \in Paths :
       \/ Room(p) /\ (NeverRefused => Store!Grants(free, DirClusters)) /\ MkdirAlloc(p)
       \/ Room(p) /\ FileAlloc(p)
       \/ RmdirRelease(p) \/ DeleteRelease(p)
       \/ task = Idle /\ CallSetcwd(p) /\ UNCHANGED task
  \/ MkdirParent \/ MkdirBlocks \/ RemoveParent \/ FileParent
  \/ CrashRestart

CrashSpec == CrashInit /\ [][CrashNext]_crashVars
-----------------------------------------------------------------------------
(* Whatever the moment of a crash outside those times, every entry on disk *)
(* names a chain of its own that is not free, and leads to a directory     *)
(* that is written; what was interrupted is as if it had not begun         *)
(* (directory.c:545-598, 690-722).                                         *)
SoundWhenLeft == ~Exposed => TreeIsSound

(* Clusters are lost only when the shell dies with a chain that has no     *)
(* entry yet, or aborts in a full directory, and then just these clusters; *)
(* a call that returns has lost none (directory.c:523-598).                *)
Unnamed   == DOMAIN chain \ ({Root} \cup {x[2].first : x \in Entries})
Creating  == task.op \in {"mkdir", "mkdirBlocks", "file"}
Committed == Unnamed \ (IF Creating THEN {task.entry.first} ELSE {})

OnlyDeathLoses ==
  [][Committed' # Committed =>
       /\ Creating /\ task' = Idle /\ currentDir' = <<>>
       /\ Committed' = Committed \cup {task.entry.first}]_crashVars
=============================================================================
