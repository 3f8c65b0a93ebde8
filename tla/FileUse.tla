------------------------------ MODULE FileUse ------------------------------
(***************************************************************************)
(* How the calls of b_io.c are used by a program that has several files    *)
(* open at once: a file is open once at a time, is read or written through *)
(* one descriptor, and is deleted when it is not open.  The shell's own    *)
(* commands are in Shell.                                                  *)
(***************************************************************************)
EXTENDS FileIO

CONSTANTS
  Modes,           \* "read", "create", "write", "append"
  FirstCounts,     \* sizes of the first b_write of a new file
  Counts,          \* sizes of the others
  ReadCounts,      \* sizes of b_read
  Offsets,         \* positions of b_seek
  MaxOpen,         \* bound: files that are open at once
  EmptyFiles       \* whether a new file may be closed without a b_write

ASSUME UseAssumption ==
  /\ Modes \subseteq {"read", "create", "write", "append"}
  /\ FirstCounts \subseteq Nat \ {0} /\ Counts \subseteq Nat \ {0}
  /\ ReadCounts \subseteq Nat \ {0} /\ Offsets \subseteq Nat
  /\ MaxOpen \in 1 .. MAXFCBS /\ Files \subseteq Origins
  /\ EmptyFiles \in BOOLEAN

-----------------------------------------------------------------------------
(* "create" opens for writing a file that does not exist.  What a program  *)
(* does after a stray access is not followed.  With MaxOpen = 1 nothing    *)
(* else is opened or deleted while a file is open.                         *)

NotOpen(n) == \A fd \in OpenFds : fcbArray[fd].DEptr.name # n

Open(n, mode) ==
  /\ Cardinality(OpenFds) < MaxOpen /\ NotOpen(n)
  /\ mode = "create" => ~Exists(n)
  /\ b_open(n, IF mode = "create" THEN "write" ELSE mode)

\* the bytes of a caller's buffer, each told apart by file and position
Given(f, count) == [k \in 1 .. count |-> <<f.DEptr.name, f.done + k>>]

Write(fd, count) ==
  /\ fcbArray[fd].mode # "read"
  /\ fcbArray[fd].size + count <= MaxSize
  /\ count \in IF fcbArray[fd].newFile = 0 THEN FirstCounts ELSE Counts
  /\ b_write(fd, Given(fcbArray[fd], count))

Close(fd) ==
  /\ EmptyFiles \/ fcbArray[fd].newFile = 1
  /\ b_close(fd)

Seek(fd, offset) ==
  /\ fcbArray[fd].newFile = 1 /\ offset <= fcbArray[fd].size
  /\ b_seek(fd, offset, 0)

Delete(n) ==
  /\ Cardinality(OpenFds) < MaxOpen /\ NotOpen(n)
  /\ fs_delete(n)

Next ==
  /\ ~stray
  /\ \/ \E n \in Files :
          \/ \E mode \in Modes : Open(n, mode)
          \/ Delete(n)
     \/ \E fd \in OpenFds :
          \/ \E count \in FirstCounts \cup Counts : Write(fd, count)
          \/ \E count \in ReadCounts :
               fcbArray[fd].mode = "read" /\ b_read(fd, count)
          \/ \E offset \in Offsets : Seek(fd, offset)
          \/ Close(fd)
     \/ Restart

Spec == Init /\ [][Next]_vars

-----------------------------------------------------------------------------
(* A call on one file leaves the bytes of all others as they are: what a   *)
(* closed file has stored changes only when that file is opened for        *)
(* writing or deleted (b_io.c:946-969).                                    *)
OthersUntouched ==
  [][\A s \in Slots :
       /\ dir[s] # Unused /\ dir'[s] = dir[s]
       /\ \A fd \in OpenFds : fcbArray[fd].DEptr.name = dir[s].name
                                => fcbArray[fd].mode = "read"
       => Stored(dir[s])' = Stored(dir[s])]_vars
=============================================================================
