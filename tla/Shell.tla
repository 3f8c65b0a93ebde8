------------------------------- MODULE Shell -------------------------------
(***************************************************************************)
(* The commands of the shell that copy, move and remove files (fsshell.c), *)
(* over the calls of b_io.c: each call is a step, and so is each call on a *)
(* file of the host.  The program can be killed between any two of them.   *)
(***************************************************************************)
EXTENDS FileIO

CONSTANTS
  BUFFERLEN,       \* bytes that one turn of a loop copies, 200
  HostFiles,       \* files of the host
  HostSizes,       \* bound: their sizes at the start
  Overwrite,       \* whether the name to be written may be in use
  MaxLost          \* bound: lost chains from which on nothing more is written

ASSUME ShellAssumption ==
  /\ BUFFERLEN \in 1 .. MINBLOCKSIZE - 1
  /\ HostSizes \subseteq 0 .. MaxSize /\ HostFiles \subseteq Origins
  /\ Overwrite \in BOOLEAN /\ MaxLost \in Nat

VARIABLES
  host,            \* the bytes of the host's files
  cmd              \* the command in progress: its local variables

shellVars == <<vars, host, cmd>>

(* The calls of each command in their order.  After a write the loop goes  *)
(* back to the read while that one filled the buffer.                      *)
CopiesSwapped == <<"openSrc", "openDest", "read", "write", "closeDest", "closeSrc">>
Copies == <<"openSrc", "openDest", "read", "write", "closeSrc", "closeDest">>

Body(op) ==
  CASE op = "cp"    -> Copies
    [] op = "mv"    -> Copies \o <<"delete">>
    [] op = "cp2l"  -> <<"openSrc", "hostOpen", "read", "hostWrite", "closeSrc">>
    [] op = "cp2fs" -> <<"openDest", "hostRead", "write", "closeDest">>

Prompt == [op |-> "none"]
Doing(call) == cmd # Prompt /\ Body(cmd.op)[cmd.pc] = call

Advanced(c) == IF c.pc = Len(Body(c.op)) THEN Prompt ELSE [c EXCEPT !.pc = @ + 1]

AgainUntilFailure(readcnt) == readcnt # -1
Again(readcnt) == readcnt = BUFFERLEN

Looped(c) == IF Again(c.readcnt) THEN [c EXCEPT !.pc = @ - 1] ELSE Advanced(c)

ShellInit ==
  /\ Init
  /\ \E size \in [HostFiles -> HostSizes] :
       host = [h \in HostFiles |-> [k \in 1 .. size[h] |-> <<h, k>>]]
  /\ cmd = Prompt

-----------------------------------------------------------------------------
(* b_open with no descriptor left, or for a name that is not there, gives  *)
(* -1, which no command looks at.  b_read and b_write refuse a descriptor  *)
(* of -1; b_close does not, and the program ends in it.                    *)

OpenCall(n, mode) == IF b_getFCB = -1 THEN UNCHANGED vars ELSE b_open(n, mode)

Opened == IF b_getFCB # -1 /\ fcbArray'[b_getFCB] # CLOSED THEN b_getFCB ELSE -1

OpenSrc ==
  /\ Doing("openSrc")
  /\ OpenCall(cmd.src, "read")
  /\ cmd' = Advanced([cmd EXCEPT !.srcFd = Opened])
  /\ UNCHANGED host

OpenDest ==
  /\ Doing("openDest")
  /\ OpenCall(cmd.dest, "write")
  /\ cmd' = Advanced([cmd EXCEPT !.destFd = Opened])
  /\ UNCHANGED host

ReadSrc ==
  /\ Doing("read")
  /\ IF cmd.srcFd = -1
       THEN UNCHANGED vars /\ cmd' = Advanced([cmd EXCEPT !.readcnt = -1])
       ELSE /\ b_read(cmd.srcFd, BUFFERLEN)
            /\ cmd' = Advanced([cmd EXCEPT !.readcnt = Len(given'.bytes),
                                        !.buf = given'.bytes])
  /\ UNCHANGED host

WriteDest ==
  /\ Doing("write")
  /\ IF cmd.destFd = -1 \/ cmd.readcnt = -1 THEN UNCHANGED vars
                                            ELSE b_write(cmd.destFd, cmd.buf)
  /\ cmd' = Looped(cmd)
  /\ UNCHANGED host

(* The chains of files that have no entry yet, and those of nobody.  What  *)
(* is in memory is gone, what is on disk stays; the bytes of a chain that  *)
(* was to get its entry are nobody's from then on, as in fs_delete.        *)
Written ==
  {fcbArray[fd].DEptr.first : fd \in {x \in OpenFds : fcbArray[x].newFile = 1}}
    \ {e.first : e \in Entries}

Lost == DOMAIN chain \ ({Root} \cup {e.first : e \in Entries} \cup Written)

Gone ==
  /\ fcbArray' = [fd \in Fds |-> NULL]
  /\ blocks' = [c \in DOMAIN blocks |->
                  IF \E first \in Written : Contains(chain[first], c)
                    THEN Junk ELSE blocks[c]]
  /\ given' = NoRead
  /\ cmd' = Prompt
  /\ UNCHANGED <<alloced, dir, stray, content, host>>

CloseCall(fd) ==
  IF fd = -1 THEN Gone
             ELSE b_close(fd) /\ cmd' = Advanced(cmd) /\ UNCHANGED host

CloseSrc  == Doing("closeSrc") /\ CloseCall(cmd.srcFd)
CloseDestIfOpen ==
  /\ Doing("closeDest")
  /\ IF cmd.destFd = -1 THEN UNCHANGED vars ELSE b_close(cmd.destFd)
  /\ cmd' = Advanced(cmd)
  /\ UNCHANGED host
CloseDest == Doing("closeDest") /\ CloseCall(cmd.destFd)

\* the end of mv
DeleteSrc ==
  /\ Doing("delete")
  /\ fs_delete(cmd.src)
  /\ cmd' = Advanced(cmd)
  /\ UNCHANGED host

-----------------------------------------------------------------------------
(* open, read and write of the host; O_TRUNC empties the file. *)

HostOpen ==
  /\ Doing("hostOpen")
  /\ host' = [host EXCEPT ![cmd.dest] = <<>>]
  /\ cmd' = Advanced(cmd)
  /\ UNCHANGED vars

HostWriteWholeBuffers ==
  /\ Doing("hostWrite")
  /\ host' = IF cmd.readcnt # BUFFERLEN THEN host
                                        ELSE [host EXCEPT ![cmd.dest] = @ \o cmd.buf]
  /\ cmd' = Looped(cmd)
  /\ UNCHANGED vars
HostWrite ==
  /\ Doing("hostWrite")
  /\ host' = IF cmd.readcnt = -1 THEN host
                                 ELSE [host EXCEPT ![cmd.dest] = @ \o cmd.buf]
  /\ cmd' = Looped(cmd)
  /\ UNCHANGED vars

HostRead ==
  LET bytes == SubSeq(host[cmd.src], cmd.at + 1,
                      Lesser(cmd.at + BUFFERLEN, Len(host[cmd.src])))
  IN  /\ Doing("hostRead")
      /\ cmd' = Advanced([cmd EXCEPT !.readcnt = Len(bytes), !.buf = bytes,
                                  !.at = @ + Len(bytes)])
      /\ UNCHANGED <<vars, host>>

CommandStep ==
  \/ OpenSrc \/ OpenDest \/ ReadSrc \/ WriteDest \/ CloseSrc \/ CloseDest
  \/ DeleteSrc \/ HostOpen \/ HostWrite \/ HostRead

-----------------------------------------------------------------------------
(* At the prompt.  A command is entered when the volume has room for what  *)
(* it writes, and with Overwrite FALSE under a name that is not in use:    *)
(* what else happens is FileIO's.                                          *)

Entered(op, src, dest) ==
  /\ cmd = Prompt
  /\ cmd' = [op |-> op, src |-> src, dest |-> dest, pc |-> 1, srcFd |-> -1,
             destFd |-> -1, readcnt |-> -1, buf |-> <<>>, at |-> 0]
  /\ UNCHANGED <<vars, host>>

SizeOf(n) == IF Exists(n) THEN dir[Least(SlotsOf(n))].size ELSE 0

MayWrite(n, size) ==
  /\ Cardinality(Lost) < MaxLost
  /\ Store!Grants(free, BlocksFor(size))
  /\ Overwrite \/ ~Exists(n)

cmd_cp(m, n)    == MayWrite(n, SizeOf(m)) /\ Entered("cp", m, n)
cmd_mv(m, n)    == Exists(m) /\ MayWrite(n, SizeOf(m)) /\ Entered("mv", m, n)
cmd_cp2l(m, h)  == Entered("cp2l", m, h)
cmd_cp2fs(h, n) == MayWrite(n, Len(host[h])) /\ Entered("cp2fs", h, n)

cmd_rm(n) == cmd = Prompt /\ fs_delete(n) /\ UNCHANGED <<host, cmd>>

Exit == cmd = Prompt /\ Restart /\ UNCHANGED <<host, cmd>>

\* between two calls of a command
Kill == cmd # Prompt /\ Gone

Enter ==
  \/ \E m, n \in Files : cmd_cp(m, n) \/ cmd_mv(m, n)
  \/ \E n \in Files, h \in HostFiles : cmd_cp2l(n, h) \/ cmd_cp2fs(h, n)
  \/ \E n \in Files : cmd_rm(n)
  \/ Exit

ShellNext == ~stray /\ (Enter \/ CommandStep \/ Kill)

\* one thread: a command that was entered makes its next call
ShellSpec == ShellInit /\ [][ShellNext]_shellVars /\ WF_shellVars(CommandStep)
-----------------------------------------------------------------------------
(* What is stored is what the commands promise: a file appears under a new *)
(* name with all the bytes of its source at once or, if the program is     *)
(* killed or a b_open failed, not at all, and no other file changes with   *)
(* it (fsshell.c:263-271, 316-326, 483-490).                               *)
StoreOf(d) == [n \in {d[s].name : s \in Slots} \ {NoName} |->
                 Stored(d[CHOOSE s \in Slots : d[s].name = n])]

Abstract == INSTANCE FileStore WITH store <- StoreOf(dir), host <- host

ImplementsFileStore ==
  /\ Abstract!Init
  /\ [][\/ UNCHANGED StoreOf(dir)
        \/ \E n \in Files : \/ \E h \in HostFiles : Abstract!Import(h, n)
                            \/ \E m \in Files : Abstract!Copy(m, n)
                            \/ Abstract!Remove(n)]_shellVars

(* No command but rm loses a file: the name that mv removes has left its   *)
(* bytes under another one, also when b_open found no descriptor for the   *)
(* new name: the program then ends in b_close (fsshell.c:316-326).         *)
MoveKeepsFile ==
  [][cmd # Prompt =>
       \A s \in Slots : dir[s] # Unused /\ dir'[s] = Unused =>
         \E t \in Slots : dir'[t] # Unused /\ Stored(dir[t])' = Stored(dir[s])]_shellVars

(* When cp2l's loop ends, the file of the host is the one on the volume,   *)
(* byte for byte (fsshell.c:441-446).                                      *)
CopyOutIsWhole ==
  Doing("closeSrc") /\ cmd.op = "cp2l" /\ Exists(cmd.src) /\ cmd.srcFd # -1 =>
    host[cmd.dest] = StoreOf(dir)[cmd.src]

(* Clusters are lost only when the program is killed, and then those of    *)
(* the file that was being written: a descriptor of -1 costs none          *)
(* (fsshell.c:263-271, b_io.c:388-398).                                    *)
OnlyKillsLose ==
  [][Lost' # Lost => Kill /\ Lost' \subseteq Lost \cup Written]_shellVars

(* Every command ends: a loop's read gives less than BUFFERLEN in the end, *)
(* also on a file that ends with a full buffer and with a descriptor of -1 *)
(* (fsshell.c:265-269, 441-445, 485-489).                                  *)
CommandEnds == cmd # Prompt ~> cmd = Prompt
=============================================================================
