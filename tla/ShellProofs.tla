---------------------------- MODULE ShellProofs -----------------------------
(***************************************************************************)
(* Theorems about the shell's commands, entered in any order, with any     *)
(* files and sizes, killed between any two of their calls, and with any    *)
(* descriptor that b_open does not give.  What each call does to a file is *)
(* FileIOProofs's; here is what the calls of a command make together.      *)
(***************************************************************************)
EXTENDS Shell, FileIOProofs

-----------------------------------------------------------------------------
(* The calls of a command and their order.                                 *)
Ops == {"cp", "mv", "cp2l", "cp2fs"}

CallOf(c) == Body(c.op)[c.pc]
Call == CallOf(cmd)

Command ==
  [op : Ops, src : Files \cup HostFiles, dest : Files \cup HostFiles, pc : Nat,
   srcFd : Fds \cup {-1}, destFd : Fds \cup {-1}, readcnt : -1 .. BUFFERLEN,
   buf : Seq(Byte), at : Nat]

\* the call after the given one, when it does not loop
NextCall(op, call) ==
  CASE call = "openSrc"   -> IF op = "cp2l" THEN "hostOpen" ELSE "openDest"
    [] call = "openDest"  -> IF op = "cp2fs" THEN "hostRead" ELSE "read"
    [] call = "hostOpen"  -> "read"
    [] call = "read"      -> IF op = "cp2l" THEN "hostWrite" ELSE "write"
    [] call = "hostRead"  -> "write"
    [] call = "hostWrite" -> "closeSrc"
    [] call = "write"     -> IF op = "cp2fs" THEN "closeDest" ELSE "closeSrc"
    [] call = "closeSrc"  -> IF op = "cp2l" THEN "end" ELSE "closeDest"
    [] call = "closeDest" -> IF op = "mv" THEN "delete" ELSE "end"
    [] call = "delete"    -> "end"

CallsOf(op) ==
  CASE op = "cp"    -> {"openSrc", "openDest", "read", "write", "closeSrc", "closeDest"}
    [] op = "mv"    -> {"openSrc", "openDest", "read", "write", "closeSrc", "closeDest", "delete"}
    [] op = "cp2l"  -> {"openSrc", "hostOpen", "read", "hostWrite", "closeSrc"}
    [] op = "cp2fs" -> {"openDest", "hostRead", "write", "closeDest"}

(* Sequences of calls, one after the other.                                *)
LEMMA SeqsJoin ==
  ASSUME NEW T, NEW s \in Seq(T), NEW t \in Seq(T), NEW m, m = Len(s), NEW n, n = Len(t)
  PROVE  /\ s \o t \in Seq(T) /\ Len(s \o t) = m + n
         /\ \A k \in 1 .. m : (s \o t)[k] = s[k]
         /\ \A k \in 1 .. n : (s \o t)[m + k] = t[k]
  OBVIOUS

Calls == {"openSrc", "openDest", "read", "write", "closeSrc", "closeDest", "delete"}

(* mv makes the calls of cp and one more.                                  *)
LEMMA MoveCalls ==
  /\ Len(Copies \o <<"delete">>) = 7 /\ DOMAIN (Copies \o <<"delete">>) = 1 .. 7
  /\ \A k \in 1 .. 6 : (Copies \o <<"delete">>)[k] = Copies[k]
  /\ (Copies \o <<"delete">>)[7] = "delete"
<1> DEFINE t == <<"delete">>
           m == Len(Copies)
           n == Len(t)
           j == Copies \o t
<1>1. Copies \in Seq(Calls) /\ t \in Seq(Calls) /\ t[1] = "delete"
  BY DEF Copies, Calls
<1>2. m = 6 /\ n = 1
  BY DEF Copies
<1> HIDE DEF t, m, n
<1>3. /\ j \in Seq(Calls) /\ Len(j) = m + n
      /\ \A k \in 1 .. m : j[k] = Copies[k]
      /\ \A k \in 1 .. n : j[m + k] = t[k]
  BY <1>1, SeqsJoin DEF m, n
<1> HIDE DEF j
<1>4. Len(j) = 7 /\ (\A k \in 1 .. 6 : j[k] = Copies[k]) /\ j[7] = t[1]
  <2>1. Len(j) = 7
    BY <1>2, <1>3
  <2>2. \A k \in 1 .. 6 : j[k] = Copies[k]
    BY <1>2, <1>3
  <2>3. j[m + 1] = t[1]
    BY <1>2, <1>3
  <2>4. m + 1 = 7
    BY <1>2
  <2> QED BY <2>1, <2>2, <2>3, <2>4
<1>5. DOMAIN j = 1 .. 7
  <2>1. j \in Seq(Calls) /\ Len(j) = 7
    BY <1>3, <1>4
  <2> QED BY <2>1
<1> QED BY <1>1, <1>4, <1>5 DEF j, t

(* The next call, case by case.                                            *)
LEMMA NextIs ==
  ASSUME NEW op
  PROVE  /\ NextCall(op, "openSrc") = IF op = "cp2l" THEN "hostOpen" ELSE "openDest"
         /\ NextCall(op, "openDest") = IF op = "cp2fs" THEN "hostRead" ELSE "read"
         /\ NextCall(op, "hostOpen") = "read"
         /\ NextCall(op, "read") = IF op = "cp2l" THEN "hostWrite" ELSE "write"
         /\ NextCall(op, "hostRead") = "write"
         /\ NextCall(op, "hostWrite") = "closeSrc"
         /\ NextCall(op, "write") = IF op = "cp2fs" THEN "closeDest" ELSE "closeSrc"
         /\ NextCall(op, "closeSrc") = IF op = "cp2l" THEN "end" ELSE "closeDest"
         /\ NextCall(op, "closeDest") = IF op = "mv" THEN "delete" ELSE "end"
         /\ NextCall(op, "delete") = "end"
  BY DEF NextCall

(* The calls as the table has them: which one is the pc-th, and which one  *)
(* is after it.                                                            *)
LEMMA Table ==
  ASSUME NEW op \in Ops, NEW pc \in DOMAIN Body(op)
  PROVE  /\ Len(Body(op)) \in Nat /\ DOMAIN Body(op) = 1 .. Len(Body(op))
         /\ Body(op)[pc] \in CallsOf(op)
         /\ pc = Len(Body(op)) <=> NextCall(op, Body(op)[pc]) = "end"
         /\ pc # Len(Body(op)) => Body(op)[pc + 1] = NextCall(op, Body(op)[pc])
         /\ Body(op)[pc] \in {"write", "hostWrite"} =>
              pc > 1 /\ Body(op)[pc - 1] = IF op = "cp2fs" THEN "hostRead" ELSE "read"
<1>1. CASE op = "cp"
  <2>1. Body(op) = Copies
    BY <1>1 DEF Body
  <2>2. pc \in 1 .. 6 /\ Len(Copies) = 6 /\ DOMAIN Copies = 1 .. 6
    BY <2>1 DEF Copies
  <2>3. /\ Copies[1] = "openSrc" /\ Copies[2] = "openDest" /\ Copies[3] = "read"
        /\ Copies[4] = "write" /\ Copies[5] = "closeSrc" /\ Copies[6] = "closeDest"
    BY DEF Copies
  <2>4. pc \in {1, 2, 3, 4, 5, 6}
    BY <2>2
  <2>11. CASE pc = 1
    BY <1>1, <2>1, <2>2, <2>3, <2>11, NextIs DEF CallsOf
  <2>12. CASE pc = 2
    BY <1>1, <2>1, <2>2, <2>3, <2>12, NextIs DEF CallsOf
  <2>13. CASE pc = 3
    BY <1>1, <2>1, <2>2, <2>3, <2>13, NextIs DEF CallsOf
  <2>14. CASE pc = 4
    BY <1>1, <2>1, <2>2, <2>3, <2>14, NextIs DEF CallsOf
  <2>15. CASE pc = 5
    BY <1>1, <2>1, <2>2, <2>3, <2>15, NextIs DEF CallsOf
  <2>16. CASE pc = 6
    BY <1>1, <2>1, <2>2, <2>3, <2>16, NextIs DEF CallsOf
  <2> QED BY <2>4, <2>11, <2>12, <2>13, <2>14, <2>15, <2>16
<1>2. CASE op = "mv"
  <2>1. Body(op) = Copies \o <<"delete">>
    BY <1>2 DEF Body
  <2>3. Len(Body(op)) = 7 /\ DOMAIN Body(op) = 1 .. 7
    BY <2>1, MoveCalls
  <2>4. (\A k \in 1 .. 6 : Body(op)[k] = Copies[k]) /\ Body(op)[7] = "delete"
    BY <2>1, MoveCalls
  <2>5. /\ Copies[1] = "openSrc" /\ Copies[2] = "openDest" /\ Copies[3] = "read"
        /\ Copies[4] = "write" /\ Copies[5] = "closeSrc" /\ Copies[6] = "closeDest"
    BY DEF Copies
  <2>6. /\ Body(op)[1] = "openSrc" /\ Body(op)[2] = "openDest" /\ Body(op)[3] = "read"
        /\ Body(op)[4] = "write" /\ Body(op)[5] = "closeSrc" /\ Body(op)[6] = "closeDest"
        /\ Body(op)[7] = "delete"
    BY <2>4, <2>5
  <2>7. pc \in {1, 2, 3, 4, 5, 6, 7}
    BY <2>3
  <2>11. CASE pc = 1
    BY <1>2, <2>3, <2>6, <2>11, NextIs DEF CallsOf
  <2>12. CASE pc = 2
    BY <1>2, <2>3, <2>6, <2>12, NextIs DEF CallsOf
  <2>13. CASE pc = 3
    BY <1>2, <2>3, <2>6, <2>13, NextIs DEF CallsOf
  <2>14. CASE pc = 4
    BY <1>2, <2>3, <2>6, <2>14, NextIs DEF CallsOf
  <2>15. CASE pc = 5
    BY <1>2, <2>3, <2>6, <2>15, NextIs DEF CallsOf
  <2>16. CASE pc = 6
    BY <1>2, <2>3, <2>6, <2>16, NextIs DEF CallsOf
  <2>17. CASE pc = 7
    BY <1>2, <2>3, <2>6, <2>17, NextIs DEF CallsOf
  <2> QED BY <2>7, <2>11, <2>12, <2>13, <2>14, <2>15, <2>16, <2>17
<1>3. CASE op = "cp2l"
  <2>1. Body(op) = <<"openSrc", "hostOpen", "read", "hostWrite", "closeSrc">>
    BY <1>3 DEF Body
  <2>2. pc \in {1, 2, 3, 4, 5} /\ Len(Body(op)) = 5 /\ DOMAIN Body(op) = 1 .. 5
    BY <2>1
  <2>3. /\ Body(op)[1] = "openSrc" /\ Body(op)[2] = "hostOpen" /\ Body(op)[3] = "read"
        /\ Body(op)[4] = "hostWrite" /\ Body(op)[5] = "closeSrc"
    BY <2>1
  <2>11. CASE pc = 1
    BY <1>3, <2>2, <2>3, <2>11, NextIs DEF CallsOf
  <2>12. CASE pc = 2
    BY <1>3, <2>2, <2>3, <2>12, NextIs DEF CallsOf
  <2>13. CASE pc = 3
    BY <1>3, <2>2, <2>3, <2>13, NextIs DEF CallsOf
  <2>14. CASE pc = 4
    BY <1>3, <2>2, <2>3, <2>14, NextIs DEF CallsOf
  <2>15. CASE pc = 5
    BY <1>3, <2>2, <2>3, <2>15, NextIs DEF CallsOf
  <2> QED BY <2>2, <2>11, <2>12, <2>13, <2>14, <2>15
<1>4. CASE op = "cp2fs"
  <2>1. Body(op) = <<"openDest", "hostRead", "write", "closeDest">>
    BY <1>4 DEF Body
  <2>2. pc \in {1, 2, 3, 4} /\ Len(Body(op)) = 4 /\ DOMAIN Body(op) = 1 .. 4
    BY <2>1
  <2>3. /\ Body(op)[1] = "openDest" /\ Body(op)[2] = "hostRead" /\ Body(op)[3] = "write"
        /\ Body(op)[4] = "closeDest"
    BY <2>1
  <2>11. CASE pc = 1
    BY <1>4, <2>2, <2>3, <2>11, NextIs DEF CallsOf
  <2>12. CASE pc = 2
    BY <1>4, <2>2, <2>3, <2>12, NextIs DEF CallsOf
  <2>13. CASE pc = 3
    BY <1>4, <2>2, <2>3, <2>13, NextIs DEF CallsOf
  <2>14. CASE pc = 4
    BY <1>4, <2>2, <2>3, <2>14, NextIs DEF CallsOf
  <2> QED BY <2>2, <2>11, <2>12, <2>13, <2>14
<1> QED BY <1>1, <1>2, <1>3, <1>4 DEF Ops

CmdOK(c) ==
  /\ c \in Command /\ c.pc \in DOMAIN Body(c.op)
  /\ c.src \in IF c.op = "cp2fs" THEN HostFiles ELSE Files
  /\ c.dest \in IF c.op = "cp2l" THEN HostFiles ELSE Files

\* the command goes on with the given call
At(c, call) == CmdOK(c) /\ CallOf(c) = call

(* A command that is entered is not the prompt.                            *)
LEMMA CommandIs ==
  ASSUME NEW c, CmdOK(c)
  PROVE  c # Prompt /\ c \in Command /\ CallOf(c) \in CallsOf(c.op) /\ c.op \in Ops
<1>1. c \in Command /\ c.op \in Ops /\ c.pc \in DOMAIN Body(c.op)
  BY DEF CmdOK, Command
<1>2. CallOf(c) \in CallsOf(c.op)
  BY <1>1, Table DEF CallOf
<1>3. c.op # "none" /\ Prompt.op = "none"
  BY <1>1 DEF Ops, Prompt
<1> QED BY <1>1, <1>2, <1>3

\* all but the counter of calls
SameBut(c, d) ==
  /\ d.op = c.op /\ d.src = c.src /\ d.dest = c.dest /\ d.srcFd = c.srcFd
  /\ d.destFd = c.destFd /\ d.readcnt = c.readcnt /\ d.buf = c.buf /\ d.at = c.at

(* The end of a step: the command is over or at its next call.             *)
LEMMA Advances ==
  ASSUME NEW c, CmdOK(c)
  PROVE  /\ NextCall(c.op, CallOf(c)) = "end" => Advanced(c) = Prompt
         /\ NextCall(c.op, CallOf(c)) # "end" =>
              At(Advanced(c), NextCall(c.op, CallOf(c))) /\ SameBut(c, Advanced(c))
<1> DEFINE d == [c EXCEPT !.pc = @ + 1]
<1>1. c \in Command /\ c.op \in Ops /\ c.pc \in DOMAIN Body(c.op) /\ c.pc \in Nat
  BY DEF CmdOK, Command
<1>2. /\ Len(Body(c.op)) \in Nat /\ DOMAIN Body(c.op) = 1 .. Len(Body(c.op))
      /\ c.pc = Len(Body(c.op)) <=> NextCall(c.op, CallOf(c)) = "end"
      /\ c.pc # Len(Body(c.op)) => Body(c.op)[c.pc + 1] = NextCall(c.op, CallOf(c))
  BY <1>1, Table DEF CallOf
<1>3. d \in Command /\ SameBut(c, d) /\ d.pc = c.pc + 1
  BY <1>1 DEF Command, SameBut
<1>4. ASSUME c.pc # Len(Body(c.op))
      PROVE  d.pc \in DOMAIN Body(c.op) /\ CallOf(d) = NextCall(c.op, CallOf(c))
  <2>1. c.pc + 1 \in DOMAIN Body(c.op)
    BY <1>1, <1>2, <1>4
  <2>2. CallOf(d) = Body(c.op)[c.pc + 1]
    BY <1>3 DEF CallOf, SameBut
  <2> QED BY <1>2, <1>3, <1>4, <2>1, <2>2
<1>5. Advanced(c) = IF c.pc = Len(Body(c.op)) THEN Prompt ELSE d
  BY DEF Advanced
<1> HIDE DEF d
<1>6. ASSUME c.pc # Len(Body(c.op)) PROVE At(d, NextCall(c.op, CallOf(c)))
  BY <1>3, <1>4, <1>6 DEF At, CmdOK, SameBut
<1> QED BY <1>2, <1>3, <1>5, <1>6

(* The end of a write: the loop goes back or on.                           *)
LEMMA Loops ==
  ASSUME NEW c, CmdOK(c), CallOf(c) \in {"write", "hostWrite"}
  PROVE  /\ SameBut(c, Looped(c))
         /\ At(Looped(c), IF c.readcnt # BUFFERLEN THEN NextCall(c.op, CallOf(c))
                          ELSE IF c.op = "cp2fs" THEN "hostRead" ELSE "read")
<1> DEFINE d == [c EXCEPT !.pc = @ - 1]
<1>1. c \in Command /\ c.op \in Ops /\ c.pc \in DOMAIN Body(c.op) /\ c.pc \in Nat
  BY DEF CmdOK, Command
<1>2. /\ Len(Body(c.op)) \in Nat /\ DOMAIN Body(c.op) = 1 .. Len(Body(c.op))
      /\ c.pc > 1 /\ Body(c.op)[c.pc - 1] = IF c.op = "cp2fs" THEN "hostRead" ELSE "read"
  BY <1>1, Table DEF CallOf
<1>3. c.pc - 1 \in Nat /\ c.pc - 1 \in DOMAIN Body(c.op)
  BY <1>1, <1>2
<1>4. d \in Command /\ SameBut(c, d) /\ d.pc = c.pc - 1
  BY <1>1, <1>3 DEF Command, SameBut
<1>5. CallOf(d) = Body(c.op)[c.pc - 1]
  BY <1>4 DEF CallOf, SameBut
<1>6. Looped(c) = IF c.readcnt = BUFFERLEN THEN d ELSE Advanced(c)
  BY DEF Looped, Again
<1> HIDE DEF d
<1>7. At(d, IF c.op = "cp2fs" THEN "hostRead" ELSE "read")
  BY <1>2, <1>3, <1>4, <1>5 DEF At, CmdOK, SameBut
<1>8. NextCall(c.op, CallOf(c)) # "end"
  BY DEF NextCall
<1> QED BY <1>4, <1>6, <1>7, <1>8, Advances

-----------------------------------------------------------------------------
(* The invariant.  Between two calls the command has a descriptor that is  *)
(* at the place reached in its source, one whose file has what was read so *)
(* far, and room for the rest.                                             *)
SrcOpen == cmd.srcFd # -1 /\ Call \notin {"closeDest", "delete"}
DestOpen == cmd.destFd # -1 /\ Call # "delete"
Src == fcbArray[cmd.srcFd]
Dest == fcbArray[cmd.destFd]

HasSource == cmd.op = "cp2fs" \/ cmd.srcFd # -1
HasDest == cmd.op = "cp2l" \/ cmd.destFd # -1

\* the bytes to be copied, those that are, and how many were read
Source == IF cmd.op = "cp2fs" THEN host[cmd.src] ELSE content[cmd.src]
Copied == IF cmd.op = "cp2l" THEN host[cmd.dest] ELSE Dest.expect
Reached == IF cmd.op = "cp2fs" THEN cmd.at ELSE Src.filePosition

Begins(s, x) ==
  /\ s \in Seq(Byte) /\ x \in Seq(Byte) /\ Len(s) <= Len(x)
  /\ \A k \in 1 .. Len(s) : s[k] = x[k]

\* a descriptor that reads the file n, and one that writes a new one
SrcIs(f, n, d, ch, co) ==
  /\ f \in Fcb /\ f.mode = "read" /\ f.DEptr.name = n
  /\ Good(f, d, ch) /\ ReadsBytes(f, d, co)
DestIs(f, n, d, ch, bl) ==
  /\ f \in Fcb /\ f.mode = "write" /\ f.DEptr.name = n
  /\ Good(f, d, ch) /\ WritesBytes(f, d, ch, bl)

OpenInv ==
  /\ OpenFds = (IF SrcOpen THEN {cmd.srcFd} ELSE {}) \cup (IF DestOpen THEN {cmd.destFd} ELSE {})
  /\ SrcOpen => SrcIs(Src, cmd.src, dir, chain, content) /\ cmd.srcFd # cmd.destFd
  /\ DestOpen => DestIs(Dest, cmd.dest, dir, chain, blocks)

NamesInv ==
  /\ cmd.op # "cp2l" /\ Call # "delete" => ~Exists(cmd.dest)
  /\ cmd.op = "mv" \/ cmd.srcFd # -1 => Exists(cmd.src)
  /\ cmd.op = "cp2fs" => cmd.srcFd = -1
  /\ cmd.op = "cp2l" => cmd.destFd = -1

AtOpenSrc == cmd.srcFd = -1 /\ cmd.destFd = -1 /\ cmd.at = 0
AtOpenDest == cmd.destFd = -1 /\ cmd.at = 0 /\ (cmd.srcFd # -1 => Src.filePosition = 0)

\* a new file has an entry's worth of bytes once it has a cluster
Begun ==
  cmd.destFd # -1 => /\ Dest.newFile = 1 => Dest.buflen > 0
                     /\ ~HasSource => Dest.newFile = 0

AtRead ==
  /\ Begun
  /\ HasSource /\ HasDest => Begins(Copied, Source) /\ Reached = Len(Copied)
  /\ cmd.op = "cp2fs" => cmd.at <= Len(Source)

AtWrite ==
  /\ Begun
  /\ ~HasSource => cmd.readcnt = -1
  /\ HasSource => /\ cmd.readcnt = Len(cmd.buf) /\ Reached <= Len(Source)
                  /\ cmd.readcnt = BUFFERLEN \/ Reached = Len(Source)
  /\ HasSource /\ HasDest => /\ Begins(Copied \o cmd.buf, Source)
                             /\ Reached = Len(Copied) + Len(cmd.buf)

AtClose ==
  /\ cmd.destFd # -1 => Dest.newFile = IF HasSource THEN 1 ELSE 0
  /\ HasSource /\ HasDest => Copied = Source
  /\ Call = "closeDest" => HasSource

AtDelete ==
  /\ cmd.srcFd # -1 /\ cmd.destFd # -1
  /\ Exists(cmd.dest) /\ cmd.src # cmd.dest /\ content[cmd.dest] = content[cmd.src]

CallInv ==
  /\ Call = "openSrc" => AtOpenSrc
  /\ Call \in {"openDest", "hostOpen"} => AtOpenDest
  /\ Call \in {"read", "hostRead"} => AtRead
  /\ Call \in {"write", "hostWrite"} => AtWrite
  /\ Call \in {"closeSrc", "closeDest"} => AtClose
  /\ Call = "delete" => AtDelete

\* the clusters that the new file has and can get
Room == Len(free) + IF DestOpen /\ Dest.newFile = 1 THEN Len(chain[Dest.DEptr.first]) ELSE 0

RoomInv ==
  /\ Call \in {"openSrc", "openDest", "read", "hostRead", "write"}
  /\ cmd.op # "cp2l" /\ (cmd.op = "cp2fs" \/ Exists(cmd.src))
  => BlocksFor(Len(Source)) < Room

HostOK == host \in [HostFiles -> Seq(Byte)] /\ \A h \in HostFiles : Len(host[h]) <= MaxSize
DiskInv == Sound /\ EntriesKept /\ NamesOnce /\ HostOK

IInv ==
  /\ DiskInv
  /\ cmd = Prompt => OpenFds = {}
  /\ cmd # Prompt => CmdOK(cmd) /\ OpenInv /\ NamesInv /\ CallInv /\ RoomInv

(* What is stored, and whose chains there are.                             *)
Names == {dir[s].name : s \in Used(dir)}

\* the first cluster of the new file that is being written
NewFirst == IF cmd # Prompt /\ DestOpen /\ Dest.newFile = 1 THEN {Dest.DEptr.first} ELSE {}
LeftOver == DOMAIN chain \ ({Root} \cup Firsts(dir) \cup NewFirst)

\* steps that store, remove and lose nothing
Quiet == dir' = dir /\ content' = content /\ LeftOver' = LeftOver

-----------------------------------------------------------------------------
(* What the invariant says of the descriptors.                             *)
LEMMA SlotsAre ==
  ASSUME Sound, NEW n \in Files
  PROVE  Exists(n) <=> \E s \in Used(dir) : dir[s].name = n
<1>1. n # NoName /\ Unused.name = NoName
  BY FileAssumption DEF Unused
<1> QED BY <1>1 DEF Exists, SlotsOf, Used

(* What a descriptor that a loop reads says of its file.                    *)
LEMMA SrcFacts ==
  ASSUME Sound, EntriesKept, NamesOnce, NEW f, NEW n, SrcIs(f, n, dir, chain, content)
  PROVE  /\ f \in Fcb /\ f.newFile = 1 /\ f.DEptr.name = n /\ n \in Files /\ f.size \in 0 .. MaxSize
         /\ f.expect = content[n] /\ f.expect \in Seq(Byte) /\ f.size = Len(f.expect)
         /\ f.filePosition \in Nat /\ f.filePosition <= Len(f.expect)
         /\ Keeps(chain, blocks, f.DEptr.first, f.size, f.expect) /\ f.isBufferDirty = 1
         /\ f.indexDE \in Used(dir) /\ dir[f.indexDE].first = f.DEptr.first
         /\ dir[f.indexDE].name = n /\ f.parentDir = dir
         /\ f.DEptr.first \in DOMAIN chain /\ f.DEptr.first # Root
         /\ f.DEptr.first \in Firsts(dir) /\ Exists(n)
         /\ Good(f, dir, chain) /\ ReadsBytes(f, dir, content) /\ f.mode = "read"
<1>1. /\ f \in Fcb /\ f.mode = "read" /\ f.DEptr.name = n /\ Good(f, dir, chain)
      /\ ReadsBytes(f, dir, content)
  BY DEF SrcIs
<1>2. f.newFile = 1 /\ n \in Files /\ f.parentDir = dir /\ OnItsChain(f, dir, chain)
  BY <1>1 DEF Good, ReadsInFile
<1>3. /\ f.filePosition <= f.size /\ f.DEptr.first \in DOMAIN chain /\ f.DEptr.first # Root
  BY <1>2 DEF OnItsChain, Holds
<1>4. /\ f.expect = content[n] /\ f.size = Len(f.expect) /\ HasEntry(f, dir)
  BY <1>1 DEF ReadsBytes
<1>5. f.size \in 0 .. MaxSize /\ f.filePosition \in Nat /\ f.indexDE \in Slots
  BY <1>1 DEF Fcb
<1>6. f.indexDE \in Used(dir) /\ dir[f.indexDE].first = f.DEptr.first /\ dir[f.indexDE].name = n
  BY <1>1, <1>4, <1>5 DEF HasEntry, Used
<1>7. /\ Keeps(chain, blocks, f.DEptr.first, f.size, f.expect) /\ f.isBufferDirty = 1
      /\ f.expect \in Seq(Byte)
  BY <1>1, <1>2, FileIsKept
<1>8. f.DEptr.first \in Firsts(dir) /\ Exists(n)
  BY <1>2, <1>6, SlotsAre DEF Firsts
<1> QED BY <1>1, <1>2, <1>3, <1>4, <1>5, <1>6, <1>7, <1>8

(* What a descriptor that a loop writes says of the file it makes.         *)
LEMMA DestFacts ==
  ASSUME Sound, EntriesKept, NamesOnce, NEW f, NEW n, DestIs(f, n, dir, chain, blocks)
  PROVE  /\ f \in Fcb /\ f.DEptr.name = n /\ n \in Files /\ f.mode = "write" /\ f.newFile \in {0, 1}
         /\ f.size \in 0 .. MaxSize /\ f.expect \in Seq(Byte) /\ f.size = Len(f.expect)
         /\ f.indexDE \in Slots /\ f.filePosition = f.size /\ f.buflen \in Nat
         /\ ~Exists(n) /\ f.parentDir = dir /\ Good(f, dir, chain) /\ WritesBytes(f, dir, chain, blocks)
         /\ f.newFile = 0 => f.expect = <<>> /\ f.buflen = 0
         /\ f.newFile = 1 => /\ Holds(chain, f.DEptr.first, f.size)
                             /\ f.DEptr.first \notin Firsts(dir) /\ f.isBufferDirty = 1
                             /\ Keeps(chain, blocks, f.DEptr.first, f.size, f.expect)
<1>1. /\ f \in Fcb /\ f.mode = "write" /\ f.DEptr.name = n /\ Good(f, dir, chain)
      /\ WritesBytes(f, dir, chain, blocks)
  BY DEF DestIs
<1>2. f.size \in 0 .. MaxSize /\ f.expect \in Seq(Byte) /\ f.newFile \in {0, 1} /\ f.indexDE \in Slots
      /\ f.buflen \in 0 .. B
  BY <1>1 DEF Fcb
<1>3. /\ n \in Files /\ f.parentDir = dir
      /\ f.newFile = 0 => Fresh(f, dir)
      /\ f.newFile = 1 => OnItsChain(f, dir, chain)
  BY <1>1 DEF Good
<1>4. /\ \A s \in Used(dir) : dir[s].name # n
      /\ f.newFile = 0 => f.expect = <<>>
      /\ f.newFile = 1 => /\ f.isBufferDirty = 1 /\ f.filePosition = f.size
                          /\ Keeps(chain, blocks, f.DEptr.first, f.size, f.expect)
  BY <1>1 DEF WritesBytes
<1>5. ~Exists(n)
  BY <1>3, <1>4, SlotsAre
<1>6. f.newFile = 0 => f.size = 0 /\ f.filePosition = 0 /\ f.buflen = 0
  BY <1>3 DEF Fresh
<1>7. ASSUME f.newFile = 1
      PROVE  Holds(chain, f.DEptr.first, f.size) /\ f.DEptr.first \notin Firsts(dir)
  <2>1. Holds(chain, f.DEptr.first, f.size) /\ (HasEntry(f, dir) \/ NoEntryYet(f, dir))
    BY <1>3, <1>7 DEF OnItsChain
  <2>2. ~HasEntry(f, dir)
    BY <1>1, <1>2, <1>4 DEF HasEntry, Used
  <2> QED BY <2>1, <2>2 DEF NoEntryYet, Firsts
<1>8. f.newFile = 1 => f.size = Len(f.expect)
  BY <1>4 DEF Keeps
<1>9. f.buflen \in Nat
  BY <1>2, BlockIsNat
<1> QED BY <1>1, <1>2, <1>3, <1>4, <1>5, <1>6, <1>7, <1>8, <1>9

(* The command's descriptors while they are open.                          *)
LEMMA OpenFacts ==
  ASSUME IInv, cmd # Prompt
  PROVE  /\ cmd \in Command /\ CmdOK(cmd) /\ Sound /\ EntriesKept /\ NamesOnce /\ HostOK
         /\ OpenInv /\ NamesInv /\ CallInv /\ RoomInv
         /\ SrcOpen => /\ cmd.srcFd \in Fds /\ cmd.srcFd # cmd.destFd
                       /\ SrcIs(Src, cmd.src, dir, chain, content)
         /\ DestOpen => /\ cmd.destFd \in Fds
                        /\ DestIs(Dest, cmd.dest, dir, chain, blocks)
<1>1. /\ CmdOK(cmd) /\ OpenInv /\ NamesInv /\ CallInv /\ RoomInv
      /\ Sound /\ EntriesKept /\ NamesOnce /\ HostOK
  BY DEF IInv, DiskInv
<1>2. cmd \in Command
  BY <1>1 DEF CmdOK
<1>3. cmd.srcFd \in Fds \cup {-1} /\ cmd.destFd \in Fds \cup {-1}
  BY <1>2 DEF Command
<1> QED BY <1>1, <1>2, <1>3 DEF OpenInv, SrcOpen, DestOpen

-----------------------------------------------------------------------------
(* Which commands make a call.                                             *)
LEMMA WhoCalls ==
  ASSUME NEW c, CmdOK(c)
  PROVE  /\ c.op \in Ops
         /\ CallOf(c) \in {"openSrc", "read", "closeSrc"} => c.op # "cp2fs"
         /\ CallOf(c) \in {"openDest", "write", "closeDest"} => c.op # "cp2l"
         /\ CallOf(c) \in {"hostOpen", "hostWrite"} => c.op = "cp2l"
         /\ CallOf(c) = "hostRead" => c.op = "cp2fs"
         /\ CallOf(c) = "delete" => c.op = "mv"
<1>1. CallOf(c) \in CallsOf(c.op) /\ c.op \in Ops
  BY CommandIs
<1>2. CASE c.op = "cp"
  BY <1>1, <1>2 DEF CallsOf
<1>3. CASE c.op = "mv"
  BY <1>1, <1>3 DEF CallsOf
<1>4. CASE c.op = "cp2l"
  BY <1>1, <1>4 DEF CallsOf
<1>5. CASE c.op = "cp2fs"
  BY <1>1, <1>5 DEF CallsOf
<1> QED BY <1>1, <1>2, <1>3, <1>4, <1>5 DEF Ops

(* The command after a call that is not its last.                          *)
LEMMA GoesTo ==
  ASSUME NEW c, CmdOK(c), NextCall(c.op, CallOf(c)) # "end", cmd' = Advanced(c)
  PROVE  /\ cmd' # Prompt /\ CmdOK(cmd') /\ SameBut(c, cmd')
         /\ Call' = NextCall(c.op, CallOf(c))
<1>1. At(cmd', NextCall(c.op, CallOf(c))) /\ SameBut(c, cmd')
  BY Advances
<1> QED BY <1>1, CommandIs DEF At, Call

(* A command that sets a descriptor.                                       *)
LEMMA SetsFd ==
  ASSUME NEW c, CmdOK(c), NEW x \in Fds \cup {-1}
  PROVE  /\ LET d == [c EXCEPT !.srcFd = x]
            IN  CmdOK(d) /\ CallOf(d) = CallOf(c) /\ d.srcFd = x
                /\ d.op = c.op /\ d.src = c.src /\ d.dest = c.dest /\ d.destFd = c.destFd
                /\ d.readcnt = c.readcnt /\ d.buf = c.buf /\ d.at = c.at
         /\ LET d == [c EXCEPT !.destFd = x]
            IN  CmdOK(d) /\ CallOf(d) = CallOf(c) /\ d.destFd = x
                /\ d.op = c.op /\ d.src = c.src /\ d.dest = c.dest /\ d.srcFd = c.srcFd
                /\ d.readcnt = c.readcnt /\ d.buf = c.buf /\ d.at = c.at
  BY DEF CmdOK, Command, CallOf, SameBut

(* b_getFCB and what a command takes of it.                                *)
LEMMA OpenedIs ==
  /\ b_getFCB \in Fds \cup {-1} /\ Opened \in Fds \cup {-1}
  /\ b_getFCB = -1 => Opened = -1
  /\ b_getFCB # -1 /\ fcbArray'[b_getFCB] = CLOSED => Opened = -1
  /\ b_getFCB # -1 /\ fcbArray'[b_getFCB] \in Fcb => Opened = b_getFCB
<1>1. b_getFCB \in Fds \cup {-1}
  BY DescriptorIsThere
<1> QED BY <1>1, FcbAssumption DEF Opened

(* A step that leaves the volume as it is leaves its names.                *)
LEMMA NamesStay ==
  ASSUME dir' = dir, NEW n
  PROVE  Exists(n)' <=> Exists(n)
  BY DEF Exists, SlotsOf

(* b_open of the source.                                                   *)
LEMMA OpenSrcKeeps ==
  ASSUME IInv, OpenSrc
  PROVE  IInv' /\ Quiet
<1> DEFINE c == [cmd EXCEPT !.srcFd = Opened]
           fd == b_getFCB
<1>1. /\ cmd # Prompt /\ Call = "openSrc" /\ OpenCall(cmd.src, "read") /\ cmd' = Advanced(c)
      /\ host' = host
  BY DEF OpenSrc, Doing, Call, CallOf
<1>2. /\ CmdOK(cmd) /\ Sound /\ EntriesKept /\ NamesOnce /\ HostOK
      /\ OpenInv /\ NamesInv /\ AtOpenSrc /\ RoomInv
  BY <1>1, OpenFacts DEF CallInv
<1>3. cmd.op # "cp2fs" /\ cmd.op \in Ops /\ cmd.src \in Files
  BY <1>1, <1>2, WhoCalls DEF Call, CmdOK
<1>4. /\ CmdOK(c) /\ CallOf(c) = "openSrc" /\ c.srcFd = Opened /\ c.op = cmd.op /\ c.src = cmd.src
      /\ c.dest = cmd.dest /\ c.destFd = cmd.destFd /\ c.at = cmd.at
  BY ZenonT(30), <1>1, <1>2, OpenedIs, SetsFd DEF Call
<1> HIDE DEF c
<1>5. /\ cmd' # Prompt /\ CmdOK(cmd') /\ SameBut(c, cmd')
      /\ Call' = IF cmd.op = "cp2l" THEN "hostOpen" ELSE "openDest"
  BY <1>1, <1>4, GoesTo DEF NextCall
<1>6. /\ cmd'.srcFd = Opened /\ cmd'.op = cmd.op /\ cmd'.src = cmd.src /\ cmd'.dest = cmd.dest
      /\ cmd'.destFd = -1 /\ cmd'.at = 0
  BY <1>2, <1>4, <1>5 DEF SameBut, AtOpenSrc
<1>7. OpenFds = {}
  BY <1>2 DEF OpenInv, SrcOpen, DestOpen, AtOpenSrc
\* the three outcomes
<1>8. /\ Sound' /\ UNCHANGED <<alloced, blocks, dir, content>>
      /\ \/ Opened = -1 /\ OpenFds' = {}
         \/ /\ Opened \in Fds /\ OpenFds' = {Opened} /\ Exists(cmd.src)
            /\ SrcIs(fcbArray'[Opened], cmd.src, dir, chain, content)
            /\ fcbArray'[Opened].filePosition = 0
  <2>1. CASE fd = -1
    <3>1. UNCHANGED vars
      BY <1>1, <2>1 DEF OpenCall
    <3>2. Sound' /\ OpenFds' = OpenFds
      BY <1>2, <3>1 DEF vars, alloced, Sound, TypeOK, OpenFds, IsOpen
    <3> QED BY <1>7, <2>1, <3>1, <3>2, OpenedIs DEF vars, alloced
  <2>2. CASE fd # -1 /\ OpenExisting(cmd.src, "read")
    <3> DEFINE s == Least(SlotsOf(cmd.src))
               g == NewFcb("read", dir[s], s, OpenAt(dir[s], "read"), 1, 1, content[cmd.src])
    <3>1. /\ fd \in Fds /\ s \in Used(dir) /\ dir[s].name = cmd.src /\ Sound'
          /\ OpenFds' = OpenFds \cup {fd} /\ fcbArray'[fd] = g /\ g \in Fcb
          /\ Good(g, dir', chain') /\ UNCHANGED <<alloced, blocks, dir, content>>
      BY <1>2, <1>3, <2>2, ExistingFits
    <3>2. g.mode = "read" /\ g.DEptr.name = cmd.src
      BY <3>1 DEF NewFcb
    <3> HIDE DEF s
    <3>3. ReadsBytes(g, dir, content) /\ g.filePosition = 0
      BY <1>2, <3>1, OpenReads
    <3> HIDE DEF g
    <3>4. SrcIs(g, cmd.src, dir, chain, content)
      BY <3>1, <3>2, <3>3 DEF SrcIs, alloced
    <3>5. Exists(cmd.src)
      BY <2>2 DEF OpenExisting
    <3>6. Opened = fd
      BY <2>2, <3>1, OpenedIs
    <3> QED BY <1>7, <3>1, <3>3, <3>4, <3>5, <3>6
  <2>3. CASE fd # -1 /\ OpenFails(cmd.src, "read")
    <3>1. Sound' /\ OpenFds' = OpenFds /\ fcbArray'[fd] = CLOSED
          /\ UNCHANGED <<alloced, blocks, dir, content>>
      BY <1>2, <2>3, FailsFits
    <3>2. Opened = -1
      BY <2>3, <3>1, OpenedIs
    <3> QED BY <1>7, <3>1, <3>2
  <2> QED BY <1>1, <2>1, <2>2, <2>3 DEF OpenCall, b_open
<1>9. /\ dir' = dir /\ content' = content /\ chain' = chain /\ free' = free /\ blocks' = blocks
  BY <1>8 DEF alloced
<1>10. EntriesKept' /\ NamesOnce' /\ HostOK'
  BY <1>1, <1>2, <1>9 DEF EntriesKept, NamesOnce, HostOK, Stored
<1>11. /\ SrcOpen' <=> Opened # -1
       /\ ~DestOpen' /\ ~DestOpen
  BY <1>2, <1>5, <1>6 DEF SrcOpen, DestOpen, AtOpenSrc
<1>12. OpenInv'
  <2>1. OpenFds' = IF Opened # -1 THEN {Opened} ELSE {}
    BY <1>8, FileAssumption DEF Fds
  <2>2. Opened # -1 => SrcIs(Src', cmd'.src, dir', chain', content') /\ cmd'.srcFd # cmd'.destFd
    BY <1>6, <1>8, <1>9 DEF Src
  <2> QED BY <1>6, <1>11, <2>1, <2>2 DEF OpenInv
<1>13. NamesInv'
  <2>1. Opened # -1 => Exists(cmd.src)
    BY <1>8
  <2> QED BY <1>1, <1>2, <1>3, <1>5, <1>6, <1>9, <2>1, NamesStay DEF NamesInv
<1>14. CallInv'
  <2>1. AtOpenDest'
    BY <1>6, <1>8 DEF AtOpenDest, Src
  <2> QED BY <1>5, <2>1 DEF CallInv
<1>15. RoomInv'
  <2>1. Source' = Source /\ Room' = Room
    BY <1>1, <1>6, <1>9, <1>11 DEF Source, Room
  <2> QED BY <1>1, <1>2, <1>5, <1>6, <1>9, <2>1, NamesStay DEF RoomInv
<1>16. LeftOver' = LeftOver
  BY <1>9, <1>11 DEF LeftOver, NewFirst
<1> QED BY <1>5, <1>8, <1>9, <1>10, <1>12, <1>13, <1>14, <1>15, <1>16 DEF IInv, DiskInv, Quiet

(* The bytes of the source.                                                *)
LEMMA SourceIs ==
  ASSUME IInv, cmd # Prompt
  PROVE  /\ Source \in Seq(Byte) /\ Len(Source) \in Nat
         /\ cmd.op = "cp2fs" \/ Exists(cmd.src) => Len(Source) <= MaxSize
         /\ cmd.op = "cp2fs" => cmd.src \in HostFiles
         /\ cmd.op # "cp2fs" => cmd.src \in Files
         /\ cmd.op = "cp2l" => cmd.dest \in HostFiles
         /\ cmd.op # "cp2l" => cmd.dest \in Files
<1>1. /\ CmdOK(cmd) /\ HostOK /\ Sound /\ EntriesKept
  BY OpenFacts
<1>2. /\ cmd.op = "cp2fs" => cmd.src \in HostFiles
      /\ cmd.op # "cp2fs" => cmd.src \in Files
      /\ cmd.op = "cp2l" => cmd.dest \in HostFiles
      /\ cmd.op # "cp2l" => cmd.dest \in Files
  BY <1>1 DEF CmdOK
<1>3. Source \in Seq(Byte)
  BY <1>1, <1>2 DEF Source, HostOK, Sound, TypeOK
<1>4. ASSUME cmd.op # "cp2fs", Exists(cmd.src)
      PROVE  Len(Source) <= MaxSize
  <2>1. PICK s \in Used(dir) : dir[s].name = cmd.src
    BY <1>1, <1>2, <1>4, SlotsAre
  <2>2. Stored(dir[s]) = Source
    BY <1>1, <1>4, <2>1 DEF EntriesKept, Source
  <2>3. dir[s].size \in 0 .. MaxSize /\ dir[s].size \in Nat
    <3>1. dir[s] \in Entry
      BY <1>1 DEF Sound, TypeOK, Used
    <3> QED BY <3>1, MaxIsNat DEF Entry
  <2>4. Len(Stored(dir[s])) = dir[s].size
    BY <2>3 DEF Stored
  <2> QED BY <2>2, <2>3, <2>4
<1>5. cmd.op = "cp2fs" => Len(Source) <= MaxSize
  BY <1>1, <1>2 DEF Source, HostOK
<1> QED BY <1>2, <1>3, <1>4, <1>5

(* b_open of the destination, which is not there yet.                      *)
LEMMA OpenDestKeeps ==
  ASSUME IInv, OpenDest
  PROVE  IInv' /\ Quiet
<1> DEFINE c == [cmd EXCEPT !.destFd = Opened]
           fd == b_getFCB
<1>1. /\ cmd # Prompt /\ Call = "openDest" /\ OpenCall(cmd.dest, "write") /\ cmd' = Advanced(c)
      /\ host' = host
  BY DEF OpenDest, Doing, Call, CallOf
<1>2. /\ CmdOK(cmd) /\ Sound /\ EntriesKept /\ NamesOnce /\ HostOK
      /\ OpenInv /\ NamesInv /\ AtOpenDest /\ RoomInv
  BY <1>1, OpenFacts DEF CallInv
<1>3. cmd.op # "cp2l" /\ cmd.op \in Ops /\ cmd.dest \in Files /\ ~Exists(cmd.dest)
  BY <1>1, <1>2, WhoCalls DEF Call, CmdOK, NamesInv
<1>4. /\ CmdOK(c) /\ CallOf(c) = "openDest" /\ c.destFd = Opened /\ c.op = cmd.op /\ c.src = cmd.src
      /\ c.dest = cmd.dest /\ c.srcFd = cmd.srcFd /\ c.at = cmd.at
  BY ZenonT(30), <1>1, <1>2, OpenedIs, SetsFd DEF Call
<1> HIDE DEF c
<1>5. /\ cmd' # Prompt /\ CmdOK(cmd') /\ SameBut(c, cmd')
      /\ Call' = IF cmd.op = "cp2fs" THEN "hostRead" ELSE "read"
  BY <1>1, <1>4, GoesTo DEF NextCall
<1>6. /\ cmd'.srcFd = cmd.srcFd /\ cmd'.op = cmd.op /\ cmd'.src = cmd.src /\ cmd'.dest = cmd.dest
      /\ cmd'.destFd = Opened /\ cmd'.at = 0
  BY <1>2, <1>4, <1>5 DEF SameBut, AtOpenDest
<1>7. ~DestOpen /\ (SrcOpen <=> cmd.srcFd # -1)
  BY <1>1, <1>2 DEF DestOpen, SrcOpen, AtOpenDest
<1>8. /\ OpenFds = IF SrcOpen THEN {cmd.srcFd} ELSE {}
      /\ SrcOpen => SrcIs(Src, cmd.src, dir, chain, content) /\ cmd.srcFd \in Fds /\ Src \in Fcb
  BY <1>1, <1>2, <1>7, OpenFacts DEF OpenInv, SrcIs
\* the three outcomes
<1>9. /\ Sound' /\ UNCHANGED <<alloced, blocks, dir, content>>
      /\ SrcOpen => fcbArray'[cmd.srcFd] = Src
      /\ \/ Opened = -1 /\ OpenFds' = OpenFds
         \/ /\ Opened \in Fds /\ OpenFds' = OpenFds \cup {Opened} /\ fcbArray[Opened] = NULL
            /\ DestIs(fcbArray'[Opened], cmd.dest, dir, chain, blocks)
            /\ fcbArray'[Opened].newFile = 0 /\ fcbArray'[Opened].expect = <<>>
  <2>1. CASE fd = -1
    <3>1. UNCHANGED vars
      BY <1>1, <2>1 DEF OpenCall
    <3>2. Sound' /\ OpenFds' = OpenFds
      BY <1>2, <3>1 DEF vars, alloced, Sound, TypeOK, OpenFds, IsOpen
    <3> QED BY <2>1, <3>1, <3>2, OpenedIs DEF vars, alloced, Src
  <2>2. CASE fd # -1 /\ OpenExisting(cmd.dest, "write")
    BY <1>3, <2>2 DEF OpenExisting
  <2>3. CASE fd # -1 /\ OpenNew(cmd.dest)
    <3> DEFINE g == fcbArray'[fd]
    <3>1. /\ fd \in Fds /\ fcbArray[fd] = NULL /\ Sound' /\ OpenFds' = OpenFds \cup {fd}
          /\ \A fe \in Fds \ {fd} : fcbArray'[fe] = fcbArray[fe]
          /\ g \in Fcb /\ Good(g, dir', chain') /\ g.newFile = 0 /\ g.mode = "write"
          /\ g.DEptr.name = cmd.dest /\ g.expect = <<>>
          /\ WritesBytes(g, dir', chain', blocks')
          /\ UNCHANGED <<alloced, blocks, dir, content>>
      BY <1>2, <1>3, <2>3, NewFits
    <3>2. Opened = fd
      BY <2>3, <3>1, OpenedIs
    <3> HIDE DEF g
    <3>3. DestIs(g, cmd.dest, dir, chain, blocks)
      BY <3>1 DEF DestIs, alloced
    <3>4. SrcOpen => cmd.srcFd # fd
      BY <1>8, <3>1, FcbAssumption DEF Src
    <3> QED BY <1>8, <3>1, <3>2, <3>3, <3>4 DEF g, Src
  <2>4. CASE fd # -1 /\ OpenFails(cmd.dest, "write")
    <3>1. /\ fd \in Fds /\ fcbArray[fd] = NULL
          /\ Sound' /\ OpenFds' = OpenFds /\ fcbArray'[fd] = CLOSED
          /\ \A fe \in Fds \ {fd} : fcbArray'[fe] = fcbArray[fe]
          /\ UNCHANGED <<alloced, blocks, dir, content>>
      BY <1>2, <2>4, FailsFits
    <3>2. Opened = -1
      BY <2>4, <3>1, OpenedIs
    <3>3. SrcOpen => cmd.srcFd # fd
      BY <1>8, <3>1, FcbAssumption DEF Src
    <3> QED BY <1>8, <3>1, <3>2, <3>3 DEF Src
  <2> QED BY <1>1, <2>1, <2>2, <2>3, <2>4 DEF OpenCall, b_open
<1>10. /\ dir' = dir /\ content' = content /\ chain' = chain /\ free' = free /\ blocks' = blocks
  BY <1>9 DEF alloced
<1>11. EntriesKept' /\ NamesOnce' /\ HostOK'
  BY <1>1, <1>2, <1>10 DEF EntriesKept, NamesOnce, HostOK, Stored
<1>12. /\ SrcOpen' <=> SrcOpen
       /\ DestOpen' <=> Opened # -1
       /\ SrcOpen => Src' = Src
       /\ Opened # -1 => Dest' = fcbArray'[Opened]
       /\ Opened # -1 => Opened \in Fds
  BY <1>5, <1>6, <1>7, <1>9 DEF SrcOpen, DestOpen, Src, Dest
<1>13. OpenInv'
  <2>1. -1 \notin Fds
    BY FileAssumption DEF Fds
  <2>2. SrcOpen => cmd.srcFd # Opened
    <3>1. Opened # -1 => fcbArray[Opened] = NULL
      BY <1>9, <2>1
    <3> QED BY <1>8, <2>1, <3>1, FcbAssumption DEF Src
  <2>3. OpenFds' = OpenFds \cup IF Opened # -1 THEN {Opened} ELSE {}
    BY <1>9, <2>1
  <2>4. Opened # -1 => DestIs(Dest', cmd'.dest, dir', chain', blocks')
    BY <1>6, <1>9, <1>10, <1>12, <2>1
  <2>5. SrcOpen => SrcIs(Src', cmd'.src, dir', chain', content')
    BY <1>6, <1>8, <1>10, <1>12
  <2> QED BY <1>6, <1>8, <1>12, <2>2, <2>3, <2>4, <2>5 DEF OpenInv
<1>14. NamesInv'
  BY <1>2, <1>3, <1>5, <1>6, <1>10, NamesStay DEF NamesInv
<1>15. Opened # -1 => fcbArray'[Opened].newFile = 0 /\ fcbArray'[Opened].expect = <<>>
  BY <1>9, <1>12
<1>16. Source' = Source /\ Source \in Seq(Byte) /\ Len(Source) \in Nat
  BY <1>1, <1>6, <1>10, SourceIs DEF Source
<1>17. CallInv'
  <2>1. Begun'
    BY <1>6, <1>12, <1>15 DEF Begun
  <2>2. ASSUME HasSource', HasDest'
        PROVE  Begins(Copied', Source') /\ Reached' = Len(Copied')
    <3>1. Opened # -1 /\ Copied' = <<>>
      BY <1>3, <1>6, <1>12, <1>15, <2>2 DEF HasDest, Copied
    <3>2. Reached' = 0
      BY <1>2, <1>6, <1>7, <1>12, <2>2 DEF HasSource, Reached, AtOpenDest
    <3>3. Begins(<<>>, Source)
      BY <1>16 DEF Begins
    <3> QED BY <1>16, <3>1, <3>2, <3>3
  <2>3. cmd'.at <= Len(Source')
    BY <1>6, <1>16
  <2>4. AtRead'
    BY <2>1, <2>2, <2>3 DEF AtRead
  <2> QED BY <1>5, <2>4 DEF CallInv
<1>18. RoomInv'
  <2>1. Room' = Len(free) /\ Room = Len(free)
    BY <1>7, <1>10, <1>12, <1>15 DEF Room
  <2> QED BY <1>1, <1>2, <1>3, <1>5, <1>6, <1>10, <1>16, <2>1, NamesStay DEF RoomInv
<1>19. LeftOver' = LeftOver
  BY <1>7, <1>10, <1>12, <1>15 DEF LeftOver, NewFirst
<1> QED BY <1>5, <1>9, <1>10, <1>11, <1>13, <1>14, <1>17, <1>18, <1>19 DEF IInv, DiskInv, Quiet

-----------------------------------------------------------------------------
(* What was copied and what was read next are the beginning of the source. *)
LEMMA BeginsOn ==
  ASSUME NEW x, NEW s, Begins(s, x), NEW bytes, PartOf(bytes, Len(s), x)
  PROVE  Begins(s \o bytes, x) /\ Len(s \o bytes) = Len(s) + Len(bytes)
<1>1. /\ s \in Seq(Byte) /\ x \in Seq(Byte) /\ bytes \in Seq(Byte)
      /\ Len(s) + Len(bytes) <= Len(x)
      /\ \A k \in 1 .. Len(s) : s[k] = x[k]
      /\ \A k \in 1 .. Len(bytes) : bytes[k] = x[Len(s) + k]
  BY DEF Begins, PartOf
<1> DEFINE m == Len(s)
           n == Len(bytes)
           j == s \o bytes
<1>2. m \in Nat /\ n \in Nat
  BY <1>1
<1>3. /\ j \in Seq(Byte) /\ Len(j) = m + n
      /\ \A k \in 1 .. m : j[k] = s[k]
      /\ \A k \in 1 .. n : j[m + k] = bytes[k]
  BY <1>1, JoinedAt
<1> HIDE DEF m, n, j
<1>4. ASSUME NEW k \in 1 .. m + n
      PROVE  j[k] = x[k]
  <2>1. CASE k <= m
    BY <1>1, <1>2, <1>3, <2>1 DEF m
  <2>2. CASE k > m
    <3>1. k - m \in 1 .. n /\ m + (k - m) = k
      BY <1>2, <2>2
    <3>2. j[m + (k - m)] = bytes[k - m] /\ bytes[k - m] = x[m + (k - m)]
      BY <1>1, <1>3, <3>1 DEF m, n
    <3> QED BY <3>1, <3>2
  <2> QED BY <1>2, <2>1, <2>2
<1>5. Begins(j, x)
  BY <1>1, <1>3, <1>4 DEF Begins, m, n
<1> QED BY <1>3, <1>5 DEF j, m, n

(* A command whose buffer is filled.                                       *)
LEMMA SetsBuf ==
  ASSUME NEW c, CmdOK(c), NEW n \in -1 .. BUFFERLEN, NEW s \in Seq(Byte), NEW a \in Nat
  PROVE  LET d == [c EXCEPT !.readcnt = n, !.buf = s, !.at = a]
         IN  CmdOK(d) /\ CallOf(d) = CallOf(c) /\ d.readcnt = n /\ d.buf = s /\ d.at = a
             /\ d.op = c.op /\ d.src = c.src /\ d.dest = c.dest /\ d.srcFd = c.srcFd
             /\ d.destFd = c.destFd
  BY DEF CmdOK, Command, CallOf

(* A turn of a loop copies less than a block (fsshell.c:41).               *)
LEMMA BufferIsLess == BUFFERLEN \in Nat \ {0} /\ BUFFERLEN < B
  BY ShellAssumption, BlockIsNat DEF B

(* b_read of the source.                                                   *)
LEMMA ReadIsRead ==
  ASSUME Sound, EntriesKept, NamesOnce, NEW fd \in Fds, NEW n,
         SrcIs(fcbArray[fd], n, dir, chain, content), b_read(fd, BUFFERLEN)
  PROVE  LET f == fcbArray[fd]
             bytes == given'.bytes
         IN  /\ Sound' /\ OpenFds' = OpenFds \cup {fd}
             /\ \A fe \in Fds \ {fd} : fcbArray'[fe] = fcbArray[fe]
             /\ UNCHANGED <<alloced, blocks, dir, content>>
             /\ SrcIs(fcbArray'[fd], n, dir', chain', content')
             /\ PartOf(bytes, f.filePosition, content[n])
             /\ fcbArray'[fd].filePosition = f.filePosition + Len(bytes)
             /\ Len(bytes) \in 0 .. BUFFERLEN
             /\ Len(bytes) = BUFFERLEN \/ f.filePosition + Len(bytes) = Len(content[n])
<1> DEFINE f == fcbArray[fd]
           bytes == given'.bytes
           count == BUFFERLEN
<1>1. /\ f \in Fcb /\ f.newFile = 1 /\ f.DEptr.name = n /\ f.mode = "read"
      /\ f.expect = content[n] /\ f.expect \in Seq(Byte)
      /\ f.filePosition \in Nat /\ f.filePosition <= Len(f.expect)
      /\ Keeps(chain, blocks, f.DEptr.first, f.size, f.expect)
      /\ Good(f, dir, chain) /\ ReadsBytes(f, dir, content)
  BY SrcFacts
<1>2. count \in Nat \ {0} /\ count < B
  BY BufferIsLess
<1>3. Reading(fd, f)
  BY <1>1 DEF Reading
<1>4. /\ Sound' /\ OpenFds' = OpenFds \cup {fd}
      /\ \A fe \in Fds \ {fd} : fcbArray'[fe] = fcbArray[fe]
      /\ fcbArray'[fd] \in Fcb /\ Good(fcbArray'[fd], dir', chain')
      /\ fcbArray'[fd].mode = "read" /\ fcbArray'[fd].DEptr = f.DEptr
      /\ UNCHANGED <<alloced, blocks, dir, content>>
  BY <1>1, <1>2, ReadFits
<1> HIDE DEF f
<1>5. HasRead(fd, f, count, bytes)
  BY <1>2, <1>3, ReadGives
<1> HIDE DEF bytes
<1>6. /\ PartOf(bytes, f.filePosition, f.expect)
      /\ AsAsked(Len(bytes), f.expect, f.filePosition, count)
      /\ ReadsBytes(fcbArray'[fd], dir', content')
      /\ fcbArray'[fd].filePosition = f.filePosition + Len(bytes)
  BY <1>5 DEF HasRead
<1>7. SrcIs(fcbArray'[fd], n, dir', chain', content')
  BY <1>1, <1>4, <1>6 DEF SrcIs
<1>8. Len(bytes) \in 0 .. count /\ (Len(bytes) = count \/ f.filePosition + Len(bytes) = Len(f.expect))
  <2> DEFINE m == Len(bytes)
             p == f.filePosition
             all == Len(f.expect)
  <2>1. m \in Nat /\ p \in Nat /\ all \in Nat /\ count \in Nat /\ p + m = Lesser(p + count, all)
    BY <1>1, <1>2, <1>6 DEF PartOf, AsAsked
  <2> HIDE DEF m, p, all, count
  <2>2. m \in 0 .. count /\ (m = count \/ p + m = all)
    BY <2>1 DEF Lesser
  <2> QED BY <2>2 DEF m, p, all
<1> QED BY <1>1, <1>4, <1>6, <1>7, <1>8 DEF f, bytes

(* b_read moves the command's source on, and fills its buffer.             *)
LEMMA ReadSrcKeeps ==
  ASSUME IInv, ReadSrc
  PROVE  IInv' /\ Quiet
<1> DEFINE n == IF cmd.srcFd = -1 THEN -1 ELSE Len(given'.bytes)
           s == IF cmd.srcFd = -1 THEN cmd.buf ELSE given'.bytes
           c == [cmd EXCEPT !.readcnt = n, !.buf = s, !.at = cmd.at]
<1>1. /\ cmd # Prompt /\ Call = "read" /\ host' = host
      /\ cmd.srcFd = -1 => UNCHANGED vars
      /\ cmd.srcFd # -1 => b_read(cmd.srcFd, BUFFERLEN)
  BY DEF ReadSrc, Doing, Call, CallOf
<1>2. /\ cmd \in Command /\ CmdOK(cmd) /\ Sound /\ EntriesKept /\ NamesOnce /\ HostOK
      /\ OpenInv /\ NamesInv /\ AtRead /\ RoomInv
      /\ SrcOpen => cmd.srcFd \in Fds /\ cmd.srcFd # cmd.destFd
                    /\ SrcIs(Src, cmd.src, dir, chain, content)
      /\ DestOpen => cmd.destFd \in Fds /\ DestIs(Dest, cmd.dest, dir, chain, blocks)
  BY <1>1, OpenFacts DEF CallInv
<1>3. cmd' = Advanced(c)
  <2>1. cmd.srcFd = -1 => [cmd EXCEPT !.readcnt = -1] = c
    BY <1>2 DEF Command
  <2>2. cmd.srcFd # -1 => [cmd EXCEPT !.readcnt = Len(given'.bytes), !.buf = given'.bytes] = c
    BY <1>2 DEF Command
  <2> QED BY <1>1, <2>1, <2>2 DEF ReadSrc
<1>4. cmd.op # "cp2fs" /\ cmd.op \in Ops
  BY <1>1, <1>2, WhoCalls DEF Call
<1>5. /\ SrcOpen <=> cmd.srcFd # -1
      /\ DestOpen <=> cmd.destFd # -1
  BY <1>1 DEF SrcOpen, DestOpen
\* what b_read does
<1>6. /\ Sound' /\ UNCHANGED <<alloced, blocks, dir, content>> /\ OpenFds' = OpenFds
      /\ DestOpen => fcbArray'[cmd.destFd] = Dest
      /\ SrcOpen =>
           /\ SrcIs(fcbArray'[cmd.srcFd], cmd.src, dir', chain', content')
           /\ PartOf(s, Src.filePosition, content[cmd.src])
           /\ fcbArray'[cmd.srcFd].filePosition = Src.filePosition + Len(s)
           /\ Len(s) \in 0 .. BUFFERLEN
           /\ Len(s) = BUFFERLEN \/ Src.filePosition + Len(s) = Len(content[cmd.src])
  <2>1. CASE cmd.srcFd = -1
    <3>1. UNCHANGED vars
      BY <1>1, <2>1
    <3>2. Sound' /\ OpenFds' = OpenFds
      BY <1>2, <3>1 DEF vars, alloced, Sound, TypeOK, OpenFds, IsOpen
    <3> QED BY <1>5, <2>1, <3>1, <3>2 DEF vars, alloced, Dest
  <2>2. CASE cmd.srcFd # -1
    <3>1. cmd.srcFd \in Fds /\ SrcIs(fcbArray[cmd.srcFd], cmd.src, dir, chain, content)
          /\ b_read(cmd.srcFd, BUFFERLEN) /\ cmd.srcFd \in OpenFds
      BY <1>1, <1>2, <1>5, <2>2 DEF Src, OpenInv
    <3>2. /\ Sound' /\ OpenFds' = OpenFds \cup {cmd.srcFd}
          /\ \A fe \in Fds \ {cmd.srcFd} : fcbArray'[fe] = fcbArray[fe]
          /\ UNCHANGED <<alloced, blocks, dir, content>>
          /\ SrcIs(fcbArray'[cmd.srcFd], cmd.src, dir', chain', content')
          /\ PartOf(given'.bytes, fcbArray[cmd.srcFd].filePosition, content[cmd.src])
          /\ fcbArray'[cmd.srcFd].filePosition = fcbArray[cmd.srcFd].filePosition + Len(given'.bytes)
          /\ Len(given'.bytes) \in 0 .. BUFFERLEN
          /\ \/ Len(given'.bytes) = BUFFERLEN
             \/ fcbArray[cmd.srcFd].filePosition + Len(given'.bytes) = Len(content[cmd.src])
      BY <1>2, <3>1, ReadIsRead
    <3>3. s = given'.bytes
      BY <2>2
    <3> HIDE DEF s
    <3> QED BY <1>2, <1>5, <2>2, <3>1, <3>2, <3>3 DEF Src, Dest
  <2> QED BY <2>1, <2>2
<1>7. n \in -1 .. BUFFERLEN /\ s \in Seq(Byte)
  <2>1. cmd.buf \in Seq(Byte) /\ BUFFERLEN \in Nat
    BY <1>2, BufferIsLess DEF Command
  <2>2. SrcOpen => s \in Seq(Byte) /\ Len(s) \in 0 .. BUFFERLEN
    <3> HIDE DEF s
    <3> QED BY <1>6 DEF PartOf
  <2> QED BY <1>5, <2>1, <2>2
<1>8. /\ cmd.srcFd = -1 => n = -1
      /\ cmd.srcFd # -1 => n = Len(s)
  OBVIOUS
<1> HIDE DEF n, s
<1>9. /\ CmdOK(c) /\ CallOf(c) = "read" /\ c.readcnt = n /\ c.buf = s /\ c.at = cmd.at
      /\ c.op = cmd.op /\ c.src = cmd.src /\ c.dest = cmd.dest /\ c.srcFd = cmd.srcFd
      /\ c.destFd = cmd.destFd
  <2>1. cmd.at \in Nat
    BY <1>2 DEF Command
  <2> QED BY <1>1, <1>2, <1>7, <2>1 DEF CmdOK, Command, CallOf, Call
<1> HIDE DEF c
<1>10. /\ cmd' # Prompt /\ CmdOK(cmd') /\ SameBut(c, cmd')
       /\ Call' = IF cmd.op = "cp2l" THEN "hostWrite" ELSE "write"
  BY <1>3, <1>9, GoesTo DEF NextCall
<1>11. /\ cmd'.srcFd = cmd.srcFd /\ cmd'.op = cmd.op /\ cmd'.src = cmd.src /\ cmd'.dest = cmd.dest
       /\ cmd'.destFd = cmd.destFd /\ cmd'.at = cmd.at /\ cmd'.readcnt = n /\ cmd'.buf = s
  BY <1>9, <1>10 DEF SameBut
<1>12. /\ dir' = dir /\ content' = content /\ chain' = chain /\ free' = free /\ blocks' = blocks
  BY <1>6 DEF alloced
<1>13. EntriesKept' /\ NamesOnce' /\ HostOK'
  BY <1>1, <1>2, <1>12 DEF EntriesKept, NamesOnce, HostOK, Stored
<1>14. /\ SrcOpen' <=> SrcOpen
       /\ DestOpen' <=> DestOpen
       /\ Src' = fcbArray'[cmd.srcFd]
       /\ DestOpen => Dest' = Dest
  BY <1>5, <1>6, <1>10, <1>11 DEF SrcOpen, DestOpen, Src, Dest
<1>15. OpenInv'
  <2>1. OpenFds' = (IF SrcOpen THEN {cmd.srcFd} ELSE {}) \cup (IF DestOpen THEN {cmd.destFd} ELSE {})
    BY <1>2, <1>6 DEF OpenInv
  <2>2. SrcOpen => SrcIs(Src', cmd'.src, dir', chain', content')
    BY <1>6, <1>11, <1>14
  <2>3. DestOpen => DestIs(Dest', cmd'.dest, dir', chain', blocks')
    BY <1>2, <1>11, <1>12, <1>14
  <2> QED BY <1>2, <1>11, <1>14, <2>1, <2>2, <2>3 DEF OpenInv
<1>16. NamesInv'
  BY <1>1, <1>2, <1>10, <1>11, <1>12, NamesStay DEF NamesInv
<1>17. /\ Source' = Source /\ Source = content[cmd.src]
       /\ HasSource' <=> HasSource
       /\ HasSource <=> SrcOpen
       /\ HasDest' <=> HasDest
       /\ HasDest => Copied' = Copied
       /\ Reached = Src.filePosition /\ Reached' = Src'.filePosition
  BY <1>1, <1>4, <1>5, <1>11, <1>12, <1>14 DEF Source, HasSource, HasDest, Copied, Reached
<1>18. CallInv'
  <2>1. Begun'
    BY <1>2, <1>5, <1>11, <1>14, <1>17 DEF AtRead, Begun
  <2>2. ASSUME HasSource
        PROVE  /\ n = Len(s) /\ Reached' = Reached + Len(s) /\ PartOf(s, Reached, Source)
               /\ n = BUFFERLEN \/ Reached' = Len(Source)
               /\ Reached' <= Len(Source)
    <3>1. SrcOpen /\ cmd.srcFd # -1
      BY <1>5, <1>17, <2>2
    <3>2. /\ n = Len(s) /\ Reached' = Reached + Len(s) /\ PartOf(s, Reached, Source)
          /\ n = BUFFERLEN \/ Reached' = Len(Source)
      BY <1>6, <1>8, <1>14, <1>17, <3>1
    <3> QED BY <3>2 DEF PartOf
  <2>3. ASSUME HasSource, HasDest
        PROVE  Begins(Copied \o s, Source) /\ Reached' = Len(Copied) + Len(s)
    <3>1. Begins(Copied, Source) /\ Reached = Len(Copied)
      BY <1>2, <2>3 DEF AtRead
    <3>2. PartOf(s, Len(Copied), Source)
      BY <2>2, <2>3, <3>1
    <3> QED BY <2>2, <2>3, <3>1, <3>2, BeginsOn
  <2>4. ~HasSource => n = -1
    BY <1>8 DEF HasSource
  <2>5. AtWrite'
    BY <1>11, <1>17, <2>1, <2>2, <2>3, <2>4 DEF AtWrite
  <2> QED BY <1>10, <2>5 DEF CallInv
<1>19. RoomInv'
  <2>1. Room' = Room
    BY <1>12, <1>14 DEF Room
  <2> QED BY <1>1, <1>2, <1>10, <1>11, <1>12, <1>17, <2>1, NamesStay DEF RoomInv
<1>20. LeftOver' = LeftOver
  BY <1>1, <1>10, <1>12, <1>14 DEF LeftOver, NewFirst
<1> QED BY <1>6, <1>10, <1>12, <1>13, <1>15, <1>16, <1>18, <1>19, <1>20 DEF IInv, DiskInv, Quiet

-----------------------------------------------------------------------------
(* b_write of a buffer that is not empty leaves some bytes in the file's.  *)
LEMMA WriteFills ==
  ASSUME fcbArray \in [Fds -> Fcb \cup {NULL, CLOSED}], NEW fd \in Fds, fcbArray[fd] \in Fcb,
         NEW bytes \in Seq(Byte), 0 < Len(bytes), Len(bytes) < B,
         b_write(fd, bytes)
  PROVE  fcbArray'[fd].buflen > 0
<1> DEFINE f == fcbArray[fd]
           count == Len(bytes)
<1>1. count \in Nat /\ 0 < count /\ count < B /\ f.buflen \in Nat /\ f.buflen <= B /\ B \in Nat \ {0, 1}
  BY BlockIsNat DEF Fcb
<1>3. CASE FirstBlocks(fd, bytes)
  BY <1>1, <1>3 DEF FirstBlocks
<1>4. CASE FirstBlock(fd, bytes)
  BY <1>1, <1>4 DEF FirstBlock, Wrote, Moved, Fcb
<1>5. CASE FillBuffer(fd, bytes)
  BY <1>1, <1>5 DEF FillBuffer, Wrote, Moved, Fcb
<1>6. CASE FillAndGoOn(fd, bytes)
  <2> DEFINE space == SpaceLeft(f)
             whole == WholePuts(fd, space, bytes)
             tail == (count - space) % B
             len == IF whole = <<>> /\ tail = 0 THEN B ELSE tail
  <2>1. space > 0 /\ count > space /\ space = B - f.buflen
    BY <1>6 DEF FillAndGoOn, SpaceLeft
  <2>2. fcbArray'[fd].buflen = len
    BY <1>6 DEF FillAndGoOn, Wrote, Moved, Fcb
  <2>3. tail = count - space /\ tail > 0
    <3> HIDE DEF f, count
    <3> DEFINE x == count - space
    <3>1. x \in Nat /\ x > 0 /\ x < B
      BY <1>1, <2>1
    <3> HIDE DEF x
    <3>2. x % B = x
      BY <1>1, <3>1
    <3> QED BY <3>1, <3>2 DEF x
  <2> QED BY <2>2, <2>3
<1>7. CASE NextBlock(fd, bytes)
  BY <1>1, <1>7 DEF NextBlock, Wrote, Moved, Fcb
<1>8. CASE NextBlocks(fd, bytes)
  BY <1>1, <1>8 DEF NextBlocks
<1>9. CASE NoBranch(fd, bytes)
  BY <1>1, <1>9 DEF NoBranch
<1> QED BY <1>3, <1>4, <1>5, <1>6, <1>7, <1>8, <1>9 DEF b_write

(* A new file that the volume has room for can be written.                 *)
LEMMA DestIsReady ==
  ASSUME Sound, EntriesKept, NamesOnce, NEW f, NEW n, DestIs(f, n, dir, chain, blocks),
         NEW bytes \in Seq(Byte), Len(bytes) < B, f.size + Len(bytes) <= MaxSize,
         BlocksFor(f.size + Len(bytes))
           < Len(free) + IF f.newFile = 1 THEN Len(chain[f.DEptr.first]) ELSE 0
  PROVE  WriteReady(f, bytes)
<1> DEFINE count == Len(bytes)
<1>1. /\ f \in Fcb /\ f.mode # "read" /\ f.newFile \in {0, 1} /\ f.size \in Nat /\ f.filePosition = f.size
      /\ Good(f, dir, chain) /\ WritesBytes(f, dir, chain, blocks)
      /\ f.newFile = 0 => f.expect = <<>>
      /\ f.newFile = 1 => Holds(chain, f.DEptr.first, f.size)
  BY DestFacts
<1>2. count \in Nat /\ count < B /\ B \in Nat
  BY BlockIsNat
<1>3. Apart(free, chain) /\ NoLonger(chain, BlocksFor(MaxSize)) /\ MaxSize \in Nat
      /\ BlocksFor(MaxSize) \in Nat /\ Len(free) \in Nat
  BY MaxIsNat DEF Sound, Apart
<1> HIDE DEF count
<1>4. ASSUME f.newFile = 0
      PROVE  /\ f.size = 0 /\ f.buflen = 0
             /\ Grown(Alloc(free, chain, BlocksFor(count)), free[1], count)
             /\ free[1] \in Clusters \ DOMAIN chain
  <2>1. f.size = 0 /\ f.buflen = 0
    BY <1>1, <1>4 DEF Good, Fresh
  <2>2. f.size + count = count /\ count <= MaxSize
    BY <1>2, <2>1 DEF count
  <2>3. BlocksFor(count) < Len(free)
    BY <1>3, <1>4, <2>2 DEF count
  <2> DEFINE n1 == BlocksFor(count)
  <2>4. n1 \in Nat /\ n1 <= BlocksFor(MaxSize) /\ BlocksFor(count) <= n1 /\ n1 < Len(free)
    BY <1>2, <1>3, <2>2, <2>3, BlocksForGrows, BlocksForIsNat
  <2> HIDE DEF n1
  <2>5. Grown(Alloc(free, chain, n1), free[1], count) /\ free[1] \in Clusters \ DOMAIN chain
    BY <1>2, <1>3, <2>2, <2>4, NewGrows
  <2> QED BY <2>1, <2>5 DEF n1
<1>5. ASSUME f.newFile = 1
      PROVE  /\ f.relativeFileBlockPs <= f.size \div B
             /\ Grown(Place(f, count), f.DEptr.first, f.size + count)
  <2>1. f.relativeFileBlockPs <= f.size \div B
    BY <1>1, <1>5 DEF Good, OnItsChain
  <2>2. Holds(chain, f.DEptr.first, f.size) /\ f.size + count <= MaxSize
    BY <1>1, <1>5 DEF count
  <2>3. Len(chain[f.DEptr.first]) \in Nat
    BY <1>3, <2>2, ChainIsSeq DEF Holds
  <2>4. BlocksFor(f.size + count) < Len(chain[f.DEptr.first]) + Len(free)
    BY <1>3, <1>5, <2>3 DEF count
  <2>5. f.size \in Nat /\ count \in Nat
    BY <1>1, <1>2
  <2>6. Grown(Place(f, count), f.DEptr.first, f.size + count)
    BY <1>3, <2>2, <2>4, <2>5, PlaceGrows
  <2> QED BY <2>1, <2>6
<1>6. f.size + count <= MaxSize /\ count # B /\ f.filePosition <= f.size
  BY <1>1, <1>2 DEF count
<1> QED BY <1>1, <1>4, <1>5, <1>6 DEF WriteReady, count

(* A file that is read stays in order while its chain stays.               *)
LEMMA SrcStays ==
  ASSUME NEW f, NEW n, SrcIs(f, n, dir, chain, content),
         NEW ch, f.DEptr.first \in DOMAIN ch, ch[f.DEptr.first] = chain[f.DEptr.first]
  PROVE  SrcIs(f, n, dir, ch, content)
<1>1. f.newFile = 1 /\ OnItsChain(f, dir, chain)
  BY DEF SrcIs, Good, ReadsInFile
<1>2. OnItsChain(f, dir, ch)
  BY <1>1 DEF OnItsChain, Holds
<1> QED BY <1>1, <1>2 DEF SrcIs, Good

\* what b_write leaves of the file and of the volume
DestWritten(fd, n, bytes) ==
  LET f == fcbArray[fd]
      g == fcbArray'[fd]
      h == g.DEptr.first
  IN  /\ Sound' /\ OpenFds' = OpenFds \cup {fd}
      /\ \A fe \in Fds \ {fd} : fcbArray'[fe] = fcbArray[fe]
      /\ dir' = dir /\ content' = content
      /\ DestIs(g, n, dir', chain', blocks')
      /\ g.newFile = 1 /\ g.expect = f.expect \o bytes
      /\ 0 < Len(bytes) => g.buflen > 0
      /\ DOMAIN chain' = DOMAIN chain \cup {h} /\ h # Root
      /\ \A c \in DOMAIN chain \ {h} : chain'[c] = chain[c]
      /\ f.newFile = 1 => h = f.DEptr.first /\ h \in DOMAIN chain
      /\ f.newFile = 0 => h \notin DOMAIN chain
      /\ Len(free') + Len(chain'[h]) = Len(free) + Had(h)
      /\ EntriesKept' /\ NamesOnce'

(* b_write of a loop's bytes, the first ones and the later ones.           *)
LEMMA DestIsWritten ==
  ASSUME Sound, EntriesKept, NamesOnce, NEW fd \in Fds, NEW n,
         DestIs(fcbArray[fd], n, dir, chain, blocks),
         fcbArray[fd].newFile = 1 => fcbArray[fd].buflen > 0,
         NEW bytes \in Seq(Byte), Len(bytes) < B, WriteReady(fcbArray[fd], bytes),
         b_write(fd, bytes)
  PROVE  DestWritten(fd, n, bytes)
<1> DEFINE f == fcbArray[fd]
           f1 == fcbArray'[fd]
<1>1. /\ f \in Fcb /\ f.mode = "write" /\ f.newFile \in {0, 1} /\ Good(f, dir, chain) /\ f.DEptr.name = n
      /\ WritesBytes(f, dir, chain, blocks) /\ n \in Files /\ ~Exists(n)
      /\ f.newFile = 1 => Holds(chain, f.DEptr.first, f.size)
  BY DestFacts
<1>2. PICK p, h, puts, g : WroteAs(fd, bytes, p, h, puts, g) /\ Leaves(f, bytes, puts, g)
  BY WriteIsWrote
<1>3. f.size + Len(bytes) <= MaxSize
  BY DEF WriteReady
<1>4. /\ Sound' /\ OpenFds' = OpenFds \cup {fd}
      /\ \A fe \in Fds \ {fd} : fcbArray'[fe] = fcbArray[fe]
      /\ fcbArray'[fd] \in Fcb /\ Good(fcbArray'[fd], dir', chain')
      /\ fcbArray'[fd].newFile = 1 /\ fcbArray'[fd].mode # "read"
      /\ fcbArray'[fd].DEptr.first = h
      /\ fcbArray'[fd].DEptr.name = fcbArray[fd].DEptr.name
      /\ DOMAIN chain' = DOMAIN chain \cup {h} /\ h # Root
      /\ \A c \in DOMAIN chain \ {h} : chain'[c] = chain[c]
      /\ UNCHANGED <<dir, content>> /\ given' = NoRead
  BY <1>1, <1>2, <1>3, WroteFits
<1>5. /\ Len(bytes) # B /\ (f.newFile = 0 => Len(bytes) < B)
      /\ f.newFile = 1 => Len(bytes) + f.buflen # 0
  <2>1. f.buflen \in Nat /\ B \in Nat /\ Len(bytes) \in Nat
    BY <1>1, BlockIsNat DEF Fcb
  <2> QED BY <2>1
<1>6. /\ WritesBytes(fcbArray'[fd], dir', chain', blocks')
      /\ fcbArray'[fd].expect = f.expect \o bytes
  BY <1>1, <1>2, <1>5, WroteBytes
<1>7. /\ Grown(p, h, f.size + Len(bytes)) /\ WentOn(f, g, Len(bytes)) /\ Wrote(fd, bytes, p, puts, g)
      /\ \/ f.newFile = 1 /\ h = f.DEptr.first
         \/ f.newFile = 0 /\ h \in Clusters \ DOMAIN chain
  BY <1>2 DEF WroteAs
<1>8. free' = p.free /\ chain' = p.chain
  BY <1>7 DEF Wrote
<1>9. Len(free') + Len(chain'[h]) = Len(free) + Had(h)
  BY <1>7, <1>8 DEF Grown
<1>10. f.newFile = 1 => h = f.DEptr.first /\ h \in DOMAIN chain
  BY <1>1, <1>7 DEF Holds
<1>11. f.newFile = 0 => h \notin DOMAIN chain
  BY <1>7
<1>12. 0 < Len(bytes) => f1.buflen > 0
  BY <1>1, WriteFills DEF Sound, TypeOK
<1>13. \A s \in Used(dir) : Stored(dir[s])' = Stored(dir[s])
  <2> TAKE s \in Used(dir)
  <2>1. dir[s].name # f.DEptr.name
    BY <1>1, SlotsAre
  <2>2. Len(bytes) \in Nat
    OBVIOUS
  <2> QED BY <1>1, <1>2, <2>1, <2>2, WroteSpares
<1>14. EntriesKept' /\ NamesOnce'
  BY <1>4, <1>13, StayKept
<1>15. fcbArray'[fd].mode = "write"
  <2>1. g.mode = f.mode
    BY <1>1, <1>2, <1>7 DEF WentOn, Leaves
  <2> QED BY <1>1, <1>7, <2>1 DEF Wrote
<1> HIDE DEF f
<1>16. DestIs(fcbArray'[fd], n, dir', chain', blocks')
  BY <1>1, <1>4, <1>6, <1>15 DEF DestIs, f
<1> QED BY <1>4, <1>6, <1>9, <1>10, <1>11, <1>12, <1>14, <1>16 DEF DestWritten, f

(* When all was read, what was copied is the source.                       *)
LEMMA BeginsWhole ==
  ASSUME NEW s, NEW x, Begins(s, x), Len(s) = Len(x)
  PROVE  s = x
<1>1. /\ s \in Seq(Byte) /\ x \in Seq(Byte) /\ \A k \in 1 .. Len(s) : s[k] = x[k]
  BY DEF Begins
<1> QED BY <1>1

(* Clusters that a file has and that are free are as many afterwards.      *)
LEMMA RoomStays ==
  ASSUME NEW f, NEW h, f.newFile \in {0, 1},
         f.newFile = 1 => h = f.DEptr.first /\ h \in DOMAIN chain,
         f.newFile = 0 => h \notin DOMAIN chain,
         Len(free) \in Nat, NEW r, r = Len(free) + Had(h)
  PROVE  r = Len(free) + IF f.newFile = 1 THEN Len(chain[f.DEptr.first]) ELSE 0
<1>1. CASE f.newFile = 1
  BY <1>1 DEF Had
<1>2. CASE f.newFile = 0
  BY <1>2 DEF Had
<1> QED BY <1>1, <1>2

\* what b_write leaves of the command's files, or the call that is not made
CommandWrote ==
  /\ Sound' /\ EntriesKept' /\ NamesOnce' /\ dir' = dir /\ content' = content
  /\ OpenFds' = OpenFds
  /\ SrcOpen => fcbArray'[cmd.srcFd] = Src /\ SrcIs(Src, cmd.src, dir', chain', content')
  /\ DestOpen => DestIs(fcbArray'[cmd.destFd], cmd.dest, dir', chain', blocks')
  /\ Room = Len(free') + IF DestOpen /\ fcbArray'[cmd.destFd].newFile = 1
                           THEN Len(chain'[fcbArray'[cmd.destFd].DEptr.first]) ELSE 0
  /\ DOMAIN chain' \ ({Root} \cup Firsts(dir') \cup
        IF DestOpen /\ fcbArray'[cmd.destFd].newFile = 1
          THEN {fcbArray'[cmd.destFd].DEptr.first} ELSE {}) = LeftOver

\* the bytes that it leaves in the new file
DestHas ==
  IF cmd.destFd = -1 \/ cmd.readcnt = -1 THEN DestOpen => fcbArray'[cmd.destFd] = Dest
  ELSE /\ fcbArray'[cmd.destFd].newFile = 1
       /\ fcbArray'[cmd.destFd].expect = Dest.expect \o cmd.buf
       /\ 0 < Len(cmd.buf) => fcbArray'[cmd.destFd].buflen > 0

(* b_write of what was read.                                               *)
LEMMA WriteIsMade ==
  ASSUME IInv, WriteDest
  PROVE  CommandWrote /\ DestHas
<1>1. /\ cmd # Prompt /\ Call = "write" /\ host' = host
      /\ IF cmd.destFd = -1 \/ cmd.readcnt = -1 THEN UNCHANGED vars
                                                ELSE b_write(cmd.destFd, cmd.buf)
  BY DEF WriteDest, Doing, Call, CallOf
<1>2. /\ cmd \in Command /\ CmdOK(cmd) /\ Sound /\ EntriesKept /\ NamesOnce /\ HostOK
      /\ OpenInv /\ NamesInv /\ AtWrite /\ RoomInv
      /\ SrcOpen => cmd.srcFd \in Fds /\ cmd.srcFd # cmd.destFd
                    /\ SrcIs(Src, cmd.src, dir, chain, content)
      /\ DestOpen => cmd.destFd \in Fds /\ DestIs(Dest, cmd.dest, dir, chain, blocks)
  BY <1>1, OpenFacts DEF CallInv
<1>3. cmd.op # "cp2l" /\ cmd.op \in Ops
  BY <1>1, <1>2, WhoCalls DEF Call
<1>4. /\ SrcOpen <=> cmd.srcFd # -1
      /\ DestOpen <=> cmd.destFd # -1
  BY <1>1 DEF SrcOpen, DestOpen
<1>5. Room = Len(free) + IF DestOpen /\ Dest.newFile = 1 THEN Len(chain[Dest.DEptr.first]) ELSE 0
  BY DEF Room
<1>6. LeftOver = DOMAIN chain \ ({Root} \cup Firsts(dir) \cup
                   IF DestOpen /\ Dest.newFile = 1 THEN {Dest.DEptr.first} ELSE {})
  BY <1>1 DEF LeftOver, NewFirst
<1>7. CASE cmd.destFd = -1 \/ cmd.readcnt = -1
  <2>1. /\ dir' = dir /\ content' = content /\ chain' = chain /\ free' = free /\ blocks' = blocks
        /\ fcbArray' = fcbArray /\ stray' = stray
    BY <1>1, <1>7 DEF vars, alloced
  <2>2. Sound' /\ OpenFds' = OpenFds
    BY <1>2, <2>1 DEF Sound, TypeOK, OpenFds, IsOpen
  <2>3. EntriesKept' /\ NamesOnce'
    BY <1>2, <2>1 DEF EntriesKept, NamesOnce, Stored
  <2>4. fcbArray'[cmd.srcFd] = Src /\ fcbArray'[cmd.destFd] = Dest
    BY <2>1 DEF Src, Dest
  <2>5. CommandWrote
    BY <1>2, <1>5, <1>6, <2>1, <2>2, <2>3, <2>4 DEF CommandWrote
  <2> QED BY <1>7, <2>4, <2>5 DEF DestHas
<1>8. CASE ~(cmd.destFd = -1 \/ cmd.readcnt = -1)
  <2> DEFINE fd == cmd.destFd
             bytes == cmd.buf
             f == Dest
             g == fcbArray'[fd]
             h == g.DEptr.first
  <2>1. /\ fd # -1 /\ cmd.readcnt # -1 /\ b_write(fd, bytes) /\ fd \in Fds /\ DestOpen
        /\ HasSource /\ HasDest /\ DestIs(f, cmd.dest, dir, chain, blocks)
        /\ f.newFile = 1 => f.buflen > 0
        /\ fd \in OpenFds
    BY <1>1, <1>2, <1>4, <1>8 DEF AtWrite, HasDest, Begun, OpenInv
  <2>2. /\ bytes \in Seq(Byte) /\ Len(bytes) \in Nat /\ Len(bytes) < B
    <3>1. bytes \in Seq(Byte) /\ cmd.readcnt \in -1 .. BUFFERLEN /\ cmd.readcnt = Len(bytes)
      BY <1>2, <2>1 DEF Command, AtWrite
    <3> QED BY <3>1, BufferIsLess, BlockIsNat
  <2>3. /\ f.newFile \in {0, 1} /\ f.expect \in Seq(Byte) /\ f.size = Len(f.expect) /\ f.size \in Nat
    <3>1. f.newFile \in {0, 1} /\ f.expect \in Seq(Byte) /\ f.size = Len(f.expect)
      BY <1>2, <2>1, DestFacts
    <3> QED BY <3>1
  <2>4. Begins(Copied \o bytes, Source) /\ Copied = f.expect
    BY <1>2, <1>3, <2>1 DEF AtWrite, Copied
  <2>5. f.size + Len(bytes) \in Nat /\ f.size + Len(bytes) <= Len(Source)
    <3> DEFINE x == f.expect
    <3>1. x \in Seq(Byte) /\ Begins(x \o bytes, Source)
      BY <2>3, <2>4
    <3> HIDE DEF x
    <3>2. Len(x \o bytes) = Len(x) + Len(bytes)
      BY <2>2, <3>1, JoinedAt
    <3>3. Len(x \o bytes) <= Len(Source)
      BY <3>1 DEF Begins
    <3>4. Len(x) \in Nat /\ f.size = Len(x)
      BY <2>3, <3>1 DEF x
    <3> HIDE DEF f, bytes
    <3>5. f.size + Len(bytes) = Len(x \o bytes) /\ Len(x) + Len(bytes) \in Nat
      BY <2>2, <3>2, <3>4
    <3> QED BY <3>2, <3>3, <3>5
  <2>6. cmd.op = "cp2fs" \/ Exists(cmd.src)
    BY <1>2, <2>1 DEF HasSource, NamesInv
  <2>7. Len(Source) \in Nat /\ Len(Source) <= MaxSize /\ MaxSize \in Nat
    BY <1>1, <2>6, SourceIs, MaxIsNat
  <2>8. BlocksFor(Len(Source)) < Len(free) + IF f.newFile = 1 THEN Len(chain[f.DEptr.first]) ELSE 0
    BY <1>1, <1>2, <1>3, <1>5, <2>1, <2>6 DEF RoomInv
  <2>9. WriteReady(f, bytes)
    <3> DEFINE n == f.size + Len(bytes)
               r == Len(free) + IF f.newFile = 1 THEN Len(chain[f.DEptr.first]) ELSE 0
    <3>1. n \in Nat /\ n <= Len(Source)
      BY <2>5
    <3> HIDE DEF n
    <3>2. BlocksFor(n) <= BlocksFor(Len(Source)) /\ BlocksFor(n) \in Nat
          /\ BlocksFor(Len(Source)) \in Nat
      BY <2>7, <3>1, BlocksForGrows, BlocksForIsNat
    <3>3. r \in Int
      <4>1. Len(free) \in Nat
        BY <1>2 DEF Sound, Apart
      <4>2. f.newFile = 1 => Len(chain[f.DEptr.first]) \in Nat
        <5>1. f.newFile = 1 => Holds(chain, f.DEptr.first, f.size)
          BY <1>2, <2>1, DestFacts
        <5> QED BY <1>2, <5>1, ChainIsSeq DEF Sound, Holds
      <4> QED BY <4>1, <4>2
    <3>4. BlocksFor(Len(Source)) < r
      BY <2>8
    <3> HIDE DEF r
    <3>5. BlocksFor(n) < r /\ n <= MaxSize
      BY <2>7, <3>1, <3>2, <3>3, <3>4
    <3> QED BY <1>2, <2>1, <2>2, <3>5, DestIsReady DEF n, r
  <2>10. DestWritten(fd, cmd.dest, bytes)
    <3>1. f = fcbArray[fd]
      BY DEF Dest
    <3> QED BY <1>2, <2>1, <2>2, <2>9, <3>1, DestIsWritten
  <2> HIDE DEF bytes, fd
  <2>11. /\ Sound' /\ OpenFds' = OpenFds \cup {fd} /\ EntriesKept' /\ NamesOnce'
         /\ \A fe \in Fds \ {fd} : fcbArray'[fe] = fcbArray[fe]
         /\ dir' = dir /\ content' = content
         /\ DestIs(g, cmd.dest, dir', chain', blocks')
         /\ g.newFile = 1 /\ g.expect = f.expect \o bytes
         /\ 0 < Len(bytes) => g.buflen > 0
         /\ DOMAIN chain' = DOMAIN chain \cup {h} /\ h # Root
         /\ \A c \in DOMAIN chain \ {h} : chain'[c] = chain[c]
         /\ f.newFile = 1 => h = f.DEptr.first /\ h \in DOMAIN chain
         /\ f.newFile = 0 => h \notin DOMAIN chain
         /\ Len(free') + Len(chain'[h]) = Len(free) + Had(h)
    BY <2>10 DEF DestWritten, Dest, fd
  <2> HIDE DEF f, g, h
  <2>12. Len(free') + Len(chain'[h]) = Room
    <3>1. Len(free) \in Nat
      BY <1>2 DEF Sound, Apart
    <3>2. Len(free') + Len(chain'[h]) = Len(free) + IF f.newFile = 1 THEN Len(chain[f.DEptr.first]) ELSE 0
      BY SMTT(30), <2>3, <2>11, <3>1, RoomStays
    <3> QED BY <1>5, <2>1, <3>2 DEF f
  <2>13. SrcOpen => fcbArray'[cmd.srcFd] = Src /\ SrcIs(Src, cmd.src, dir', chain', content')
    <3> SUFFICES ASSUME SrcOpen
                 PROVE  fcbArray'[cmd.srcFd] = Src /\ SrcIs(Src, cmd.src, dir', chain', content')
      OBVIOUS
    <3>1. cmd.srcFd \in Fds \ {fd} /\ SrcIs(Src, cmd.src, dir, chain, content)
      BY <1>2 DEF fd
    <3>2. Src.DEptr.first \in DOMAIN chain /\ Src.DEptr.first \in Firsts(dir)
      BY <1>2, <3>1, SrcFacts
    <3>3. f.newFile = 1 => f.DEptr.first \notin Firsts(dir)
      BY <1>2, <2>1, DestFacts DEF f
    <3>4. Src.DEptr.first # h
      BY <2>3, <2>11, <3>2, <3>3
    <3>5. chain'[Src.DEptr.first] = chain[Src.DEptr.first] /\ Src.DEptr.first \in DOMAIN chain'
      BY <2>11, <3>2, <3>4
    <3>6. SrcIs(Src, cmd.src, dir, chain', content)
      BY <3>1, <3>5, SrcStays
    <3> QED BY <2>11, <3>1, <3>6 DEF Src
  <2>14. DOMAIN chain' \ ({Root} \cup Firsts(dir') \cup {h}) = LeftOver
    <3>1. CASE f.newFile = 1
      BY <1>6, <2>1, <2>11, <3>1 DEF f
    <3>2. CASE f.newFile = 0
      <4>1. LeftOver = DOMAIN chain \ ({Root} \cup Firsts(dir))
        BY <1>6, <3>2 DEF f
      <4>2. h \notin DOMAIN chain
        BY <2>11, <3>2
      <4> QED BY <2>11, <4>1, <4>2
    <3> QED BY <2>3, <3>1, <3>2
  <2>15. OpenFds' = OpenFds
    BY <2>1, <2>11
  <2>16. CommandWrote
    BY <2>1, <2>11, <2>12, <2>13, <2>14, <2>15 DEF CommandWrote, fd, g, h
  <2>17. DestHas
    BY <1>8, <2>11 DEF DestHas, fd, g, f, bytes
  <2> QED BY <2>16, <2>17
<1> QED BY <1>7, <1>8

-----------------------------------------------------------------------------
(* b_write of the destination: the loop goes on, or what was copied is the *)
(* source.                                                                 *)
LEMMA WriteDestKeeps ==
  ASSUME IInv, WriteDest
  PROVE  IInv' /\ Quiet
<1>1. /\ cmd # Prompt /\ Call = "write" /\ CallOf(cmd) = "write" /\ host' = host
      /\ cmd' = Looped(cmd)
  BY DEF WriteDest, Doing, Call, CallOf
<1>2. /\ cmd \in Command /\ CmdOK(cmd) /\ Sound /\ EntriesKept /\ NamesOnce /\ HostOK
      /\ OpenInv /\ NamesInv /\ AtWrite /\ RoomInv
  BY <1>1, OpenFacts DEF CallInv
<1>3. cmd.op # "cp2l" /\ cmd.op \in Ops
  BY <1>1, <1>2, WhoCalls
<1>4. CommandWrote /\ DestHas
  BY WriteIsMade
<1>5. /\ cmd' # Prompt /\ CmdOK(cmd') /\ SameBut(cmd, cmd')
      /\ cmd.readcnt = BUFFERLEN => Call' = IF cmd.op = "cp2fs" THEN "hostRead" ELSE "read"
      /\ cmd.readcnt # BUFFERLEN => Call' = IF cmd.op = "cp2fs" THEN "closeDest" ELSE "closeSrc"
  <2>1. /\ SameBut(cmd, cmd')
        /\ At(cmd', IF cmd.readcnt # BUFFERLEN THEN NextCall(cmd.op, CallOf(cmd))
                    ELSE IF cmd.op = "cp2fs" THEN "hostRead" ELSE "read")
    BY <1>1, <1>2, Loops
  <2>2. NextCall(cmd.op, CallOf(cmd)) = IF cmd.op = "cp2fs" THEN "closeDest" ELSE "closeSrc"
    BY <1>1, NextIs
  <2> QED BY <2>1, <2>2, CommandIs DEF At, Call
<1>6. /\ cmd'.srcFd = cmd.srcFd /\ cmd'.op = cmd.op /\ cmd'.src = cmd.src /\ cmd'.dest = cmd.dest
      /\ cmd'.destFd = cmd.destFd /\ cmd'.at = cmd.at
  BY <1>5 DEF SameBut
<1>7. cmd.op = "cp2fs" => cmd.srcFd = -1
  BY <1>2 DEF NamesInv
<1>8. /\ SrcOpen <=> cmd.srcFd # -1
      /\ DestOpen <=> cmd.destFd # -1
      /\ SrcOpen' <=> SrcOpen
      /\ DestOpen' <=> DestOpen
      /\ Src' = fcbArray'[cmd.srcFd] /\ Dest' = fcbArray'[cmd.destFd]
  BY <1>1, <1>5, <1>6, <1>7 DEF SrcOpen, DestOpen, Src, Dest
<1>9. /\ Sound' /\ EntriesKept' /\ NamesOnce' /\ dir' = dir /\ content' = content
      /\ OpenFds' = OpenFds
      /\ SrcOpen => Src' = Src /\ SrcIs(Src', cmd.src, dir', chain', content')
      /\ DestOpen => DestIs(Dest', cmd.dest, dir', chain', blocks')
  BY <1>4, <1>8 DEF CommandWrote
<1>10. HostOK'
  BY <1>1, <1>2 DEF HostOK
<1>11. OpenInv'
  <2>1. OpenFds' = (IF SrcOpen THEN {cmd.srcFd} ELSE {}) \cup (IF DestOpen THEN {cmd.destFd} ELSE {})
    BY <1>2, <1>9 DEF OpenInv
  <2>2. SrcOpen => cmd.srcFd # cmd.destFd
    BY <1>2 DEF OpenInv
  <2> QED BY <1>6, <1>8, <1>9, <2>1, <2>2 DEF OpenInv
<1>12. NamesInv'
  BY <1>1, <1>2, <1>5, <1>6, <1>9, NamesStay DEF NamesInv
<1>13. /\ Source' = Source
       /\ HasSource' <=> HasSource
       /\ HasDest' <=> HasDest
       /\ HasDest <=> cmd.destFd # -1
       /\ HasSource => Reached' = Reached
       /\ Copied = Dest.expect /\ Copied' = Dest'.expect
  BY <1>1, <1>3, <1>6, <1>8, <1>9 DEF Source, HasSource, HasDest, Copied, Reached
<1>14. HasSource => cmd.readcnt = Len(cmd.buf) /\ cmd.readcnt # -1 /\ Reached <= Len(Source)
  <2>1. cmd.buf \in Seq(Byte) /\ Len(cmd.buf) \in Nat
    BY <1>2 DEF Command
  <2> QED BY <1>2, <2>1 DEF AtWrite
<1>15. ~HasSource => cmd.readcnt = -1
  BY <1>2 DEF AtWrite
<1>16. ASSUME cmd.destFd # -1, HasSource
       PROVE  Dest'.newFile = 1 /\ Copied' = Copied \o cmd.buf
              /\ (0 < Len(cmd.buf) => Dest'.buflen > 0)
  BY <1>4, <1>8, <1>13, <1>14, <1>16 DEF DestHas
<1>17. ASSUME cmd.destFd # -1, ~HasSource
       PROVE  Dest'.newFile = 0
  <2>1. Dest' = Dest
    BY <1>4, <1>8, <1>15, <1>17 DEF DestHas
  <2> QED BY <1>2, <1>17, <2>1 DEF AtWrite, Begun
<1>18. ASSUME HasSource, HasDest
       PROVE  Begins(Copied', Source) /\ Reached' = Len(Copied')
  <2>1. /\ Begins(Copied \o cmd.buf, Source) /\ Reached = Len(Copied) + Len(cmd.buf)
        /\ Copied' = Copied \o cmd.buf
    BY <1>2, <1>13, <1>16, <1>18 DEF AtWrite
  <2>2. cmd.buf \in Seq(Byte) /\ Dest.expect \in Seq(Byte)
    BY <1>1, <1>2, <1>8, <1>13, <1>18, OpenFacts, DestFacts DEF Command
  <2>3. Len(Copied \o cmd.buf) = Len(Copied) + Len(cmd.buf)
    BY <1>13, <2>2, JoinedAt
  <2> QED BY <1>13, <1>18, <2>1, <2>3
<1>19. ASSUME cmd.readcnt = BUFFERLEN
       PROVE  CallInv' /\ RoomInv'
  <2>1. HasSource /\ Len(cmd.buf) > 0
    BY <1>14, <1>15, <1>19, BufferIsLess
  <2>2. Begun'
    BY <1>6, <1>13, <1>16, <2>1 DEF Begun
  <2>3. cmd.op = "cp2fs" => cmd.at <= Len(Source)
    BY <1>14, <2>1 DEF Reached
  <2>4. AtRead'
    BY <1>6, <1>13, <1>18, <2>2, <2>3 DEF AtRead
  <2>5. CallInv'
    BY <1>5, <1>19, <2>4 DEF CallInv
  <2>6. Room' = Room
    BY <1>4, <1>8 DEF CommandWrote, Room
  <2>7. RoomInv'
    BY <1>1, <1>2, <1>6, <1>9, <1>13, <2>6, NamesStay DEF RoomInv
  <2> QED BY <2>5, <2>7
<1>20. ASSUME cmd.readcnt # BUFFERLEN
       PROVE  CallInv' /\ RoomInv'
  <2>1. cmd.destFd # -1 => Dest'.newFile = IF HasSource THEN 1 ELSE 0
    BY <1>16, <1>17
  <2>2. ASSUME HasSource, HasDest
        PROVE  Copied' = Source
    <3>1. Reached' = Len(Source)
      BY <1>2, <1>13, <1>20, <2>2 DEF AtWrite
    <3> QED BY <1>18, <2>2, <3>1, BeginsWhole
  <2>3. Call' = "closeDest" => HasSource
    BY <1>5, <1>20 DEF HasSource
  <2>4. AtClose'
    BY <1>6, <1>13, <2>1, <2>2, <2>3 DEF AtClose
  <2>5. CallInv' /\ RoomInv'
    BY <1>5, <1>20, <2>4 DEF CallInv, RoomInv
  <2> QED BY <2>5
<1>21. LeftOver' = LeftOver
  <2>1. NewFirst' = IF DestOpen /\ Dest'.newFile = 1 THEN {Dest'.DEptr.first} ELSE {}
    BY <1>5, <1>8 DEF NewFirst
  <2> QED BY <1>4, <1>8, <2>1 DEF CommandWrote, LeftOver
<1> QED BY <1>5, <1>9, <1>10, <1>11, <1>12, <1>19, <1>20, <1>21 DEF IInv, DiskInv, Quiet

-----------------------------------------------------------------------------
(* The chains of the command's files.                                      *)
LEMMA ChainsOf ==
  ASSUME IInv
  PROVE  /\ Written = NewFirst /\ Lost = LeftOver
         /\ NewFirst \subseteq DOMAIN chain \ ({Root} \cup Firsts(dir))
         /\ NewFirst # {} => cmd # Prompt /\ DestOpen /\ Dest.newFile = 1
<1>1. {e.first : e \in Entries} = Firsts(dir)
  BY DEF Entries, Firsts, Used
<1>2. cmd = Prompt => OpenFds = {}
  BY DEF IInv
<1> DEFINE W == {fcbArray[fd].DEptr.first : fd \in {x \in OpenFds : fcbArray[x].newFile = 1}}
<1>3. Written = W \ Firsts(dir)
  BY <1>1 DEF Written
<1>4. NewFirst \subseteq DOMAIN chain \ ({Root} \cup Firsts(dir))
  <2> SUFFICES ASSUME cmd # Prompt, DestOpen, Dest.newFile = 1
               PROVE  Dest.DEptr.first \in DOMAIN chain \ ({Root} \cup Firsts(dir))
    BY DEF NewFirst
  <2>1. Holds(chain, Dest.DEptr.first, Dest.size) /\ Dest.DEptr.first \notin Firsts(dir)
    BY OpenFacts, DestFacts
  <2> QED BY <2>1 DEF Holds
<1>5. W \ Firsts(dir) = NewFirst
  <2>1. CASE cmd = Prompt
    BY <1>2, <2>1 DEF NewFirst
  <2>2. CASE cmd # Prompt
    <3>1. OpenFds = (IF SrcOpen THEN {cmd.srcFd} ELSE {}) \cup (IF DestOpen THEN {cmd.destFd} ELSE {})
      BY <2>2, OpenFacts DEF OpenInv
    <3>2. SrcOpen => Src.DEptr.first \in Firsts(dir)
      BY <2>2, OpenFacts, SrcFacts
    <3>3. NewFirst = IF DestOpen /\ Dest.newFile = 1 THEN {Dest.DEptr.first} ELSE {}
      BY <2>2 DEF NewFirst
    <3>4. ASSUME NEW h \in W \ Firsts(dir) PROVE h \in NewFirst
      <4>1. PICK fd \in OpenFds : fcbArray[fd].newFile = 1 /\ h = fcbArray[fd].DEptr.first
        BY <3>4
      <4>2. ~(SrcOpen /\ fd = cmd.srcFd)
        BY <3>2, <3>4, <4>1 DEF Src
      <4>3. DestOpen /\ fd = cmd.destFd
        BY <3>1, <4>1, <4>2
      <4> QED BY <3>3, <4>1, <4>3 DEF Dest
    <3>5. NewFirst \subseteq W
      BY <3>1, <3>3 DEF Dest
    <3>6. NewFirst \cap Firsts(dir) = {}
      BY <1>4
    <3> QED BY <3>4, <3>5, <3>6
  <2> QED BY <2>1, <2>2
<1>6. Lost = LeftOver
  BY <1>1, <1>3, <1>5 DEF Lost, LeftOver
<1> QED BY <1>3, <1>4, <1>5, <1>6 DEF NewFirst

(* The program ends: the new file is gone, the others stay as they are.    *)
LEMMA GoneKeeps ==
  ASSUME IInv, Gone
  PROVE  /\ IInv' /\ dir' = dir /\ content' = content /\ cmd' = Prompt
         /\ LeftOver' = LeftOver \cup NewFirst /\ NewFirst' = {}
<1>1. /\ fcbArray' = [fd \in Fds |-> NULL] /\ cmd' = Prompt
      /\ blocks' = [c \in DOMAIN blocks |->
                      IF \E first \in Written : Contains(chain[first], c)
                        THEN Junk ELSE blocks[c]]
      /\ free' = free /\ chain' = chain /\ dir' = dir /\ stray' = stray /\ content' = content
      /\ host' = host
  BY DEF Gone, alloced
<1>2. Sound /\ EntriesKept /\ NamesOnce /\ HostOK
  BY DEF IInv, DiskInv
<1>3. OpenFds' = {} /\ fcbArray' \in [Fds -> Fcb \cup {NULL, CLOSED}]
  BY <1>1 DEF OpenFds, IsOpen
<1>4. Junk \in Block
  BY DEF Junk, Block, Byte
<1>5. blocks \in [Clusters -> Block] /\ Apart(free, chain) /\ Tidy(dir, chain)
  BY <1>2 DEF Sound, TypeOK, Clusters
<1>6. blocks' \in [Clusters -> Block]
  BY <1>1, <1>4, <1>5
<1>7. Sound'
  BY <1>1, <1>2, <1>3, <1>6 DEF Sound, TypeOK, Clusters
<1>8. Written \subseteq DOMAIN chain \ ({Root} \cup Firsts(dir))
  BY ChainsOf
<1>9. ASSUME NEW s \in Used(dir)
      PROVE  Stored(dir[s])' = Stored(dir[s])
  <2>1. dir[s].first \in DOMAIN chain \ {Root} /\ dir[s].first \in Firsts(dir)
    BY <1>5 DEF Tidy, Holds, Firsts
  <2>2. ASSUME NEW c \in Range(chain[dir[s].first]) PROVE blocks'[c] = blocks[c]
    <3>1. chain[dir[s].first] \in Seq(Clusters)
      BY <1>5, <2>1 DEF Apart
    <3>2. c \in Clusters
      BY <3>1 DEF Range
    <3>3. ASSUME NEW first \in Written PROVE ~Contains(chain[first], c)
      <4>1. first \in DOMAIN chain \ {Root} /\ first # dir[s].first
        BY <1>8, <2>1
      <4>2. /\ chain[first] \in Seq(Clusters)
            /\ Range(chain[dir[s].first]) \cap Range(chain[first]) = {}
        BY <1>5, <2>1, <4>1 DEF Apart
      <4>3. c \notin Range(chain[first]) /\ DOMAIN chain[first] = 1 .. Len(chain[first])
        BY <4>2
      <4> QED BY <4>3 DEF Contains, Range
    <3> QED BY <1>1, <1>5, <3>2, <3>3
  <2> QED BY <1>1, <1>2, <2>2, StoredStays
<1>10. EntriesKept' /\ NamesOnce'
  BY <1>1, <1>2, <1>9, StayKept
<1>11. HostOK'
  BY <1>1, <1>2 DEF HostOK
<1>12. IInv'
  BY <1>1, <1>3, <1>7, <1>10, <1>11 DEF IInv, DiskInv
<1>13. NewFirst' = {}
  BY <1>1 DEF NewFirst
<1>14. LeftOver' = LeftOver \cup NewFirst
  BY <1>1, <1>13, ChainsOf DEF LeftOver
<1> QED BY <1>1, <1>12, <1>13, <1>14

(* b_close of a file that was read writes its entry as it is.              *)
LEMMA SrcCloses ==
  ASSUME Sound, EntriesKept, NamesOnce, NEW fd \in Fds, NEW n,
         SrcIs(fcbArray[fd], n, dir, chain, content), b_close(fd)
  PROVE  /\ Sound' /\ OpenFds' = OpenFds \ {fd}
         /\ \A fe \in Fds \ {fd} : fcbArray'[fe] = fcbArray[fe]
         /\ UNCHANGED <<alloced, blocks, dir, content>>
<1> DEFINE f == fcbArray[fd]
           i == f.indexDE
           e == [f.DEptr EXCEPT !.size = f.size]
<1>1. /\ f \in Fcb /\ f.newFile = 1 /\ f.DEptr.name = n /\ n \in Files /\ f.size = Len(f.expect)
      /\ f.expect = content[n] /\ f.isBufferDirty = 1 /\ f.size \in 0 .. MaxSize
      /\ i \in Used(dir) /\ dir[i].first = f.DEptr.first /\ dir[i].name = n
      /\ Good(f, dir, chain)
  BY SrcFacts
<1>2. /\ Sound' /\ OpenFds' = OpenFds \ {fd}
      /\ \A fe \in Fds \ {fd} : fcbArray'[fe] = fcbArray[fe]
      /\ i \in Slots /\ dir'[i] = e /\ (\A s \in Slots \ {i} : dir'[s] = dir[s])
      /\ content' = [content EXCEPT ![n] = f.expect]
      /\ UNCHANGED alloced /\ blocks' = blocks
  BY <1>1, CloseFits
<1>3. f.DEptr \in Entry
  BY <1>1 DEF Fcb
<1> HIDE DEF f, i
<1>4. /\ dir \in [Slots -> Entry] /\ dir' \in [Slots -> Entry] /\ content \in [Files -> Seq(Byte)]
      /\ dir[i] \in Entry
  BY <1>2 DEF Sound, TypeOK
<1>5. dir[i].size = f.size
  <2>1. Stored(dir[i]) = f.expect
    BY <1>1 DEF EntriesKept
  <2>2. dir[i].size \in Nat
    BY <1>4, MaxIsNat DEF Entry
  <2>3. Len(Stored(dir[i])) = dir[i].size
    BY <2>2 DEF Stored
  <2> QED BY <1>1, <2>1, <2>3
<1>6. e = dir[i]
  BY <1>1, <1>3, <1>4, <1>5 DEF Entry
<1> HIDE DEF e
<1>7. dir' = dir
  BY <1>2, <1>4, <1>6
<1>8. content' = content
  BY <1>1, <1>2, <1>4
<1> QED BY <1>2, <1>7, <1>8 DEF f


-----------------------------------------------------------------------------
(* b_close of the source; a source that b_open did not give ends the       *)
(* program, with nothing written.                                          *)
LEMMA CloseSrcKeeps ==
  ASSUME IInv, CloseSrc
  PROVE  IInv' /\ Quiet
<1>1. /\ cmd # Prompt /\ Call = "closeSrc" /\ CallOf(cmd) = "closeSrc"
      /\ cmd.srcFd = -1 => Gone
      /\ cmd.srcFd # -1 => b_close(cmd.srcFd) /\ cmd' = Advanced(cmd) /\ host' = host
  BY DEF CloseSrc, CloseCall, Doing, Call, CallOf
<1>2. /\ cmd \in Command /\ CmdOK(cmd) /\ Sound /\ EntriesKept /\ NamesOnce /\ HostOK
      /\ OpenInv /\ NamesInv /\ AtClose
      /\ SrcOpen => cmd.srcFd \in Fds /\ cmd.srcFd # cmd.destFd
                    /\ SrcIs(Src, cmd.src, dir, chain, content)
      /\ DestOpen => cmd.destFd \in Fds /\ DestIs(Dest, cmd.dest, dir, chain, blocks)
  BY <1>1, OpenFacts DEF CallInv
<1>3. cmd.op # "cp2fs" /\ cmd.op \in Ops
  BY <1>1, <1>2, WhoCalls
<1>4. /\ SrcOpen <=> cmd.srcFd # -1
      /\ DestOpen <=> cmd.destFd # -1
      /\ HasSource <=> cmd.srcFd # -1
  BY <1>1, <1>3 DEF SrcOpen, DestOpen, HasSource
<1>5. ASSUME cmd.srcFd = -1
      PROVE  IInv' /\ Quiet
  <2>1. NewFirst = {}
    BY <1>2, <1>4, <1>5 DEF AtClose, NewFirst
  <2> QED BY <1>1, <1>5, <2>1, GoneKeeps DEF Quiet
<1>6. ASSUME cmd.srcFd # -1
      PROVE  IInv' /\ Quiet
  <2> DEFINE fd == cmd.srcFd
  <2>1. /\ fd \in Fds /\ SrcIs(fcbArray[fd], cmd.src, dir, chain, content) /\ b_close(fd)
        /\ cmd' = Advanced(cmd) /\ host' = host
    BY <1>1, <1>2, <1>4, <1>6 DEF Src
  <2>2. /\ Sound' /\ OpenFds' = OpenFds \ {fd}
        /\ \A fe \in Fds \ {fd} : fcbArray'[fe] = fcbArray[fe]
        /\ UNCHANGED <<alloced, blocks, dir, content>>
    BY <1>2, <2>1, SrcCloses
  <2>3. /\ dir' = dir /\ content' = content /\ chain' = chain /\ free' = free /\ blocks' = blocks
    BY <2>2 DEF alloced
  <2>4. EntriesKept' /\ NamesOnce' /\ HostOK'
    BY <1>2, <2>1, <2>3 DEF EntriesKept, NamesOnce, HostOK, Stored
  <2>5. OpenFds' = IF DestOpen THEN {cmd.destFd} ELSE {}
    BY <1>2, <1>4, <1>6, <2>2 DEF OpenInv
  <2>6. DestOpen => fcbArray'[cmd.destFd] = Dest
    BY <1>2, <1>4, <1>6, <2>2 DEF Dest
  <2>7. CASE cmd.op = "cp2l"
    <3>1. cmd.destFd = -1 /\ ~DestOpen
      BY <1>2, <1>4, <2>7 DEF NamesInv
    <3>2. NextCall(cmd.op, CallOf(cmd)) = "end"
      BY <1>1, <2>7, NextIs
    <3>3. cmd' = Prompt
      BY <1>2, <2>1, <3>2, Advances
    <3>4. NewFirst = {} /\ NewFirst' = {}
      BY <3>1, <3>3 DEF NewFirst
    <3>5. IInv'
      BY <2>2, <2>4, <2>5, <3>1, <3>3 DEF IInv, DiskInv
    <3> QED BY <2>3, <3>4, <3>5 DEF Quiet, LeftOver
  <2>8. CASE cmd.op # "cp2l"
    <3>1. NextCall(cmd.op, CallOf(cmd)) = "closeDest"
      BY <1>1, <2>8, NextIs
    <3>2. /\ cmd' # Prompt /\ CmdOK(cmd') /\ SameBut(cmd, cmd') /\ Call' = "closeDest"
      BY <1>2, <2>1, <3>1, GoesTo
    <3>3. /\ cmd'.srcFd = cmd.srcFd /\ cmd'.op = cmd.op /\ cmd'.src = cmd.src /\ cmd'.dest = cmd.dest
          /\ cmd'.destFd = cmd.destFd
      BY <3>2 DEF SameBut
    <3>4. /\ ~SrcOpen'
          /\ DestOpen' <=> DestOpen
          /\ DestOpen => Dest' = Dest
      BY <1>4, <2>6, <3>2, <3>3 DEF SrcOpen, DestOpen, Dest
    <3>5. OpenInv'
      BY <1>2, <2>3, <2>5, <3>3, <3>4 DEF OpenInv
    <3>6. NamesInv'
      BY <1>1, <1>2, <2>3, <3>2, <3>3, NamesStay DEF NamesInv
    <3>7. AtClose'
      <4>1. HasSource /\ HasSource'
        BY <1>6, <3>3 DEF HasSource
      <4>2. Source' = Source
        BY <2>1, <2>3, <3>3 DEF Source
      <4>3. HasDest' <=> HasDest
        BY <3>3 DEF HasDest
      <4>4. HasDest => DestOpen /\ Copied' = Copied
        BY <1>4, <2>8, <3>3, <3>4 DEF HasDest, Copied
      <4> QED BY <1>2, <1>4, <3>3, <3>4, <4>1, <4>2, <4>3, <4>4 DEF AtClose
    <3>8. CallInv' /\ RoomInv'
      BY <3>2, <3>7 DEF CallInv, RoomInv
    <3>9. IInv'
      BY <2>2, <2>4, <3>2, <3>5, <3>6, <3>8 DEF IInv, DiskInv
    <3>10. NewFirst' = NewFirst
      BY <1>1, <3>2, <3>4 DEF NewFirst
    <3> QED BY <2>3, <3>9, <3>10 DEF Quiet, LeftOver
  <2> QED BY <2>7, <2>8
<1> QED BY <1>5, <1>6

\* a name that was not there gets its bytes, and no other loses its own
Binds(n, bytes) ==
  /\ n \in Files \ Names /\ Names' = Names \cup {n}
  /\ content' = [content EXCEPT ![n] = bytes]
  /\ Used(dir) \subseteq Used(dir') /\ LeftOver' = LeftOver

(* b_close of a file that is new gives it its entry.                       *)
LEMMA DestCloses ==
  ASSUME Sound, EntriesKept, NamesOnce, NEW fd \in Fds, NEW n, NEW f, f = fcbArray[fd],
         DestIs(f, n, dir, chain, blocks), f.newFile = 1, b_close(fd)
  PROVE  /\ Sound' /\ OpenFds' = OpenFds \ {fd} /\ EntriesKept' /\ NamesOnce'
         /\ chain' = chain /\ Firsts(dir') = Firsts(dir) \cup {f.DEptr.first}
         /\ n \in Files \ Names /\ Names' = Names \cup {n}
         /\ content' = [content EXCEPT ![n] = f.expect]
         /\ Used(dir) \subseteq Used(dir')
         /\ \A m \in Files : Exists(m)' <=> Exists(m) \/ m = n
<1> DEFINE i == f.indexDE
           e == [f.DEptr EXCEPT !.size = f.size]
<1>1. /\ f \in Fcb /\ f.DEptr.name = n /\ n \in Files /\ ~Exists(n)
      /\ Good(f, dir, chain) /\ f.isBufferDirty = 1 /\ i \in Slots
      /\ Keeps(chain, blocks, f.DEptr.first, f.size, f.expect)
      /\ f.DEptr.first \notin Firsts(dir)
  BY DestFacts
<1>2. /\ Sound' /\ OpenFds' = OpenFds \ {fd}
      /\ i \in Slots /\ dir'[i] = e /\ (\A s \in Slots \ {i} : dir'[s] = dir[s])
      /\ Used(dir') = Used(dir) \cup {i}
      /\ dir[i] = Unused \/ dir[i].first = f.DEptr.first
      /\ Firsts(dir') = Firsts(dir) \cup {f.DEptr.first}
      /\ content' = [content EXCEPT ![n] = f.expect]
      /\ UNCHANGED alloced /\ blocks' = blocks
  BY <1>1, CloseFits
<1>3. \A s \in Used(dir) : dir[s].name # n
  BY <1>1, SlotsAre
<1>4. EntriesKept' /\ NamesOnce'
  BY <1>1, <1>3, CloseKept
<1>5. i \notin Used(dir)
  BY <1>1, <1>2 DEF Firsts, Used
<1>6. e.name = n
  <2>1. f.DEptr \in Entry
    BY <1>1 DEF Fcb
  <2> QED BY <1>1, <2>1 DEF Entry
<1> HIDE DEF i, e
<1>7. \A s \in Used(dir) : s \in Slots \ {i} /\ dir'[s] = dir[s]
  BY <1>2, <1>5 DEF Used
<1>8. Names' = Names \cup {n} /\ n \notin Names
  <2>1. Names' = {dir'[s].name : s \in Used(dir) \cup {i}}
    BY <1>2 DEF Names
  <2> QED BY <1>2, <1>3, <1>6, <1>7, <2>1 DEF Names
<1>9. \A m \in Files : Exists(m) <=> m \in Names
  BY SlotsAre DEF Names
<1>10. \A m \in Files : Exists(m)' <=> m \in Names'
  <2> TAKE m \in Files
  <2>1. m # NoName /\ Unused.name = NoName
    BY FileAssumption DEF Unused
  <2> QED BY <2>1 DEF Exists, SlotsOf, Used, Names
<1> QED BY <1>1, <1>2, <1>4, <1>8, <1>9, <1>10 DEF alloced

(* b_close of the destination: the new file appears, with all the bytes of *)
(* its source; a destination that b_open did not give ends the program.    *)
LEMMA CloseDestKeeps ==
  ASSUME IInv, CloseDest
  PROVE  /\ IInv'
         /\ \/ Quiet
            \/ Binds(cmd.dest, Source) /\ (cmd.op = "cp2fs" \/ Exists(cmd.src))
<1>1. /\ cmd # Prompt /\ Call = "closeDest" /\ CallOf(cmd) = "closeDest"
      /\ cmd.destFd = -1 => Gone
      /\ cmd.destFd # -1 => b_close(cmd.destFd) /\ cmd' = Advanced(cmd) /\ host' = host
  BY DEF CloseDest, CloseCall, Doing, Call, CallOf
<1>2. /\ cmd \in Command /\ CmdOK(cmd) /\ Sound /\ EntriesKept /\ NamesOnce /\ HostOK
      /\ OpenInv /\ NamesInv /\ AtClose
      /\ DestOpen => cmd.destFd \in Fds /\ DestIs(Dest, cmd.dest, dir, chain, blocks)
  BY <1>1, OpenFacts DEF CallInv
<1>3. cmd.op # "cp2l" /\ cmd.op \in Ops
  BY <1>1, <1>2, WhoCalls
<1>4. /\ ~SrcOpen
      /\ DestOpen <=> cmd.destFd # -1
  BY <1>1 DEF SrcOpen, DestOpen
<1>5. ASSUME cmd.destFd = -1
      PROVE  IInv' /\ Quiet
  <2>1. NewFirst = {}
    BY <1>4, <1>5 DEF NewFirst
  <2> QED BY <1>1, <1>5, <2>1, GoneKeeps DEF Quiet
<1>6. ASSUME cmd.destFd # -1
      PROVE  IInv' /\ Binds(cmd.dest, Source) /\ (cmd.op = "cp2fs" \/ Exists(cmd.src))
  <2> DEFINE fd == cmd.destFd
             n == cmd.dest
             f == Dest
  <2>1. /\ fd \in Fds /\ f = fcbArray[fd] /\ DestIs(f, n, dir, chain, blocks) /\ b_close(fd)
        /\ cmd' = Advanced(cmd) /\ host' = host
    BY <1>1, <1>2, <1>4, <1>6 DEF Dest
  <2>2. f.newFile = 1 /\ f.expect = Source /\ HasSource
    BY <1>1, <1>2, <1>3, <1>6 DEF AtClose, HasDest, Copied
  <2>3. cmd.op = "cp2fs" \/ (cmd.srcFd # -1 /\ Exists(cmd.src))
    BY <1>2, <2>2 DEF HasSource, NamesInv
  <2>4. /\ Sound' /\ OpenFds' = OpenFds \ {fd} /\ EntriesKept' /\ NamesOnce'
        /\ chain' = chain /\ Firsts(dir') = Firsts(dir) \cup {f.DEptr.first}
        /\ n \in Files \ Names /\ Names' = Names \cup {n}
        /\ content' = [content EXCEPT ![n] = Source]
        /\ Used(dir) \subseteq Used(dir')
        /\ \A m \in Files : Exists(m)' <=> Exists(m) \/ m = n
    <3> HIDE DEF fd, n, f
    <3> QED BY <1>2, <2>1, <2>2, DestCloses
  <2>5. HostOK'
    BY <1>2, <2>1 DEF HostOK
  <2>6. OpenFds' = {}
    BY <1>2, <1>4, <1>6, <2>4 DEF OpenInv
  <2>7. NewFirst = {f.DEptr.first}
    BY <1>1, <1>4, <1>6, <2>2 DEF NewFirst
  <2>8. CASE cmd.op = "mv"
    <3>1. NextCall(cmd.op, CallOf(cmd)) = "delete"
      BY <1>1, <2>8, NextIs
    <3>2. /\ cmd' # Prompt /\ CmdOK(cmd') /\ SameBut(cmd, cmd') /\ Call' = "delete"
      BY <1>2, <2>1, <3>1, GoesTo
    <3>3. /\ cmd'.srcFd = cmd.srcFd /\ cmd'.op = cmd.op /\ cmd'.src = cmd.src /\ cmd'.dest = cmd.dest
          /\ cmd'.destFd = cmd.destFd
      BY <3>2 DEF SameBut
    <3>4. ~SrcOpen' /\ ~DestOpen'
      BY <3>2 DEF SrcOpen, DestOpen
    <3>5. OpenInv'
      BY <2>6, <3>4 DEF OpenInv
    <3>6. /\ cmd.srcFd # -1 /\ cmd.src \in Files /\ Exists(cmd.src) /\ ~Exists(n)
          /\ Source = content[cmd.src]
      BY <1>1, <1>2, <1>3, <2>3, <2>8 DEF NamesInv, CmdOK, Source
    <3>7. Exists(cmd.src)' /\ Exists(cmd.dest)' /\ cmd.src # n
      BY <2>4, <3>3, <3>6
    <3>8. NamesInv'
      BY <2>8, <3>2, <3>3, <3>7 DEF NamesInv
    <3>9. content \in [Files -> Seq(Byte)]
      BY <1>2 DEF Sound, TypeOK
    <3>10. content'[n] = Source /\ content'[cmd.src] = Source
      BY <2>4, <3>6, <3>7, <3>9
    <3>11. AtDelete'
      BY <1>6, <3>3, <3>6, <3>7, <3>10 DEF AtDelete
    <3>12. CallInv' /\ RoomInv'
      BY <3>2, <3>11 DEF CallInv, RoomInv
    <3>13. NewFirst' = {}
      BY <3>4 DEF NewFirst
    <3>14. IInv'
      BY <2>4, <2>5, <3>2, <3>5, <3>8, <3>12 DEF IInv, DiskInv
    <3>15. LeftOver' = LeftOver
      BY <2>4, <2>7, <3>13 DEF LeftOver
    <3> QED BY <2>3, <2>4, <3>14, <3>15 DEF Binds
  <2>9. CASE cmd.op # "mv"
    <3>1. NextCall(cmd.op, CallOf(cmd)) = "end"
      BY <1>1, <2>9, NextIs
    <3>2. cmd' = Prompt
      BY <1>2, <2>1, <3>1, Advances
    <3>3. NewFirst' = {}
      BY <3>2 DEF NewFirst
    <3>4. IInv'
      BY <2>4, <2>5, <2>6, <3>2 DEF IInv, DiskInv
    <3>5. LeftOver' = LeftOver
      BY <2>4, <2>7, <3>3 DEF LeftOver
    <3> QED BY <2>3, <2>4, <3>4, <3>5 DEF Binds
  <2> QED BY <2>8, <2>9
<1> QED BY <1>5, <1>6

-----------------------------------------------------------------------------
\* a name goes with its entry and its chain, and every other file stays
Removes(n) ==
  /\ n \in Names /\ Names' = Names \ {n}
  /\ content' = [content EXCEPT ![n] = <<>>] /\ LeftOver' = LeftOver

\* the only entry that goes is that of the name n
GoesAlone(n) ==
  \E s \in Used(dir) :
    /\ dir[s].name = n /\ Used(dir') = Used(dir) \ {s}
    /\ \A t \in Used(dir) \ {s} : Stored(dir[t])' = Stored(dir[t])

(* fs_delete.                                                              *)
LEMMA FileGoes ==
  ASSUME Sound, EntriesKept, NamesOnce, NEW n \in Files, fs_delete(n)
  PROVE  /\ Sound' /\ EntriesKept' /\ NamesOnce' /\ OpenFds' = OpenFds
         /\ n \in Names /\ Names' = Names \ {n} /\ GoesAlone(n)
         /\ content' = [content EXCEPT ![n] = <<>>]
         /\ DOMAIN chain' \ ({Root} \cup Firsts(dir')) = DOMAIN chain \ ({Root} \cup Firsts(dir))
<1> DEFINE s == Least(SlotsOf(n))
<1>1. /\ Sound' /\ fcbArray' = fcbArray
      /\ s \in Used(dir) /\ dir[s].name = n
      /\ \A t \in Slots \ {s} : dir'[t] = dir[t]
      /\ Used(dir') = Used(dir) \ {s}
      /\ dir[s].first # Root
      /\ Firsts(dir') = Firsts(dir) \ {dir[s].first}
      /\ DOMAIN chain' = DOMAIN chain \ {dir[s].first}
      /\ content' = [content EXCEPT ![n] = <<>>]
  BY DeleteFits
<1>2. EntriesKept' /\ NamesOnce'
  BY DeleteKept
<1>3. \A t \in Used(dir) \ {s} : Stored(dir[t])' = Stored(dir[t])
  BY DeleteSpares
<1> HIDE DEF s
<1>4. OpenFds' = OpenFds
  BY <1>1 DEF OpenFds, IsOpen
<1>5. GoesAlone(n)
  BY <1>1, <1>3 DEF GoesAlone
<1>6. n \in Names /\ Names' = Names \ {n}
  <2>1. Names' = {dir'[t].name : t \in Used(dir) \ {s}}
    BY <1>1 DEF Names
  <2>2. \A t \in Used(dir) \ {s} : dir'[t] = dir[t] /\ dir[t].name # n
    BY <1>1 DEF NamesOnce, Used
  <2> QED BY <1>1, <2>1, <2>2 DEF Names
<1>7. dir[s].first \in Firsts(dir)
  BY <1>1 DEF Firsts
<1> QED BY <1>1, <1>2, <1>4, <1>5, <1>6, <1>7

(* The end of mv: the name goes, its bytes stay under the other.           *)
LEMMA DeleteSrcKeeps ==
  ASSUME IInv, DeleteSrc
  PROVE  /\ IInv' /\ cmd.src \in Files /\ Removes(cmd.src) /\ GoesAlone(cmd.src)
         /\ cmd.dest \in Names \ {cmd.src} /\ content[cmd.dest] = content[cmd.src]
<1>1. /\ cmd # Prompt /\ Call = "delete" /\ CallOf(cmd) = "delete" /\ fs_delete(cmd.src)
      /\ cmd' = Advanced(cmd) /\ host' = host
  BY DEF DeleteSrc, Doing, Call, CallOf
<1>2. /\ CmdOK(cmd) /\ Sound /\ EntriesKept /\ NamesOnce /\ HostOK /\ OpenInv /\ AtDelete
  BY <1>1, OpenFacts DEF CallInv
<1>3. cmd.op = "mv" /\ cmd.src \in Files /\ cmd.dest \in Files
  <2>1. cmd.op = "mv"
    BY <1>1, <1>2, WhoCalls
  <2> QED BY <1>2, <2>1 DEF CmdOK
<1>4. cmd' = Prompt
  <2>1. NextCall(cmd.op, CallOf(cmd)) = "end"
    BY <1>1, NextIs
  <2> QED BY <1>1, <1>2, <2>1, Advances
<1>5. OpenFds = {} /\ ~DestOpen
  BY <1>1, <1>2 DEF OpenInv, SrcOpen, DestOpen
<1>6. /\ Sound' /\ EntriesKept' /\ NamesOnce' /\ OpenFds' = OpenFds
      /\ cmd.src \in Names /\ Names' = Names \ {cmd.src} /\ GoesAlone(cmd.src)
      /\ content' = [content EXCEPT ![cmd.src] = <<>>]
      /\ DOMAIN chain' \ ({Root} \cup Firsts(dir')) = DOMAIN chain \ ({Root} \cup Firsts(dir))
  BY <1>1, <1>2, <1>3, FileGoes
<1>7. HostOK'
  BY <1>1, <1>2 DEF HostOK
<1>8. IInv'
  BY <1>4, <1>5, <1>6, <1>7 DEF IInv, DiskInv
<1>9. NewFirst = {} /\ NewFirst' = {}
  BY <1>4, <1>5 DEF NewFirst
<1>10. LeftOver' = LeftOver
  BY <1>6, <1>9 DEF LeftOver
<1>11. cmd.dest \in Names \ {cmd.src} /\ content[cmd.dest] = content[cmd.src]
  BY <1>2, <1>3, SlotsAre DEF AtDelete, Names
<1> QED BY <1>3, <1>6, <1>8, <1>10, <1>11 DEF Removes

(* rm.                                                                     *)
LEMMA RmKeeps ==
  ASSUME IInv, NEW n \in Files, cmd_rm(n)
  PROVE  IInv' /\ Removes(n)
<1>1. cmd = Prompt /\ fs_delete(n) /\ host' = host /\ cmd' = cmd
  BY DEF cmd_rm
<1>2. /\ Sound /\ EntriesKept /\ NamesOnce /\ HostOK /\ OpenFds = {}
  BY <1>1 DEF IInv, DiskInv
<1>3. /\ Sound' /\ EntriesKept' /\ NamesOnce' /\ OpenFds' = OpenFds
      /\ n \in Names /\ Names' = Names \ {n}
      /\ content' = [content EXCEPT ![n] = <<>>]
      /\ DOMAIN chain' \ ({Root} \cup Firsts(dir')) = DOMAIN chain \ ({Root} \cup Firsts(dir))
  BY <1>1, <1>2, FileGoes
<1>4. HostOK'
  BY <1>1, <1>2 DEF HostOK
<1>5. IInv'
  BY <1>1, <1>2, <1>3, <1>4 DEF IInv, DiskInv
<1>6. NewFirst = {} /\ NewFirst' = {}
  BY <1>1 DEF NewFirst
<1> QED BY <1>3, <1>5, <1>6 DEF Removes, LeftOver

-----------------------------------------------------------------------------
(* The calls on the host leave the volume as it is.                        *)
LEMMA VolumeStays ==
  ASSUME Sound, EntriesKept, NamesOnce, UNCHANGED vars
  PROVE  /\ Sound' /\ EntriesKept' /\ NamesOnce' /\ OpenFds' = OpenFds
         /\ dir' = dir /\ content' = content /\ chain' = chain /\ free' = free /\ blocks' = blocks
         /\ fcbArray' = fcbArray
<1>1. /\ dir' = dir /\ content' = content /\ chain' = chain /\ free' = free /\ blocks' = blocks
      /\ fcbArray' = fcbArray /\ stray' = stray
  BY DEF vars
<1>2. Sound' /\ OpenFds' = OpenFds
  BY <1>1 DEF Sound, TypeOK, OpenFds, IsOpen
<1>3. EntriesKept' /\ NamesOnce'
  BY <1>1 DEF EntriesKept, NamesOnce, Stored
<1> QED BY <1>1, <1>2, <1>3

(* What the command's next call needs of the descriptors when none of them *)
(* changed.                                                                *)
LEMMA FilesStay ==
  ASSUME IInv, cmd # Prompt, UNCHANGED vars, Call \notin {"closeDest", "delete"},
         cmd' # Prompt, Call' \notin {"closeDest", "delete"},
         cmd'.srcFd = cmd.srcFd, cmd'.destFd = cmd.destFd, cmd'.op = cmd.op, cmd'.src = cmd.src,
         cmd'.dest = cmd.dest
  PROVE  /\ OpenInv' /\ NamesInv' /\ Room' = Room /\ LeftOver' = LeftOver
         /\ Src' = Src /\ Dest' = Dest
<1>1. OpenInv /\ NamesInv /\ Sound /\ EntriesKept /\ NamesOnce
  BY OpenFacts
<1>2. /\ OpenFds' = OpenFds
      /\ dir' = dir /\ content' = content /\ chain' = chain /\ free' = free /\ blocks' = blocks
      /\ fcbArray' = fcbArray
  BY <1>1, VolumeStays
<1>3. (SrcOpen' <=> SrcOpen) /\ (DestOpen' <=> DestOpen) /\ Src' = Src /\ Dest' = Dest
  BY <1>2 DEF SrcOpen, DestOpen, Src, Dest
<1>4. OpenInv'
  BY <1>1, <1>2, <1>3 DEF OpenInv
<1>5. NamesInv'
  BY <1>1, <1>2, NamesStay DEF NamesInv
<1>6. Room' = Room /\ NewFirst' = NewFirst
  BY <1>2, <1>3 DEF Room, NewFirst
<1>7. LeftOver' = LeftOver
  BY <1>2, <1>6 DEF LeftOver
<1> QED BY <1>3, <1>4, <1>5, <1>6, <1>7

(* open of the host's file empties it.                                     *)
LEMMA HostOpenKeeps ==
  ASSUME IInv, HostOpen
  PROVE  IInv' /\ Quiet
<1>1. /\ cmd # Prompt /\ Call = "hostOpen" /\ CallOf(cmd) = "hostOpen"
      /\ host' = [host EXCEPT ![cmd.dest] = <<>>]
      /\ cmd' = Advanced(cmd) /\ UNCHANGED vars
  BY DEF HostOpen, Doing, Call, CallOf
<1>2. /\ cmd \in Command /\ CmdOK(cmd) /\ Sound /\ EntriesKept /\ NamesOnce /\ HostOK
      /\ OpenInv /\ NamesInv /\ AtOpenDest
  BY <1>1, OpenFacts DEF CallInv
<1>3. cmd.op = "cp2l" /\ cmd.dest \in HostFiles
  BY <1>1, <1>2, WhoCalls, SourceIs
<1>4. /\ cmd' # Prompt /\ CmdOK(cmd') /\ SameBut(cmd, cmd') /\ Call' = "read"
  <2>1. NextCall(cmd.op, CallOf(cmd)) = "read"
    BY <1>1, NextIs
  <2> QED BY <1>1, <1>2, <2>1, GoesTo
<1>5. /\ cmd'.srcFd = cmd.srcFd /\ cmd'.op = cmd.op /\ cmd'.src = cmd.src /\ cmd'.dest = cmd.dest
      /\ cmd'.destFd = cmd.destFd
  BY <1>4 DEF SameBut
<1>6. /\ Sound' /\ EntriesKept' /\ NamesOnce' /\ dir' = dir /\ content' = content
  BY <1>1, <1>2, VolumeStays
<1>7. OpenInv' /\ NamesInv' /\ LeftOver' = LeftOver /\ Src' = Src
  BY <1>1, <1>4, <1>5, FilesStay
<1>8. HostOK' /\ host'[cmd.dest] = <<>>
  <2>1. <<>> \in Seq(Byte) /\ Len(<<>>) <= MaxSize
    BY MaxIsNat
  <2> QED BY <1>1, <1>2, <1>3, <2>1 DEF HostOK
<1>9. Source' = Source /\ Source \in Seq(Byte) /\ Len(Source) \in Nat
  BY <1>1, <1>3, <1>5, <1>6, SourceIs DEF Source
<1>10. AtRead'
  <2>1. Begun'
    BY <1>2, <1>5 DEF Begun, AtOpenDest
  <2>2. Copied' = <<>>
    BY <1>3, <1>5, <1>8 DEF Copied
  <2>3. HasSource' => Reached' = 0
    BY <1>2, <1>3, <1>5, <1>7 DEF AtOpenDest, HasSource, Reached
  <2>4. Begins(<<>>, Source)
    BY <1>9 DEF Begins
  <2> QED BY <1>3, <1>5, <1>9, <2>1, <2>2, <2>3, <2>4 DEF AtRead
<1>11. CallInv' /\ RoomInv'
  BY <1>3, <1>4, <1>5, <1>10 DEF CallInv, RoomInv
<1> QED BY <1>4, <1>6, <1>7, <1>8, <1>11 DEF IInv, DiskInv, Quiet

(* What a read of the host's file gives.                                   *)
LEMMA HostGives ==
  ASSUME NEW x \in Seq(Byte), NEW at \in Nat, at <= Len(x),
         NEW bytes, bytes = SubSeq(x, at + 1, Lesser(at + BUFFERLEN, Len(x)))
  PROVE  /\ PartOf(bytes, at, x) /\ bytes \in Seq(Byte) /\ Len(bytes) \in 0 .. BUFFERLEN
         /\ at + Len(bytes) \in Nat /\ at + Len(bytes) <= Len(x)
         /\ Len(bytes) = BUFFERLEN \/ at + Len(bytes) = Len(x)
<1> DEFINE to == Lesser(at + BUFFERLEN, Len(x))
<1>1. BUFFERLEN \in Nat \ {0} /\ Len(x) \in Nat
  BY BufferIsLess
<1>2. /\ to \in Nat /\ at <= to /\ to <= Len(x) /\ to - at \in 0 .. BUFFERLEN
      /\ to - at = BUFFERLEN \/ to = Len(x)
  BY <1>1 DEF Lesser
<1> HIDE DEF to
<1>3. bytes = SubSeq(x, at + 1, to)
  BY DEF to
<1>4. Len(bytes) = to - at /\ bytes \in Seq(Byte) /\ \A k \in 1 .. to - at : bytes[k] = x[at + k]
  <2>1. to \in Nat /\ at <= to /\ to <= Len(x) /\ Len(x) \in Nat
    BY <1>1, <1>2
  <2>2. SubSeq(x, at + 1, to) \in Seq(Byte) /\ Len(SubSeq(x, at + 1, to)) = to - at
    BY <2>1
  <2>3. \A k \in 1 .. to - at : SubSeq(x, at + 1, to)[k] = x[at + k]
    BY <2>1
  <2> QED BY <1>3, <2>2, <2>3
<1>6. at + (to - at) = to
  BY <1>2
<1> QED BY <1>2, <1>4, <1>6 DEF PartOf

(* read of the host's file moves the command's source on.                  *)
LEMMA HostReadKeeps ==
  ASSUME IInv, HostRead
  PROVE  IInv' /\ Quiet
<1> DEFINE bytes == SubSeq(host[cmd.src], cmd.at + 1,
                           Lesser(cmd.at + BUFFERLEN, Len(host[cmd.src])))
           n == Len(bytes)
           c == [cmd EXCEPT !.readcnt = n, !.buf = bytes, !.at = cmd.at + n]
<1>1. /\ cmd # Prompt /\ Call = "hostRead" /\ CallOf(cmd) = "hostRead" /\ UNCHANGED vars
      /\ host' = host
  BY DEF HostRead, Doing, Call, CallOf
<1>2. /\ cmd \in Command /\ CmdOK(cmd) /\ Sound /\ EntriesKept /\ NamesOnce /\ HostOK
      /\ OpenInv /\ NamesInv /\ AtRead /\ RoomInv
  BY <1>1, OpenFacts DEF CallInv
<1>3. cmd' = Advanced(c)
  BY <1>2 DEF HostRead, Command
<1>4. cmd.op = "cp2fs" /\ Source = host[cmd.src] /\ cmd.at \in Nat
  BY <1>1, <1>2, WhoCalls DEF Source, Command
<1>5. /\ Source \in Seq(Byte) /\ cmd.at <= Len(Source) /\ HasSource /\ Reached = cmd.at
      /\ cmd.srcFd = -1
  BY <1>1, <1>2, <1>4, SourceIs DEF AtRead, HasSource, Reached, NamesInv
<1>6. /\ PartOf(bytes, cmd.at, Source) /\ bytes \in Seq(Byte) /\ n \in 0 .. BUFFERLEN
      /\ cmd.at + n \in Nat /\ cmd.at + n <= Len(Source)
      /\ n = BUFFERLEN \/ cmd.at + n = Len(Source)
  BY <1>4, <1>5, HostGives
<1> HIDE DEF bytes
<1>7. /\ CmdOK(c) /\ CallOf(c) = "hostRead" /\ c.readcnt = n /\ c.buf = bytes /\ c.at = cmd.at + n
      /\ c.op = cmd.op /\ c.src = cmd.src /\ c.dest = cmd.dest /\ c.srcFd = cmd.srcFd
      /\ c.destFd = cmd.destFd
  <2>1. n \in -1 .. BUFFERLEN
    BY <1>6, BufferIsLess
  <2> HIDE DEF n
  <2> QED BY <1>1, <1>2, <1>6, <2>1 DEF CmdOK, Command, CallOf, Call
<1> HIDE DEF c
<1>8. /\ cmd' # Prompt /\ CmdOK(cmd') /\ SameBut(c, cmd') /\ Call' = "write"
  <2>1. NextCall(c.op, CallOf(c)) = "write"
    BY <1>7, NextIs
  <2> QED BY <1>3, <1>7, <2>1, GoesTo
<1>9. /\ cmd'.srcFd = cmd.srcFd /\ cmd'.op = cmd.op /\ cmd'.src = cmd.src /\ cmd'.dest = cmd.dest
      /\ cmd'.destFd = cmd.destFd /\ cmd'.readcnt = n /\ cmd'.buf = bytes /\ cmd'.at = cmd.at + n
  BY <1>7, <1>8 DEF SameBut
<1>10. /\ Sound' /\ EntriesKept' /\ NamesOnce' /\ dir' = dir /\ content' = content /\ HostOK'
  BY <1>1, <1>2, VolumeStays DEF HostOK
<1>11. OpenInv' /\ NamesInv' /\ LeftOver' = LeftOver /\ Src' = Src /\ Dest' = Dest /\ Room' = Room
  BY <1>1, <1>8, <1>9, FilesStay
<1>12. /\ Source' = Source /\ HasSource' /\ (HasDest' <=> HasDest) /\ Copied' = Copied
       /\ Reached' = cmd.at + n
  BY <1>1, <1>4, <1>9, <1>11 DEF Source, HasSource, HasDest, Copied, Reached
<1>13. AtWrite'
  <2>1. Begun'
    BY <1>2, <1>5, <1>9, <1>11, <1>12 DEF AtRead, Begun
  <2>2. ASSUME HasDest
        PROVE  Begins(Copied \o bytes, Source) /\ Reached' = Len(Copied) + n
    <3>1. Begins(Copied, Source) /\ cmd.at = Len(Copied)
      BY <1>2, <1>5, <2>2 DEF AtRead
    <3> QED BY <1>6, <1>12, <3>1, BeginsOn
  <2> HIDE DEF n
  <2>3. n = Len(bytes)
    BY DEF n
  <2> QED BY <1>6, <1>9, <1>12, <2>1, <2>2, <2>3 DEF AtWrite
<1>14. CallInv'
  BY <1>8, <1>13 DEF CallInv
<1>15. RoomInv'
  BY <1>1, <1>2, <1>4, <1>9, <1>11, <1>12 DEF RoomInv
<1> QED BY <1>8, <1>10, <1>11, <1>14, <1>15 DEF IInv, DiskInv, Quiet

(* write of what was read puts it at the end of the host's file.           *)
LEMMA HostWriteKeeps ==
  ASSUME IInv, HostWrite
  PROVE  IInv' /\ Quiet
<1>1. /\ cmd # Prompt /\ Call = "hostWrite" /\ CallOf(cmd) = "hostWrite" /\ UNCHANGED vars
      /\ host' = IF cmd.readcnt = -1 THEN host
                                     ELSE [host EXCEPT ![cmd.dest] = @ \o cmd.buf]
      /\ cmd' = Looped(cmd)
  BY DEF HostWrite, Doing, Call, CallOf
<1>2. /\ cmd \in Command /\ CmdOK(cmd) /\ Sound /\ EntriesKept /\ NamesOnce /\ HostOK
      /\ OpenInv /\ NamesInv /\ AtWrite
  BY <1>1, OpenFacts DEF CallInv
<1>3. cmd.op = "cp2l" /\ cmd.dest \in HostFiles
  BY <1>1, <1>2, WhoCalls, SourceIs
<1>4. cmd.destFd = -1 /\ HasDest /\ (HasSource <=> cmd.srcFd # -1) /\ Copied = host[cmd.dest]
  BY <1>2, <1>3 DEF NamesInv, HasDest, HasSource, Copied
<1>5. /\ cmd' # Prompt /\ CmdOK(cmd') /\ SameBut(cmd, cmd')
      /\ Call' = IF cmd.readcnt # BUFFERLEN THEN "closeSrc" ELSE "read"
  <2>1. /\ SameBut(cmd, cmd')
        /\ At(cmd', IF cmd.readcnt # BUFFERLEN THEN NextCall(cmd.op, CallOf(cmd))
                    ELSE IF cmd.op = "cp2fs" THEN "hostRead" ELSE "read")
    BY <1>1, <1>2, Loops
  <2>2. NextCall(cmd.op, CallOf(cmd)) = "closeSrc"
    BY <1>1, NextIs
  <2> QED BY <1>3, <2>1, <2>2, CommandIs DEF At, Call
<1>6. /\ cmd'.srcFd = cmd.srcFd /\ cmd'.op = cmd.op /\ cmd'.src = cmd.src /\ cmd'.dest = cmd.dest
      /\ cmd'.destFd = cmd.destFd
  BY <1>5 DEF SameBut
<1>7. /\ Sound' /\ EntriesKept' /\ NamesOnce' /\ dir' = dir /\ content' = content
  BY <1>1, <1>2, VolumeStays
<1>8. OpenInv' /\ NamesInv' /\ LeftOver' = LeftOver /\ Src' = Src
  BY <1>1, <1>5, <1>6, FilesStay
<1>9. Source' = Source /\ Source \in Seq(Byte) /\ Len(Source) \in Nat
  BY <1>1, <1>3, <1>6, <1>7, SourceIs DEF Source
<1>10. cmd.buf \in Seq(Byte) /\ Len(cmd.buf) \in Nat
  BY <1>2 DEF Command
<1>11. ASSUME HasSource
       PROVE  /\ cmd.readcnt = Len(cmd.buf) /\ cmd.readcnt # -1 /\ Copied' = Copied \o cmd.buf
              /\ Begins(Copied', Source) /\ Reached' = Reached /\ Reached = Len(Copied')
  <2>1. /\ cmd.readcnt = Len(cmd.buf) /\ Begins(Copied \o cmd.buf, Source)
        /\ Reached = Len(Copied) + Len(cmd.buf)
    BY <1>2, <1>4, <1>11 DEF AtWrite
  <2>2. host[cmd.dest] \in Seq(Byte)
    BY <1>2, <1>3 DEF HostOK
  <2>3. cmd.readcnt # -1
    BY <1>10, <2>1
  <2>4. host'[cmd.dest] = host[cmd.dest] \o cmd.buf
    BY <1>1, <1>2, <1>3, <2>3 DEF HostOK
  <2>5. Copied' = Copied \o cmd.buf
    BY <1>3, <1>4, <1>6, <2>4 DEF Copied
  <2>6. Len(Copied \o cmd.buf) = Len(Copied) + Len(cmd.buf)
    BY <1>4, <1>10, <2>2, JoinedAt
  <2>7. Reached' = Reached
    BY <1>3, <1>6, <1>8 DEF Reached
  <2> QED BY <2>1, <2>3, <2>5, <2>6, <2>7
<1>12. HostOK'
  <2>1. CASE cmd.readcnt = -1
    BY <1>1, <1>2, <2>1 DEF HostOK
  <2>2. CASE cmd.readcnt # -1
    <3>1. HasSource
      BY <1>2, <2>2 DEF AtWrite
    <3>2. Copied \o cmd.buf \in Seq(Byte) /\ Len(Copied \o cmd.buf) <= Len(Source)
          /\ Len(Copied \o cmd.buf) \in Nat
      <4> DEFINE s == Copied \o cmd.buf
      <4>1. Begins(s, Source)
        BY <1>11, <3>1
      <4> HIDE DEF s
      <4>2. s \in Seq(Byte) /\ Len(s) <= Len(Source)
        BY <4>1 DEF Begins
      <4>3. Len(s) \in Nat
        BY <4>2
      <4> QED BY <4>2, <4>3 DEF s
    <3>3. Len(Source) <= MaxSize
      BY <1>1, <1>2, <1>4, <3>1, SourceIs DEF NamesInv
    <3>4. Len(Copied \o cmd.buf) <= MaxSize
      BY <1>9, <3>2, <3>3, MaxIsNat
    <3>5. host' = [host EXCEPT ![cmd.dest] = Copied \o cmd.buf]
      BY <1>1, <1>4, <2>2
    <3> QED BY <1>2, <1>3, <3>2, <3>4, <3>5 DEF HostOK
  <2> QED BY <2>1, <2>2
<1>13. /\ HasSource' <=> HasSource
       /\ HasDest' /\ cmd'.destFd = -1 /\ cmd'.op = "cp2l"
  BY <1>3, <1>4, <1>6 DEF HasSource, HasDest
<1>14. ASSUME cmd.readcnt = BUFFERLEN
       PROVE  CallInv'
  <2>1. AtRead'
    BY <1>9, <1>11, <1>13 DEF AtRead, Begun
  <2> QED BY <1>5, <1>14, <2>1 DEF CallInv
<1>15. ASSUME cmd.readcnt # BUFFERLEN
       PROVE  CallInv'
  <2>1. HasSource => Copied' = Source
    <3> SUFFICES ASSUME HasSource PROVE Copied' = Source
      OBVIOUS
    <3>1. Reached = Len(Source)
      BY <1>2, <1>15 DEF AtWrite
    <3> QED BY <1>11, <3>1, BeginsWhole
  <2>2. AtClose'
    BY <1>5, <1>9, <1>13, <1>15, <2>1 DEF AtClose
  <2> QED BY <1>5, <1>15, <2>2 DEF CallInv
<1>16. RoomInv'
  BY <1>13 DEF RoomInv
<1> QED BY <1>5, <1>7, <1>8, <1>12, <1>14, <1>15, <1>16 DEF IInv, DiskInv, Quiet

-----------------------------------------------------------------------------
(* A command begins with its first call.                                   *)
LEMMA FirstCall ==
  ASSUME NEW op \in Ops
  PROVE  1 \in DOMAIN Body(op) /\ Body(op)[1] = IF op = "cp2fs" THEN "openDest" ELSE "openSrc"
<1>1. CASE op = "cp"
  BY <1>1 DEF Body, Copies
<1>2. CASE op = "mv"
  <2>1. Copies[1] = "openSrc"
    BY DEF Copies
  <2>2. Body(op) = Copies \o <<"delete">>
    BY <1>2 DEF Body
  <2> QED BY <1>2, <2>1, <2>2, MoveCalls
<1>3. CASE op = "cp2l"
  BY <1>3 DEF Body
<1>4. CASE op = "cp2fs"
  BY <1>4 DEF Body
<1> QED BY <1>1, <1>2, <1>3, <1>4 DEF Ops

(* What is counted of a file is what is stored.                            *)
LEMMA SizeIs ==
  ASSUME Sound, EntriesKept, NEW n \in Files, Exists(n)
  PROVE  SizeOf(n) = Len(content[n])
<1> DEFINE s == Least(SlotsOf(n))
<1>1. s \in Slots /\ dir[s].name = n
  BY SlotIsThere DEF Exists
<1> HIDE DEF s
<1>2. s \in Used(dir)
  BY <1>1, FileAssumption DEF Used, Unused
<1>3. Stored(dir[s]) = content[n]
  BY <1>1, <1>2 DEF EntriesKept
<1>4. dir[s].size \in Nat
  <2>1. dir[s] \in Entry
    BY <1>1 DEF Sound, TypeOK
  <2> QED BY <2>1, MaxIsNat DEF Entry
<1>5. Len(Stored(dir[s])) = dir[s].size
  BY <1>4 DEF Stored
<1> QED BY <1>3, <1>5 DEF SizeOf, s

\* what is entered when the volume has room for it
MayBegin(op, src, dest) ==
  /\ op \in Ops
  /\ src \in IF op = "cp2fs" THEN HostFiles ELSE Files
  /\ dest \in IF op = "cp2l" THEN HostFiles ELSE Files
  /\ op # "cp2l" => ~Exists(dest)
  /\ op = "mv" => Exists(src)
  /\ op # "cp2l" /\ (op = "cp2fs" \/ Exists(src)) =>
       Store!Grants(free, BlocksFor(Len(IF op = "cp2fs" THEN host[src] ELSE content[src])))

(* A command is entered.                                                   *)
LEMMA EnteredKeeps ==
  ASSUME IInv, NEW op, NEW src, NEW dest, MayBegin(op, src, dest), Entered(op, src, dest)
  PROVE  IInv' /\ Quiet
<1>1. /\ cmd = Prompt /\ UNCHANGED vars /\ host' = host
      /\ cmd' = [op |-> op, src |-> src, dest |-> dest, pc |-> 1, srcFd |-> -1,
                 destFd |-> -1, readcnt |-> -1, buf |-> <<>>, at |-> 0]
  BY DEF Entered
<1>2. Sound /\ EntriesKept /\ NamesOnce /\ HostOK /\ OpenFds = {}
  BY <1>1 DEF IInv, DiskInv
<1>3. /\ Sound' /\ EntriesKept' /\ NamesOnce' /\ OpenFds' = {}
      /\ dir' = dir /\ content' = content /\ chain' = chain /\ free' = free
  BY <1>1, <1>2, VolumeStays
<1>4. HostOK'
  BY <1>1, <1>2 DEF HostOK
<1>5. /\ op \in Ops /\ src \in Files \cup HostFiles /\ dest \in Files \cup HostFiles
      /\ src \in IF op = "cp2fs" THEN HostFiles ELSE Files
      /\ dest \in IF op = "cp2l" THEN HostFiles ELSE Files
  BY DEF MayBegin
<1>6. /\ cmd'.op = op /\ cmd'.src = src /\ cmd'.dest = dest /\ cmd'.pc = 1 /\ cmd'.srcFd = -1
      /\ cmd'.destFd = -1 /\ cmd'.at = 0
  BY <1>1
<1>7. cmd' \in Command
  <2>1. -1 \in -1 .. BUFFERLEN /\ <<>> \in Seq(Byte)
    BY BufferIsLess
  <2> QED BY <1>1, <1>5, <2>1 DEF Command
<1>8. CmdOK(cmd')
  BY <1>5, <1>6, <1>7, FirstCall DEF CmdOK
<1>9. cmd' # Prompt
  BY <1>8, CommandIs
<1>10. Call' = IF op = "cp2fs" THEN "openDest" ELSE "openSrc"
  BY <1>5, <1>6, FirstCall DEF Call, CallOf
<1>11. ~SrcOpen' /\ ~DestOpen'
  BY <1>6 DEF SrcOpen, DestOpen
<1>12. OpenInv'
  BY <1>3, <1>11 DEF OpenInv
<1>13. NamesInv'
  <2>1. /\ op # "cp2l" => ~Exists(dest)
        /\ op = "mv" => Exists(src)
    BY DEF MayBegin
  <2> QED BY <1>3, <1>6, <2>1, NamesStay DEF NamesInv
<1>14. CallInv'
  BY <1>6, <1>10 DEF CallInv, AtOpenSrc, AtOpenDest
<1>15. RoomInv'
  <2> DEFINE x == IF op = "cp2fs" THEN host[src] ELSE content[src]
  <2>1. Source' = x /\ Room' = Len(free)
    BY <1>1, <1>3, <1>6, <1>11 DEF Source, Room
  <2>2. x \in Seq(Byte)
    BY <1>2, <1>5 DEF HostOK, Sound, TypeOK
  <2>3. op # "cp2l" /\ (op = "cp2fs" \/ Exists(src)) => Store!Grants(free, BlocksFor(Len(x)))
    BY DEF MayBegin
  <2> HIDE DEF x
  <2>4. BlocksFor(Len(x)) \in Nat
    BY <2>2, BlocksForIsNat
  <2>5. Len(free) \in Nat
    BY <1>2 DEF Sound, Apart
  <2>6. op # "cp2l" /\ (op = "cp2fs" \/ Exists(src)) => BlocksFor(Len(x)) < Len(free)
    BY <2>3, <2>4, <2>5 DEF Store!Grants
  <2> QED BY <1>3, <1>6, <2>1, <2>6, NamesStay DEF RoomInv
<1>16. LeftOver' = LeftOver
  BY <1>1, <1>3, <1>11 DEF LeftOver, NewFirst
<1> QED BY <1>3, <1>4, <1>8, <1>9, <1>12, <1>13, <1>14, <1>15, <1>16 DEF IInv, DiskInv, Quiet

(* What is entered at the prompt has room, and a name that is not in use.  *)
LEMMA EnterBegins ==
  ASSUME ~Overwrite, IInv, Enter
  PROVE  \/ \E op, src, dest : MayBegin(op, src, dest) /\ Entered(op, src, dest)
         \/ \E n \in Files : cmd_rm(n)
         \/ Exit
<1>1. Sound /\ EntriesKept
  BY DEF IInv, DiskInv
<1>2. ASSUME NEW m \in Files, NEW n \in Files, cmd_cp(m, n)
      PROVE  MayBegin("cp", m, n) /\ Entered("cp", m, n)
  BY <1>1, <1>2, SizeIs DEF cmd_cp, MayWrite, MayBegin, Ops
<1>3. ASSUME NEW m \in Files, NEW n \in Files, cmd_mv(m, n)
      PROVE  MayBegin("mv", m, n) /\ Entered("mv", m, n)
  BY <1>1, <1>3, SizeIs DEF cmd_mv, MayWrite, MayBegin, Ops
<1>4. ASSUME NEW n \in Files, NEW h \in HostFiles, cmd_cp2l(n, h)
      PROVE  MayBegin("cp2l", n, h) /\ Entered("cp2l", n, h)
  BY <1>4 DEF cmd_cp2l, MayBegin, Ops
<1>5. ASSUME NEW n \in Files, NEW h \in HostFiles, cmd_cp2fs(h, n)
      PROVE  MayBegin("cp2fs", h, n) /\ Entered("cp2fs", h, n)
  BY <1>5 DEF cmd_cp2fs, MayWrite, MayBegin, Ops
<1> QED BY <1>2, <1>3, <1>4, <1>5 DEF Enter

(* The program ends at the prompt and is started again.                    *)
LEMMA ExitKeeps ==
  ASSUME IInv, Exit
  PROVE  IInv' /\ Quiet
<1>1. /\ cmd = Prompt /\ cmd' = cmd /\ host' = host /\ fcbArray' = [fd \in Fds |-> NULL]
      /\ free' = free /\ chain' = chain /\ blocks' = blocks /\ dir' = dir /\ stray' = stray
      /\ content' = content
  BY DEF Exit, Restart, alloced
<1>2. Sound /\ EntriesKept /\ NamesOnce /\ HostOK
  BY DEF IInv, DiskInv
<1>3. OpenFds' = {} /\ fcbArray' \in [Fds -> Fcb \cup {NULL, CLOSED}]
  BY <1>1 DEF OpenFds, IsOpen
<1>4. Sound'
  BY <1>1, <1>2, <1>3 DEF Sound, TypeOK
<1>5. EntriesKept' /\ NamesOnce' /\ HostOK'
  BY <1>1, <1>2 DEF EntriesKept, NamesOnce, Stored, HostOK
<1>6. IInv'
  BY <1>1, <1>3, <1>4, <1>5 DEF IInv, DiskInv
<1>7. NewFirst = {} /\ NewFirst' = {}
  BY <1>1 DEF NewFirst
<1> QED BY <1>1, <1>6, <1>7 DEF Quiet, LeftOver

(* A step that changes nothing.                                            *)
LEMMA StutterKeeps ==
  ASSUME IInv, UNCHANGED shellVars
  PROVE  IInv' /\ Quiet
<1>1. UNCHANGED vars /\ host' = host /\ cmd' = cmd
  BY DEF shellVars
<1>2. Sound /\ EntriesKept /\ NamesOnce /\ HostOK
  BY DEF IInv, DiskInv
<1>3. /\ Sound' /\ EntriesKept' /\ NamesOnce' /\ OpenFds' = OpenFds
      /\ dir' = dir /\ content' = content /\ chain' = chain /\ free' = free /\ blocks' = blocks
      /\ fcbArray' = fcbArray
  BY <1>1, <1>2, VolumeStays
<1>4. HostOK'
  BY <1>1, <1>2 DEF HostOK
<1>5. Call' = Call
  BY <1>1 DEF Call
<1>6. (SrcOpen' <=> SrcOpen) /\ (DestOpen' <=> DestOpen) /\ Src' = Src /\ Dest' = Dest
  BY <1>1, <1>3, <1>5 DEF SrcOpen, DestOpen, Src, Dest
<1>7. CASE cmd = Prompt
  <2>1. IInv'
    BY <1>1, <1>3, <1>4, <1>7 DEF IInv, DiskInv
  <2>2. NewFirst = {} /\ NewFirst' = {}
    BY <1>1, <1>7 DEF NewFirst
  <2> QED BY <1>3, <2>1, <2>2 DEF Quiet, LeftOver
<1>8. CASE cmd # Prompt
  <2>1. CmdOK(cmd) /\ OpenInv /\ NamesInv /\ CallInv /\ RoomInv
    BY <1>8, OpenFacts
  <2>2. OpenInv'
    BY <1>1, <1>3, <1>6, <2>1 DEF OpenInv
  <2>3. NamesInv'
    BY <1>1, <1>3, <1>5, <2>1, NamesStay DEF NamesInv
  <2>4. /\ Source' = Source /\ Copied' = Copied /\ Reached' = Reached /\ Room' = Room
        /\ HasSource' <=> HasSource
        /\ HasDest' <=> HasDest
    BY <1>1, <1>3, <1>6 DEF Source, Copied, Reached, Room, HasSource, HasDest
  <2>5. CallInv'
    <3>1. (AtOpenSrc' <=> AtOpenSrc) /\ (AtOpenDest' <=> AtOpenDest)
      BY <1>1, <1>6 DEF AtOpenSrc, AtOpenDest
    <3>2. Begun' <=> Begun
      BY <1>1, <1>6, <2>4 DEF Begun
    <3>3. AtRead' <=> AtRead
      BY <1>1, <2>4, <3>2 DEF AtRead
    <3>4. AtWrite' <=> AtWrite
      BY <1>1, <2>4, <3>2 DEF AtWrite
    <3>5. AtClose' <=> AtClose
      BY <1>1, <1>5, <1>6, <2>4 DEF AtClose
    <3>6. AtDelete' <=> AtDelete
      BY <1>1, <1>3 DEF AtDelete, Exists, SlotsOf
    <3> QED BY <1>5, <2>1, <3>1, <3>3, <3>4, <3>5, <3>6 DEF CallInv
  <2>6. RoomInv'
    BY <1>1, <1>3, <1>5, <2>1, <2>4, NamesStay DEF RoomInv
  <2>7. IInv'
    BY <1>1, <1>3, <1>4, <1>8, <2>1, <2>2, <2>3, <2>5, <2>6 DEF IInv, DiskInv
  <2>8. NewFirst' = NewFirst
    BY <1>1, <1>6 DEF NewFirst
  <2> QED BY <1>3, <2>7, <2>8 DEF Quiet, LeftOver
<1> QED BY <1>7, <1>8

-----------------------------------------------------------------------------
(* A formatted volume and any files of the host satisfy the invariant.     *)
LEMMA ShellInitSatisfies == ShellInit => IInv /\ Names = {}
<1> SUFFICES ASSUME ShellInit PROVE IInv /\ Names = {}
  OBVIOUS
<1>1. Init /\ cmd = Prompt
  BY DEF ShellInit
<1>2. Sound /\ OpenFds = {} /\ Used(dir) = {}
  BY <1>1, InitIsSound
<1>3. EntriesKept /\ NamesOnce /\ Names = {}
  BY <1>2 DEF EntriesKept, NamesOnce, Names
<1>4. HostOK
  <2>1. PICK size \in [HostFiles -> HostSizes] :
          host = [h \in HostFiles |-> [k \in 1 .. size[h] |-> <<h, k>>]]
    BY DEF ShellInit
  <2>2. ASSUME NEW h \in HostFiles
        PROVE  host[h] \in Seq(Byte) /\ Len(host[h]) <= MaxSize
    <3> DEFINE n == size[h]
               s == [k \in 1 .. n |-> <<h, k>>]
    <3>5. n \in HostSizes
      BY <2>1, <2>2
    <3> HIDE DEF n
    <3>6. n \in 0 .. MaxSize /\ h \in Origins
      BY <2>2, <3>5, ShellAssumption
    <3>1. n \in 0 .. MaxSize /\ n \in Nat /\ n <= MaxSize /\ h \in Origins
      BY <3>6, MaxIsNat
    <3>2. \A k \in 1 .. n : <<h, k>> \in Byte
      BY <3>1 DEF Byte
    <3>3. s \in Seq(Byte) /\ Len(s) = n
      BY <3>1, <3>2
    <3>4. host[h] = s
      BY <2>1, <2>2 DEF n
    <3> HIDE DEF s
    <3> QED BY <3>1, <3>3, <3>4
  <2>3. host = [h \in HostFiles |-> host[h]]
    BY <2>1
  <2> QED BY <2>2, <2>3 DEF HostOK
<1> QED BY <1>1, <1>2, <1>3, <1>4 DEF IInv, DiskInv

\* the steps that change what is stored or whose chains there are
Commits ==
  /\ cmd # Prompt /\ Binds(cmd.dest, Source) /\ CmdOK(cmd) /\ cmd.op # "cp2l"
  /\ cmd.op = "cp2fs" \/ Exists(cmd.src)
Moves ==
  /\ cmd.src \in Files /\ Removes(cmd.src) /\ GoesAlone(cmd.src)
  /\ cmd.dest \in Names \ {cmd.src} /\ content[cmd.dest] = content[cmd.src]
Deletes == cmd = Prompt /\ \E n \in Files : Removes(n)
Killed == Kill /\ dir' = dir /\ content' = content /\ LeftOver' = LeftOver \cup NewFirst

(* Every step keeps the invariant, and does one of these or nothing.       *)
LEMMA ShellStepKeeps ==
  ASSUME ~Overwrite, IInv, [ShellNext]_shellVars
  PROVE  IInv' /\ (Quiet \/ Commits \/ Moves \/ Deletes \/ Killed)
<1>1. CASE UNCHANGED shellVars
  BY <1>1, StutterKeeps
<1>2. ASSUME Enter PROVE IInv' /\ (Quiet \/ Deletes)
  <2>1. ASSUME NEW op, NEW src, NEW dest, MayBegin(op, src, dest), Entered(op, src, dest)
        PROVE  IInv' /\ Quiet
    BY <2>1, EnteredKeeps
  <2>2. ASSUME NEW n \in Files, cmd_rm(n) PROVE IInv' /\ Deletes
    BY <2>2, RmKeeps DEF Deletes, cmd_rm
  <2>3. ASSUME Exit PROVE IInv' /\ Quiet
    BY <2>3, ExitKeeps
  <2> QED BY <1>2, <2>1, <2>2, <2>3, EnterBegins
<1>3. ASSUME CommandStep PROVE IInv' /\ (Quiet \/ Commits \/ Moves)
  <2>1. ASSUME CloseDest PROVE IInv' /\ (Quiet \/ Commits)
    <3>1. cmd # Prompt /\ CallOf(cmd) = "closeDest"
      BY <2>1 DEF CloseDest, Doing, CallOf
    <3>2. CmdOK(cmd) /\ cmd.op # "cp2l"
      BY <3>1, OpenFacts, WhoCalls
    <3> QED BY <2>1, <3>1, <3>2, CloseDestKeeps DEF Commits
  <2>2. ASSUME DeleteSrc PROVE IInv' /\ Moves
    BY <2>2, DeleteSrcKeeps DEF Moves
  <2> QED BY <1>3, <2>1, <2>2, OpenSrcKeeps, OpenDestKeeps, ReadSrcKeeps, WriteDestKeeps,
             CloseSrcKeeps, HostOpenKeeps, HostWriteKeeps, HostReadKeeps DEF CommandStep
<1>4. ASSUME Kill PROVE IInv' /\ Killed
  BY <1>4, GoneKeeps DEF Kill, Killed
<1> QED BY <1>1, <1>2, <1>3, <1>4 DEF ShellNext

(* The commands keep the invariant: the descriptors of a command that is   *)
(* between two calls are at the places that its next call counts on, and   *)
(* the entries have the bytes that were handed to b_write                  *)
(* (fsshell.c:255-278, 300-330, 425-452, 470-497).                         *)
THEOREM CommandsKeepOrder ==
  ASSUME ~Overwrite
  PROVE  ShellSpec => []IInv
<1>1. ShellInit => IInv
  BY ShellInitSatisfies
<1>2. IInv /\ [ShellNext]_shellVars => IInv'
  BY ShellStepKeeps
<1> QED BY <1>1, <1>2, PTL DEF ShellSpec

-----------------------------------------------------------------------------
(* What is stored.                                                         *)
LEMMA StoreIs == IInv => StoreOf(dir) = [n \in Names |-> content[n]]
<1> SUFFICES ASSUME IInv PROVE StoreOf(dir) = [n \in Names |-> content[n]]
  OBVIOUS
<1>1. Sound /\ EntriesKept
  BY DEF IInv, DiskInv
<1>2. \A s \in Slots : s \in Used(dir) <=> dir[s].name # NoName
  <2> TAKE s \in Slots
  <2>1. s \in Used(dir) => dir[s].name \in Files
    BY <1>1 DEF Sound, Tidy
  <2> QED BY <2>1, FileAssumption DEF Used, Unused
<1>3. {dir[s].name : s \in Slots} \ {NoName} = Names
  BY <1>2 DEF Names, Used
<1>4. ASSUME NEW n \in Names
      PROVE  Stored(dir[CHOOSE s \in Slots : dir[s].name = n]) = content[n]
  <2> DEFINE t == CHOOSE s \in Slots : dir[s].name = n
  <2>1. \E s \in Slots : dir[s].name = n
    BY <1>2 DEF Names, Used
  <2>2. t \in Slots /\ dir[t].name = n
    BY <2>1
  <2> HIDE DEF t
  <2>3. t \in Used(dir)
    BY <1>2, <1>4, <2>2 DEF Names, Used
  <2>4. Stored(dir[t]) = content[n]
    BY <1>1, <2>2, <2>3 DEF EntriesKept
  <2> QED BY <2>4 DEF t
<1> QED BY <1>3, <1>4 DEF StoreOf

(* When cp2l's loop has ended, the host's file is the volume's, byte for   *)
(* byte (fsshell.c:441-446).                                               *)
THEOREM CopiesOutWhole ==
  ASSUME ~Overwrite
  PROVE  ShellSpec => []CopyOutIsWhole
<1>1. IInv => CopyOutIsWhole
  <2> SUFFICES ASSUME IInv, Doing("closeSrc"), cmd.op = "cp2l", Exists(cmd.src), cmd.srcFd # -1
               PROVE  host[cmd.dest] = StoreOf(dir)[cmd.src]
    BY DEF CopyOutIsWhole
  <2>1. cmd # Prompt /\ Call = "closeSrc"
    BY DEF Doing, Call, CallOf
  <2>2. AtClose /\ CmdOK(cmd) /\ Sound
    BY <2>1, OpenFacts DEF CallInv
  <2>3. host[cmd.dest] = content[cmd.src] /\ cmd.src \in Files
    BY <2>2 DEF AtClose, HasSource, HasDest, Copied, Source, CmdOK
  <2>4. cmd.src \in Names
    BY <2>2, <2>3, SlotsAre DEF Names
  <2> QED BY <2>3, <2>4, StoreIs
<1> QED BY <1>1, CommandsKeepOrder, PTL

(* Clusters are lost only when the program is killed, and then those of    *)
(* the file that was being written: a command that ends, and one that ends *)
(* the program in b_close(-1), loses none (fsshell.c:263-271,              *)
(* b_io.c:388-398).                                                        *)
THEOREM KillsAloneLose ==
  ASSUME ~Overwrite
  PROVE  ShellSpec => OnlyKillsLose
<1>1. IInv => Lost = LeftOver /\ Written = NewFirst
  BY ChainsOf
<1>2. ASSUME IInv, [ShellNext]_shellVars
      PROVE  LeftOver' = LeftOver \/ (Kill /\ LeftOver' = LeftOver \cup NewFirst)
  BY <1>2, ShellStepKeeps DEF Quiet, Commits, Binds, Moves, Removes, Deletes, Killed
<1>3. /\ IInv /\ (Lost = LeftOver /\ Written = NewFirst)
      /\ (Lost = LeftOver /\ Written = NewFirst)' /\ [ShellNext]_shellVars
      => (Lost' # Lost => Kill /\ Lost' \subseteq Lost \cup Written)
  BY <1>2
<1> QED BY <1>1, <1>3, CommandsKeepOrder, PTL DEF ShellSpec, OnlyKillsLose

(* mv removes the old name when the new one has its bytes, and no other    *)
(* command but rm removes one, whatever b_open and a kill do               *)
(* (fsshell.c:316-326).                                                    *)
THEOREM MovesKeepFiles ==
  ASSUME ~Overwrite
  PROVE  ShellSpec => MoveKeepsFile
<1>1. ASSUME IInv, [ShellNext]_shellVars, cmd # Prompt,
             NEW s \in Slots, dir[s] # Unused, dir'[s] = Unused
      PROVE  \E t \in Slots : dir'[t] # Unused /\ Stored(dir[t])' = Stored(dir[s])
  <2>1. s \in Used(dir) /\ s \notin Used(dir')
    BY <1>1 DEF Used
  <2>2. Moves
    BY <1>1, <2>1, ShellStepKeeps DEF Quiet, Commits, Binds, Deletes, Killed
  <2>3. PICK r \in Used(dir) :
          /\ dir[r].name = cmd.src /\ Used(dir') = Used(dir) \ {r}
          /\ \A t \in Used(dir) \ {r} : Stored(dir[t])' = Stored(dir[t])
    BY <2>2 DEF Moves, GoesAlone
  <2>4. s = r
    BY <2>1, <2>3
  <2>5. PICK t \in Used(dir) : dir[t].name = cmd.dest
    BY <2>2 DEF Moves, Names
  <2>6. t # r
    BY <2>2, <2>3, <2>5 DEF Moves
  <2>7. EntriesKept
    BY <1>1 DEF IInv, DiskInv
  <2>8. Stored(dir[t])' = Stored(dir[t]) /\ Stored(dir[t]) = Stored(dir[s])
    BY <2>2, <2>3, <2>4, <2>5, <2>6, <2>7 DEF Moves, EntriesKept
  <2>9. t \in Slots /\ dir'[t] # Unused
    BY <2>3, <2>6 DEF Used
  <2> QED BY <2>8, <2>9
<1>2. IInv /\ [ShellNext]_shellVars =>
        (cmd # Prompt =>
           \A s \in Slots : dir[s] # Unused /\ dir'[s] = Unused =>
             \E t \in Slots : dir'[t] # Unused /\ Stored(dir[t])' = Stored(dir[s]))
  BY <1>1
<1> QED BY <1>2, CommandsKeepOrder, PTL DEF ShellSpec, MoveKeepsFile

(* The commands implement FileStore: a name appears with all the bytes of  *)
(* its source at once, no other file changes with it, and none goes but    *)
(* under rm and at the end of mv (fsshell.c:263-271, 316-326, 483-490).    *)
THEOREM FileStoreIsImplemented ==
  ASSUME ~Overwrite
  PROVE  ShellSpec => ImplementsFileStore
<1> DEFINE Map == [n \in Names |-> content[n]]
<1>1. ShellInit => Abstract!Init
  <2> SUFFICES ASSUME ShellInit PROVE Abstract!Init
    OBVIOUS
  <2>1. StoreOf(dir) = Map /\ Names = {}
    BY ShellInitSatisfies, StoreIs
  <2> QED BY <2>1 DEF Abstract!Init
<1>2. IInv => StoreOf(dir) = Map
  BY StoreIs
<1>3. ASSUME IInv, StoreOf(dir) = Map, StoreOf(dir)' = Map', [ShellNext]_shellVars
      PROVE  \/ UNCHANGED StoreOf(dir)
             \/ \E n \in Files : \/ \E h \in HostFiles : Abstract!Import(h, n)
                                 \/ \E m \in Files : Abstract!Copy(m, n)
                                 \/ Abstract!Remove(n)
  <2> DEFINE store == StoreOf(dir)
  <2>1. store = [n \in Names |-> content[n]] /\ store' = [n \in Names' |-> content'[n]]
    BY <1>3
  <2> HIDE DEF store
  <2>2. Names \subseteq Files /\ content \in [Files -> Seq(Byte)]
    BY <1>3 DEF IInv, DiskInv, Sound, TypeOK, Tidy, Names
  <2>3. ASSUME dir' = dir, content' = content PROVE store' = store
    <3>1. Names' = Names
      BY <2>3 DEF Names, Used
    <3> QED BY <2>1, <2>3, <3>1
  <2>4. ASSUME NEW n \in Files, Removes(n) PROVE Abstract!Remove(n)
    <3>1. Names' = Names \ {n} /\ content' = [content EXCEPT ![n] = <<>>]
      BY <2>4 DEF Removes
    <3>2. store' = [m \in Names \ {n} |-> store[m]]
      BY <2>1, <2>2, <3>1
    <3>3. DOMAIN store = Names
      BY <2>1
    <3> QED BY <3>2, <3>3 DEF Abstract!Remove, Abstract!Restrict, store
  <2>5. ASSUME Commits
        PROVE  \E n \in Files : \/ \E h \in HostFiles : Abstract!Import(h, n)
                                \/ \E m \in Files : Abstract!Copy(m, n)
    <3> DEFINE n == cmd.dest
    <3>1. /\ n \in Files \ Names /\ Names' = Names \cup {n}
          /\ content' = [content EXCEPT ![n] = Source]
      BY <2>5 DEF Commits, Binds
    <3> HIDE DEF n
    <3>2. DOMAIN store = Names /\ store' = [m \in Names \cup {n} |-> IF m = n THEN Source ELSE store[m]]
      BY <2>1, <2>2, <3>1
    <3>3. Abstract!Bind(n, Source)
      BY <3>1, <3>2 DEF Abstract!Bind, store
    <3>4. CASE cmd.op = "cp2fs"
      <4>1. cmd.src \in HostFiles /\ Source = host[cmd.src]
        BY <2>5, <3>4 DEF Commits, CmdOK, Source
      <4> QED BY <3>1, <3>3, <4>1 DEF Abstract!Import
    <3>5. CASE cmd.op # "cp2fs"
      <4>1. cmd.src \in Files /\ Source = content[cmd.src] /\ Exists(cmd.src)
        BY <2>5, <3>5 DEF Commits, CmdOK, Source
      <4>2. cmd.src \in Names
        BY <1>3, <4>1, SlotsAre DEF Names, IInv, DiskInv
      <4>3. cmd.src \in DOMAIN store /\ Source = store[cmd.src]
        BY <2>1, <4>1, <4>2
      <4> QED BY <3>1, <3>3, <4>1, <4>3 DEF Abstract!Copy, store
    <3> QED BY <3>4, <3>5
  <2>6. Quiet \/ Commits \/ Moves \/ Deletes \/ Killed
    BY <1>3, ShellStepKeeps
  <2> QED BY <2>3, <2>4, <2>5, <2>6 DEF Quiet, Moves, Deletes, Killed, store
<1>4. /\ IInv /\ StoreOf(dir) = Map /\ (StoreOf(dir) = Map)' /\ [ShellNext]_shellVars
      => \/ UNCHANGED StoreOf(dir)
         \/ \E n \in Files : \/ \E h \in HostFiles : Abstract!Import(h, n)
                             \/ \E m \in Files : Abstract!Copy(m, n)
                             \/ Abstract!Remove(n)
  BY <1>3
<1> HIDE DEF Map
<1> QED BY <1>1, <1>2, <1>4, CommandsKeepOrder, PTL DEF ShellSpec, ImplementsFileStore

=============================================================================
