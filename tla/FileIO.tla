------------------------------- MODULE FileIO -------------------------------
(***************************************************************************)
(* Files (b_io.c) in one directory: the table of open files (fcbArray),    *)
(* the block buffer each one holds, and what a call does to the blocks on  *)
(* disk, to the directory and, through alloc and release, to the chains.   *)
(*                                                                         *)
(* The program has one thread and a call runs to its end, so a call is one *)
(* step; FatCrash looks inside.  A byte is JUNK or tells whose it is and   *)
(* which, so that the callers (FileUse, Shell) can tell all bytes apart.   *)
(***************************************************************************)
EXTENDS Integers, Sequences, FiniteSets, SequencesExt

CONSTANTS
  MINBLOCKSIZE,    \* bytes of a block and of a file's buffer, 512
  MAXFCBS,         \* entries of fcbArray, 20
  Files,           \* file names
  Slots,           \* entries of the directory, after "." and ".."
  Root, InitFree, RootChain,   \* the chains of a formatted volume
  Origins,         \* whose bytes are written to files
  MaxSize          \* bound: no file is longer

CONSTANTS NULL, CLOSED, JUNK, NoName, NoRead   \* model values

ASSUME FileAssumption ==
  /\ MINBLOCKSIZE \in Nat \ {0, 1}
  /\ MAXFCBS \in Nat \ {0}
  /\ Slots \in SUBSET Nat /\ Slots # {} /\ IsFiniteSet(Slots)
  /\ NoName \notin Files
  /\ InitFree \in Seq(Nat) /\ RootChain \in Seq(Nat)
  /\ IsInjective(InitFree) /\ Root \notin Range(InitFree)
  /\ MaxSize \in Nat

VARIABLES
  free, chain,   \* the allocator: ChainStore
  blocks,        \* contents of the clusters on disk
  dir,           \* the directory on disk
  fcbArray,      \* NULL: buf is NULL; CLOSED: buf is freed, or never used
  stray,         \* a block that is not of the file was accessed
  content,       \* what b_write was handed for each file that has an entry
  given          \* the last b_read: file, position, bytes asked and given

alloced == <<free, chain>>
vars == <<free, chain, blocks, dir, fcbArray, stray, content, given>>

Store == INSTANCE ChainStore

EOF_FLAG == -1
B        == MINBLOCKSIZE
Fds      == 0 .. MAXFCBS - 1
Junk     == [k \in 1 .. B |-> JUNK]          \* what malloc returns
Unused   == [name |-> NoName, first |-> EOF_FLAG, size |-> 0]
Least(S) == CHOOSE x \in S : \A y \in S : x <= y
Lesser(x, y) == IF x <= y THEN x ELSE y

Byte  == {JUNK} \cup (Origins \X Nat)
Block == [1 .. B -> Byte]
Entry == [name : Files \cup {NoName}, first : Nat \cup {EOF_FLAG}, size : 0 .. MaxSize]
Fcb   == [mode : {"read", "write", "append"}, buf : Block, index : Nat,
          buflen : 0 .. B, DEptr : Entry, parentDir : [Slots -> Entry],
          indexDE : Slots, size : 0 .. MaxSize, filePosition : Nat,
          relativeFileBlockPs : Nat, isBufferDirty : {0, 1}, newFile : {0, 1},
          done : Nat, expect : Seq(Byte)]

ASSUME FcbAssumption == NULL # CLOSED /\ {NULL, CLOSED} \cap Fcb = {}

Init ==
  /\ Store!Init
  /\ blocks = [c \in {InitFree[k] : k \in DOMAIN InitFree} |-> Junk]
  /\ dir = [s \in Slots |-> Unused]
  /\ fcbArray = [fd \in Fds |-> NULL]
  /\ stray = FALSE
  /\ content = [n \in Files |-> <<>>]
  /\ given = NoRead

IsOpen(fd)   == fcbArray[fd] \notin {NULL, CLOSED}
OpenFds      == {fd \in Fds : IsOpen(fd)}
SlotsOf(n)   == {s \in Slots : dir[s].name = n}
Exists(n)    == SlotsOf(n) # {}
FreeFcbs     == {fd \in Fds : fcbArray[fd] = NULL}
b_getFCB     == IF FreeFcbs = {} THEN -1 ELSE Least(FreeFcbs)

-----------------------------------------------------------------------------
(* The walk of putBlockFile and getBlockFile from the first cluster to the *)
(* block relativeFileBlockPs; past the last cluster, or from location -1,  *)
(* it ends at a block that is not the file's.                              *)

HasBlock(ch, first, rel) == first \in DOMAIN ch /\ rel < Len(ch[first])

\* the cluster that block rel of the file is put in
PutAtNext(ch, first, rel) == first + rel
PutAt(ch, first, rel) == ch[first][rel + 1]

\* puts, pairs of a block of the file and a buffer, in order: the last one stays
PutBlocks(bl, ch, first, puts) ==
  LET to(c) == {k \in DOMAIN puts : /\ HasBlock(ch, first, puts[k][1])
                                    /\ PutAt(ch, first, puts[k][1]) = c}
  IN  [c \in DOMAIN bl |-> IF to(c) = {} THEN bl[c] ELSE puts[Max(to(c))][2]]

PutBlock(bl, ch, first, rel, buf) == PutBlocks(bl, ch, first, <<<<rel, buf>>>>)

GetBlockBefore(first, rel) ==
  blocks[chain[first][IF rel = 0 THEN 1 ELSE rel]]

GetBlock(first, rel) ==
  IF HasBlock(chain, first, rel) THEN blocks[chain[first][rel + 1]] ELSE Junk

\* (p - 1) / MINBLOCKSIZE, the block of the byte before position p
BlockOf(p) == IF p = 0 THEN 0 ELSE (p - 1) \div B

\* clusters of a file of the given size
BlocksFor(size) == size \div B + 1

-----------------------------------------------------------------------------
(* b_io_fd b_open(char * filename, int flags) *)

NewFcb(mode, d, slot, pos, dirty, new, old) ==
  [mode |-> mode, buf |-> Junk, index |-> 0, buflen |-> 0, DEptr |-> d, parentDir |-> dir,
   indexDE |-> slot, size |-> d.size, filePosition |-> pos,
   relativeFileBlockPs |-> pos \div B, isBufferDirty |-> dirty,
   newFile |-> new, done |-> 0, expect |-> old]

(* An existing file.  O_RDONLY is 0, so the test for O_TRUNC never holds   *)
(* and isBufferDirty becomes 1 unless the flags have O_APPEND.             *)
OpenAt(d, mode) == IF mode = "append" THEN d.size ELSE 0

OpenExisting(n, mode) ==
  \E fd \in {b_getFCB} \ {-1} :
    /\ Exists(n)
    /\ LET s == Least(SlotsOf(n))
           old == IF mode = "write" THEN <<>> ELSE content[n]
           pos == OpenAt(dir[s], mode)
           dirty == IF mode = "append" THEN 0 ELSE 1
       IN  fcbArray' = [fcbArray EXCEPT ![fd] =
                          NewFcb(mode, dir[s], s, pos, dirty, 1, old)]
    /\ given' = NoRead
    /\ UNCHANGED <<alloced, blocks, dir, stray, content>>

\* O_CREAT and no such file; the entry's cluster is not set yet
OpenNew(n) ==
  \E fd \in {b_getFCB} \ {-1} :
    /\ ~Exists(n) /\ SlotsOf(NoName) # {}
    /\ fcbArray' = [fcbArray EXCEPT ![fd] =
         NewFcb("write", [Unused EXCEPT !.name = n], Least(SlotsOf(NoName)),
                0, 0, 0, <<>>)]
    /\ given' = NoRead
    /\ UNCHANGED <<alloced, blocks, dir, stray, content>>

\* no such file, and no O_CREAT or no room in the directory: buf stays set
OpenFails(n, mode) ==
  \E fd \in {b_getFCB} \ {-1} :
    /\ ~Exists(n)
    /\ mode # "write" \/ SlotsOf(NoName) = {}
    /\ fcbArray' = [fcbArray EXCEPT ![fd] = CLOSED]
    /\ given' = NoRead
    /\ UNCHANGED <<alloced, blocks, dir, stray, content>>

b_open(n, mode) ==
  \/ OpenExisting(n, mode)
  \/ mode = "write" /\ OpenNew(n)
  \/ OpenFails(n, mode)

-----------------------------------------------------------------------------
(* int b_write(b_io_fd fd, char * buffer, int count): buffer is bytes and   *)
(* count its length.                                                       *)

\* memcpy into the buffer, from its offset at on
Overlay(buf, at, bytes) ==
  [k \in 1 .. B |-> IF k - at \in DOMAIN bytes THEN bytes[k - at] ELSE buf[k]]

(* What alloc answers when it is given the free list f: a location and the *)
(* chains and free list afterwards, or -1.                                 *)
Alloc(f, ch, n) ==
  IF Store!Grants(f, n)
    THEN [first |-> f[1], free |-> Store!Rest(f, n), chain |-> Store!Taken(f, ch, n)]
    ELSE [first |-> EOF_FLAG, free |-> f, chain |-> ch]

\* release, then alloc of the clusters that the file will need
PlaceShort(f, count) ==
  IF BlocksFor(f.size + count) > BlocksFor(f.size)
    THEN Alloc(chain[f.DEptr.first] \o free,
               Store!Without(chain, f.DEptr.first), (f.size + count) \div B)
    ELSE [first |-> f.DEptr.first, free |-> free, chain |-> chain]

Place(f, count) ==
  IF BlocksFor(f.size + count) > BlocksFor(f.size)
    THEN Alloc(chain[f.DEptr.first] \o free,
               Store!Without(chain, f.DEptr.first), BlocksFor(f.size + count))
    ELSE [first |-> f.DEptr.first, free |-> free, chain |-> chain]

(* The end of every branch: the file is where p says, the puts reach the   *)
(* disk in order, and the buffer's fields are those of f.                  *)
Wrote(fd, bytes, p, puts, f) ==
  /\ free' = p.free /\ chain' = p.chain
  /\ blocks' = PutBlocks(blocks, p.chain, p.first, puts)
  /\ stray' = (\E k \in DOMAIN puts : ~HasBlock(p.chain, p.first, puts[k][1]))
  /\ fcbArray' = [fcbArray EXCEPT ![fd] =
       [f EXCEPT !.DEptr.first = p.first,
                 !.done = @ + Len(bytes),
                 !.expect = @ \o bytes]]
  /\ given' = NoRead
  /\ UNCHANGED <<dir, content>>

\* the fields that every branch moves by the bytes it takes
Moved(f, bytes) ==
  [f EXCEPT !.filePosition = @ + bytes, !.size = @ + bytes,
            !.relativeFileBlockPs = BlockOf(f.filePosition + bytes)]

(* A new file, more than a block: the loop copies from the start of the    *)
(* caller's buffer every time, and so does the copy of the remainder.      *)
FirstBlocks(fd, bytes) ==
  LET f   == fcbArray[fd]
      count == Len(bytes)
      buf == SubSeq(bytes, 1, B)
      n   == BlockOf(count) + 1
      puts == [k \in 1 .. n |-> <<k - 1, buf>>]
  IN  /\ f.newFile = 0 /\ count > B
      /\ Wrote(fd, bytes, Alloc(free, chain, BlocksFor(count)), puts,
               [Moved(f, count) EXCEPT
                  !.buf = buf, !.buflen = @ + (count % B),
                  !.index = @ + (count % B), !.isBufferDirty = 1,
                  !.newFile = 1])

FirstBlock(fd, bytes) ==
  LET f   == fcbArray[fd]
      count == Len(bytes)
      buf == Overlay(f.buf, 0, bytes)
      g   == Moved(f, count)
  IN  /\ f.newFile = 0 /\ count <= B
      /\ Wrote(fd, bytes, Alloc(free, chain, 1),
               <<<<g.relativeFileBlockPs, buf>>>>,
               [g EXCEPT !.buf = buf, !.buflen = count, !.index = count,
                         !.isBufferDirty = 1, !.newFile = 1])

SpaceLeftOffByOne(f) == B + 1 - f.buflen
SpaceLeft(f) == B - f.buflen

\* the bytes fit in the rest of the buffer
FillBuffer(fd, bytes) ==
  LET f   == fcbArray[fd]
      count == Len(bytes)
      buf == Overlay(f.buf, f.buflen, bytes)
      g   == Moved(f, count)
  IN  /\ f.newFile = 1
      /\ SpaceLeft(f) > 0 /\ count <= SpaceLeft(f)
      /\ Wrote(fd, bytes, Place(f, count), <<<<g.relativeFileBlockPs, buf>>>>,
               [g EXCEPT !.buf = buf, !.buflen = @ + count,
                         !.index = @ + count, !.isBufferDirty = 1])

(* The puts of whole blocks, then of a remainder, of the bytes after the   *)
(* first "from" ones; the remainder is laid over the block before it.      *)
WholePuts(fd, from, bytes) ==
  [k \in 1 .. (Len(bytes) - from) \div B |->
     <<BlockOf(fcbArray[fd].filePosition + from + k * B),
       SubSeq(bytes, from + (k - 1) * B + 1, from + k * B)>>]

TailBuf(buf, bytes, n) == Overlay(buf, 0, SubSeq(bytes, Len(bytes) - n + 1, Len(bytes)))

\* the bytes fill the buffer, then whole blocks, then part of one
FillAndGoOn(fd, bytes) ==
  LET f     == fcbArray[fd]
      count == Len(bytes)
      space == SpaceLeft(f)
      full  == Overlay(f.buf, f.buflen, SubSeq(bytes, 1, space))
      whole == WholePuts(fd, space, bytes)
      tail  == (count - space) % B
      last  == IF whole = <<>> THEN full ELSE Last(whole)[2]
      buf   == TailBuf(last, bytes, tail)
      g     == Moved(f, count)
      head  == <<BlockOf(f.filePosition + space), full>>
      rest  == IF tail > 0 THEN <<<<g.relativeFileBlockPs, buf>>>> ELSE <<>>
  IN  /\ f.newFile = 1
      /\ space > 0 /\ count > space
      /\ Wrote(fd, bytes, Place(f, count), <<head>> \o whole \o rest,
               [g EXCEPT
                  !.buf = buf, !.isBufferDirty = 1,
                  !.buflen = IF whole = <<>> /\ tail = 0 THEN B ELSE tail,
                  !.index = IF whole = <<>> /\ tail = 0 THEN @ + space
                                                        ELSE tail])

\* the buffer is full and the bytes are less than a block
NextBlock(fd, bytes) ==
  LET f   == fcbArray[fd]
      count == Len(bytes)
      buf == Overlay(f.buf, 0, bytes)
      g   == Moved(f, count)
  IN  /\ f.newFile = 1
      /\ SpaceLeft(f) <= 0 /\ count < B
      /\ Wrote(fd, bytes, Place(f, count), <<<<g.relativeFileBlockPs, buf>>>>,
               [g EXCEPT !.buf = buf, !.buflen = count, !.index = count,
                         !.isBufferDirty = 1])

\* the buffer is full and the bytes are more than a block
NextBlocks(fd, bytes) ==
  LET f     == fcbArray[fd]
      count == Len(bytes)
      whole == WholePuts(fd, 0, bytes)
      tail  == count % B
      buf   == TailBuf(Last(whole)[2], bytes, tail)
      g     == Moved(f, count)
  IN  /\ f.newFile = 1
      /\ SpaceLeft(f) <= 0 /\ count > B
      /\ Wrote(fd, bytes, Place(f, count),
               whole \o <<<<g.relativeFileBlockPs, buf>>>>,
               [g EXCEPT !.buf = buf, !.isBufferDirty = 1,
                         !.buflen = IF tail > 0 THEN tail ELSE @,
                         !.index = IF tail > 0 THEN tail ELSE @])

\* the buffer is full and the bytes are just a block: no branch takes them
NoBranch(fd, bytes) ==
  LET f == fcbArray[fd]
      count == Len(bytes)
  IN  /\ f.newFile = 1
      /\ SpaceLeft(f) <= 0 /\ count = B
      /\ Wrote(fd, bytes, Place(f, count), <<>>, f)

b_write(fd, bytes) ==
  \/ FirstBlocks(fd, bytes) \/ FirstBlock(fd, bytes)
  \/ FillBuffer(fd, bytes) \/ FillAndGoOn(fd, bytes)
  \/ NextBlock(fd, bytes) \/ NextBlocks(fd, bytes) \/ NoBranch(fd, bytes)

-----------------------------------------------------------------------------
(* int b_read(b_io_fd fd, char * buffer, int count) *)

InBuffer(f) == IF f.index < f.buflen THEN f.buflen - f.index ELSE 0

Read(fd, count, f, bytes) ==
  /\ fcbArray' = [fcbArray EXCEPT ![fd] =
       [f EXCEPT !.filePosition = @ + Len(bytes),
                 !.relativeFileBlockPs = (f.filePosition + Len(bytes)) \div B,
                 !.done = @ + Len(bytes)]]
  /\ given' = [name |-> f.DEptr.name, from |-> f.done,
               count |-> count, bytes |-> bytes]
  /\ UNCHANGED <<alloced, blocks, dir, content>>

(* Part 1: what is left in the buffer is enough.  When it is just enough   *)
(* the function ends without a return statement; in the build of the       *)
(* Makefile the register holds the bytes given.                            *)
ReadBuffer(fd, count) ==
  LET f == fcbArray[fd]
  IN  /\ count <= InBuffer(f)
      /\ Read(fd, count,
              [f EXCEPT !.index = @ + count,
                        !.isBufferDirty = IF count = InBuffer(f) THEN @ ELSE 1],
              SubSeq(f.buf, f.index + 1, f.index + count))
      /\ UNCHANGED stray

(* Parts 2 and 3: whole blocks straight to the caller while the file has   *)
(* some, then a block through the buffer, given from its first byte.  The  *)
(* block read is relativeFileBlockPs, which follows filePosition except    *)
(* after b_seek.                                                           *)
ReadOn(fd, count) ==
  LET f      == fcbArray[fd]
      head   == SubSeq(f.buf, f.index + 1, f.index + InBuffer(f))
      p      == f.filePosition + Len(head)
      wanted == count - Len(head)
      left   == IF p <= f.size THEN f.size - p ELSE 0
      n      == Lesser(left, (wanted \div B) * B)        \* part 2 gives n
      more   == wanted - n
      buflen == Lesser(B, left - n)
      take   == Lesser(more, buflen)                     \* part 3 gives take
      rel(k) == IF k = 0 /\ head = <<>> THEN f.relativeFileBlockPs
                                        ELSE (p + k) \div B
      reads  == {k \in 0 .. n - 1 : k % B = 0} \cup
                (IF more > 0 THEN {n} ELSE {})
      block(k) == GetBlock(f.DEptr.first, rel(k))
      lastBlock == block(Max(reads))
      part2  == [k \in 1 .. n |-> block(((k - 1) \div B) * B)[((k - 1) % B) + 1]]
      part3  == IF more > 0 THEN SubSeq(lastBlock, 1, take) ELSE <<>>
  IN  /\ count > InBuffer(f)
      /\ Read(fd, count,
              [f EXCEPT !.buf = lastBlock, !.isBufferDirty = 1,
                        !.buflen = IF more > 0 THEN buflen ELSE @,
                        !.index = IF more > 0 THEN take ELSE 0],
              head \o part2 \o part3)
      /\ stray' = (p > f.size \/      \* part 3 copies a negative length
           \E k \in reads : ~HasBlock(chain, f.DEptr.first, rel(k)))

b_read(fd, count) == ReadBuffer(fd, count) \/ ReadOn(fd, count)

-----------------------------------------------------------------------------
(* int b_seek(b_io_fd fd, off_t offset, int whence): whence is added to    *)
(* the offset.                                                             *)

Distance(f) == IF f.index <= B THEN B - f.index ELSE f.index - B

SeekInBuffer(fd, offset, whence) ==
  /\ offset < Distance(fcbArray[fd])
  /\ fcbArray' = [fcbArray EXCEPT ![fd].index = @ + offset,
                                  ![fd].filePosition = whence + offset,
                                  ![fd].done = offset]
  /\ given' = NoRead
  /\ UNCHANGED <<alloced, blocks, dir, stray, content>>

\* the buffer counts as written, so nothing happens and nothing is returned
SeekNowhere(fd, offset, whence) ==
  /\ offset >= Distance(fcbArray[fd]) /\ fcbArray[fd].isBufferDirty # 0
  /\ fcbArray' = [fcbArray EXCEPT ![fd].done = offset]
  /\ given' = NoRead
  /\ UNCHANGED <<alloced, blocks, dir, stray, content>>

SeekFlush(fd, offset, whence) ==
  LET f   == fcbArray[fd]
      rel == BlockOf(whence + offset)
      bl  == PutBlock(blocks, chain, f.DEptr.first, f.relativeFileBlockPs, f.buf)
      there == HasBlock(chain, f.DEptr.first, f.relativeFileBlockPs)
                 /\ HasBlock(chain, f.DEptr.first, rel)
  IN  /\ offset >= Distance(f) /\ f.isBufferDirty = 0
      /\ blocks' = bl
      /\ stray' = ~there
      /\ fcbArray' = [fcbArray EXCEPT ![fd] =
           [f EXCEPT !.isBufferDirty = 1, !.index = 0, !.buflen = 0,
                     !.filePosition = whence + offset,
                     !.relativeFileBlockPs = rel,
                     !.buf = IF there THEN bl[chain[f.DEptr.first][rel + 1]]
                                      ELSE Junk,
                     !.done = offset]]
      /\ given' = NoRead
      /\ UNCHANGED <<alloced, dir, content>>

b_seek(fd, offset, whence) ==
  \/ SeekInBuffer(fd, offset, whence)
  \/ SeekNowhere(fd, offset, whence)
  \/ SeekFlush(fd, offset, whence)

-----------------------------------------------------------------------------
(* void b_close(b_io_fd fd): a buffer never written is put to disk, also   *)
(* when a new file has no cluster yet; commitDE then writes the copy of    *)
(* the directory that b_open loaded, with this file's entry set.  buf is   *)
(* freed but not set to NULL.                                              *)

CommitForgotten(f) == f.parentDir
CommitStaleSize(f) == [f.parentDir EXCEPT ![f.indexDE] = f.DEptr]
commitDE(f) == [f.parentDir EXCEPT ![f.indexDE] = [f.DEptr EXCEPT !.size = f.size]]

b_close(fd) ==
  LET f == fcbArray[fd]
      flush == f.isBufferDirty = 0
  IN  /\ blocks' = IF flush THEN PutBlock(blocks, chain, f.DEptr.first,
                                          f.relativeFileBlockPs, f.buf)
                            ELSE blocks
      /\ stray' = (flush /\ ~HasBlock(chain, f.DEptr.first, f.relativeFileBlockPs))
      /\ dir' = commitDE(f)
      /\ content' = [content EXCEPT ![f.DEptr.name] = f.expect]
      /\ fcbArray' = [fcbArray EXCEPT ![fd] = CLOSED]
      /\ given' = NoRead
      /\ UNCHANGED alloced

-----------------------------------------------------------------------------
(* int fs_delete(char * filename): release, then clear the entry.  The     *)
(* blocks stay as they are on disk, but their bytes are nobody's from then *)
(* on: they become JUNK, so that a byte of theirs in a file would be seen. *)

ReleaseForgotten(first) == UNCHANGED <<alloced, blocks>>
Release(first) ==
  /\ free' = chain[first] \o free
  /\ blocks' = [c \in DOMAIN blocks |->
                  IF Contains(chain[first], c) THEN Junk ELSE blocks[c]]
  /\ chain' = Store!Without(chain, first)

fs_delete(n) ==
  /\ Exists(n)
  /\ LET s == Least(SlotsOf(n))
     IN  /\ Release(dir[s].first)
         /\ dir' = [dir EXCEPT ![s] = Unused]
  /\ content' = [content EXCEPT ![n] = <<>>]
  /\ given' = NoRead
  /\ UNCHANGED <<fcbArray, stray>>

\* the shell exits and is started again
Restart ==
  /\ OpenFds = {} /\ fcbArray # [fd \in Fds |-> NULL]
  /\ fcbArray' = [fd \in Fds |-> NULL]
  /\ given' = NoRead
  /\ UNCHANGED <<alloced, blocks, dir, stray, content>>

-----------------------------------------------------------------------------
Entries == {dir[s] : s \in Slots} \ {Unused}

Stored(e) ==
  [k \in 1 .. e.size |->
     blocks[chain[e.first][(k - 1) \div B + 1]][((k - 1) % B) + 1]]

(* Descriptors, entries and blocks are well formed: no copy goes past the  *)
(* end of a buffer (b_io.c).                                               *)
TypeOK ==
  /\ dir \in [Slots -> Entry]
  /\ fcbArray \in [Fds -> Fcb \cup {NULL, CLOSED}]
  /\ blocks \in [Range(InitFree) -> Block]
  /\ content \in [Files -> Seq(Byte)]
  /\ stray \in BOOLEAN

(* What b_read gives is what b_write was handed: the bytes of the file     *)
(* from the position reached, as many as were asked for or are left,       *)
(* whatever the calls' sizes, the moves of the file to longer chains and   *)
(* the other files created and deleted meanwhile (b_io.c:755-926).         *)
ReadsContent ==
  given # NoRead =>
    given.bytes =
      SubSeq(content[given.name], given.from + 1,
             Lesser(given.from + given.count, Len(content[given.name])))

(* After b_close the clusters that the entry names hold what was written,  *)
(* byte for byte and of that length (b_io.c:929-995).                      *)
StoredIsContent == \A e \in Entries : Stored(e) = content[e.name]

(* b_read, b_write and b_close find the block they want on the file's      *)
(* chain; the walk of putBlockFile and getBlockFile has no test for the    *)
(* chain's end (b_io.c:946-995).                                           *)
NoStrayAccess == ~stray

(* A file has at least the clusters that its size needs, and one more when *)
(* it ends with a block: the next b_write counts on it (b_io.c:512-527).   *)
ChainsCoverFiles ==
  \A f \in Entries \cup {[first |-> fcbArray[fd].DEptr.first, size |-> fcbArray[fd].size] :
                           fd \in {x \in OpenFds : fcbArray[x].newFile = 1}} :
    f.first \in DOMAIN chain /\ BlocksFor(f.size) <= Len(chain[f.first])

(* Every chain has exactly one owner, the root directory, an entry or a    *)
(* new file that is being written: none is leaked and none is named twice, *)
(* though b_write moves files and b_close writes a copy of the directory   *)
(* loaded at b_open (b_io.c:523, 1019-1033).                               *)
ChainsHaveOwners ==
  /\ \A s, t \in Slots : s # t /\ dir[s] # Unused => dir[s].first # dir[t].first
  /\ DOMAIN chain =
       {Root} \cup {e.first : e \in Entries}
              \cup {fcbArray[fd].DEptr.first :
                      fd \in {x \in OpenFds : fcbArray[x].newFile = 1}}

(* What "make sure the changes get committed to the directory entry"       *)
(* (README.md:168) says of b_close: a file that was written and closed has *)
(* an entry until it is deleted.                                           *)
ClosedFilesHaveEntries == \A n \in Files : content[n] # <<>> => Exists(n)
=============================================================================
