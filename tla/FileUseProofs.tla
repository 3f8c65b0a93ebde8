--------------------------- MODULE FileUseProofs ----------------------------
(***************************************************************************)
(* Theorems about a program that has one file open at a time and opens,    *)
(* writes, reads and closes it in any order and with any sizes: what each  *)
(* call does is FileIOProofs's, the room on the volume is counted here.    *)
(***************************************************************************)
EXTENDS FileUse, FileIOProofs

-----------------------------------------------------------------------------
(* Room: while no chain is longer than a file of MaxSize and each belongs  *)
(* to another entry of the directory, alloc grants a whole file.           *)
LEMMA SeqSize ==
  ASSUME NEW S, NEW f \in Seq(S), IsInjective(f)
  PROVE  IsFiniteSet(Range(f)) /\ Cardinality(Range(f)) = Len(f)
<1>1. Len(f) \in Nat /\ DOMAIN f = 1 .. Len(f)
  OBVIOUS
<1>2. IsFiniteSet(1 .. Len(f)) /\ Cardinality(1 .. Len(f)) = Len(f)
  <2> DEFINE n == Len(f)
  <2>1. n \in Nat
    BY <1>1
  <2> HIDE DEF n
  <2>2. IsFiniteSet(1 .. n) /\ Cardinality(1 .. n) = n
    BY <2>1, FS_Interval
  <2> QED BY <2>2 DEF n
<1>3. f \in Bijection(1 .. Len(f), Range(f))
  BY <1>1 DEF Bijection, Injection, Surjection, Range, IsInjective
<1>4. ExistsBijection(1 .. Len(f), Range(f))
  BY <1>3 DEF ExistsBijection
<1> QED BY <1>2, <1>4, FS_Bijection

OwnedBy(ch, d, S) == \A h \in DOMAIN ch \ {Root} : \E s \in S : d[s].first = h

RoomFor(n) == Cardinality(Slots) * n < Len(InitFree)

(* By a pigeonhole: the clusters in use are mapped, one to one, to a slot  *)
(* of another entry and a number of at most n, so more than n are free.    *)
LEMMA Room ==
  ASSUME NEW f, NEW ch, Apart(f, ch), NEW d, NEW slot \in Slots,
         OwnedBy(ch, d, Slots \ {slot}), NEW n \in Nat, NoLonger(ch, n), RoomFor(n)
  PROVE  n < Len(f)
<1> DEFINE others == Slots \ {slot}
           used == Clusters \ Range(f)
           chainOf(c) == CHOOSE h \in DOMAIN ch \ {Root} : c \in Range(ch[h])
           slotOf(h) == CHOOSE s \in others : d[s].first = h
           placeOf(c) == CHOOSE k \in DOMAIN ch[chainOf(c)] : ch[chainOf(c)][k] = c
           at == [c \in used |-> <<slotOf(chainOf(c)), placeOf(c)>>]
<1>1. ASSUME NEW c \in used
      PROVE  chainOf(c) \in DOMAIN ch \ {Root} /\ c \in Range(ch[chainOf(c)])
  BY DEF Apart
<1>2. ASSUME NEW h \in DOMAIN ch \ {Root}
      PROVE  slotOf(h) \in others /\ d[slotOf(h)].first = h
  BY DEF OwnedBy
<1>3. ASSUME NEW c \in used
      PROVE  placeOf(c) \in 1 .. n /\ ch[chainOf(c)][placeOf(c)] = c
  <2>1. \E k \in DOMAIN ch[chainOf(c)] : ch[chainOf(c)][k] = c
    BY <1>1 DEF Range
  <2>2. placeOf(c) \in DOMAIN ch[chainOf(c)] /\ ch[chainOf(c)][placeOf(c)] = c
    BY <2>1
  <2>3. ch[chainOf(c)] \in Seq(Clusters) /\ Len(ch[chainOf(c)]) <= n
    BY <1>1 DEF Apart, NoLonger
  <2> HIDE DEF placeOf, chainOf
  <2> QED BY <2>2, <2>3
<1> HIDE DEF chainOf, slotOf, placeOf
<1>4. at \in Injection(used, others \X (1 .. n))
  <2>1. at \in [used -> others \X (1 .. n)]
    BY <1>1, <1>2, <1>3
  <2>2. ASSUME NEW b \in used, NEW c \in used, at[b] = at[c]
        PROVE  b = c
    <3>1. slotOf(chainOf(b)) = slotOf(chainOf(c)) /\ placeOf(b) = placeOf(c)
      BY <2>2
    <3>2. chainOf(b) = chainOf(c)
      BY <1>1, <1>2, <3>1
    <3> QED BY <1>3, <3>1, <3>2
  <2> QED BY <2>1, <2>2 DEF Injection, IsInjective
<1>5. IsFiniteSet(others) /\ Cardinality(others) = Cardinality(Slots) - 1
      /\ Cardinality(Slots) \in Nat
  BY FileAssumption, FS_RemoveElement, FS_CardinalityType
<1>6. IsFiniteSet(1 .. n) /\ Cardinality(1 .. n) = n
  BY FS_Interval
<1>7. IsFiniteSet(others \X (1 .. n))
      /\ Cardinality(others \X (1 .. n)) = Cardinality(others) * Cardinality(1 .. n)
  BY <1>5, <1>6, FS_Product
<1>8. IsFiniteSet(used) /\ Cardinality(used) <= Cardinality(others \X (1 .. n))
  BY <1>4, <1>7, FS_Injection
<1>9. Cardinality(used) <= (Cardinality(Slots) - 1) * n
  BY <1>5, <1>6, <1>7, <1>8
<1>10. IsFiniteSet(Clusters) /\ Cardinality(Clusters) = Len(InitFree)
  BY FileAssumption, SeqSize DEF Clusters
<1>11. IsFiniteSet(Range(f)) /\ Cardinality(Range(f)) = Len(f) /\ Range(f) \subseteq Clusters
  <2>1. f \in Seq(Clusters) /\ IsInjective(f)
    BY DEF Apart
  <2>2. \A k \in DOMAIN f : f[k] \in Clusters
    BY <2>1
  <2>3. Range(f) \subseteq Clusters
    BY <2>2 DEF Range
  <2> QED BY <2>1, <2>3, SeqSize
<1>12. Cardinality(used) = Cardinality(Clusters) - Cardinality(Range(f))
  <2>1. Clusters \cap Range(f) = Range(f)
    BY <1>11
  <2>2. Cardinality(Clusters \ Range(f)) = Cardinality(Clusters) - Cardinality(Clusters \cap Range(f))
    BY <1>10, FS_Difference
  <2> QED BY <2>1, <2>2
<1>13. Len(f) \in Nat /\ Len(InitFree) \in Nat
  BY FileAssumption DEF Apart
<1>14. (Cardinality(Slots) - 1) * n = Cardinality(Slots) * n - n
  BY <1>5
<1>15. Cardinality(Slots) * n \in Nat
  BY <1>5
<1> HIDE DEF used, others
<1> QED BY <1>9, <1>10, <1>11, <1>12, <1>13, <1>14, <1>15 DEF RoomFor

Written == {fcbArray[fd].DEptr.first : fd \in {x \in OpenFds : fcbArray[x].newFile = 1}}

IInv ==
  /\ Sound
  /\ \A fd, fe \in OpenFds : fd = fe
  /\ \A fd \in OpenFds : Good(fcbArray[fd], dir, chain)
  /\ DOMAIN chain = {Root} \cup Firsts(dir) \cup Written

(* How a program uses the calls, and the room on the volume.               *)
Calls ==
  /\ MaxOpen = 1 /\ ~EmptyFiles
  /\ B \notin FirstCounts
  /\ ReadCounts \subseteq 1 .. B - 1
  /\ RoomFor(BlocksFor(MaxSize))

(* A formatted volume satisfies the invariant.                             *)
LEMMA InitSatisfies == Init => IInv
<1> SUFFICES ASSUME Init PROVE IInv
  OBVIOUS
<1>1. Sound /\ OpenFds = {} /\ Used(dir) = {} /\ Firsts(dir) = {} /\ DOMAIN chain = {Root}
  BY InitIsSound
<1>2. Written = {}
  BY <1>1 DEF Written
<1> QED BY <1>1, <1>2 DEF IInv

(* A call after which one descriptor is open, its file on the only chain   *)
(* that no entry names, keeps the invariant.                               *)
LEMMA OpenKeepsInv ==
  ASSUME Sound', NEW fd, OpenFds' = {fd}, NEW f, f = fcbArray'[fd], Good(f, dir', chain'),
         f.newFile = 1 => DOMAIN chain' = {Root} \cup Firsts(dir') \cup {f.DEptr.first},
         f.newFile # 1 => DOMAIN chain' = {Root} \cup Firsts(dir')
  PROVE  IInv'
<1>1. Written' = {fcbArray'[fe].DEptr.first : fe \in {x \in {fd} : fcbArray'[x].newFile = 1}}
  BY DEF Written
<1>2. /\ f.newFile = 1 => Written' = {f.DEptr.first}
      /\ f.newFile # 1 => Written' = {}
  BY <1>1
<1>3. DOMAIN chain' = {Root} \cup Firsts(dir') \cup Written'
  BY <1>2
<1> QED BY <1>3 DEF IInv

(* So does one after which nothing is open, when entries name all chains.  *)
LEMMA ClosedKeepsInv ==
  ASSUME Sound', OpenFds' = {}, DOMAIN chain' = {Root} \cup Firsts(dir')
  PROVE  IInv'
<1>1. Written' = {}
  BY DEF Written
<1> QED BY <1>1 DEF IInv

(* What the invariant says of the open descriptor.                         *)
LEMMA OpenIsFcb ==
  ASSUME IInv, NEW fd \in OpenFds
  PROVE  /\ fd \in Fds /\ fcbArray[fd] \in Fcb /\ OpenFds = {fd}
         /\ Good(fcbArray[fd], dir, chain)
         /\ fcbArray[fd].newFile = 1 => Written = {fcbArray[fd].DEptr.first}
         /\ fcbArray[fd].newFile # 1 => Written = {}
<1>1. fd \in Fds /\ fcbArray[fd] \in Fcb
  BY DEF OpenFds, IsOpen, IInv, Sound, TypeOK
<1>2. OpenFds = {fd} /\ Good(fcbArray[fd], dir, chain)
  BY DEF IInv, Sound
<1>3. Written = {fcbArray[fe].DEptr.first : fe \in {x \in {fd} : fcbArray[x].newFile = 1}}
  BY <1>2 DEF Written
<1> QED BY <1>1, <1>2, <1>3

(* A program with one file open at a time opens the next when none is.     *)
LEMMA NobodyOpen ==
  ASSUME Cardinality(OpenFds) < 1
  PROVE  OpenFds = {}
<1>1. IsFiniteSet(Fds)
  BY FileAssumption, FS_Interval DEF Fds
<1>2. IsFiniteSet(OpenFds)
  BY <1>1, FS_Subset DEF OpenFds
<1>3. Cardinality(OpenFds) = 0
  BY <1>2, FS_CardinalityType
<1> QED BY <1>2, <1>3, FS_EmptySet

(* b_open keeps the invariant.                                             *)
LEMMA OpenKeeps ==
  ASSUME Calls, IInv, NEW n \in Files, NEW mode \in Modes, Open(n, mode)
  PROVE  IInv'
<1> DEFINE m == IF mode = "create" THEN "write" ELSE mode
           fd == b_getFCB
<1>1. /\ OpenFds = {} /\ b_open(n, m) /\ m \in {"read", "write", "append"}
  BY UseAssumption, NobodyOpen DEF Open, Calls
<1>2. Written = {} /\ DOMAIN chain = {Root} \cup Firsts(dir) /\ Sound
  BY <1>1 DEF IInv, Written
<1> HIDE DEF m, fd
<1>3. CASE OpenExisting(n, m)
  <2> DEFINE s == Least(SlotsOf(n))
             g == NewFcb(m, dir[s], s, OpenAt(dir[s], m), IF m = "append" THEN 0 ELSE 1, 1,
                         IF m = "write" THEN <<>> ELSE content[n])
  <2>1. /\ s \in Used(dir) /\ Sound' /\ OpenFds' = {fd} /\ fcbArray'[fd] = g
        /\ Good(fcbArray'[fd], dir', chain') /\ UNCHANGED <<alloced, dir>>
    BY <1>1, <1>2, <1>3, ExistingFits DEF fd
  <2>2. g.newFile = 1 /\ g.DEptr.first \in Firsts(dir)
    BY <2>1 DEF NewFcb, Firsts
  <2>3. DOMAIN chain' = {Root} \cup Firsts(dir') \cup {g.DEptr.first}
    BY <1>2, <2>1, <2>2 DEF alloced
  <2> HIDE DEF g
  <2> QED BY <2>1, <2>2, <2>3, OpenKeepsInv
<1>4. CASE m = "write" /\ OpenNew(n)
  <2>1. /\ Sound' /\ OpenFds' = {fd} /\ fcbArray'[fd].newFile = 0
        /\ Good(fcbArray'[fd], dir', chain') /\ UNCHANGED <<alloced, dir>>
    BY <1>1, <1>2, <1>4, NewFits DEF fd
  <2> QED BY <1>2, <2>1, OpenKeepsInv DEF alloced
<1>5. CASE OpenFails(n, m)
  <2>1. Sound' /\ OpenFds' = {} /\ UNCHANGED <<alloced, dir>>
    BY <1>1, <1>2, <1>5, FailsFits
  <2> QED BY <1>2, <2>1, ClosedKeepsInv DEF alloced
<1> QED BY <1>1, <1>3, <1>4, <1>5 DEF b_open

(* The bytes that a caller hands over are as many as it says.              *)
LEMMA GivenIsSeq ==
  ASSUME NEW f \in Fcb, f.DEptr.name \in Files, NEW count \in Nat
  PROVE  Given(f, count) \in Seq(Byte) /\ Len(Given(f, count)) = count
<1>1. f.done \in Nat /\ f.DEptr.name \in Origins
  BY UseAssumption DEF Fcb
<1>2. \A k \in 1 .. count : <<f.DEptr.name, f.done + k>> \in Byte
  BY <1>1 DEF Byte
<1> DEFINE e == [k \in 1 .. count |-> <<f.DEptr.name, f.done + k>>]
<1>3. e \in [1 .. count -> Byte]
  BY <1>2
<1> HIDE DEF e
<1>4. e \in Seq(Byte) /\ Len(e) = count
  BY <1>3
<1> QED BY <1>4 DEF Given, e

(* The chain of the file, at b_write.                                      *)
LEMMA PlaceReady ==
  ASSUME Calls, IInv, NEW fd \in OpenFds, NEW f, f = fcbArray[fd], f.newFile = 1,
         NEW count \in Nat, f.size + count <= MaxSize
  PROVE  Grown(Place(f, count), f.DEptr.first, f.size + count)
<1> DEFINE w == Store!Without(chain, f.DEptr.first)
<1>1. /\ f \in Fcb /\ Good(f, dir, chain) /\ Written = {f.DEptr.first}
      /\ OnItsChain(f, dir, chain)
  BY OpenIsFcb DEF Good
<1>2. f.size \in Nat /\ f.indexDE \in Slots
  BY <1>1, MaxIsNat DEF Fcb
<1>3. OwnedBy(w, dir, Slots \ {f.indexDE})
  <2> SUFFICES ASSUME NEW h \in DOMAIN w \ {Root}
               PROVE  \E s \in Slots \ {f.indexDE} : dir[s].first = h
    BY DEF OwnedBy
  <2>1. h \in DOMAIN chain /\ h # f.DEptr.first /\ h # Root
    BY DEF Store!Without, Store!Restrict
  <2>2. h \in Firsts(dir)
    BY <1>1, <2>1 DEF IInv, Sound
  <2>3. PICK s \in Used(dir) : dir[s].first = h
    BY <2>2 DEF Firsts
  <2>4. s # f.indexDE
    BY <1>1, <2>1, <2>3 DEF OnItsChain, HasEntry, NoEntryYet, Used
  <2> QED BY <2>3, <2>4 DEF Used
<1>4. Holds(chain, f.DEptr.first, f.size)
  BY <1>1 DEF OnItsChain
<1>5. Apart(free, chain) /\ NoLonger(chain, BlocksFor(MaxSize)) /\ RoomFor(BlocksFor(MaxSize))
  BY DEF IInv, Sound, Calls
<1> DEFINE first == f.DEptr.first
           n == BlocksFor(MaxSize)
<1>6. first \in DOMAIN chain /\ first # Root /\ Len(chain[first]) \in Nat
      /\ Len(free) \in Nat
  BY <1>4, <1>5 DEF Holds, Apart
<1> HIDE DEF w, first, n
<1>7. Apart(chain[first] \o free, w) /\ Len(chain[first] \o free) = Len(chain[first]) + Len(free)
  <2>1. Apart(chain[first] \o free, w)
    BY <1>5, <1>6, GiveKeepsApart DEF w, first
  <2>2. chain[first] \in Seq(Clusters) /\ free \in Seq(Clusters)
    BY <1>5, <1>6 DEF Apart
  <2> QED BY <2>1, <2>2
<1>8. NoLonger(w, n)
  BY <1>5 DEF NoLonger, w, n, Store!Without, Store!Restrict
<1>9. n \in Nat
  BY MaxIsNat DEF n
<1>10. n < Len(chain[first] \o free)
  BY <1>2, <1>3, <1>5, <1>7, <1>8, <1>9, Room DEF n
<1>11. f.size + count \in Nat /\ BlocksFor(f.size + count) \in Nat /\ BlocksFor(f.size + count) <= n
  <2>1. f.size + count \in Nat
    BY <1>2
  <2> QED BY <2>1, MaxIsNat, BlocksForIsNat, BlocksForGrows DEF n
<1>12. BlocksFor(f.size + count) < Len(chain[first]) + Len(free)
  BY <1>6, <1>7, <1>9, <1>10, <1>11
<1> QED BY <1>2, <1>4, <1>5, <1>12, PlaceGrows DEF first

(* alloc for the first b_write of a new file is granted.                   *)
LEMMA NewReady ==
  ASSUME Calls, IInv, NEW fd \in OpenFds, NEW f, f = fcbArray[fd], f.newFile = 0,
         NEW count \in Nat, f.size + count <= MaxSize,
         NEW n \in Nat, BlocksFor(count) <= n, n <= BlocksFor(MaxSize)
  PROVE  /\ Grown(Alloc(free, chain, n), free[1], f.size + count)
         /\ free[1] \in Clusters \ DOMAIN chain
<1>1. /\ f \in Fcb /\ Good(f, dir, chain) /\ Fresh(f, dir) /\ Written = {}
  BY OpenIsFcb DEF Good
<1>2. f.size = 0 /\ f.indexDE \in Slots /\ f.size + count = count
  BY <1>1 DEF Fcb, Fresh
<1>3. OwnedBy(chain, dir, Slots \ {f.indexDE})
  <2> SUFFICES ASSUME NEW h \in DOMAIN chain \ {Root}
               PROVE  \E s \in Slots \ {f.indexDE} : dir[s].first = h
    BY DEF OwnedBy
  <2>2. h \in Firsts(dir)
    BY <1>1 DEF IInv, Sound
  <2>3. PICK s \in Used(dir) : dir[s].first = h
    BY <2>2 DEF Firsts
  <2>4. s # f.indexDE
    BY <1>1, <2>3 DEF Fresh, Used
  <2> QED BY <2>3, <2>4 DEF Used
<1>4. Apart(free, chain) /\ NoLonger(chain, BlocksFor(MaxSize)) /\ RoomFor(BlocksFor(MaxSize))
  BY DEF IInv, Sound, Calls
<1>5. count <= MaxSize
  BY <1>2
<1> DEFINE most == BlocksFor(MaxSize)
<1>6. most \in Nat /\ Len(free) \in Nat
  BY <1>4, MaxIsNat DEF Apart
<1> HIDE DEF most
<1>7. most < Len(free)
  BY <1>2, <1>3, <1>4, <1>6, Room DEF most
<1>8. n < Len(free)
  BY <1>6, <1>7 DEF most
<1> QED BY <1>2, <1>4, <1>5, <1>8, NewGrows

(* What a b_write of this program asks of alloc is granted.                *)
LEMMA CallIsReady ==
  ASSUME Calls, IInv, NEW fd \in OpenFds, NEW count \in FirstCounts \cup Counts,
         Write(fd, count), NEW f, f = fcbArray[fd], NEW bytes, bytes = Given(f, count)
  PROVE  /\ fd \in Fds /\ OpenFds = {fd} /\ f \in Fcb /\ Good(f, dir, chain)
         /\ f.mode # "read"
         /\ bytes \in Seq(Byte) /\ Len(bytes) = count /\ count \in Nat \ {0}
         /\ f.size + count <= MaxSize
         /\ b_write(fd, bytes) /\ WriteReady(f, bytes)
<1>1. /\ fd \in Fds /\ OpenFds = {fd} /\ f \in Fcb /\ Good(f, dir, chain)
      /\ f.newFile \in {0, 1} /\ f.DEptr.name \in Files
  BY OpenIsFcb DEF Fcb, Good
<1>2. count \in Nat \ {0} /\ f.size \in Nat
  BY <1>1, UseAssumption, MaxIsNat DEF Fcb
<1>3. bytes \in Seq(Byte) /\ Len(bytes) = count
  BY <1>1, <1>2, GivenIsSeq
<1>4. f.mode # "read" /\ f.size + count <= MaxSize /\ b_write(fd, bytes)
  BY DEF Write
<1>5. f.newFile = 0 => /\ f.size = 0 /\ f.filePosition = 0 /\ f.buflen = 0 /\ count # B
  BY <1>1 DEF Good, Fresh, Write, Calls
<1>6. f.newFile = 1 => /\ f.filePosition <= f.size /\ f.relativeFileBlockPs <= f.size \div B
  BY <1>1 DEF Good, OnItsChain
<1>7. ASSUME f.newFile = 0
      PROVE  /\ Grown(Alloc(free, chain, BlocksFor(count)), free[1], count)
             /\ free[1] \in Clusters \ DOMAIN chain
  <2>1. f.size + count = count /\ count <= MaxSize
    BY <1>2, <1>4, <1>5, <1>7
  <2>2. BlocksFor(count) \in Nat /\ BlocksFor(count) <= BlocksFor(MaxSize)
    BY <1>2, <2>1, BlocksForIsNat, BlocksForGrows, MaxIsNat
  <2>3. BlocksFor(count) <= BlocksFor(count)
    BY <2>2
  <2> QED BY <1>2, <1>4, <1>7, <2>1, <2>2, <2>3, NewReady
<1>8. f.newFile = 1 => Grown(Place(f, count), f.DEptr.first, f.size + count)
  BY <1>2, <1>4, PlaceReady
<1>9. f.filePosition <= f.size
  BY <1>1, <1>5, <1>6
<1>10. WriteReady(f, bytes)
  BY <1>1, <1>3, <1>4, <1>5, <1>6, <1>7, <1>8, <1>9 DEF WriteReady
<1> QED BY <1>1, <1>2, <1>3, <1>4, <1>10

(* b_write leaves the directory and what is promised of it alone: the      *)
(* entry gets the new size when the file is closed.                        *)
LEMMA WriteSpares ==
  ASSUME Calls, IInv, NEW fd \in OpenFds, NEW count \in FirstCounts \cup Counts,
         Write(fd, count)
  PROVE  UNCHANGED <<dir, content>> /\ given' = NoRead
<1>1. PICK p, h, puts, g : WroteAs(fd, Given(fcbArray[fd], count), p, h, puts, g)
  BY CallIsReady, WriteIsWrote
<1> QED BY <1>1 DEF WroteAs, Wrote

(* b_write keeps the invariant.                                            *)
LEMMA WriteKeeps ==
  ASSUME Calls, IInv, NEW fd \in OpenFds, NEW count \in FirstCounts \cup Counts,
         Write(fd, count)
  PROVE  IInv'
<1> DEFINE f == fcbArray[fd]
           bytes == Given(f, count)
<1>1. /\ fd \in Fds /\ OpenFds = {fd} /\ f \in Fcb /\ Good(f, dir, chain) /\ f.mode # "read"
      /\ bytes \in Seq(Byte) /\ Len(bytes) = count /\ f.size + count <= MaxSize
      /\ b_write(fd, bytes) /\ WriteReady(f, bytes)
  BY CallIsReady
<1>2. PICK p, h, puts, g : WroteAs(fd, bytes, p, h, puts, g)
  BY <1>1, WriteIsWrote
<1>3. Sound
  BY DEF IInv
<1> HIDE DEF bytes
<1>4. /\ Sound' /\ OpenFds' = {fd} /\ Good(fcbArray'[fd], dir', chain')
      /\ fcbArray'[fd].newFile = 1 /\ fcbArray'[fd].DEptr.first = h
      /\ DOMAIN chain' = DOMAIN chain \cup {h} /\ dir' = dir
  <2>1. f.size + Len(bytes) <= MaxSize
    BY <1>1
  <2>2. /\ Sound' /\ OpenFds' = OpenFds \cup {fd}
        /\ \A fe \in Fds \ {fd} : fcbArray'[fe] = fcbArray[fe]
        /\ fcbArray'[fd] \in Fcb /\ Good(fcbArray'[fd], dir', chain')
        /\ fcbArray'[fd].newFile = 1 /\ fcbArray'[fd].mode # "read"
        /\ fcbArray'[fd].DEptr.first = h
        /\ fcbArray'[fd].DEptr.name = fcbArray[fd].DEptr.name
        /\ DOMAIN chain' = DOMAIN chain \cup {h} /\ h # Root
        /\ \A c \in DOMAIN chain \ {h} : chain'[c] = chain[c]
        /\ UNCHANGED <<dir, content>> /\ given' = NoRead
    <3>1. /\ Sound /\ fd \in Fds /\ fcbArray[fd] \in Fcb /\ Good(fcbArray[fd], dir, chain)
          /\ bytes \in Seq(Byte) /\ fcbArray[fd].mode # "read"
          /\ fcbArray[fd].size + Len(bytes) <= MaxSize
      BY <1>1, <1>3, <2>1
    <3> HIDE DEF f
    <3> QED BY <1>2, <3>1, WroteFits
  <2> QED BY <1>1, <2>2
<1>5. DOMAIN chain = {Root} \cup Firsts(dir)
      \/ (h = f.DEptr.first /\ DOMAIN chain = {Root} \cup Firsts(dir) \cup {h})
  <2>1. (f.newFile = 1 /\ h = f.DEptr.first) \/ f.newFile = 0
    BY <1>2 DEF WroteAs
  <2>2. /\ f.newFile = 1 => Written = {f.DEptr.first}
        /\ f.newFile # 1 => Written = {}
    BY OpenIsFcb
  <2> QED BY <2>1, <2>2 DEF IInv
<1> QED BY <1>4, <1>5, OpenKeepsInv

-----------------------------------------------------------------------------
(* The calls that leave the chains and the directory as they are.          *)
LEMMA FcbChanges ==
  ASSUME IInv, NEW fd \in OpenFds, NEW g \in Fcb, Good(g, dir, chain),
         g.newFile = fcbArray[fd].newFile, g.DEptr = fcbArray[fd].DEptr,
         fcbArray' = [fcbArray EXCEPT ![fd] = g],
         UNCHANGED <<alloced, dir, content>>, stray' = FALSE,
         blocks' \in [Clusters -> Block]
  PROVE  IInv'
<1>1. /\ fd \in Fds /\ OpenFds = {fd} /\ Sound
      /\ g.newFile = 1 => Written = {g.DEptr.first}
      /\ g.newFile # 1 => Written = {}
  BY OpenIsFcb DEF IInv
<1>2. Sound' /\ OpenFds' = {fd} /\ fcbArray'[fd] = g /\ chain' = chain /\ dir' = dir
  BY <1>1, FcbIsSet DEF alloced
<1>3. DOMAIN chain = {Root} \cup Firsts(dir) \cup Written
  BY DEF IInv
<1> QED BY <1>1, <1>2, <1>3, OpenKeepsInv

(* What the descriptor of a file with a chain counts.                      *)
LEMMA OpenFacts ==
  ASSUME IInv, NEW fd \in OpenFds, NEW f, f = fcbArray[fd], f.newFile = 1
  PROVE  /\ f \in Fcb /\ Good(f, dir, chain) /\ OnItsChain(f, dir, chain)
         /\ f.size \in Nat /\ f.size \in 0 .. MaxSize
         /\ f.filePosition \in Nat /\ f.filePosition <= f.size
         /\ f.buf \in Block /\ f.buflen \in 0 .. B /\ f.buflen \in Nat /\ f.index \in Nat
         /\ f.isBufferDirty \in {0, 1} /\ f.done \in Nat
         /\ f.relativeFileBlockPs \in Nat /\ f.relativeFileBlockPs <= f.size \div B
         /\ \A rel \in Nat : rel <= f.size \div B =>
              /\ HasBlock(chain, f.DEptr.first, rel)
              /\ chain[f.DEptr.first][rel + 1] \in Clusters
BY OpenIsFcb, ChainFacts DEF IInv, Sound

(* b_read keeps the invariant, and finds every block it asks for.          *)
LEMMA ReadKeeps ==
  ASSUME Calls, IInv, NEW fd \in OpenFds, NEW count \in ReadCounts,
         fcbArray[fd].mode = "read", b_read(fd, count)
  PROVE  IInv'
<1>1. /\ fd \in Fds /\ OpenFds = {fd} /\ fcbArray[fd] \in Fcb /\ Good(fcbArray[fd], dir, chain)
      /\ fcbArray[fd].newFile = 1 /\ Sound /\ Written = {fcbArray[fd].DEptr.first}
  BY OpenIsFcb DEF IInv, Good, ReadsInFile
<1>2. count \in Nat \ {0} /\ count < B
  BY BlockIsNat DEF Calls
<1>3. /\ Sound' /\ OpenFds' = {fd} /\ Good(fcbArray'[fd], dir', chain')
      /\ fcbArray'[fd].newFile = 1 /\ fcbArray'[fd].DEptr = fcbArray[fd].DEptr
      /\ UNCHANGED <<alloced, dir>>
  BY <1>1, <1>2, ReadFits
<1>4. DOMAIN chain = {Root} \cup Firsts(dir) \cup Written
  BY DEF IInv
<1> QED BY <1>1, <1>3, <1>4, OpenKeepsInv DEF alloced

(* b_seek.                                                                 *)
LEMMA SeekKeeps ==
  ASSUME Calls, IInv, NEW fd \in OpenFds, NEW offset \in Offsets, Seek(fd, offset)
  PROVE  IInv'
<1> DEFINE f == fcbArray[fd]
<1>1. f.newFile = 1 /\ offset <= f.size /\ b_seek(fd, offset, 0)
  BY DEF Seek
<1>2. f = fcbArray[fd]
  OBVIOUS
<1> HIDE DEF f
<1>3. f \in Fcb /\ Good(f, dir, chain) /\ OnItsChain(f, dir, chain)
      /\ (f.mode = "read" => ReadsInFile(f))
  BY <1>1, <1>2, OpenFacts DEF Good
<1>4. /\ f.size \in Nat /\ f.buflen \in Nat /\ f.index \in Nat /\ f.buf \in Block
      /\ f.relativeFileBlockPs \in Nat /\ f.relativeFileBlockPs <= f.size \div B
      /\ \A rel \in Nat : rel <= f.size \div B =>
           /\ HasBlock(chain, f.DEptr.first, rel)
           /\ chain[f.DEptr.first][rel + 1] \in Clusters
  BY <1>1, <1>2, OpenFacts
<1>5. offset \in Nat /\ B \in Nat \ {0, 1}
  BY UseAssumption, BlockIsNat
<1>6. /\ blocks \in [Clusters -> Block] /\ stray = FALSE
  BY DEF IInv, Sound, TypeOK, Clusters
<1>7. ASSUME NEW g \in Fcb, g.newFile = 1, g.mode = f.mode,
             g.parentDir = f.parentDir, g.DEptr = f.DEptr, g.indexDE = f.indexDE,
             g.size = f.size, g.filePosition <= f.size,
             g.relativeFileBlockPs <= f.size \div B, g.mode = "read" => ReadsInFile(g)
      PROVE  Good(g, dir, chain)
  <2>1. OnItsChain(g, dir, chain)
    BY <1>3, <1>7 DEF OnItsChain, HasEntry, NoEntryYet
  <2> QED BY <1>3, <1>7, <2>1 DEF Good
<1>8. CASE SeekInBuffer(fd, offset, 0)
  <2> DEFINE g == [f EXCEPT !.index = f.index + offset, !.filePosition = offset,
                            !.done = offset]
  <2>1. /\ fcbArray' = [fcbArray EXCEPT ![fd] = g]
        /\ UNCHANGED <<alloced, blocks, dir, stray, content>>
    <3>6. 0 + offset = offset
      BY <1>5
    <3>7. fd \in Fds /\ fcbArray \in [Fds -> Fcb \cup {NULL, CLOSED}]
      BY DEF OpenFds, IInv, Sound, TypeOK
    <3>1. fd \in Fds /\ fcbArray \in [Fds -> Fcb \cup {NULL, CLOSED}] /\ 0 + offset = offset
      BY <3>6, <3>7
    <3>2. fcbArray' = [fcbArray EXCEPT ![fd].index = @ + offset,
                                       ![fd].filePosition = 0 + offset,
                                       ![fd].done = offset]
          /\ UNCHANGED <<alloced, blocks, dir, stray, content>>
      BY <1>8 DEF SeekInBuffer
    <3>3. fcbArray'[fd] = g
      BY <1>2, <1>3, <3>1, <3>2 DEF Fcb
    <3>4. /\ DOMAIN fcbArray' = Fds
          /\ \A fe \in Fds \ {fd} : fcbArray'[fe] = fcbArray[fe]
          /\ fcbArray' = [fe \in Fds |-> fcbArray'[fe]]
      BY <3>1, <3>2
    <3> HIDE DEF g
    <3>5. [fcbArray EXCEPT ![fd] = g] = [fe \in Fds |-> IF fe = fd THEN g ELSE fcbArray[fe]]
      BY <3>1
    <3> QED BY <3>2, <3>3, <3>4, <3>5
  <2>2. /\ g \in Fcb /\ g.newFile = 1 /\ g.mode = f.mode
        /\ g.parentDir = f.parentDir /\ g.DEptr = f.DEptr /\ g.indexDE = f.indexDE
        /\ g.size = f.size /\ g.filePosition = offset
        /\ g.buflen = f.buflen /\ g.index = f.index + offset
        /\ g.isBufferDirty = f.isBufferDirty
        /\ g.relativeFileBlockPs = f.relativeFileBlockPs
    <3>1. f.index + offset \in Nat
      BY <1>4, <1>5
    <3> QED BY <1>1, <1>3, <1>5, <3>1 DEF Fcb
  <2> HIDE DEF g
  <2>3. g.mode = "read" => ReadsInFile(g)
    <3> SUFFICES ASSUME f.mode = "read" PROVE ReadsInFile(g)
      BY <2>2
    <3>1. f.isBufferDirty = 1 /\ f.buflen <= f.size
      BY <1>3 DEF ReadsInFile
    <3>2. g.filePosition + g.buflen - g.index <= f.size
      BY <1>4, <1>5, <2>2, <3>1
    <3> QED BY <2>2, <3>1, <3>2 DEF ReadsInFile
  <2>4. Good(g, dir, chain)
    BY <1>1, <1>4, <1>7, <2>2, <2>3
  <2> QED BY <1>1, <1>2, <1>6, <2>1, <2>2, <2>4, FcbChanges
<1>9. CASE SeekNowhere(fd, offset, 0)
  <2> DEFINE g == [f EXCEPT !.done = offset]
  <2>1. /\ fcbArray' = [fcbArray EXCEPT ![fd] = g]
        /\ UNCHANGED <<alloced, blocks, dir, stray, content>>
    BY <1>2, <1>3, <1>9 DEF SeekNowhere, Fcb
  <2>2. /\ g \in Fcb /\ g.newFile = 1 /\ g.mode = f.mode
        /\ g.parentDir = f.parentDir /\ g.DEptr = f.DEptr /\ g.indexDE = f.indexDE
        /\ g.size = f.size /\ g.filePosition = f.filePosition
        /\ g.buflen = f.buflen /\ g.index = f.index
        /\ g.isBufferDirty = f.isBufferDirty
        /\ g.relativeFileBlockPs = f.relativeFileBlockPs
    BY <1>1, <1>3, <1>5 DEF Fcb
  <2> HIDE DEF g
  <2>3. g.mode = "read" => ReadsInFile(g)
    BY <1>3, <2>2 DEF ReadsInFile
  <2>4. Good(g, dir, chain)
    BY <1>3, <1>4, <1>7, <2>2, <2>3 DEF OnItsChain
  <2> QED BY <1>1, <1>2, <1>6, <2>1, <2>2, <2>4, FcbChanges
<1>10. CASE SeekFlush(fd, offset, 0)
  <2> DEFINE rel == BlockOf(offset)
             bl == PutBlock(blocks, chain, f.DEptr.first, f.relativeFileBlockPs, f.buf)
             there == HasBlock(chain, f.DEptr.first, f.relativeFileBlockPs)
                        /\ HasBlock(chain, f.DEptr.first, rel)
             buf == IF there THEN bl[chain[f.DEptr.first][rel + 1]] ELSE Junk
             g == [f EXCEPT !.isBufferDirty = 1, !.index = 0, !.buflen = 0,
                            !.filePosition = offset, !.relativeFileBlockPs = rel,
                            !.buf = buf, !.done = offset]
  <2>1. /\ f.isBufferDirty = 0 /\ blocks' = bl /\ stray' = ~there
        /\ fcbArray' = [fcbArray EXCEPT ![fd] = g]
        /\ UNCHANGED <<alloced, dir, content>>
    <3>1. 0 + offset = offset
      BY <1>5
    <3> QED BY <1>2, <1>10, <3>1 DEF SeekFlush
  <2>2. f.mode # "read"
    BY <1>3, <2>1 DEF ReadsInFile
  <2>3. rel \in Nat /\ rel <= f.size \div B
    BY <1>1, <1>4, <1>5, BlocksForGrows
  <2>4. bl \in [Clusters -> Block]
    BY <1>4, <1>6, PutIsBlocks
  <2> HIDE DEF rel, bl
  <2>5. there
    BY <1>4, <2>3
  <2>6. buf \in Block
    BY <1>4, <2>3, <2>4, <2>5
  <2> HIDE DEF there, buf
  <2>7. /\ g \in Fcb /\ g.newFile = 1 /\ g.mode = f.mode
        /\ g.parentDir = f.parentDir /\ g.DEptr = f.DEptr /\ g.indexDE = f.indexDE
        /\ g.size = f.size /\ g.filePosition = offset
        /\ g.relativeFileBlockPs = rel
    <3>1. 0 \in 0 .. B
      BY <1>5
    <3> QED BY <1>1, <1>3, <1>5, <2>3, <2>6, <3>1 DEF Fcb
  <2> HIDE DEF g
  <2>8. Good(g, dir, chain)
    BY <1>1, <1>7, <2>2, <2>3, <2>7
  <2>9. stray' = FALSE /\ blocks' \in [Clusters -> Block]
    BY <2>1, <2>4, <2>5
  <2> QED BY <1>1, <1>2, <2>1, <2>7, <2>8, <2>9, FcbChanges
<1> QED BY <1>1, <1>8, <1>9, <1>10 DEF b_seek

(* b_close.                                                                *)
LEMMA CloseKeeps ==
  ASSUME Calls, IInv, NEW fd \in OpenFds, Close(fd)
  PROVE  IInv'
<1> DEFINE f == fcbArray[fd]
<1>1. f.newFile = 1 /\ b_close(fd) /\ Sound
  BY DEF Close, Calls, IInv
<1>2. /\ fd \in Fds /\ OpenFds = {fd} /\ f \in Fcb /\ Good(f, dir, chain)
      /\ Written = {f.DEptr.first}
  BY <1>1, OpenIsFcb
<1>3. /\ Sound' /\ OpenFds' = {} /\ Firsts(dir') = Firsts(dir) \cup {f.DEptr.first}
      /\ UNCHANGED alloced
  BY <1>1, <1>2, CloseFits
<1>4. DOMAIN chain = {Root} \cup Firsts(dir) \cup Written
  BY DEF IInv
<1> QED BY <1>2, <1>3, <1>4, ClosedKeepsInv DEF alloced

(* fs_delete.                                                              *)
LEMMA DeleteKeeps ==
  ASSUME Calls, IInv, NEW n \in Files, Delete(n)
  PROVE  IInv'
<1> DEFINE first == dir[Least(SlotsOf(n))].first
<1>1. OpenFds = {} /\ Written = {} /\ Sound /\ fs_delete(n)
  BY NobodyOpen DEF Delete, Calls, IInv, Written
<1>2. /\ Sound' /\ fcbArray' = fcbArray /\ first # Root
      /\ Firsts(dir') = Firsts(dir) \ {first}
      /\ DOMAIN chain' = DOMAIN chain \ {first}
  BY <1>1, DeleteFits
<1>3. OpenFds' = {}
  BY <1>1, <1>2 DEF OpenFds, IsOpen
<1>4. DOMAIN chain = {Root} \cup Firsts(dir)
  BY <1>1 DEF IInv
<1> QED BY <1>2, <1>3, <1>4, ClosedKeepsInv

(* A restart keeps the invariant.                                          *)
LEMMA RestartKeeps ==
  ASSUME IInv, Restart
  PROVE  IInv'
<1>1. /\ OpenFds = {} /\ fcbArray' = [fd \in Fds |-> NULL]
      /\ free' = free /\ chain' = chain /\ blocks' = blocks /\ dir' = dir
      /\ stray' = stray /\ content' = content
  BY DEF Restart, alloced
<1>2. OpenFds' = {} /\ Written' = {} /\ Written = {}
  BY <1>1 DEF OpenFds, IsOpen, Written
<1>3. TypeOK'
  BY <1>1 DEF IInv, Sound, TypeOK
<1> QED BY <1>1, <1>2, <1>3 DEF IInv, Sound

(* Nothing changes when nothing happens.                                   *)
LEMMA NothingKeeps ==
  ASSUME IInv, UNCHANGED vars
  PROVE  IInv'
<1>1. /\ fcbArray' = fcbArray
      /\ free' = free /\ chain' = chain /\ blocks' = blocks /\ dir' = dir
      /\ stray' = stray /\ content' = content
  BY DEF vars
<1>2. OpenFds' = OpenFds /\ Written' = Written
  BY <1>1 DEF OpenFds, IsOpen, Written
<1>3. TypeOK'
  BY <1>1 DEF IInv, Sound, TypeOK
<1> QED BY <1>1, <1>2, <1>3 DEF IInv, Sound

(* Every step keeps the invariant.                                         *)
LEMMA StepKeeps ==
  ASSUME Calls, IInv, [Next]_vars
  PROVE  IInv'
<1>1. ASSUME NEW n \in Files, NEW mode \in Modes, Open(n, mode) PROVE IInv'
  BY <1>1, OpenKeeps
<1>2. ASSUME NEW n \in Files, Delete(n) PROVE IInv'
  BY <1>2, DeleteKeeps
<1>3. ASSUME NEW fd \in OpenFds, NEW count \in FirstCounts \cup Counts, Write(fd, count)
      PROVE  IInv'
  BY <1>3, WriteKeeps
<1>4. ASSUME NEW fd \in OpenFds, NEW count \in ReadCounts, fcbArray[fd].mode = "read",
             b_read(fd, count)
      PROVE  IInv'
  BY <1>4, ReadKeeps
<1>5. ASSUME NEW fd \in OpenFds, NEW offset \in Offsets, Seek(fd, offset) PROVE IInv'
  BY <1>5, SeekKeeps
<1>6. ASSUME NEW fd \in OpenFds, Close(fd) PROVE IInv'
  BY <1>6, CloseKeeps
<1> QED BY <1>1, <1>2, <1>3, <1>4, <1>5, <1>6, RestartKeeps, NothingKeeps DEF Next

-----------------------------------------------------------------------------
(* The invariant holds at every step of a program that has one file open   *)
(* at a time: descriptors fit their entries, chains are apart, long enough *)
(* for the files they belong to and not longer than a file may be, and     *)
(* none is without an owner.                                               *)
THEOREM InvariantHolds ==
  ASSUME Calls
  PROVE  Spec => []IInv
<1>1. Init => IInv
  BY InitSatisfies
<1>2. IInv /\ [Next]_vars => IInv'
  BY StepKeeps
<1> QED BY <1>1, <1>2, PTL DEF Spec

(* Descriptors, entries and blocks stay well formed, whatever b_io.c is    *)
(* asked for: no copy goes past the end of a buffer.                       *)
THEOREM TypeCorrect ==
  ASSUME Calls
  PROVE  Spec => []TypeOK
<1>1. IInv => TypeOK
  BY DEF IInv, Sound
<1> QED BY <1>1, InvariantHolds, PTL

(* The walks of putBlockFile and getBlockFile never leave the chain of the *)
(* file (b_io.c:946-995).                                                  *)
THEOREM AccessesStay ==
  ASSUME Calls
  PROVE  Spec => []NoStrayAccess
<1>1. IInv => NoStrayAccess
  BY DEF IInv, Sound, NoStrayAccess
<1> QED BY <1>1, InvariantHolds, PTL

(* An entry that is not unused is in a slot.                               *)
LEMMA EntriesAreUsed ==
  ASSUME NEW e \in Entries
  PROVE  \E s \in Used(dir) : dir[s] = e
BY DEF Entries, Used

(* b_write, b_close and fs_delete keep a chain of enough clusters behind   *)
(* every entry and every file that is being written (b_io.c:512-527).      *)
THEOREM ChainsCover ==
  ASSUME Calls
  PROVE  Spec => []ChainsCoverFiles
<1>1. IInv => ChainsCoverFiles
  <2> SUFFICES ASSUME IInv PROVE ChainsCoverFiles
    OBVIOUS
  <2>1. ASSUME NEW e \in Entries
        PROVE  e.first \in DOMAIN chain /\ BlocksFor(e.size) <= Len(chain[e.first])
    <3>1. PICK s \in Used(dir) : dir[s] = e
      BY EntriesAreUsed
    <3> QED BY <3>1 DEF IInv, Sound, Tidy, Holds
  <2>2. ASSUME NEW fd \in OpenFds, fcbArray[fd].newFile = 1
        PROVE  /\ fcbArray[fd].DEptr.first \in DOMAIN chain
               /\ BlocksFor(fcbArray[fd].size) <= Len(chain[fcbArray[fd].DEptr.first])
    BY <2>2 DEF IInv, Sound, Good, OnItsChain, Holds
  <2> QED BY <2>1, <2>2 DEF ChainsCoverFiles
<1> QED BY <1>1, InvariantHolds, PTL

(* No chain is leaked and none is named by two entries, though b_write     *)
(* moves files and b_close writes the directory that b_open had loaded     *)
(* (b_io.c:523, 1019-1033).                                                *)
THEOREM ChainsOwned ==
  ASSUME Calls
  PROVE  Spec => []ChainsHaveOwners
<1>1. IInv => ChainsHaveOwners
  <2> SUFFICES ASSUME IInv PROVE ChainsHaveOwners
    OBVIOUS
  <2>1. ASSUME NEW s \in Slots, NEW t \in Slots, s # t, dir[s] # Unused
        PROVE  dir[s].first # dir[t].first
    <3>1. s \in Used(dir) /\ Tidy(dir, chain) /\ Apart(free, chain)
      BY <2>1 DEF Used, IInv, Sound
    <3>2. CASE t \in Used(dir)
      BY <2>1, <3>1, <3>2 DEF Tidy
    <3>3. CASE t \notin Used(dir)
      <4>1. dir[t].first = -1
        BY <3>3, UnusedIsEntry DEF Used
      <4>2. dir[s].first \in Nat
        <5>1. dir[s].first \in DOMAIN chain \ {Root}
          BY <3>1 DEF Tidy, Holds
        <5> QED BY <3>1, <5>1, HeadIsCluster
      <4> QED BY <4>1, <4>2
    <3> QED BY <3>2, <3>3
  <2>2. {e.first : e \in Entries} = Firsts(dir)
    BY DEF Entries, Firsts, Used
  <2>3. Written = {fcbArray[fd].DEptr.first :
                     fd \in {x \in OpenFds : fcbArray[x].newFile = 1}}
    BY DEF Written
  <2> QED BY <2>1, <2>2, <2>3 DEF ChainsHaveOwners, IInv, Sound
<1> QED BY <1>1, InvariantHolds, PTL

(* The entry that a written file has stays until the file is deleted.      *)
THEOREM FilesHaveEntries ==
  ASSUME Calls
  PROVE  Spec => []ClosedFilesHaveEntries
<1>1. Init => ClosedFilesHaveEntries
  BY DEF Init, ClosedFilesHaveEntries
<1>2. ASSUME IInv, ClosedFilesHaveEntries, UNCHANGED <<dir, content>>
      PROVE  ClosedFilesHaveEntries'
  BY <1>2 DEF ClosedFilesHaveEntries, Exists, SlotsOf
<1>3. ASSUME IInv, ClosedFilesHaveEntries, NEW fd \in OpenFds, Close(fd)
      PROVE  ClosedFilesHaveEntries'
  <2> DEFINE f == fcbArray[fd]
             i == f.indexDE
  <2>1. f.newFile = 1 /\ b_close(fd)
    BY <1>3 DEF Close, Calls
  <2>2. f \in Fcb /\ f.parentDir = dir /\ OnItsChain(f, dir, chain) /\ i \in Slots
    BY <1>3, <2>1, OpenFacts DEF Good, Fcb
  <2>3. dir \in [Slots -> Entry] /\ content \in [Files -> Seq(Byte)]
    BY <1>3 DEF IInv, Sound, TypeOK
  <2>4. /\ dir' = [dir EXCEPT ![i] = [f.DEptr EXCEPT !.size = f.size]]
        /\ content' = [content EXCEPT ![f.DEptr.name] = f.expect]
    BY <2>1, <2>2 DEF b_close, commitDE
  <2>5. dir[i] = Unused \/ dir[i].name = f.DEptr.name
    BY <2>2 DEF OnItsChain, HasEntry, NoEntryYet
  <2>6. dir'[i].name = f.DEptr.name
    BY <2>2, <2>3, <2>4 DEF Fcb, Entry
  <2> SUFFICES ASSUME NEW n \in Files, content'[n] # <<>>
               PROVE  \E s \in Slots : dir'[s].name = n
    BY DEF ClosedFilesHaveEntries, Exists, SlotsOf
  <2>7. CASE n = f.DEptr.name
    BY <2>2, <2>6, <2>7
  <2>8. CASE n # f.DEptr.name
    <3>1. content[n] # <<>>
      BY <2>3, <2>4, <2>8
    <3>2. PICK s \in Slots : dir[s].name = n
      BY <1>3, <3>1 DEF ClosedFilesHaveEntries, Exists, SlotsOf
    <3>3. s # i
      BY <2>5, <2>8, <3>2, FileAssumption, UnusedIsEntry
    <3> QED BY <2>3, <2>4, <3>2, <3>3
  <2> QED BY <2>7, <2>8
<1>4. ASSUME IInv, ClosedFilesHaveEntries, NEW n \in Files, Delete(n)
      PROVE  ClosedFilesHaveEntries'
  <2> DEFINE s == Least(SlotsOf(n))
  <2>1. SlotsOf(n) # {} /\ dir' = [dir EXCEPT ![s] = Unused]
        /\ content' = [content EXCEPT ![n] = <<>>]
    BY <1>4 DEF Delete, fs_delete, Exists
  <2>2. s \in Slots /\ dir[s].name = n
    BY <2>1, SlotIsThere
  <2>3. dir \in [Slots -> Entry] /\ content \in [Files -> Seq(Byte)]
    BY <1>4 DEF IInv, Sound, TypeOK
  <2> HIDE DEF s
  <2> SUFFICES ASSUME NEW m \in Files, content'[m] # <<>>
               PROVE  \E t \in Slots : dir'[t].name = m
    BY DEF ClosedFilesHaveEntries, Exists, SlotsOf
  <2>4. m # n /\ content[m] # <<>>
    BY <2>1, <2>3
  <2>5. PICK t \in Slots : dir[t].name = m
    BY <1>4, <2>4 DEF ClosedFilesHaveEntries, Exists, SlotsOf
  <2> QED BY <2>1, <2>2, <2>3, <2>4, <2>5
<1>5. IInv /\ ClosedFilesHaveEntries /\ [Next]_vars => ClosedFilesHaveEntries'
  <2> SUFFICES ASSUME IInv, ClosedFilesHaveEntries, [Next]_vars
               PROVE  ClosedFilesHaveEntries'
    OBVIOUS
  <2>1. ASSUME NEW n \in Files, NEW mode \in Modes, Open(n, mode)
        PROVE  UNCHANGED <<dir, content>>
    BY <2>1 DEF Open, b_open, OpenExisting, OpenNew, OpenFails
  <2>2. ASSUME NEW fd \in OpenFds, NEW count \in FirstCounts \cup Counts, Write(fd, count)
        PROVE  UNCHANGED <<dir, content>>
    BY SMTT(30), <2>2, WriteSpares
  <2>3. ASSUME NEW fd \in OpenFds, NEW count \in ReadCounts, b_read(fd, count)
        PROVE  UNCHANGED <<dir, content>>
    BY Zenon, <2>3 DEF b_read, ReadBuffer, ReadOn, Read
  <2>4. ASSUME NEW fd \in OpenFds, NEW offset \in Offsets, Seek(fd, offset)
        PROVE  UNCHANGED <<dir, content>>
    BY <2>4 DEF Seek, b_seek, SeekInBuffer, SeekNowhere, SeekFlush
  <2>5. ASSUME Restart \/ UNCHANGED vars
        PROVE  UNCHANGED <<dir, content>>
    BY <2>5 DEF Restart, vars
  <2> QED BY <1>2, <1>3, <1>4, <2>1, <2>2, <2>3, <2>4, <2>5 DEF Next
<1>6. Spec => []IInv
  BY InvariantHolds
<1> QED BY <1>1, <1>5, <1>6, PTL DEF Spec

(* A call on one file leaves the bytes of all others as they are           *)
(* (b_io.c:946-969).                                                       *)
Elsewhere(s) ==
  /\ dir[s] # Unused /\ dir'[s] = dir[s]
  /\ \A fd \in OpenFds : fcbArray[fd].DEptr.name = dir[s].name
                           => fcbArray[fd].mode = "read"

(* What such a file has stored is the same after any step.                 *)
LEMMA OthersStay ==
  ASSUME Calls, IInv, [Next]_vars, NEW s \in Slots, Elsewhere(s)
  PROVE  Stored(dir[s])' = Stored(dir[s])
<1>1. /\ s \in Used(dir) /\ dir[s].first \in DOMAIN chain /\ dir[s].first # Root
      /\ dir'[s] = dir[s] /\ Sound /\ Tidy(dir, chain) /\ dir[s] # Unused
  BY DEF Elsewhere, Used, IInv, Sound, Tidy, Holds
<1>2. /\ Apart(free, chain) /\ blocks \in [Clusters -> Block]
  BY DEF IInv, Sound, TypeOK, Clusters
<1>3. ASSUME UNCHANGED <<chain, blocks>>
      PROVE  Stored(dir[s])' = Stored(dir[s])
  BY <1>1, <1>3, StoredStays
<1>4. ASSUME NEW fd \in OpenFds, fcbArray[fd].mode # "read"
      PROVE  dir[s].name # fcbArray[fd].DEptr.name
  BY <1>4 DEF Elsewhere
<1>5. ASSUME NEW fd \in OpenFds, fcbArray[fd].newFile = 1, fcbArray[fd].mode # "read",
             chain' = chain,
             blocks' = PutBlock(blocks, chain, fcbArray[fd].DEptr.first,
                                fcbArray[fd].relativeFileBlockPs, fcbArray[fd].buf)
      PROVE  Stored(dir[s])' = Stored(dir[s])
  <2> DEFINE first == fcbArray[fd].DEptr.first
             puts == <<<<fcbArray[fd].relativeFileBlockPs, fcbArray[fd].buf>>>>
  <2>1. /\ fcbArray[fd] \in Fcb /\ OnItsChain(fcbArray[fd], dir, chain)
        /\ first \in DOMAIN chain /\ first # Root /\ PutsOf(puts)
    BY <1>5, OpenFacts, OnePut DEF OnItsChain, Holds
  <2>2. dir[s].first # first
    BY <1>1, <1>4, <1>5, <2>1, OtherChain
  <2>3. \A c \in Range(chain[dir[s].first]) : blocks'[c] = blocks[c]
    <3>1. blocks' = PutBlocks(blocks, chain, first, puts)
      BY <1>5 DEF PutBlock
    <3> HIDE DEF first, puts
    <3> QED BY <1>1, <1>2, <2>1, <2>2, <3>1, PutsSpareOthers
  <2> QED BY <1>1, <1>5, <2>3, StoredStays
<1>6. ASSUME NEW n \in Files, NEW mode \in Modes, Open(n, mode)
      PROVE  UNCHANGED <<chain, blocks>>
  BY <1>6 DEF Open, b_open, OpenExisting, OpenNew, OpenFails, alloced
<1>7. ASSUME NEW fd \in OpenFds, NEW count \in FirstCounts \cup Counts, Write(fd, count)
      PROVE  Stored(dir[s])' = Stored(dir[s])
  <2> DEFINE f == fcbArray[fd]
             bytes == Given(f, count)
  <2>1. /\ fd \in Fds /\ f \in Fcb /\ Good(f, dir, chain) /\ f.mode # "read"
        /\ Len(bytes) \in Nat /\ b_write(fd, bytes) /\ WriteReady(f, bytes)
    BY <1>7, CallIsReady
  <2>2. PICK p, h, puts, g : WroteAs(fd, bytes, p, h, puts, g)
    BY SMTT(30), <2>1, WriteIsWrote
  <2> HIDE DEF bytes
  <2> QED BY <1>1, <1>4, <2>1, <2>2, WroteSpares
<1>8. ASSUME NEW fd \in OpenFds, NEW count \in ReadCounts, b_read(fd, count)
      PROVE  UNCHANGED <<chain, blocks>>
  BY Zenon, <1>8 DEF b_read, ReadBuffer, ReadOn, Read, alloced
<1>9. ASSUME NEW fd \in OpenFds, NEW offset \in Offsets, Seek(fd, offset)
      PROVE  Stored(dir[s])' = Stored(dir[s])
  <2>1. CASE SeekInBuffer(fd, offset, 0) \/ SeekNowhere(fd, offset, 0)
    BY <1>3, <2>1 DEF SeekInBuffer, SeekNowhere, alloced
  <2>2. CASE SeekFlush(fd, offset, 0)
    <3> DEFINE f == fcbArray[fd]
    <3>1. /\ f.newFile = 1 /\ f.isBufferDirty = 0 /\ chain' = chain
          /\ blocks' = PutBlock(blocks, chain, f.DEptr.first, f.relativeFileBlockPs, f.buf)
      BY <1>9, <2>2 DEF Seek, SeekFlush, alloced
    <3>2. f.mode # "read"
      BY <3>1, OpenFacts DEF Good, ReadsInFile
    <3> QED BY <1>5, <3>1, <3>2
  <2> QED BY <1>9, <2>1, <2>2 DEF Seek, b_seek
<1>10. ASSUME NEW fd \in OpenFds, Close(fd)
       PROVE  Stored(dir[s])' = Stored(dir[s])
  <2> DEFINE f == fcbArray[fd]
  <2>1. /\ f.newFile = 1 /\ chain' = chain
        /\ f.isBufferDirty # 0 => blocks' = blocks
        /\ f.isBufferDirty = 0 =>
             blocks' = PutBlock(blocks, chain, f.DEptr.first, f.relativeFileBlockPs, f.buf)
    BY <1>10 DEF Close, Calls, b_close, alloced
  <2>2. f.isBufferDirty = 0 => f.mode # "read"
    BY <2>1, OpenFacts DEF Good, ReadsInFile
  <2> QED BY <1>3, <1>5, <2>1, <2>2
<1>11. ASSUME NEW n \in Files, Delete(n)
       PROVE  Stored(dir[s])' = Stored(dir[s])
  <2>1. fs_delete(n) /\ dir'[Least(SlotsOf(n))] = Unused
    BY <1>1, <1>11, DeleteFits DEF Delete
  <2> QED BY <1>1, <2>1, DeleteSpares
<1>12. ASSUME Restart \/ UNCHANGED vars
       PROVE  UNCHANGED <<chain, blocks>>
  BY <1>12 DEF Restart, vars, alloced
<1> QED BY <1>3, <1>6, <1>7, <1>8, <1>9, <1>10, <1>11, <1>12 DEF Next

(* A call on one file leaves the bytes of all others as they are, however  *)
(* the chains move (b_io.c:946-969).                                       *)
THEOREM OthersAreUntouched ==
  ASSUME Calls
  PROVE  Spec => OthersUntouched
<1>1. IInv /\ [Next]_vars =>
        [\A s \in Slots :
           /\ dir[s] # Unused /\ dir'[s] = dir[s]
           /\ \A fd \in OpenFds : fcbArray[fd].DEptr.name = dir[s].name
                                    => fcbArray[fd].mode = "read"
           => Stored(dir[s])' = Stored(dir[s])]_vars
  BY OthersStay DEF Elsewhere
<1>2. Spec => []IInv
  BY InvariantHolds
<1> QED BY <1>1, <1>2, PTL DEF Spec, OthersUntouched

-----------------------------------------------------------------------------
(* What is stored and what is read.  A new file is written once, from its  *)
(* beginning, in pieces that are not a block long and begin with one that  *)
(* is shorter; each of the entries stores what b_write was handed for it.  *)
ByteCalls ==
  /\ Calls /\ Modes \subseteq {"read", "create"} /\ Offsets = {}
  /\ FirstCounts \subseteq 1 .. B - 1 /\ B \notin Counts

OpenKept ==
  \A fd \in OpenFds :
    IF fcbArray[fd].mode = "read" THEN ReadsBytes(fcbArray[fd], dir, content)
    ELSE WritesBytes(fcbArray[fd], dir, chain, blocks)

DataInv == EntriesKept /\ NamesOnce /\ OpenKept /\ ReadsContent

(* The entry of a file that is not being written is elsewhere.             *)
LEMMA EntryElsewhere ==
  ASSUME DataInv, NEW s \in Used(dir), dir'[s] = dir[s]
  PROVE  s \in Slots /\ Elsewhere(s)
<1>1. ASSUME NEW fd \in OpenFds, fcbArray[fd].DEptr.name = dir[s].name
      PROVE  fcbArray[fd].mode = "read"
  BY <1>1 DEF DataInv, OpenKept, WritesBytes
<1> QED BY <1>1 DEF Elsewhere, Used

(* What an open file has: its chain, and as many bytes as it counts.       *)
LEMMA OpenIsKept ==
  ASSUME IInv, DataInv, NEW fd \in OpenFds, NEW f, f = fcbArray[fd], f.newFile = 1
  PROVE  /\ Keeps(chain, blocks, f.DEptr.first, f.size, f.expect) /\ f.isBufferDirty = 1
         /\ \A s \in Used(dir) \ {f.indexDE} : dir[s].name # f.DEptr.name
<1>1. f \in Fcb /\ Good(f, dir, chain) /\ Sound /\ EntriesKept /\ NamesOnce
  BY OpenFacts DEF IInv, DataInv
<1>2. IF f.mode = "read" THEN ReadsBytes(f, dir, content) ELSE WritesBytes(f, dir, chain, blocks)
  BY DEF DataInv, OpenKept
<1> QED BY <1>1, <1>2, FileIsKept

(* What closed files have stored, after a step.                            *)
LEMMA EntriesStayKept ==
  ASSUME ByteCalls, IInv, DataInv, [Next]_vars
  PROVE  EntriesKept' /\ NamesOnce'
<1>1. Calls /\ EntriesKept /\ NamesOnce /\ Sound
  BY DEF ByteCalls, DataInv, IInv
<1>2. ASSUME UNCHANGED <<dir, content>>
      PROVE  EntriesKept' /\ NamesOnce'
  <2>1. \A s \in Used(dir) : Stored(dir[s])' = Stored(dir[s])
    BY <1>1, <1>2, EntryElsewhere, OthersStay
  <2> QED BY <1>1, <1>2, <2>1, StayKept
<1>3. ASSUME NEW fd \in OpenFds, Close(fd)
      PROVE  EntriesKept' /\ NamesOnce'
  <2> DEFINE f == fcbArray[fd]
  <2>1. f.newFile = 1 /\ b_close(fd)
    BY <1>1, <1>3 DEF Close, Calls
  <2>2. /\ Keeps(chain, blocks, f.DEptr.first, f.size, f.expect) /\ f.isBufferDirty = 1
        /\ \A s \in Used(dir) \ {f.indexDE} : dir[s].name # f.DEptr.name
    BY <2>1, OpenIsKept
  <2>3. f \in Fcb /\ Good(f, dir, chain) /\ fd \in Fds
    BY <1>3, OpenIsFcb
  <2> QED BY <1>1, <2>1, <2>2, <2>3, CloseKept
<1>4. ASSUME NEW n \in Files, Delete(n)
      PROVE  EntriesKept' /\ NamesOnce'
  BY <1>1, <1>4, DeleteKept DEF Delete
<1>5. ASSUME NEW n \in Files, NEW mode \in Modes, Open(n, mode)
      PROVE  UNCHANGED <<dir, content>>
  BY <1>5 DEF Open, b_open, OpenExisting, OpenNew, OpenFails
<1>6. ASSUME NEW fd \in OpenFds, NEW count \in FirstCounts \cup Counts, Write(fd, count)
      PROVE  UNCHANGED <<dir, content>>
  BY SMTT(30), <1>1, <1>6, WriteSpares
<1>7. ASSUME NEW fd \in OpenFds, NEW count \in ReadCounts, b_read(fd, count)
      PROVE  UNCHANGED <<dir, content>>
  BY Zenon, <1>7 DEF b_read, ReadBuffer, ReadOn, Read
<1>8. ASSUME NEW fd \in OpenFds, NEW offset \in Offsets, Seek(fd, offset)
      PROVE  FALSE
  BY <1>8 DEF ByteCalls
<1>9. ASSUME Restart \/ UNCHANGED vars
      PROVE  UNCHANGED <<dir, content>>
  BY <1>9 DEF Restart, vars
<1> QED BY <1>2, <1>3, <1>4, <1>5, <1>6, <1>7, <1>8, <1>9 DEF Next

(* b_write leaves on disk and in the buffer what it was handed.            *)
LEMMA WriteKeepsBytes ==
  ASSUME ByteCalls, IInv, DataInv, NEW fd \in OpenFds, NEW count \in FirstCounts \cup Counts,
         Write(fd, count)
  PROVE  OpenKept'
<1> DEFINE f == fcbArray[fd]
           bytes == Given(f, count)
<1>1. /\ fd \in Fds /\ OpenFds = {fd} /\ f \in Fcb /\ Good(f, dir, chain) /\ f.mode # "read"
      /\ bytes \in Seq(Byte) /\ Len(bytes) = count /\ count \in Nat \ {0}
      /\ f.size + count <= MaxSize /\ b_write(fd, bytes) /\ WriteReady(f, bytes)
  BY CallIsReady DEF ByteCalls
<1>2. PICK p, h, puts, g : WroteAs(fd, bytes, p, h, puts, g) /\ Leaves(f, bytes, puts, g)
  BY <1>1, WriteIsWrote
<1>3. /\ Sound /\ WritesBytes(f, dir, chain, blocks)
  BY <1>1 DEF DataInv, OpenKept, IInv
<1>4. /\ Len(bytes) # B /\ (f.newFile = 0 => Len(bytes) < B)
      /\ f.newFile = 1 => Len(bytes) + f.buflen # 0
  <2>1. /\ f.newFile = 0 => count \in 1 .. B - 1
        /\ f.newFile # 0 => count # B
    BY DEF Write, ByteCalls
  <2>2. f.buflen \in Nat /\ B \in Nat
    BY <1>1, BlockIsNat DEF Fcb
  <2> HIDE DEF f, bytes
  <2> QED BY <1>1, <2>1, <2>2
<1> HIDE DEF bytes
<1>5. WritesBytes(fcbArray'[fd], dir', chain', blocks')
  BY <1>1, <1>2, <1>3, <1>4, WroteBytes
<1>6. OpenFds' = {fd} /\ fcbArray'[fd].mode # "read"
  BY <1>1, <1>2, <1>3, WroteFits
<1> QED BY <1>5, <1>6 DEF OpenKept

(* b_open of a file that exists to read it, or of one that does not to     *)
(* write it.                                                               *)
LEMMA OpenKeepsBytes ==
  ASSUME ByteCalls, IInv, DataInv, NEW n \in Files, NEW mode \in Modes, Open(n, mode)
  PROVE  OpenKept'
<1> DEFINE m == IF mode = "create" THEN "write" ELSE mode
           fd == b_getFCB
<1>1. /\ OpenFds = {} /\ b_open(n, m) /\ Sound /\ EntriesKept
      /\ m = "read" \/ (m = "write" /\ ~Exists(n))
  BY NobodyOpen DEF Open, ByteCalls, Calls, IInv, DataInv
<1> HIDE DEF m, fd
<1>2. CASE OpenExisting(n, m)
  <2> DEFINE s == Least(SlotsOf(n))
             g == NewFcb("read", dir[s], s, OpenAt(dir[s], "read"), 1, 1, content[n])
  <2>1. m = "read"
    BY <1>1, <1>2 DEF OpenExisting
  <2>2. /\ s \in Used(dir) /\ dir[s].name = n /\ OpenFds' = {fd} /\ fcbArray'[fd] = g
        /\ UNCHANGED <<dir, content>>
    BY <1>1, <1>2, <2>1, ExistingFits DEF fd
  <2>3. g.mode = "read"
    BY DEF NewFcb
  <2> HIDE DEF s
  <2>4. ReadsBytes(g, dir, content)
    BY <1>1, <2>2, OpenReads
  <2> HIDE DEF g
  <2> QED BY <2>2, <2>3, <2>4 DEF OpenKept
<1>3. CASE m = "write" /\ OpenNew(n)
  <2>1. /\ OpenFds' = {fd} /\ fcbArray'[fd].mode = "write"
        /\ WritesBytes(fcbArray'[fd], dir', chain', blocks')
    BY <1>1, <1>3, NewFits DEF fd
  <2> QED BY <2>1 DEF OpenKept
<1>4. CASE OpenFails(n, m)
  <2>1. OpenFds' = {}
    BY <1>1, <1>4, FailsFits
  <2> QED BY <2>1 DEF OpenKept
<1> QED BY <1>1, <1>2, <1>3, <1>4 DEF b_open

(* b_read gives the next bytes of the file.                                *)
LEMMA ReadKeepsBytes ==
  ASSUME ByteCalls, IInv, DataInv, NEW fd \in OpenFds, NEW count \in ReadCounts,
         fcbArray[fd].mode = "read", b_read(fd, count)
  PROVE  OpenKept' /\ ReadsContent'
<1> DEFINE f == fcbArray[fd]
           bytes == given'.bytes
<1>1. /\ fd \in Fds /\ OpenFds = {fd} /\ f \in Fcb /\ Good(f, dir, chain) /\ f.newFile = 1
      /\ Sound /\ ReadsBytes(f, dir, content) /\ f.expect \in Seq(Byte)
      /\ f.expect = content[f.DEptr.name]
  BY OpenIsFcb DEF IInv, Good, ReadsInFile, DataInv, OpenKept, Fcb, ReadsBytes
<1>2. count \in Nat \ {0} /\ count < B
  BY BlockIsNat DEF ByteCalls, Calls
<1>3. Reading(fd, f)
  BY <1>1, OpenIsKept DEF Reading
<1> HIDE DEF f
<1>4. HasRead(fd, f, count, bytes)
  BY <1>1, <1>2, <1>3, ReadGives
<1>5. OpenFds' = {fd} /\ fcbArray'[fd].mode = "read" /\ content' = content
  BY <1>1, <1>2, ReadFits DEF f
<1>6. OpenKept'
  BY <1>4, <1>5 DEF OpenKept, HasRead
<1>7. Gives(bytes, f.expect, f.filePosition, count)
  BY <1>1, <1>4, PartGives DEF HasRead
<1>8. given' = [name |-> f.DEptr.name, from |-> f.filePosition, count |-> count, bytes |-> bytes]
  BY <1>4 DEF HasRead
<1> HIDE DEF bytes
<1>9. ReadsContent'
  BY <1>1, <1>5, <1>7, <1>8 DEF ReadsContent, Gives
<1> QED BY <1>6, <1>9

(* A formatted volume stores nothing, and nothing is read of it.           *)
LEMMA DataInit == Init => DataInv
<1> SUFFICES ASSUME Init PROVE DataInv
  OBVIOUS
<1>1. Used(dir) = {} /\ OpenFds = {} /\ given = NoRead
  BY DEF Init, Used, OpenFds, IsOpen
<1> QED BY <1>1 DEF DataInv, EntriesKept, NamesOnce, OpenKept, ReadsContent

(* Every call keeps what is stored and reads what was.                     *)
LEMMA DataStep ==
  ASSUME ByteCalls, IInv, DataInv, [Next]_vars
  PROVE  DataInv'
<1>1. Calls /\ EntriesKept' /\ NamesOnce'
  BY EntriesStayKept DEF ByteCalls
<1>2. fcbArray \in [Fds -> Fcb \cup {NULL, CLOSED}]
  BY DEF IInv, Sound, TypeOK
<1>3. ASSUME given' = NoRead PROVE ReadsContent'
  BY <1>3 DEF ReadsContent
<1>4. ASSUME NEW n \in Files, NEW mode \in Modes, Open(n, mode)
      PROVE  OpenKept' /\ ReadsContent'
  <2>1. given' = NoRead
    BY <1>4 DEF Open, b_open, OpenExisting, OpenNew, OpenFails
  <2> QED BY <1>3, <1>4, <2>1, OpenKeepsBytes
<1>5. ASSUME NEW n \in Files, Delete(n)
      PROVE  OpenKept' /\ ReadsContent'
  <2>1. OpenFds = {} /\ fcbArray' = fcbArray /\ given' = NoRead
    BY <1>1, <1>5, NobodyOpen DEF Delete, Calls, fs_delete
  <2>2. OpenFds' = {}
    BY <2>1 DEF OpenFds, IsOpen
  <2> QED BY <1>3, <2>1, <2>2 DEF OpenKept
<1>6. ASSUME NEW fd \in OpenFds, NEW count \in FirstCounts \cup Counts, Write(fd, count)
      PROVE  OpenKept' /\ ReadsContent'
  <2>1. given' = NoRead
    BY <1>1, <1>6, WriteSpares
  <2> QED BY <1>3, <1>6, <2>1, WriteKeepsBytes
<1>7. ASSUME NEW fd \in OpenFds, NEW count \in ReadCounts, fcbArray[fd].mode = "read",
             b_read(fd, count)
      PROVE  OpenKept' /\ ReadsContent'
  BY <1>7, ReadKeepsBytes
<1>8. ASSUME NEW fd \in OpenFds, NEW offset \in Offsets, Seek(fd, offset)
      PROVE  FALSE
  BY <1>8 DEF ByteCalls
<1>9. ASSUME NEW fd \in OpenFds, Close(fd)
      PROVE  OpenKept' /\ ReadsContent'
  <2>1. fcbArray' = [fcbArray EXCEPT ![fd] = CLOSED] /\ given' = NoRead
    BY <1>9 DEF Close, b_close
  <2>2. fd \in Fds /\ OpenFds = {fd}
    BY <1>9, OpenIsFcb
  <2>3. OpenFds' = {}
    BY <1>2, <2>1, <2>2, NowClosed
  <2> QED BY <1>3, <2>1, <2>3 DEF OpenKept
<1>10. ASSUME Restart PROVE OpenKept' /\ ReadsContent'
  <2>1. fcbArray' = [fd \in Fds |-> NULL] /\ given' = NoRead
    BY <1>10 DEF Restart
  <2>2. OpenFds' = {}
    BY <2>1 DEF OpenFds, IsOpen
  <2> QED BY <1>3, <2>1, <2>2 DEF OpenKept
<1>11. ASSUME UNCHANGED vars PROVE OpenKept' /\ ReadsContent'
  <2>1. /\ fcbArray' = fcbArray /\ chain' = chain /\ blocks' = blocks /\ dir' = dir
        /\ content' = content /\ given' = given
    BY <1>11 DEF vars
  <2>2. OpenKept /\ ReadsContent
    BY DEF DataInv
  <2> QED BY <2>1, <2>2 DEF OpenKept, OpenFds, IsOpen, ReadsContent
<1>12. OpenKept' /\ ReadsContent'
  BY <1>4, <1>5, <1>6, <1>7, <1>8, <1>9, <1>10, <1>11 DEF Next
<1> QED BY <1>1, <1>12 DEF DataInv

(* What is stored and what is in the buffers is what was handed over, at   *)
(* every step of a program that writes each file once, from its beginning. *)
THEOREM DataHolds ==
  ASSUME ByteCalls
  PROVE  Spec => []DataInv
<1>1. Spec => []IInv
  BY InvariantHolds DEF ByteCalls
<1>2. Init => DataInv
  BY DataInit
<1>3. IInv /\ DataInv /\ [Next]_vars => DataInv'
  BY DataStep
<1> QED BY <1>1, <1>2, <1>3, PTL DEF Spec

(* The clusters of a file hold, after b_close, the bytes that b_write was  *)
(* handed, in their order and no others, whatever other files are written, *)
(* deleted and moved meanwhile (b_io.c:382-753, 929-995).                  *)
THEOREM StoredAsWritten ==
  ASSUME ByteCalls
  PROVE  Spec => []StoredIsContent
<1>1. DataInv => StoredIsContent
  BY EntriesAreUsed DEF DataInv, EntriesKept, StoredIsContent
<1> QED BY <1>1, DataHolds, PTL

(* Every b_read gives the next bytes of the file, as many as were asked    *)
(* for or all that the file still has (b_io.c:755-926).                    *)
THEOREM ReadAsWritten ==
  ASSUME ByteCalls
  PROVE  Spec => []ReadsContent
<1>1. DataInv => ReadsContent
  BY DEF DataInv
<1> QED BY <1>1, DataHolds, PTL
=============================================================================
