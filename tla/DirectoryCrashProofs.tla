------------------------ MODULE DirectoryCrashProofs ------------------------
(***************************************************************************)
(* What a death of the shell between the writes of a call leaves.          *)
(***************************************************************************)
EXTENDS DirectoryCrash, DirectoryProofs

(* What alloc has done to the tables of a volume in order, and returned.   *)
AllocReturned(c, n) ==
  /\ c \notin DOMAIN chain
  /\ DOMAIN chain' = DOMAIN chain \cup ({c} \ {EOF_FLAG})
  /\ \/ Fresh(chain', dirs, c) /\ Len(chain'[c]) = n /\ c # EOF_FLAG
     \/ c = EOF_FLAG /\ ~NeverRefused /\ ~Store!Grants(free, n)

(* The first write of a call keeps the order of the volume, whatever alloc *)
(* answers.                                                                *)
LEMMA AllocatedIs ==
  ASSUME Shape(free, chain, dirs), NEW n \in Nat \ {0}, Allocated(n),
         NeverRefused => Store!Grants(free, n)
  PROVE  Shape(free', chain', dirs) /\ AllocReturned(Alloc(n), n)
<1>1. CASE Store!Grants(free, n)
  <2>1. free' = Store!Rest(free, n) /\ chain' = Store!Taken(free, chain, n) /\ Alloc(n) = free[1]
    BY <1>1 DEF Allocated, Alloc
  <2>2. /\ Shape(Store!Rest(free, n), Store!Taken(free, chain, n), dirs)
        /\ free[1] \in Nat /\ free[1] \notin DOMAIN chain
        /\ DOMAIN Store!Taken(free, chain, n) = DOMAIN chain \cup {free[1]}
        /\ Len(Store!Taken(free, chain, n)[free[1]]) = n
        /\ Fresh(Store!Taken(free, chain, n), dirs, free[1])
    BY <1>1, TakeKeeps
  <2>3. free[1] # EOF_FLAG
    BY <2>2, NamesApart
  <2>4. QED
    BY <2>1, <2>2, <2>3 DEF AllocReturned
<1>2. CASE ~Store!Grants(free, n)
  <2>1. free' = free /\ chain' = chain /\ Alloc(n) = EOF_FLAG
    BY <1>2 DEF Allocated, AllocatedNothing, alloced, Alloc
  <2>2. EOF_FLAG \notin DOMAIN chain
    BY NamesApart DEF Shape, Typed
  <2>3. QED
    BY <1>2, <2>1, <2>2 DEF AllocReturned
<1>3. QED
  BY <1>1, <1>2
-----------------------------------------------------------------------------
\* fs_mkdir is to write task.entry, in place task.index of task.dir if there
\* is one, into the directories ds
MkdirBegun(t, f, ch, ds) ==
  /\ Shape(f, ch, ds) /\ t.dir \in Live(ds)
  /\ DirectoryEntry(t.entry, t.entry.name, t.entry.first) /\ Granted(ch, ds, t.entry)
  /\ t.index = -1 \/ Place(ds, t.dir, t.index, t.entry.name)

FileBegun(t, f, ch, ds) ==
  /\ Shape(f, ch, ds) /\ Place(ds, t.dir, t.index, t.entry.name)
  /\ FileEntry(t.entry, t.entry.name, t.entry.first) /\ Granted(ch, ds, t.entry)

ParentWritten(t, ds) ==
  IF t.index = -1 THEN ds ELSE EntrySet(ds, t.dir, t.index, t.entry)

\* f and ch were the tables before the chain of task.entry was released
RemovalBegun(t, f, ch, ds) ==
  /\ Shape(f, ch, ds) /\ t.index # 1
  /\ Removable(ds, t.dir, t.index - 1, t.entry.first)

TaskInOrder ==
  \/ task = Idle /\ Shape(free, chain, dirs)
  \/ task.op = "mkdir" /\ MkdirBegun(task, free, chain, dirs)
  \/ /\ task.op = "mkdirBlocks"
     /\ \E ds : MkdirBegun(task, free, chain, ds) /\ dirs = ParentWritten(task, ds)
  \/ task.op = "file" /\ FileBegun(task, free, chain, dirs)
  \/ /\ task.op = "remove"
     /\ \E f, ch : /\ RemovalBegun(task, f, ch, dirs)
                   /\ free = ch[task.entry.first] \o f
                   /\ chain = Store!Without(ch, task.entry.first)

CrashIInv ==
  TaskInOrder /\ currentDir \in Seq(Component) /\ rootStart \in {Root, RootStart}

(* fs_rmdir takes the root for what it is on a volume that was mounted, or *)
(* is never asked for "..".                                                *)
RootIsSpared ==
  RootStart = Root \/ \A p \in Paths : p.comps = <<>> \/ Last(p.comps) # DotDot
-----------------------------------------------------------------------------
(* A directory that fs_mkdir writes, and no entry leads to. *)
LEMMA OrphanKeeps ==
  ASSUME NEW f, NEW ch, NEW ds, Shape(f, ch, ds), NEW d \in Live(ds),
         NEW c, c = EOF_FLAG \/ Fresh(ch, ds, c)
  PROVE  /\ Shape(f, ch, WithDirectory(ds, d, c))
         /\ \A x : IsNamed(WithDirectory(ds, d, c), x) <=> IsNamed(ds, x)
<1> DEFINE nd == WithDirectory(ds, d, c)
<1>1. /\ ds \in [DOMAIN ds -> DirRecord] /\ d \in DOMAIN ds /\ d \in Nat
      /\ DOMAIN ds \subseteq DOMAIN ch /\ DOMAIN ch \subseteq Nat
  BY DEF Shape, Typed, DirectoriesInPlace, Live
<1>2. EOF_FLAG \notin Nat
  BY NamesApart
<1>3. /\ c # EOF_FLAG => c \in DOMAIN ch /\ c \in Nat /\ c # Root
                         /\ c \notin DOMAIN ds /\ ~IsNamed(ds, c)
      /\ c \notin DOMAIN ds
  BY <1>1, <1>2 DEF Fresh
<1>4. /\ initDirectory(d, c).self = c /\ initDirectory(d, c).up = d
      /\ \A j \in 1 .. Slots : initDirectory(d, c).slot[j] = Unused
      /\ c \in Nat => initDirectory(d, c) \in DirRecord
  BY <1>1 DEF initDirectory, DirRecord, SlotRecord, Unused
<1>5. /\ DOMAIN nd = DOMAIN ds \cup ({c} \ {EOF_FLAG})
      /\ \A b \in DOMAIN nd : nd[b] = IF b = c THEN initDirectory(d, c) ELSE ds[b]
      /\ nd = [b \in DOMAIN nd |-> nd[b]]
  BY DEF WithDirectory
<1> HIDE DEF nd
<1>6. /\ \A b \in DOMAIN ds : b \in DOMAIN nd /\ nd[b] = ds[b]
      /\ \A b \in DOMAIN nd : b \in DOMAIN ds \/ (b = c /\ c # EOF_FLAG)
      /\ nd \in [DOMAIN nd -> DirRecord]
  <2>1. \A b \in DOMAIN nd : nd[b] \in DirRecord
    BY <1>1, <1>3, <1>4, <1>5
  <2>2. QED
    BY <1>3, <1>5, <2>1
<1>7. c # EOF_FLAG => nd[c].self = c /\ nd[c].up = d /\ EmptyDirectory(nd, c)
  BY <1>4, <1>5 DEF EmptyDirectory, InUse, Unused
<1>8. \A b \in DOMAIN nd, j \in 1 .. Slots :
        InUse(nd, b, j) => b \in DOMAIN ds /\ nd[b] = ds[b] /\ InUse(ds, b, j)
  BY <1>6, <1>7 DEF EmptyDirectory, InUse
<1>9. \A b \in DOMAIN ds, j \in 1 .. Slots : InUse(ds, b, j) => InUse(nd, b, j)
  BY <1>6 DEF InUse
<1>10. \A x : IsNamed(nd, x) <=> IsNamed(ds, x)
  BY <1>6, <1>8, <1>9 DEF IsNamed
<1>11. \A b \in Live(ds) : b \in Live(nd)
  BY <1>6, <1>9 DEF Live, NamesDirectory
<1>12. Typed(f, ch, nd)
  <2>1. IsFiniteSet(DOMAIN nd)
    <3>1. IsFiniteSet(DOMAIN ds) /\ IsFiniteSet(DOMAIN ds \cup {c})
      BY FS_AddElement DEF Shape, Typed
    <3>2. DOMAIN nd = DOMAIN ds \/ DOMAIN nd = DOMAIN ds \cup {c}
      BY <1>5
    <3>3. QED
      BY <3>1, <3>2
  <2>2. QED
    BY <1>6, <2>1 DEF Shape, Typed
<1>13. RootInPlace(ch, nd)
  BY <1>6 DEF Shape, RootInPlace
<1>14. DirectoriesInPlace(ch, nd)
  <2>1. \A b \in DOMAIN nd : b \in DOMAIN ch /\ nd[b].self = b
    BY <1>3, <1>6, <1>7 DEF Shape, DirectoriesInPlace
  <2>2. ASSUME NEW b \in DOMAIN nd \ Live(nd) PROVE EmptyDirectory(nd, b)
    BY <1>6, <1>7, <1>8, <1>11, <2>2 DEF Shape, DirectoriesInPlace, EmptyDirectory
  <2>3. QED
    BY <2>1, <2>2 DEF DirectoriesInPlace
<1>15. EntriesLead(ch, nd)
  <2>1. ASSUME NEW b \in DOMAIN nd, NEW j \in 1 .. Slots, InUse(nd, b, j)
        PROVE  Refused(nd[b].slot[j]) \/ EntryLeads(ch, nd, b, nd[b].slot[j])
    <3>1. b \in DOMAIN ds /\ nd[b] = ds[b] /\ InUse(ds, b, j)
      BY <1>8, <2>1
    <3> DEFINE e == ds[b].slot[j]
    <3>2. Refused(e) \/ EntryLeads(ch, ds, b, e)
      BY <3>1 DEF Shape, EntriesLead
    <3>3. c # EOF_FLAG => e.first # c
      BY <1>3, <3>1 DEF IsNamed
    <3>4. nd[b].slot[j] = e
      BY <3>1
    <3> HIDE DEF e
    <3>5. EntryLeads(ch, ds, b, e) => EntryLeads(ch, nd, b, e)
      BY <1>6, <3>3 DEF EntryLeads
    <3>6. QED
      BY <3>2, <3>4, <3>5
  <2>2. QED
    BY <2>1 DEF EntriesLead
<1>16. NamedOnce(nd)
  BY <1>8 DEF Shape, NamedOnce
<1>17. ShortNamesUnique(nd)
  <2>1. ASSUME NEW b \in DOMAIN nd, NEW j \in 1 .. Slots, NEW k \in 1 .. Slots,
               nd[b].slot[j].name = nd[b].slot[k].name, InUse(nd, b, j)
        PROVE  j = k \/ nd[b].slot[j].name \in LongNames
    BY <1>8, <2>1 DEF Shape, ShortNamesUnique
  <2>2. QED
    BY <2>1 DEF ShortNamesUnique
<1>18. QED
  BY <1>10, <1>12, <1>13, <1>14, <1>15, <1>16, <1>17 DEF Shape, nd
-----------------------------------------------------------------------------
(* Between calls the volume is in order.                                   *)
LEMMA IdleIsSound ==
  ASSUME CrashIInv, task = Idle
  PROVE  Sound
BY DEF CrashIInv, TaskInOrder, Idle, Sound

(* fs_mkdir has taken a chain for its entry, or writes alloc's -1. *)
LEMMA MkdirAllocDoes ==
  ASSUME CrashIInv, NEW p \in Paths, MkdirAlloc(p),
         NeverRefused => Store!Grants(free, DirClusters)
  PROVE  /\ task'.op = "mkdir" /\ MkdirBegun(task', free', chain', dirs')
         /\ AllocReturned(task'.entry.first, DirClusters)
         /\ task = Idle /\ UNCHANGED <<dirs, currentDir, rootStart>>
<1> DEFINE h == Parsed(p)
           d == h.parent
           n == Last(p.comps)
           c == Alloc(DirClusters)
           e == Entry(n, c, TRUE)
           i == PositionIndex(d)
<1>1. /\ task = Idle /\ h.index = -1 /\ Allocated(DirClusters)
      /\ task' = [op |-> "mkdir", dir |-> d, index |-> i, entry |-> e]
      /\ UNCHANGED <<dirs, currentDir, rootStart>>
  BY DEF MkdirAlloc, Begin
<1>2. Sound
  BY <1>1, IdleIsSound
<1>3. d \in Live(dirs) /\ n \in Names
  BY <1>1, <1>2, ParentIs
<1>4. i = -1 \/ Place(dirs, d, i, n)
  BY <1>1, <1>2, PlaceIs DEF PositionIndex
<1>5. e.first = c /\ e.name = n /\ e.isDir = TRUE /\ e = Entry(n, c, TRUE)
  BY DEF Entry
<1>6. DirClusters \in Nat \ {0}
  BY DirectoryAssumption
<1>7. Shape(free', chain', dirs) /\ AllocReturned(c, DirClusters)
  BY <1>1, <1>2, <1>6, AllocatedIs DEF Sound
<1> HIDE DEF h, d, n, c, e, i
<1>8. Granted(chain', dirs, e)
  BY <1>5, <1>7 DEF AllocReturned, Granted, Refused
<1>9. /\ task'.op = "mkdir" /\ task'.dir = d /\ task'.index = i /\ task'.entry = e
  BY <1>1
<1>10. MkdirBegun(task', free', chain', dirs)
  BY <1>3, <1>4, <1>5, <1>7, <1>8, <1>9 DEF MkdirBegun, DirectoryEntry
<1>11. QED
  BY <1>1, <1>5, <1>7, <1>9, <1>10

(* What is known after the first write of a new file.                      *)
LEMMA FileAllocDoes ==
  ASSUME CrashIInv, NEW p \in Paths, FileAlloc(p)
  PROVE  /\ task'.op = "file" /\ FileBegun(task', free', chain', dirs')
         /\ AllocReturned(task'.entry.first, 1)
         /\ task = Idle /\ UNCHANGED <<dirs, currentDir, rootStart>>
<1> DEFINE h == Parsed(p)
           d == h.parent
           n == Last(p.comps)
           k == 1
           c == Alloc(k)
           e == Entry(n, c, FALSE)
           i == FirstUnused(d)
<1>1. /\ task = Idle /\ h.index = -1 /\ UnusedSlots(d) # {}
      /\ Store!Grants(free, k) /\ Allocated(k)
      /\ task' = [op |-> "file", dir |-> d, index |-> i, entry |-> e]
      /\ UNCHANGED <<dirs, currentDir, rootStart>>
  BY DEF FileAlloc, Begin
<1>2. Sound
  BY <1>1, IdleIsSound
<1>3. Place(dirs, d, i, n)
  BY <1>1, <1>2, PlaceIs
<1>4. e.first = c /\ e.name = n /\ e.isDir = FALSE /\ e = Entry(n, c, FALSE)
  BY DEF Entry
<1>5. k \in Nat \ {0}
  OBVIOUS
<1> HIDE DEF k
<1>6. Shape(free', chain', dirs) /\ AllocReturned(c, k)
  BY <1>1, <1>2, <1>5, AllocatedIs DEF Sound
<1>7. c # EOF_FLAG /\ Fresh(chain', dirs, c)
  <2>1. c = free[1]
    BY <1>1 DEF Alloc
  <2>2. free[1] \in Nat
    BY <1>1, <1>2, <1>5, TakeKeeps DEF Sound
  <2>3. QED
    BY <1>1, <1>6, <2>1, <2>2, NamesApart DEF AllocReturned
<1> HIDE DEF h, d, n, c, e, i
<1>8. Granted(chain', dirs, e)
  BY <1>4, <1>7 DEF Granted
<1>9. /\ task'.op = "file" /\ task'.dir = d /\ task'.index = i /\ task'.entry = e
  BY <1>1
<1>10. FileBegun(task', free', chain', dirs)
  BY <1>3, <1>4, <1>6, <1>8, <1>9 DEF FileBegun, FileEntry
<1>11. QED
  BY <1>1, <1>4, <1>6, <1>9, <1>10 DEF k

(* fs_rmdir or fs_delete has released the chain of what it found. *)
LEMMA ReleaseDoes ==
  ASSUME CrashIInv, RootIsSpared, NEW p \in Paths, RmdirRelease(p) \/ DeleteRelease(p)
  PROVE  /\ task'.op = "remove" /\ RemovalBegun(task', free, chain, dirs)
         /\ free' = chain[task'.entry.first] \o free
         /\ chain' = Store!Without(chain, task'.entry.first)
         /\ task = Idle /\ UNCHANGED <<dirs, currentDir, rootStart>>
<1> DEFINE h == Parsed(p)
           c == h.element.first
<1>1. /\ task = Idle /\ UNCHANGED <<dirs, currentDir, rootStart>>
      /\ task' = [op |-> "remove", dir |-> h.parent, index |-> h.index, entry |-> h.element]
  BY DEF RmdirRelease, DeleteRelease, Begin
<1>2. Sound
  BY <1>1, IdleIsSound
<1>3. Removable(dirs, h.parent, h.index - 1, c) /\ h.index # 1 /\ Released(c)
  <2>1. CASE RmdirRelease(p)
    <3>1. MayRemove(h) /\ Released(dirs[c].self)
      BY <2>1 DEF RmdirRelease
    <3>2. h.index > 0
      BY <3>1 DEF MayRemove
    <3>3. rootStart = Root \/ Last(p.comps) # DotDot
      BY <1>2, <3>2, FoundIs DEF RootIsSpared, CrashIInv
    <3>4. QED
      BY <1>2, <3>1, <3>3, RmdirRemoves
  <2>2. CASE DeleteRelease(p)
    <3>1. h.index > 0 /\ ~h.element.isDir /\ Released(c)
      BY <2>2 DEF DeleteRelease
    <3>2. QED
      BY <1>2, <3>1, DeleteRemoves
  <2>3. QED
    BY <2>1, <2>2
<1>4. free' = chain[c] \o free /\ chain' = Store!Without(chain, c)
  BY <1>3 DEF Released
<1> HIDE DEF h, c
<1>5. task'.op = "remove" /\ task'.dir = h.parent /\ task'.index = h.index
      /\ task'.entry = h.element
  BY <1>1
<1>6. task'.entry.first = c
  BY <1>5 DEF c
<1>7. Shape(free, chain, dirs)
  BY <1>2 DEF Sound
<1>8. RemovalBegun(task', free, chain, dirs)
  BY <1>3, <1>5, <1>6, <1>7 DEF RemovalBegun
<1>9. QED
  BY <1>1, <1>4, <1>5, <1>6, <1>8
-----------------------------------------------------------------------------
\* what the parent's entry adds to the names of chains
LEMMA ParentNames ==
  ASSUME NEW t, NEW f, NEW ch, NEW ds,
         MkdirBegun(t, f, ch, ds) \/ FileBegun(t, f, ch, ds)
  PROVE  \A x : IsNamed(ParentWritten(t, ds), x)
                  <=> IsNamed(ds, x) \/ (t.index # -1 /\ x = t.entry.first)
<1> DEFINE e == t.entry
           nd == EntrySet(ds, t.dir, t.index, e)
<1>1. CASE t.index = -1
  BY <1>1 DEF ParentWritten
<1>2. CASE t.index # -1
  <2>1. Shape(f, ch, ds) /\ Place(ds, t.dir, t.index, e.name) /\ Granted(ch, ds, e)
    BY <1>2, NamesApart DEF MkdirBegun, FileBegun
  <2>2. /\ ds \in [DOMAIN ds -> DirRecord] /\ t.dir \in DOMAIN ds /\ t.index \in 1 .. Slots
        /\ e.name \in Names /\ ~InUse(ds, t.dir, t.index)
    BY <2>1 DEF Shape, Typed, Place, Live
  <2>3. e = Entry(e.name, e.first, TRUE) \/ e = Entry(e.name, e.first, FALSE)
    BY DEF MkdirBegun, FileBegun, DirectoryEntry, FileEntry
  <2>4. e.first \in Nat \cup {EOF_FLAG}
    BY <2>1 DEF Granted, Fresh, Refused, Shape, Typed
  <2>5. e \in SlotRecord
    <3>1. ASSUME NEW x \in BOOLEAN PROVE Entry(e.name, e.first, x) \in SlotRecord
      BY <2>2, <2>4 DEF Entry, SlotRecord
    <3>2. QED
      BY <2>3, <3>1
  <2>6. /\ DOMAIN nd = DOMAIN ds
        /\ \A b \in DOMAIN ds, j \in 1 .. Slots :
             nd[b].slot[j] = IF b = t.dir /\ j = t.index THEN e ELSE ds[b].slot[j]
    BY <2>2, <2>5, EntrySetIs
  <2>7. e.name # NoName
    BY <2>2, NamesApart
  <2> HIDE DEF nd, e
  <2>8. \A x : IsNamed(nd, x) <=> IsNamed(ds, x) \/ x = e.first
    <3>1. ASSUME NEW x, IsNamed(nd, x) PROVE IsNamed(ds, x) \/ x = e.first
      BY <2>6, <3>1 DEF IsNamed, InUse
    <3>2. ASSUME NEW x, IsNamed(ds, x) PROVE IsNamed(nd, x)
      BY <2>2, <2>6, <3>2 DEF IsNamed, InUse
    <3>3. IsNamed(nd, e.first)
      BY <2>2, <2>6, <2>7 DEF IsNamed, InUse
    <3>4. QED
      BY <3>1, <3>2, <3>3
  <2>9. QED
    BY <1>2, <2>8 DEF ParentWritten, nd, e
<1>3. QED
  BY <1>1, <1>2

\* the directories that fs_mkdir has finished
LEMMA MkdirEnds ==
  ASSUME NEW t, NEW f, NEW ch, NEW ds, MkdirBegun(t, f, ch, ds)
  PROVE  /\ Shape(f, ch, WithDirectory(ParentWritten(t, ds), t.dir, t.entry.first))
         /\ \A x : IsNamed(WithDirectory(ParentWritten(t, ds), t.dir, t.entry.first), x)
                     <=> IsNamed(ParentWritten(t, ds), x)
<1> DEFINE d == t.dir
           i == t.index
           e == t.entry
           c == e.first
           n == e.name
<1>1. Shape(f, ch, ds) /\ d \in Live(ds) /\ DirectoryEntry(e, n, c) /\ Granted(ch, ds, e)
  BY DEF MkdirBegun
<1>2. i = -1 \/ Place(ds, d, i, n)
  BY DEF MkdirBegun
<1>3. \A x : IsNamed(ParentWritten(t, ds), x) <=> IsNamed(ds, x) \/ (i # -1 /\ x = c)
  BY ParentNames
<1>4. ParentWritten(t, ds) = IF i = -1 THEN ds ELSE EntrySet(ds, d, i, e)
  BY DEF ParentWritten
<1>5. c = EOF_FLAG \/ Fresh(ch, ds, c)
  BY <1>1 DEF Granted, Refused
<1> HIDE DEF d, i, c, n
<1>6. CASE i = -1
  <2>1. /\ Shape(f, ch, WithDirectory(ds, d, c))
        /\ \A x : IsNamed(WithDirectory(ds, d, c), x) <=> IsNamed(ds, x)
    BY <1>1, <1>5, OrphanKeeps
  <2>2. QED
    BY <1>4, <1>6, <2>1 DEF d, c
<1>7. CASE i # -1
  <2> HIDE DEF e
  <2>1. /\ Shape(f, ch, WithDirectory(EntrySet(ds, d, i, e), d, c))
        /\ \A x : IsNamed(WithDirectory(EntrySet(ds, d, i, e), d, c), x)
                    <=> IsNamed(ds, x) \/ x = c
    BY <1>1, <1>2, <1>7, MkdirKeeps
  <2>2. QED
    BY <1>3, <1>4, <1>7, <2>1 DEF d, c, e
<1>8. QED
  BY <1>6, <1>7

(* The parent's write ends a file's creation in order.                     *)
LEMMA FileEnds ==
  ASSUME NEW t, NEW f, NEW ch, NEW ds, FileBegun(t, f, ch, ds)
  PROVE  Shape(f, ch, ParentWritten(t, ds))
<1> DEFINE e == t.entry
           n == e.name
           c == e.first
           i == t.index
           d == t.dir
<1>1. Shape(f, ch, ds) /\ Place(ds, d, i, n) /\ FileEntry(e, n, c) /\ Granted(ch, ds, e)
  BY DEF FileBegun
<1>2. i # -1
  BY <1>1, NamesApart DEF Place
<1>3. ParentWritten(t, ds) = EntrySet(ds, d, i, e)
  BY <1>2 DEF ParentWritten
<1> HIDE DEF d, i, n, c, e
<1>4. QED
  BY <1>1, <1>3, FileKeeps

(* The parent's write ends a removal in order, one name less.              *)
LEMMA RemovalEnds ==
  ASSUME NEW t, NEW f, NEW ch, NEW ds, RemovalBegun(t, f, ch, ds)
  PROVE  /\ Shape(ch[t.entry.first] \o f, Store!Without(ch, t.entry.first),
                  Gone(ds, t.dir, t.index - 1, t.entry.first))
         /\ \A x : IsNamed(Gone(ds, t.dir, t.index - 1, t.entry.first), x)
                     <=> IsNamed(ds, x) /\ x # t.entry.first
         /\ IsNamed(ds, t.entry.first) /\ t.entry.first \in DOMAIN ch
<1> DEFINE c == t.entry.first
           i == t.index - 1
           d == t.dir
<1>1. Shape(f, ch, ds) /\ Removable(ds, d, i, c)
  BY DEF RemovalBegun
<1>2. IsNamed(ds, c)
  BY <1>1 DEF Removable, Live, IsNamed
<1> HIDE DEF c, i, d
<1>3. /\ Shape(ch[c] \o f, Store!Without(ch, c), Gone(ds, d, i, c))
      /\ \A x : IsNamed(Gone(ds, d, i, c), x) <=> IsNamed(ds, x) /\ x # c
      /\ c \in DOMAIN ch
  BY <1>1, GoneKeeps
<1>4. QED
  BY <1>2, <1>3 DEF c, i, d
-----------------------------------------------------------------------------
\* the four steps that end a call, and the death of the shell, as they are
\* written in the terms of the invariant
LEMMA MkdirParentDoes ==
  ASSUME CrashIInv, MkdirParent
  PROVE  /\ MkdirBegun(task, free, chain, dirs) /\ dirs' = ParentWritten(task, dirs)
         /\ task'.op = "mkdirBlocks" /\ task'.dir = task.dir /\ task'.index = task.index
         /\ task'.entry = task.entry
         /\ MkdirBegun(task', free, chain, dirs) /\ dirs' = ParentWritten(task', dirs)
         /\ UNCHANGED <<free, chain, currentDir, rootStart>>
<1>1. task.op = "mkdir" /\ task.op # "none"
  BY DEF MkdirParent
<1>2. MkdirBegun(task, free, chain, dirs)
  BY <1>1 DEF CrashIInv, TaskInOrder, Idle
<1>3. dirs' = ParentWritten(task, dirs)
  BY DEF MkdirParent, WrittenParent, ParentWritten, WithEntry, EntrySet
<1>4. QED
  BY <1>2, <1>3 DEF MkdirParent, alloced, MkdirBegun, ParentWritten

(* The last write of fs_mkdir, of the new directory's own blocks.          *)
LEMMA MkdirBlocksDoes ==
  ASSUME CrashIInv, MkdirBlocks
  PROVE  /\ task' = Idle /\ UNCHANGED <<free, chain>>
         /\ task.index # -1 => UNCHANGED <<currentDir, rootStart>>
         /\ task.index = -1 => Started
         /\ \E ds : /\ MkdirBegun(task, free, chain, ds) /\ dirs = ParentWritten(task, ds)
                    /\ dirs' = WithDirectory(dirs, task.dir, task.entry.first)
<1>1. task.op = "mkdirBlocks" /\ task.op # "none"
  BY DEF MkdirBlocks
<1>2. PICK ds : MkdirBegun(task, free, chain, ds) /\ dirs = ParentWritten(task, ds)
  BY <1>1 DEF CrashIInv, TaskInOrder, Idle
<1>3. QED
  BY <1>2 DEF MkdirBlocks, alloced

(* The last write of a removal.                                            *)
LEMMA RemoveParentDoes ==
  ASSUME CrashIInv, RemoveParent
  PROVE  /\ task' = Idle /\ UNCHANGED <<free, chain, currentDir, rootStart>>
         /\ dirs' = Gone(dirs, task.dir, task.index - 1, task.entry.first)
         /\ \E f, ch : /\ RemovalBegun(task, f, ch, dirs)
                       /\ free = ch[task.entry.first] \o f
                       /\ chain = Store!Without(ch, task.entry.first)
<1>1. task.op = "remove" /\ task.op # "none"
  BY DEF RemoveParent
<1>2. PICK f, ch : /\ RemovalBegun(task, f, ch, dirs)
                   /\ free = ch[task.entry.first] \o f
                   /\ chain = Store!Without(ch, task.entry.first)
  BY <1>1 DEF CrashIInv, TaskInOrder, Idle
<1>3. task.index # 1
  BY <1>2 DEF RemovalBegun
<1>4. dirs' = Gone(dirs, task.dir, task.index - 1, task.entry.first)
  BY <1>3 DEF RemoveParent, Cleared, WithEntry, EntrySet, Gone
<1>5. QED
  BY <1>2, <1>4 DEF RemoveParent, alloced

(* The last write of a new file.                                           *)
LEMMA FileParentDoes ==
  ASSUME CrashIInv, FileParent
  PROVE  /\ task' = Idle /\ UNCHANGED <<free, chain, currentDir, rootStart>>
         /\ FileBegun(task, free, chain, dirs) /\ dirs' = ParentWritten(task, dirs)
<1>1. task.op = "file" /\ task.op # "none"
  BY DEF FileParent
<1>2. FileBegun(task, free, chain, dirs)
  BY <1>1 DEF CrashIInv, TaskInOrder, Idle
<1>3. dirs' = ParentWritten(task, dirs)
  BY DEF FileParent, WrittenParent, ParentWritten, WithEntry, EntrySet
<1>4. QED
  BY <1>2, <1>3 DEF FileParent, alloced

\* what is on the volume when the shell may be started again, or is to be left
LEMMA LeftIs ==
  ASSUME CrashIInv, ~Exposed
  PROVE  /\ Shape(free, chain, dirs)
         /\ Creating => \/ MkdirBegun(task, free, chain, dirs)
                        \/ FileBegun(task, free, chain, dirs)
<1>1. CASE task = Idle
  BY <1>1 DEF CrashIInv, TaskInOrder, Idle, Creating
<1>2. CASE task.op = "mkdir" /\ MkdirBegun(task, free, chain, dirs)
  BY <1>2 DEF MkdirBegun
<1>3. CASE task.op = "mkdirBlocks"
  <2>1. task.index = -1 /\ task.op # "none"
    BY <1>3 DEF Exposed
  <2>2. PICK ds : MkdirBegun(task, free, chain, ds) /\ dirs = ParentWritten(task, ds)
    BY <1>3, <2>1 DEF CrashIInv, TaskInOrder, Idle
  <2>3. ds = dirs
    BY <2>1, <2>2 DEF ParentWritten
  <2>4. QED
    BY <2>2, <2>3 DEF MkdirBegun
<1>4. CASE task.op = "file" /\ FileBegun(task, free, chain, dirs)
  BY <1>4 DEF FileBegun
<1>5. CASE task.op = "remove"
  BY <1>5 DEF Exposed
<1>6. QED
  BY <1>1, <1>2, <1>3, <1>4, <1>5 DEF CrashIInv, TaskInOrder
-----------------------------------------------------------------------------
(* A formatted volume is in order, with no call in progress.               *)
LEMMA CrashInitHolds == CrashInit => CrashIInv
<1> SUFFICES ASSUME CrashInit PROVE CrashIInv
  OBVIOUS
<1>1. IInv /\ task = Idle
  BY InitHolds DEF CrashInit
<1>2. QED
  BY <1>1 DEF IInv, Sound, CrashIInv, TaskInOrder

(* Every write keeps what is known of the call in progress, and a restart  *)
(* finds a volume in order unless it was left in a window.                 *)
LEMMA CrashInvariance ==
  ASSUME RootIsSpared
  PROVE  CrashSpec => []CrashIInv
<1>1. ASSUME CrashIInv, [CrashNext]_crashVars PROVE CrashIInv'
  <2>1. ASSUME NEW p \in Paths, NeverRefused => Store!Grants(free, DirClusters), MkdirAlloc(p)
        PROVE  CrashIInv'
    BY <1>1, <2>1, MkdirAllocDoes DEF CrashIInv, TaskInOrder
  <2>2. ASSUME NEW p \in Paths, FileAlloc(p) PROVE CrashIInv'
    BY <1>1, <2>2, FileAllocDoes DEF CrashIInv, TaskInOrder
  <2>3. ASSUME NEW p \in Paths, RmdirRelease(p) \/ DeleteRelease(p) PROVE CrashIInv'
    <3>1. /\ task'.op = "remove" /\ RemovalBegun(task', free, chain, dirs)
          /\ free' = chain[task'.entry.first] \o free
          /\ chain' = Store!Without(chain, task'.entry.first)
          /\ UNCHANGED <<dirs, currentDir, rootStart>>
      BY <1>1, <2>3, ReleaseDoes
    <3>2. TaskInOrder'
      BY <3>1 DEF TaskInOrder
    <3>3. QED
      BY <1>1, <3>1, <3>2 DEF CrashIInv
  <2>4. ASSUME NEW p \in Paths, task = Idle, CallSetcwd(p), UNCHANGED task PROVE CrashIInv'
    <3>1. currentDir' \in Seq(Component) /\ UNCHANGED <<free, chain, dirs, rootStart, task>>
      BY <1>1, <2>4, CwdIs DEF CallSetcwd, CrashIInv
    <3>2. Shape(free', chain', dirs') /\ task' = Idle
      BY <1>1, <2>4, <3>1, IdleIsSound DEF Sound
    <3>3. QED
      BY <1>1, <3>1, <3>2 DEF CrashIInv, TaskInOrder
  <2>5. CASE MkdirParent
    <3>1. /\ task'.op = "mkdirBlocks"
          /\ MkdirBegun(task', free', chain', dirs) /\ dirs' = ParentWritten(task', dirs)
          /\ UNCHANGED <<currentDir, rootStart>>
      BY <1>1, <2>5, MkdirParentDoes
    <3>2. TaskInOrder'
      BY <3>1 DEF TaskInOrder
    <3>3. QED
      BY <1>1, <3>1, <3>2 DEF CrashIInv
  <2>6. CASE MkdirBlocks
    <3>1. /\ task' = Idle /\ UNCHANGED <<free, chain>>
          /\ UNCHANGED <<currentDir, rootStart>> \/ Started
      BY <1>1, <2>6, MkdirBlocksDoes
    <3>2. Shape(free, chain, dirs')
      BY <1>1, <2>6, MkdirBlocksDoes, MkdirEnds
    <3>3. currentDir' \in Seq(Component) /\ rootStart' \in {Root, RootStart}
      <4>1. CASE UNCHANGED <<currentDir, rootStart>>
        BY <1>1, <4>1 DEF CrashIInv
      <4>2. CASE Started
        BY <4>2 DEF Started
      <4>3. QED
        BY <3>1, <4>1, <4>2
    <3>4. QED
      BY <3>1, <3>2, <3>3 DEF CrashIInv, TaskInOrder
  <2>7. CASE RemoveParent
    <3>1. task' = Idle /\ UNCHANGED <<free, chain, currentDir, rootStart>>
      BY <1>1, <2>7, RemoveParentDoes
    <3>2. Shape(free, chain, dirs')
      BY <1>1, <2>7, RemoveParentDoes, RemovalEnds
    <3>3. QED
      BY <1>1, <3>1, <3>2 DEF CrashIInv, TaskInOrder
  <2>8. CASE FileParent
    <3>1. task' = Idle /\ UNCHANGED <<free, chain, currentDir, rootStart>>
      BY <1>1, <2>8, FileParentDoes
    <3>2. Shape(free, chain, dirs')
      BY <1>1, <2>8, FileParentDoes, FileEnds
    <3>3. QED
      BY <1>1, <3>1, <3>2 DEF CrashIInv, TaskInOrder
  <2>9. CASE CrashRestart
    <3>1. task' = Idle /\ UNCHANGED <<free, chain, dirs>> /\ Started /\ ~Exposed
      BY <2>9 DEF CrashRestart, alloced
    <3>2. Shape(free', chain', dirs')
      BY <1>1, <3>1, LeftIs
    <3>3. QED
      BY <3>1, <3>2 DEF CrashIInv, TaskInOrder, Started
  <2>10. CASE UNCHANGED crashVars
    BY <1>1, <2>10 DEF crashVars, vars, CrashIInv, TaskInOrder
  <2>11. QED
    BY <1>1, <2>1, <2>2, <2>3, <2>4, <2>5, <2>6, <2>7, <2>8, <2>9, <2>10 DEF CrashNext
<1>2. QED
  BY CrashInitHolds, <1>1, PTL DEF CrashSpec

(* Whatever the moment at which the shell dies, outside the times in which *)
(* an entry leads to what is not there, each entry on disk names a chain   *)
(* of its own, and a directory its own parent.                             *)
THEOREM SoundWhenLeftAlways ==
  ASSUME NeverRefused, RootIsSpared
  PROVE  CrashSpec => []SoundWhenLeft
<1>1. CrashIInv => SoundWhenLeft
  BY LeftIs, ShapeIsSoundTree DEF SoundWhenLeft
<1>2. QED
  BY CrashInvariance, <1>1, PTL
-----------------------------------------------------------------------------
\* the chains that no entry names
Lost(ch, ds) == {c \in DOMAIN ch : c # Root /\ ~IsNamed(ds, c)}

(* The chains no entry names, before and after a step.                     *)
LEMMA UnnamedIs ==
  /\ Unnamed = Lost(chain, dirs)
  /\ Unnamed' = Lost(chain', dirs')
<1>1. Unnamed = Lost(chain, dirs)
  <2>1. {x[2].first : x \in Entries} = {dirs[u[1]].slot[u[2]].first : u \in Used}
    BY EntriesAre
  <2>2. \A c : IsNamed(dirs, c) <=> c \in {dirs[u[1]].slot[u[2]].first : u \in Used}
    <3>1. ASSUME NEW c, IsNamed(dirs, c)
          PROVE  c \in {dirs[u[1]].slot[u[2]].first : u \in Used}
      <4>1. PICK d \in DOMAIN dirs, i \in 1 .. Slots :
                   InUse(dirs, d, i) /\ dirs[d].slot[i].first = c
        BY <3>1 DEF IsNamed
      <4>2. <<d, i>> \in Used /\ <<d, i>>[1] = d /\ <<d, i>>[2] = i
        BY <4>1, EntriesAre
      <4>3. QED
        BY <4>1, <4>2
    <3>2. ASSUME NEW u \in Used PROVE IsNamed(dirs, dirs[u[1]].slot[u[2]].first)
      BY EntriesAre DEF IsNamed
    <3>3. QED
      BY <3>1, <3>2
  <2>3. QED
    BY <2>1, <2>2 DEF Unnamed, Lost
<1>2. (Unnamed = Lost(chain, dirs))'
  BY <1>1, PTL
<1>3. QED
  BY <1>1, <1>2

(* The chains that are lost for good are those, but for the one of a call  *)
(* in progress.                                                            *)
LEMMA CommittedIs ==
  /\ ~Creating => Committed = Lost(chain, dirs)
  /\ Creating => Committed = Lost(chain, dirs) \ {task.entry.first}
  /\ ~Creating' => Committed' = Lost(chain', dirs')
  /\ Creating' => Committed' = Lost(chain', dirs') \ {task'.entry.first}
BY UnnamedIs DEF Committed

(* Until a call ends, or the shell dies, the chains that no call is busy   *)
(* with and no entry names are the same ones.                              *)
LEMMA AllocLosesNone ==
  ASSUME CrashIInv, task = Idle, Creating', UNCHANGED dirs, NEW n,
         AllocReturned(task'.entry.first, n)
  PROVE  Committed' = Committed
<1> DEFINE c == task'.entry.first
<1>1. Committed = Lost(chain, dirs) /\ Committed' = Lost(chain', dirs) \ {c}
  BY CommittedIs DEF Idle, Creating
<1>2. c \notin DOMAIN chain /\ DOMAIN chain' = DOMAIN chain \cup ({c} \ {EOF_FLAG})
  BY DEF AllocReturned
<1> HIDE DEF c
<1>3. QED
  BY <1>1, <1>2 DEF Lost

(* The first write of a removal loses no chain.                            *)
LEMMA ReleaseLosesNone ==
  ASSUME task = Idle, task'.op = "remove", UNCHANGED dirs,
         RemovalBegun(task', free, chain, dirs),
         chain' = Store!Without(chain, task'.entry.first)
  PROVE  Committed' = Committed
<1> DEFINE c == task'.entry.first
<1>1. Committed = Lost(chain, dirs) /\ Committed' = Lost(chain', dirs)
  BY CommittedIs DEF Idle, Creating
<1>2. IsNamed(dirs, c)
  BY RemovalEnds
<1>3. DOMAIN chain' = DOMAIN chain \ {c}
  BY DEF Store!Without, Store!Restrict
<1> HIDE DEF c
<1>4. QED
  BY <1>1, <1>2, <1>3 DEF Lost

(* Nor does the parent's write of fs_mkdir,                                *)
LEMMA MkdirParentLosesNone ==
  ASSUME CrashIInv, MkdirParent
  PROVE  Committed' = Committed
<1> DEFINE c == task.entry.first
           nd == ParentWritten(task, dirs)
<1>1. /\ MkdirBegun(task, free, chain, dirs) /\ dirs' = nd /\ chain' = chain
      /\ task'.op = "mkdirBlocks" /\ task'.entry = task.entry
  BY MkdirParentDoes
<1>2. Committed = Lost(chain, dirs) \ {c} /\ Committed' = Lost(chain, nd) \ {c}
  BY <1>1, CommittedIs DEF Creating, MkdirParent
<1>3. \A x : IsNamed(nd, x) <=> IsNamed(dirs, x) \/ (task.index # -1 /\ x = c)
  BY <1>1, ParentNames
<1> HIDE DEF c, nd
<1>4. QED
  BY <1>2, <1>3 DEF Lost

(* the last write of a removal,                                            *)
LEMMA RemoveParentLosesNone ==
  ASSUME CrashIInv, RemoveParent
  PROVE  Committed' = Committed
<1> DEFINE c == task.entry.first
           nd == Gone(dirs, task.dir, task.index - 1, c)
<1>1. task' = Idle /\ chain' = chain /\ dirs' = nd
  BY RemoveParentDoes
<1>2. PICK f, ch : RemovalBegun(task, f, ch, dirs) /\ chain = Store!Without(ch, c)
  BY RemoveParentDoes
<1>3. \A x : IsNamed(nd, x) <=> IsNamed(dirs, x) /\ x # c
  BY <1>2, RemovalEnds
<1>4. c \notin DOMAIN chain
  BY <1>2 DEF Store!Without, Store!Restrict
<1>5. Committed = Lost(chain, dirs) /\ Committed' = Lost(chain, nd)
  BY <1>1, CommittedIs DEF Creating, Idle, RemoveParent
<1> HIDE DEF c, nd
<1>6. QED
  BY <1>3, <1>4, <1>5 DEF Lost

(* or the last write of a new file.                                        *)
LEMMA FileParentLosesNone ==
  ASSUME CrashIInv, FileParent
  PROVE  Committed' = Committed
<1> DEFINE c == task.entry.first
           nd == ParentWritten(task, dirs)
<1>1. /\ FileBegun(task, free, chain, dirs) /\ dirs' = nd /\ chain' = chain
      /\ task' = Idle
  BY FileParentDoes
<1>2. Committed = Lost(chain, dirs) \ {c} /\ Committed' = Lost(chain, nd)
  BY <1>1, CommittedIs DEF Creating, FileParent, Idle
<1>3. task.index # -1
  BY <1>1, NamesApart DEF FileBegun, Place
<1>4. \A x : IsNamed(nd, x) <=> IsNamed(dirs, x) \/ x = c
  BY <1>1, <1>3, ParentNames
<1> HIDE DEF c, nd
<1>5. QED
  BY <1>2, <1>4 DEF Lost

\* what the shell leaves when it ends in a call
EndsTheShell ==
  /\ Creating /\ task' = Idle /\ currentDir' = <<>>
  /\ Committed' = Committed \cup {task.entry.first}

(* The last write of fs_mkdir loses one only when it aborts.               *)
LEMMA MkdirBlocksLoses ==
  ASSUME CrashIInv, MkdirBlocks
  PROVE  Committed' # Committed => EndsTheShell
<1> DEFINE c == task.entry.first
           nd == WithDirectory(dirs, task.dir, c)
<1>1. /\ task' = Idle /\ chain' = chain /\ Creating
      /\ task.index = -1 => currentDir' = <<>>
  BY MkdirBlocksDoes DEF Started, MkdirBlocks, Creating
<1>2. PICK ds : /\ MkdirBegun(task, free, chain, ds) /\ dirs = ParentWritten(task, ds)
                /\ dirs' = nd
  BY MkdirBlocksDoes
<1>3. \A x : IsNamed(nd, x) <=> IsNamed(dirs, x)
  BY <1>2, MkdirEnds
<1>4. task.index # -1 => IsNamed(dirs, c)
  BY <1>2, ParentNames
<1>5. Committed = Lost(chain, dirs) \ {c} /\ Committed' = Lost(chain, nd)
  BY <1>1, <1>2, CommittedIs DEF Creating, Idle
<1> HIDE DEF nd
<1>6. Committed' = Lost(chain, dirs)
  BY <1>3, <1>5 DEF Lost
<1>7. c \notin Lost(chain, dirs) => Committed' = Committed
  BY <1>5, <1>6
<1>8. c \in Lost(chain, dirs) => task.index = -1 /\ Committed' = Committed \cup {c}
  BY <1>4, <1>5, <1>6 DEF Lost
<1>9. QED
  BY <1>1, <1>7, <1>8 DEF EndsTheShell

(* A restart in a call may lose that call's chain.                         *)
LEMMA CrashRestartLoses ==
  ASSUME CrashRestart
  PROVE  Committed' # Committed => EndsTheShell
<1> DEFINE c == task.entry.first
<1>1. task' = Idle /\ UNCHANGED <<chain, dirs>> /\ currentDir' = <<>>
  BY DEF CrashRestart, Started, alloced
<1>2. Committed' = Lost(chain, dirs)
  BY <1>1, CommittedIs DEF Idle, Creating
<1>3. Creating => Committed = Lost(chain, dirs) \ {c}
  BY CommittedIs
<1>4. ~Creating => Committed = Lost(chain, dirs)
  BY CommittedIs
<1> HIDE DEF c
<1>5. Committed' # Committed => Creating /\ Committed' = Committed \cup {c}
  BY <1>2, <1>3, <1>4
<1>6. QED
  BY <1>1, <1>5 DEF c, EndsTheShell

(* Clusters are lost only when the shell dies with a chain that has no     *)
(* entry yet, or aborts in a directory without an unused one, and then     *)
(* just these clusters; alloc may refuse fs_mkdir or not.                  *)
THEOREM OnlyDeathLosesAlways ==
  ASSUME RootIsSpared
  PROVE  CrashSpec => OnlyDeathLoses
<1>1. ASSUME CrashIInv, [CrashNext]_crashVars
      PROVE  Committed' # Committed => EndsTheShell
  <2>1. ASSUME NEW p \in Paths, NeverRefused => Store!Grants(free, DirClusters), MkdirAlloc(p)
        PROVE  Committed' = Committed
    BY <1>1, <2>1, MkdirAllocDoes, AllocLosesNone DEF Creating
  <2>2. ASSUME NEW p \in Paths, FileAlloc(p) PROVE Committed' = Committed
    BY <1>1, <2>2, FileAllocDoes, AllocLosesNone DEF Creating
  <2>3. ASSUME NEW p \in Paths, RmdirRelease(p) \/ DeleteRelease(p)
        PROVE  Committed' = Committed
    BY <1>1, <2>3, ReleaseDoes, ReleaseLosesNone
  <2>4. ASSUME UNCHANGED <<chain, dirs, task>> PROVE Committed' = Committed
    BY <2>4, CommittedIs DEF Creating
  <2>5. ASSUME NEW p \in Paths, CallSetcwd(p), UNCHANGED task PROVE Committed' = Committed
    BY <1>1, <2>4, <2>5, CwdIs DEF CallSetcwd, CrashIInv
  <2>6. CASE UNCHANGED crashVars
    BY <2>4, <2>6 DEF crashVars, vars
  <2>7. QED
    BY <1>1, <2>1, <2>2, <2>3, <2>5, <2>6, MkdirParentLosesNone, MkdirBlocksLoses,
       RemoveParentLosesNone, FileParentLosesNone, CrashRestartLoses DEF CrashNext
<1>2. ASSUME CrashIInv, [CrashNext]_crashVars
      PROVE  [Committed' # Committed =>
                /\ Creating /\ task' = Idle /\ currentDir' = <<>>
                /\ Committed' = Committed \cup {task.entry.first}]_crashVars
  BY <1>1, <1>2 DEF EndsTheShell
<1>3. QED
  BY CrashInvariance, <1>2, PTL DEF CrashSpec, OnlyDeathLoses
-----------------------------------------------------------------------------
\* where a path leads when the directory c is written, too
WithNew(ds, nd, c, q) ==
  \/ Reached(nd, q) = Reached(ds, q)
     /\ (Reached(ds, q) = EOF_FLAG \/ Reached(ds, q) \in DOMAIN ds)
  \/ Reached(nd, q) = c /\ Reached(ds, q) = EOF_FLAG

\* nd has the directory c that ds has not, and nothing in it
DirectoryMore(ds, nd, c) ==
  /\ Root \in DOMAIN ds /\ EOF_FLAG \notin DOMAIN ds
  /\ c # EOF_FLAG /\ c \notin DOMAIN ds
  /\ DOMAIN nd = DOMAIN ds \cup {c}
  /\ \A b \in DOMAIN ds : nd[b] = ds[b]
  /\ \A j \in 1 .. Slots : nd[c].slot[j].name = NoName

(* A directory record more, at a cluster that was none, changes only paths *)
(* that lead to that cluster.                                              *)
LEMMA MoreBelow ==
  ASSUME NEW ds, NEW nd, NEW c, DirectoryMore(ds, nd, c), NEW b \in DOMAIN ds, NEW n
  PROVE  /\ \/ Below(nd, b, n) = Below(ds, b, n)
               /\ (Below(ds, b, n) = EOF_FLAG \/ Below(ds, b, n) \in DOMAIN ds)
            \/ Below(nd, b, n) = c /\ Below(ds, b, n) = EOF_FLAG
         /\ KindIn(nd, b, n) = KindIn(ds, b, n)
<1> DEFINE i == Position(ds, b, n)
           e == EntryAt(ds, b, i)
<1>1. nd[b] = ds[b] /\ b # EOF_FLAG
  BY DEF DirectoryMore
<1>2. Position(nd, b, n) = i
  BY <1>1 DEF Position
<1>3. \A k : EntryAt(nd, b, k) = EntryAt(ds, b, k)
  BY <1>1 DEF EntryAt
<1>4. \/ /\ Enter(nd, e) = Enter(ds, e)
         /\ Enter(ds, e) = EOF_FLAG \/ Enter(ds, e) \in DOMAIN ds
      \/ Enter(nd, e) = c /\ Enter(ds, e) = EOF_FLAG
  <2> HIDE DEF e
  <2>1. CASE ~e.isDir
    BY <2>1 DEF Enter
  <2>2. CASE e.isDir /\ e.first \in DOMAIN ds
    BY <2>2 DEF Enter, DirectoryMore
  <2>3. CASE e.isDir /\ e.first = c
    BY <2>3 DEF Enter, DirectoryMore
  <2>4. CASE e.isDir /\ e.first \notin DOMAIN nd
    BY <2>4 DEF Enter, DirectoryMore
  <2>5. QED
    BY <2>1, <2>2, <2>3, <2>4 DEF DirectoryMore
<1>5. Below(ds, b, n) = IF i = -1 THEN EOF_FLAG ELSE Enter(ds, e)
  BY <1>1 DEF Below
<1>6. Below(nd, b, n) = IF i = -1 THEN EOF_FLAG ELSE Enter(nd, e)
  BY <1>1, <1>2, <1>3 DEF Below
<1>7. KindIn(nd, b, n) = KindIn(ds, b, n)
  BY <1>1, <1>2, <1>3 DEF KindIn, InDirectory
<1> HIDE DEF i, e
<1>8. QED
  BY <1>4, <1>5, <1>6, <1>7

(* So every path leads where it led, or to the new record.                 *)
LEMMA MoreReach ==
  ASSUME LongNames = {}, NEW ds, NEW nd, NEW c, DirectoryMore(ds, nd, c)
  PROVE  \A q \in Seq(Names) : WithNew(ds, nd, c, q)
<1> DEFINE Bad == {k \in Nat : \E q \in Seq(Names) : Len(q) = k /\ ~WithNew(ds, nd, c, q)}
<1>1. WithNew(ds, nd, c, <<>>)
  <2>1. <<>> \in Seq(Names)
    OBVIOUS
  <2>2. Reached(ds, <<>>) = Root /\ Reached(nd, <<>>) = Root
    BY <2>1, ReachedStep
  <2>3. QED
    BY <2>2 DEF WithNew, DirectoryMore
<1>2. ASSUME NEW q \in Seq(Names), q # <<>>, WithNew(ds, nd, c, Front(q))
      PROVE  WithNew(ds, nd, c, q)
  <2> DEFINE u == Front(q)
             n == Last(q)
             b == Reached(ds, u)
  <2>1. u \in Seq(Names) /\ n \in Names
    BY <1>2, FrontLast
  <2>2. /\ Reached(ds, q) = Below(ds, b, n)
        /\ Reached(nd, q) = Below(nd, Reached(nd, u), n)
    BY <1>2, <2>1, ReachedStep
  <2>3. \/ Reached(nd, u) = b /\ (b = EOF_FLAG \/ b \in DOMAIN ds)
        \/ Reached(nd, u) = c /\ b = EOF_FLAG
    BY <1>2 DEF WithNew
  <2> HIDE DEF u, n, b
  <2>4. CASE Reached(nd, u) = b /\ b = EOF_FLAG
    BY <2>2, <2>4 DEF Below, WithNew
  <2>5. CASE Reached(nd, u) = b /\ b \in DOMAIN ds
    BY <2>2, <2>5, MoreBelow DEF WithNew
  <2>6. CASE Reached(nd, u) = c /\ b = EOF_FLAG
    <3>1. \A j \in 1 .. Slots : nd[c].slot[j].name # n
      BY <2>1, NamesApart DEF DirectoryMore
    <3>2. c # EOF_FLAG
      BY DEF DirectoryMore
    <3>3. Below(nd, c, n) = EOF_FLAG
      BY <2>1, <3>1, <3>2, NotFound
    <3>4. Below(ds, b, n) = EOF_FLAG
      BY <2>6 DEF Below
    <3>5. QED
      BY <2>2, <2>6, <3>3, <3>4 DEF WithNew
  <2>7. QED
    BY <2>3, <2>4, <2>5, <2>6
<1>3. Bad = {}
  <2> SUFFICES ASSUME Bad # {} PROVE FALSE
    OBVIOUS
  <2>1. PICK k \in Bad : \A j \in Nat : j < k => j \notin Bad
    BY LeastNumber
  <2>2. PICK q \in Seq(Names) : Len(q) = k /\ ~WithNew(ds, nd, c, q)
    OBVIOUS
  <2>3. q # <<>>
    BY <1>1, <2>2
  <2>4. Front(q) \in Seq(Names) /\ Len(Front(q)) = k - 1 /\ k \in Nat \ {0}
    BY <2>2, <2>3, FrontLast
  <2>5. k - 1 \in Nat /\ k - 1 < k
    BY <2>4
  <2> HIDE DEF Bad
  <2>6. k - 1 \notin Bad
    BY <2>1, <2>5
  <2>7. WithNew(ds, nd, c, Front(q))
    BY <2>4, <2>5, <2>6 DEF Bad
  <2>8. QED
    BY <1>2, <2>2, <2>3, <2>7
<1>4. QED
  <2> SUFFICES ASSUME NEW q \in Seq(Names), ~WithNew(ds, nd, c, q) PROVE FALSE
    OBVIOUS
  <2>1. Len(q) \in Bad
    OBVIOUS
  <2>2. QED
    BY <1>3, <2>1

(* A directory with nothing in it changes no name, whether an entry leads  *)
(* to it already or not.                                                   *)
LEMMA MoreTree ==
  ASSUME LongNames = {}, NEW ds, NEW nd, NEW c, DirectoryMore(ds, nd, c)
  PROVE  TreeOf(nd) = TreeOf(ds)
<1>1. ASSUME NEW q \in NamePaths PROVE KindOf(nd, q) = KindOf(ds, q)
  <2>1. q \in Seq(Names) /\ (q # <<>> => Front(q) \in NamePaths /\ Front(q) \in Seq(Names))
    BY NamePathsAre
  <2>2. CASE q = <<>>
    BY <2>2, KindIs
  <2>3. CASE q # <<>>
    <3> DEFINE b == Reached(ds, Front(q))
               a == Reached(nd, Front(q))
               n == Last(q)
    <3>1. n \in Names
      BY <2>1, <2>3, FrontLast
    <3>2. /\ KindOf(ds, q) = IF b = EOF_FLAG THEN "none" ELSE KindIn(ds, b, n)
          /\ KindOf(nd, q) = IF a = EOF_FLAG THEN "none" ELSE KindIn(nd, a, n)
      BY <2>3, KindIs
    <3>3. WithNew(ds, nd, c, Front(q))
      BY <2>1, <2>3, MoreReach
    <3>4. \/ a = b /\ (b = EOF_FLAG \/ b \in DOMAIN ds)
          \/ a = c /\ b = EOF_FLAG
      BY <3>3 DEF WithNew
    <3> HIDE DEF a, b, n
    <3>5. CASE a = b /\ b = EOF_FLAG
      BY <3>2, <3>5
    <3>6. CASE a = b /\ b \in DOMAIN ds
      BY <3>2, <3>6, MoreBelow
    <3>7. CASE a = c /\ b = EOF_FLAG
      <4>1. \A j \in 1 .. Slots : nd[c].slot[j].name # n
        BY <3>1, NamesApart DEF DirectoryMore
      <4>2. c # EOF_FLAG
        BY DEF DirectoryMore
      <4>3. KindIn(nd, c, n) = "none"
        BY <3>1, <4>1, <4>2, NotFound
      <4>4. QED
        BY <3>2, <3>7, <4>3
    <3>8. QED
      BY <3>4, <3>5, <3>6, <3>7
  <2>4. QED
    BY <2>2, <2>3
<1>2. \A q \in NamePaths : Node(nd, q) = Node(ds, q)
  BY <1>1 DEF Node
<1>3. \A x \in TreeOf(nd) : x \in TreeOf(ds)
  BY <1>1, <1>2, TreeIs
<1>4. \A x \in TreeOf(ds) : x \in TreeOf(nd)
  BY <1>1, <1>2, TreeIs
<1>5. QED
  BY <1>3, <1>4
-----------------------------------------------------------------------------
\* what a step may do to the tree of names
TreeStep ==
  \/ TreeOf(dirs) = TreeOf(dirs')
  \/ Abstract!Added(TreeOf(dirs), TreeOf(dirs'))
  \/ Abstract!Removed(TreeOf(dirs), TreeOf(dirs'))

\* writing the blocks of a new directory is seen in no name
LEMMA BlocksTree ==
  ASSUME LongNames = {}, NEW t, NEW f, NEW ch, NEW ds, MkdirBegun(t, f, ch, ds)
  PROVE  TreeOf(WithDirectory(ParentWritten(t, ds), t.dir, t.entry.first))
           = TreeOf(ParentWritten(t, ds))
<1> DEFINE mid == ParentWritten(t, ds)
           c == t.entry.first
           nd == WithDirectory(mid, t.dir, c)
<1>1. Shape(f, ch, ds) /\ Granted(ch, ds, t.entry)
  BY DEF MkdirBegun
<1>2. /\ Root \in DOMAIN ds /\ EOF_FLAG \notin DOMAIN ds /\ c \notin DOMAIN ds
      /\ ds = [b \in DOMAIN ds |-> ds[b]]
  BY <1>1, NoDirectoryThere DEF Granted, Fresh, Refused, Shape, RootInPlace, Typed
<1>3. DOMAIN mid = DOMAIN ds /\ mid = [b \in DOMAIN mid |-> mid[b]]
  BY <1>2 DEF ParentWritten, EntrySet
<1>4. /\ DOMAIN nd = DOMAIN mid \cup ({c} \ {EOF_FLAG})
      /\ \A b \in DOMAIN nd : nd[b] = IF b = c THEN initDirectory(t.dir, c) ELSE mid[b]
      /\ nd = [b \in DOMAIN nd |-> nd[b]]
  BY DEF WithDirectory
<1>5. \A j \in 1 .. Slots : initDirectory(t.dir, c).slot[j].name = NoName
  BY DEF initDirectory, Unused
<1> HIDE DEF mid, c, nd
<1>6. CASE c = EOF_FLAG
  <2>1. DOMAIN nd = DOMAIN mid /\ \A b \in DOMAIN mid : nd[b] = mid[b]
    BY <1>2, <1>3, <1>4, <1>6
  <2>2. nd = mid
    BY <1>3, <1>4, <2>1
  <2>3. QED
    BY <2>2 DEF mid, c, nd
<1>7. CASE c # EOF_FLAG
  <2>1. DirectoryMore(mid, nd, c)
    BY <1>2, <1>3, <1>4, <1>5, <1>7 DEF DirectoryMore
  <2>2. TreeOf(nd) = TreeOf(mid)
    BY <2>1, MoreTree
  <2>3. QED
    BY <2>2 DEF mid, c, nd
<1>8. QED
  BY <1>6, <1>7

\* the write of the parent adds the name
LEMMA MkdirParentTree ==
  ASSUME LongNames = {}, CrashIInv, MkdirParent
  PROVE  TreeStep
<1> DEFINE d == task.dir
           i == task.index
           e == task.entry
           n == e.name
           c == e.first
           fin == WithDirectory(EntrySet(dirs, d, i, e), d, c)
<1>1. MkdirBegun(task, free, chain, dirs) /\ dirs' = ParentWritten(task, dirs)
  BY MkdirParentDoes
<1>2. CASE i = -1
  BY <1>1, <1>2 DEF ParentWritten, TreeStep
<1>3. CASE i # -1
  <2>1. /\ Shape(free, chain, dirs) /\ Place(dirs, d, i, n)
        /\ DirectoryEntry(e, n, c) /\ Granted(chain, dirs, e)
    BY <1>1, <1>3 DEF MkdirBegun
  <2>2. dirs' = EntrySet(dirs, d, i, e)
    BY <1>1, <1>3 DEF ParentWritten
  <2>3. TreeOf(fin) = TreeOf(dirs')
    BY <1>1, <2>2, BlocksTree
  <2>4. Unwritten(dirs, c) /\ c \notin DOMAIN dirs
    BY <2>1, NamesApart, NoDirectoryThere
       DEF Granted, Refused, Fresh, Shape, Typed, Unwritten
  <2>5. n = e.name /\ c = e.first
    OBVIOUS
  <2>6. Shape(free, chain, fin)
    <3> HIDE DEF d, i, e, n, c
    <3>1. QED
      BY <2>1, MkdirKeeps
  <2>7. EntryAdded(dirs, fin, d, i, e)
    <3> HIDE DEF d, i, e, n, c
    <3>1. QED
      BY <2>1, <2>4, MkdirAdds
  <2> HIDE DEF d, i, e, n, c, fin
  <2>8. Grown(dirs, fin, d, i, e)
    BY <2>1, <2>4, <2>5, <2>7, GrownByAdding
  <2>9. Both(free, chain, dirs, free, chain, fin)
    BY <2>1, <2>6 DEF Both
  <2>10. TreeOf(fin) = TreeOf(dirs) \/ Abstract!Added(TreeOf(dirs), TreeOf(fin))
    BY <2>8, <2>9, GrownTree
  <2>11. QED
    BY <2>3, <2>10 DEF TreeStep
<1>4. QED
  BY <1>2, <1>3

(* The parent's write is the moment in which a file's name appears,        *)
LEMMA FileParentTree ==
  ASSUME LongNames = {}, CrashIInv, FileParent
  PROVE  TreeStep
<1> DEFINE d == task.dir
           i == task.index
           e == task.entry
           n == e.name
           c == e.first
<1>1. FileBegun(task, free, chain, dirs) /\ dirs' = ParentWritten(task, dirs)
  BY FileParentDoes
<1>2. /\ Shape(free, chain, dirs) /\ Place(dirs, d, i, n)
      /\ FileEntry(e, n, c) /\ Granted(chain, dirs, e)
  BY <1>1 DEF FileBegun
<1>3. dirs' = EntrySet(dirs, d, i, e)
  BY <1>1, <1>2, NamesApart DEF ParentWritten, Place
<1>4. Shape(free, chain, dirs')
  BY <1>1, FileEnds
<1>5. Unwritten(dirs, c) /\ c \notin DOMAIN dirs
  BY <1>2, NamesApart, NoDirectoryThere DEF Granted, Refused, Fresh, Shape, Typed, Unwritten
<1>6. n = e.name /\ c = e.first
  OBVIOUS
<1> HIDE DEF d, i, e, n, c
<1>7. EntryAdded(dirs, dirs', d, i, e)
  BY <1>2, <1>3, <1>5, FileAdds
<1>8. Grown(dirs, dirs', d, i, e)
  BY <1>2, <1>5, <1>6, <1>7, GrownByAdding
<1>9. Both(free, chain, dirs, free, chain, dirs')
  BY <1>2, <1>4 DEF Both
<1>10. QED
  BY <1>8, <1>9, GrownTree DEF TreeStep

(* and the one in which a removed name is gone.                            *)
LEMMA RemoveParentTree ==
  ASSUME LongNames = {}, CrashIInv, RemoveParent
  PROVE  TreeStep
<1> DEFINE d == task.dir
           i == task.index - 1
           c == task.entry.first
<1>1. dirs' = Gone(dirs, d, i, c)
  BY RemoveParentDoes
<1>2. PICK f, ch : RemovalBegun(task, f, ch, dirs)
  BY RemoveParentDoes
<1>3. Shape(f, ch, dirs) /\ Removable(dirs, d, i, c)
  BY <1>2 DEF RemovalBegun
<1> DEFINE g == ch[c] \o f
           ci == Store!Without(ch, c)
<1>4. Shape(g, ci, dirs')
  BY <1>1, <1>2, RemovalEnds
<1> HIDE DEF d, i, c, g, ci
<1>5. EntryRemoved(dirs, dirs', d, i, c)
  BY <1>1, <1>3, GoneRemoves
<1>6. Grown(dirs', dirs, d, i, dirs[d].slot[i])
  BY <1>3, <1>5, GrownByRemoving
<1>7. Both(g, ci, dirs', f, ch, dirs)
  BY <1>3, <1>4 DEF Both
<1>8. QED
  BY <1>6, <1>7, GrownTree DEF TreeStep

(* In the order in which the calls write, too, and over the starts that    *)
(* follow a death of the shell, the tree of names changes by one name at a *)
(* time, as NameTree has it.                                               *)
THEOREM CrashTreeIsImplemented ==
  ASSUME LongNames = {}, RootIsSpared
  PROVE  CrashSpec => ImplementsNameTree
<1>1. CrashInit => Abstract!Init
  BY TreeBegins DEF CrashInit
<1>2. ASSUME CrashIInv, [CrashNext]_crashVars PROVE TreeStep
  <2>1. ASSUME UNCHANGED dirs PROVE TreeStep
    BY <2>1 DEF TreeStep
  <2>2. ASSUME NEW p \in Paths,
               \/ MkdirAlloc(p) \/ FileAlloc(p) \/ RmdirRelease(p) \/ DeleteRelease(p)
               \/ CallSetcwd(p)
        PROVE  TreeStep
    BY <2>1, <2>2 DEF MkdirAlloc, FileAlloc, RmdirRelease, DeleteRelease, CallSetcwd, fs_setcwd
  <2>3. CASE MkdirBlocks
    <3>1. PICK ds : /\ MkdirBegun(task, free, chain, ds) /\ dirs = ParentWritten(task, ds)
                    /\ dirs' = WithDirectory(dirs, task.dir, task.entry.first)
      BY <1>2, <2>3, MkdirBlocksDoes
    <3>2. TreeOf(dirs') = TreeOf(dirs)
      BY <3>1, BlocksTree
    <3>3. QED
      BY <3>2 DEF TreeStep
  <2>4. CASE CrashRestart \/ UNCHANGED crashVars
    BY <2>1, <2>4 DEF CrashRestart, crashVars, vars
  <2>5. QED
    BY <1>2, <2>2, <2>3, <2>4, MkdirParentTree, FileParentTree, RemoveParentTree DEF CrashNext
<1>3. ASSUME CrashIInv, [CrashNext]_crashVars
      PROVE  [LET t == TreeOf(dirs)
                  u == TreeOf(dirs')
              IN  t = u \/ Abstract!Added(t, u) \/ Abstract!Removed(t, u)]_vars
  BY <1>2, <1>3 DEF TreeStep
<1>4. QED
  BY CrashInvariance, <1>1, <1>3, PTL DEF CrashSpec, ImplementsNameTree
=============================================================================
