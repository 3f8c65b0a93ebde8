----------------------------- MODULE Directory -----------------------------
(***************************************************************************)
(* Directories (directory.c): parsePath and the calls that make, remove    *)
(* and enter them, over the chains of ChainStore, from a format to the end *)
(* of the program.  A call is one step; DirectoryCrash looks inside, goes  *)
(* on after the end, and has the call that ends the program.               *)
(*                                                                         *)
(* A path is a sequence of components; "." and ".." are entries like any   *)
(* other, found on disk.  currentDir is such a sequence too: the text that *)
(* was entered, not a place in the tree.                                   *)
(***************************************************************************)
EXTENDS Integers, Sequences, FiniteSets, Functions, SequencesExt

CONSTANTS
  Names,           \* of files and directories
  LongNames,       \* those of them with eleven characters
  Slots,           \* entries of a directory after "." and ".."; 62
  DirClusters,     \* clusters of a directory, 4
  Root, InitFree, RootChain,   \* the chains of a formatted volume
  Paths,           \* the arguments: [abs |-> BOOLEAN, comps |-> a sequence]
  MaxDepth,        \* bound of the depth of the tree and of currentDir
  MaxEntries,      \* bound of the entries in use
  NeverRefused     \* whether fs_mkdir is called only when alloc will grant

EOF_FLAG == -1
Dot      == "."
DotDot   == ".."
NoName   == ""

ASSUME DirectoryAssumption ==
  /\ LongNames \subseteq Names /\ {Dot, DotDot, NoName} \cap Names = {}
  /\ Slots \in Nat \ {0} /\ DirClusters \in Nat \ {0}
  /\ MaxDepth \in Nat /\ MaxEntries \in Nat
  /\ NeverRefused \in BOOLEAN
  /\ Root \in Nat
  /\ InitFree \in Seq(Nat) /\ RootChain \in Seq(Nat)
  /\ \A p \in Paths : /\ p.abs \in BOOLEAN /\ p.comps \in Seq(Names \cup {Dot, DotDot})
                      /\ p.comps = <<>> => p.abs      \* only "/" has no component

\* no cluster of the formatted volume is in two places
ASSUME FormattedAssumption ==
  /\ RootChain # <<>> /\ RootChain[1] = Root
  /\ IsInjective(RootChain) /\ IsInjective(InitFree)
  /\ Range(RootChain) \cap Range(InitFree) = {}

VARIABLES
  free, chain,     \* the allocator
  dirs,            \* contents of each directory on disk, by first cluster
  currentDir, rootStart

alloced == <<free, chain>>
vars == <<free, chain, dirs, currentDir, rootStart>>

Store == INSTANCE ChainStore

Unused == [name |-> NoName, first |-> EOF_FLAG, isDir |-> FALSE]
Entry(n, c, d) == [name |-> n, first |-> c, isDir |-> d]

\* initDirectory: "." names the directory, ".." what the parent's "." names
DirWithOwnParent(parent, c) ==
  [self |-> c, up |-> c, slot |-> [i \in 1 .. Slots |-> Unused]]
initDirectory(parent, c) ==
  [self |-> c, up |-> parent, slot |-> [i \in 1 .. Slots |-> Unused]]

Init ==
  /\ Store!Init
  /\ dirs = [c \in {Root} |-> initDirectory(Root, Root)]
  /\ currentDir = <<>>
  /\ rootStart = Root

-----------------------------------------------------------------------------
(* DE_holder *parsePath(char * path, DE_holder * DEholder) *)

(* A name of eleven characters fills DIR_Name, and strcasecmp goes on into *)
(* DIR_Attr: 0 after a file's name, IS_DIR after a directory's.            *)
MatchesFiles(e, n) == e.name = n /\ ~e.isDir
Matches(e, n) == e.name = n /\ ~(e.isDir /\ n \in LongNames)

Position(ds, d, n) ==
  CASE n = Dot    -> 0
    [] n = DotDot -> IF ds[d].up = EOF_FLAG THEN -1 ELSE 1
    [] OTHER      -> LET S == {i \in 1 .. Slots : Matches(ds[d].slot[i], n)}
                     IN  IF S = {} THEN -1
                                   ELSE 1 + (CHOOSE i \in S : \A j \in S : i <= j)

EntryAt(ds, d, i) ==
  CASE i = 0 -> Entry(Dot, ds[d].self, TRUE)
    [] i = 1 -> IF ds[d].up = EOF_FLAG THEN Unused ELSE Entry(DotDot, ds[d].up, TRUE)
    [] OTHER -> ds[d].slot[i - 1]

\* the directory that a component leads to, or EOF_FLAG
Enter(ds, e) == IF e.isDir /\ e.first \in DOMAIN ds THEN e.first ELSE EOF_FLAG

Below(ds, d, n) ==
  LET i == IF d = EOF_FLAG THEN -1 ELSE Position(ds, d, n)
  IN  IF i = -1 THEN EOF_FLAG ELSE Enter(ds, EntryAt(ds, d, i))

Reached(ds, comps) ==
  LET at[k \in 0 .. Len(comps)] ==
        IF k = 0 THEN Root ELSE Below(ds, at[k - 1], comps[k])
  IN  at[Len(comps)]

NotValid == [index |-> -2, element |-> Unused, parent |-> EOF_FLAG]

\* indexDE is -1 when only the last component does not exist
InDirectory(ds, d, n) ==
  LET i == Position(ds, d, n)
  IN  [index |-> i, parent |-> ds[d].self,
       element |-> EntryAt(ds, d, IF i = -1 THEN 0 ELSE i)]

parsePath(ds, comps) ==
  IF comps = <<>> THEN InDirectory(ds, Root, Dot)
  ELSE LET d == Reached(ds, Front(comps))
       IN  IF d = EOF_FLAG THEN NotValid ELSE InDirectory(ds, d, Last(comps))

FromRoot(p) == p.comps
FullPath(p) == IF p.abs THEN p.comps ELSE currentDir \o p.comps

Parsed(p) == parsePath(dirs, FullPath(p))

IsDirectory(h) == h.index >= 0 /\ h.element.isDir
fs_isDir(p)    == IsDirectory(Parsed(p))
fs_isFile(p)   == Parsed(p).index >= 0 /\ ~Parsed(p).element.isDir

-----------------------------------------------------------------------------
(* fdDir *fs_opendir(const char *name) loads a copy of the directory, from *)
(* which fs_readdir takes the entries in use, one after the other.         *)

fs_readdirs(d) ==
  LET read[k \in 0 .. Slots + 2] ==
        IF k = 0 THEN <<>>
        ELSE LET e == EntryAt(dirs, d, k - 1)
             IN  IF e.name = NoName THEN read[k - 1] ELSE Append(read[k - 1], e)
  IN  read[Slots + 2]

fs_opendir(p) == IF fs_isDir(p) THEN fs_readdirs(Parsed(p).element.first) ELSE <<>>

(* displayFiles with -l and -a asks for each name by itself, as a path     *)
(* from the current directory whatever directory is listed.  fs_stat of a  *)
(* name that is not there leaves the record as it was.                     *)
Line(n) ==
  LET p == [abs |-> FALSE, comps |-> <<n>>]
  IN  [name |-> n, isDir |-> fs_isDir(p),
       stat |-> IF Parsed(p).index >= 0 THEN Parsed(p).element ELSE Unused]

displayFiles(p) ==
  [k \in DOMAIN fs_opendir(p) |-> Line(fs_opendir(p)[k].name)]

-----------------------------------------------------------------------------
UnusedSlots(d) == {i \in 1 .. Slots : dirs[d].slot[i].name = NoName}
FirstUnused(d) == CHOOSE i \in UnusedSlots(d) : \A j \in UnusedSlots(d) : i <= j

\* alloc(n): the first cluster of the chain taken, or -1
Alloc(n) == IF Store!Grants(free, n) THEN free[1] ELSE EOF_FLAG

AllocatedNothing == UNCHANGED alloced

Allocated(n) ==
  IF Store!Grants(free, n)
    THEN chain' = Store!Taken(free, chain, n) /\ free' = Store!Rest(free, n)
    ELSE AllocatedNothing

ReleasedNothing(c) == UNCHANGED alloced

Released(c) == free' = chain[c] \o free /\ chain' = Store!Without(chain, c)

\* the directories on disk with an entry of one of them set to e
WithEntryInRoot(d, i, e) == [dirs EXCEPT ![Root].slot[i] = e]
WithEntry(d, i, e) == [dirs EXCEPT ![d].slot[i] = e]

(* int fs_mkdir(const char *pathname, mode_t attribute)                    *)
(* What alloc returns is not looked at: -1 goes into the entry.            *)
WithDirectory(ds, parent, c) ==
  [x \in DOMAIN ds \cup ({c} \ {EOF_FLAG}) |->
     IF x = c THEN initDirectory(parent, c) ELSE ds[x]]

fs_mkdir(p) ==
  LET h == Parsed(p)
      c == Alloc(DirClusters)
      e == Entry(Last(p.comps), c, TRUE)
  IN  /\ h.index = -1 /\ UnusedSlots(h.parent) # {}
      /\ Allocated(DirClusters)
      /\ dirs' = WithDirectory(WithEntry(h.parent, FirstUnused(h.parent), e), h.parent, c)
      /\ UNCHANGED <<currentDir, rootStart>>

\* rootStart is the first cluster of the root only on the volume just formatted
IsRootNever(c) == FALSE
IsRoot(c) == c = rootStart

\* memset of the entry; entry 1 is ".."
ClearedNotWritten(d, i) == dirs
Cleared(d, i) ==
  IF i = 1 THEN [dirs EXCEPT ![d].up = EOF_FLAG] ELSE WithEntry(d, i - 1, Unused)

IsEmptyButFirst(d) == \A i \in 2 .. Slots : dirs[d].slot[i].name = NoName
IsEmpty(d) == \A i \in 1 .. Slots : dirs[d].slot[i].name = NoName

(* int fs_rmdir(const char *pathname)                                      *)
(* An entry that alloc's -1 went into has no directory to look at, and     *)
(* what fs_rmdir does then is not followed.                                *)
MayRemove(h) ==
  /\ h.index > 0 /\ h.element.isDir
  /\ ~IsRoot(h.element.first)
  /\ h.element.first \in DOMAIN dirs /\ IsEmpty(h.element.first)

fs_rmdir(p) ==
  LET h == Parsed(p)
      c == h.element.first
  IN  /\ MayRemove(h)
      /\ Released(dirs[c].self)
      /\ dirs' = Restrict(Cleared(h.parent, h.index), DOMAIN dirs \ {c})
      /\ UNCHANGED <<currentDir, rootStart>>

(* int fs_delete(char* filename) *)
fs_delete(p) ==
  LET h == Parsed(p)
  IN  /\ h.index > 0 /\ ~h.element.isDir
      /\ Released(h.element.first)
      /\ dirs' = Cleared(h.parent, h.index)
      /\ UNCHANGED <<currentDir, rootStart>>

\* the shell's rm
cmd_rm(p) == (fs_isDir(p) /\ fs_rmdir(p)) \/ (fs_isFile(p) /\ fs_delete(p))

\* b_open with O_CREAT, a b_write that alloc grants, b_close
NewFile(p, n) ==
  LET h == Parsed(p)
  IN  /\ h.index = -1 /\ UnusedSlots(h.parent) # {}
      /\ Store!Grants(free, n) /\ Allocated(n)
      /\ dirs' = WithEntry(h.parent, FirstUnused(h.parent),
                           Entry(Last(p.comps), Alloc(n), FALSE))
      /\ UNCHANGED <<currentDir, rootStart>>

-----------------------------------------------------------------------------
(* int fs_setcwd(char *buf)                                                *)
(* strtok has cut an absolute path after its first component when it is    *)
(* copied; ".." alone takes the last component off the text.               *)
fs_setcwdAbsolute(p) ==
  /\ p.abs /\ fs_isDir(p)
  /\ currentDir' = SubSeq(p.comps, 1, IF p.comps = <<>> THEN 0 ELSE 1)

fs_setcwdUp(p) ==
  /\ p = [abs |-> FALSE, comps |-> <<DotDot>>]
  /\ currentDir' = IF currentDir = <<>> THEN <<>> ELSE Front(currentDir)

fs_setcwdRelative(p) ==
  /\ ~p.abs /\ p.comps \notin {<<Dot>>, <<DotDot>>}
  /\ fs_isDir(p)
  /\ currentDir' = FullPath(p)

fs_setcwd(p) ==
  /\ fs_setcwdAbsolute(p) \/ fs_setcwdUp(p) \/ fs_setcwdRelative(p)
  /\ UNCHANGED <<alloced, dirs, rootStart>>

-----------------------------------------------------------------------------
Used == {u \in (DOMAIN dirs) \X (1 .. Slots) : dirs[u[1]].slot[u[2]].name # NoName}

\* what a program does whose root is gone is not followed
RootIsThere == Root \in DOMAIN dirs

CallMkdir(p) ==
  /\ Cardinality(Used) < MaxEntries /\ Len(FullPath(p)) <= MaxDepth
  /\ NeverRefused => Store!Grants(free, DirClusters)
  /\ fs_mkdir(p)

CallNewFile(p) ==
  /\ Cardinality(Used) < MaxEntries /\ Len(FullPath(p)) <= MaxDepth
  /\ NewFile(p, 1)

CallSetcwd(p) == Len(FullPath(p)) <= MaxDepth /\ fs_setcwd(p)

Next ==
  /\ RootIsThere
  /\ \E p \in Paths : CallMkdir(p) \/ CallNewFile(p) \/ CallSetcwd(p) \/ cmd_rm(p)

Spec == Init /\ [][Next]_vars
-----------------------------------------------------------------------------
(* Each entry of a directory that can be reached names a chain of its own, *)
(* outside the free ones; a directory's is as long as fs_mkdir asks for,   *)
(* and its "." and ".." name it and the directory it is in                 *)
(* (directory.c:545-599, 690-724, 1057-1095).                              *)
Entries == {<<u[1], dirs[u[1]].slot[u[2]]>> : u \in Used}

SoundDirectory(d, e) ==
  /\ e.first \in DOMAIN dirs
  /\ Len(chain[e.first]) = DirClusters
  /\ dirs[e.first].self = e.first /\ dirs[e.first].up = d

TreeIsSound ==
  \A x \in Entries :
    /\ x[2].first \in DOMAIN chain
    /\ x[2].isDir => SoundDirectory(x[1], x[2])

(* Every chain that is not free is the root's, or one entry of one         *)
(* directory names it: nothing is lost when a call makes or removes        *)
(* something, and two names never share a chain (directory.c:523-587).     *)
ChainsAreNamedOnce ==
  /\ DOMAIN chain = {Root} \cup {x[2].first : x \in Entries}
  /\ Cardinality({x[2].first : x \in Entries}) = Cardinality(Used)

(* No name is twice in a directory, so what parsePath finds first is the   *)
(* only one (directory.c:285-314, 507).                                    *)
NamesAreUnique ==
  \A d \in DOMAIN dirs : \A i, j \in 1 .. Slots :
    dirs[d].slot[i].name = dirs[d].slot[j].name /\ i # j
      => dirs[d].slot[i].name = NoName

(* No call removes the root (directory.c:668-671).                         *)
RootStays == Root \in DOMAIN chain

(* A directory that fs_mkdir has made is there: fs_isDir says so of the    *)
(* same path (directory.c:474, 507, 556).                                  *)
MadeIsThere ==
  [][\A p \in Paths : fs_mkdir(p) => IsDirectory(parsePath(dirs', FullPath(p)))]_vars

ListingIsTrue(p) ==
  LET lines  == displayFiles(p)
      listed == fs_opendir(p)
  IN  /\ \A j, k \in DOMAIN lines : j # k => lines[j].name # lines[k].name
      /\ \A k \in DOMAIN lines :
           lines[k].isDir = listed[k].isDir /\ lines[k].stat = listed[k]

(* ls -l of the current directory shows each of its entries once, with the *)
(* kind and the record that are its own, though it looks every name up by  *)
(* a path and not in the directory it reads (fsshell.c:93-107,             *)
(* directory.c:1214-1296).                                                 *)
LongListingIsTrue == ListingIsTrue([abs |-> TRUE, comps |-> currentDir])

(* fs_setcwd goes where its argument leads (directory.c:786, 841, 873).    *)
EnteredIsCurrent ==
  [][\A p \in Paths :
       fs_setcwd(p) => Reached(dirs, currentDir') = Parsed(p).element.first]_vars

(* The tree of names is what it should be: a call adds one name that was   *)
(* not there, or removes one with nothing below it, and changes no other.  *)
NamePaths == UNION {[1 .. k -> Names] : k \in 0 .. MaxDepth}

Kind(h) == IF h.index < 0 THEN "none" ELSE IF h.element.isDir THEN "dir" ELSE "file"

TreeOf(ds) ==
  {x \in {[path |-> q, kind |-> Kind(parsePath(ds, q))] : q \in NamePaths} :
     x.kind # "none"}

Abstract == INSTANCE NameTree WITH Name <- Names, tree <- TreeOf(dirs)

ImplementsNameTree ==
  /\ Abstract!Init
  /\ [][LET t == TreeOf(dirs)
            u == TreeOf(dirs')
        IN  t = u \/ Abstract!Added(t, u) \/ Abstract!Removed(t, u)]_vars
=============================================================================
