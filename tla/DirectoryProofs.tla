-------------------------- MODULE DirectoryProofs --------------------------
(***************************************************************************)
(* The directories of a session, for any number of clusters, slots and     *)
(* names: the entries make a tree, each names a chain of its own, and the  *)
(* root stays.  The invariant (Shape) relates each entry to the chain and  *)
(* the directory it leads to, so that no argument follows a path from the  *)
(* root: parsePath's fold is taken one component at a time (ReachedStep).  *)
(*                                                                         *)
(* The second part shows that the directories on disk implement NameTree,  *)
(* and that what fs_mkdir has made is found, where no name has eleven      *)
(* characters.                                                             *)
(***************************************************************************)
EXTENDS Directory, FiniteSetTheorems, SequenceTheorems,
        WellFoundedInduction, TLAPS

(* A set of numbers that is not empty has a least one.                     *)
LEMMA LeastNumber ==
  ASSUME NEW T \in SUBSET Nat, T # {}
  PROVE  \E m \in T : \A k \in Nat : k < m => k \notin T
<1>1. PICK m \in T : \A k \in T : ~(<<k, m>> \in OpToRel(<, Nat))
  BY NatLessThanWellFounded, WFMin
<1>2. ASSUME NEW k \in Nat, k < m PROVE k \notin T
  <2>1. m \in Nat
    OBVIOUS
  <2>2. <<k, m>> \in OpToRel(<, Nat)
    BY <1>2, <2>1 DEF OpToRel
  <2>3. QED
    BY <1>1, <2>2
<1>3. QED
  BY <1>2

\* what parsePath's loop over the components computes, as a function of how
\* many of them it has taken
Walk(ds, comps, n, at) ==
  at = [k \in 0 .. n |-> IF k = 0 THEN Root ELSE Below(ds, at[k - 1], comps[k])]

(* The walk along a path, one directory further for each component, exists *)
(* for any number of components (by the least one for which it would not). *)
LEMMA WalkExists ==
  ASSUME NEW ds, NEW comps, NEW n \in Nat
  PROVE  \E at : Walk(ds, comps, n, at)
<1> DEFINE Bad == {m \in Nat : ~\E at : Walk(ds, comps, m, at)}
<1>1. SUFFICES ASSUME Bad # {} PROVE FALSE
  OBVIOUS
<1>2. PICK m \in Bad : \A k \in Nat : k < m => k \notin Bad
  BY <1>1, LeastNumber
<1>3. m # 0
  <2>1. Walk(ds, comps, 0, [k \in 0 .. 0 |-> Root])
    BY DEF Walk
  <2>2. QED
    BY <1>2, <2>1
<1>4. m \in Nat /\ m - 1 \in Nat /\ m - 1 \notin Bad
    BY <1>2, <1>3
<1>5. PICK f : Walk(ds, comps, m - 1, f)
  BY <1>4
<1> DEFINE g == [k \in 0 .. m |-> IF k = m THEN Below(ds, f[m - 1], comps[m]) ELSE f[k]]
<1>6. Walk(ds, comps, m, g)
  <2>1. \A k \in 0 .. m : k # m /\ k # 0 => g[k] = Below(ds, f[k - 1], comps[k]) /\ g[k-1] = f[k-1]
    BY <1>4, <1>5 DEF Walk
  <2>2. g[0] = Root
    BY <1>3, <1>4, <1>5 DEF Walk
  <2>3. g[m - 1] = f[m - 1]
    BY <1>3, <1>4
  <2>4. \A k \in 0 .. m : g[k] = IF k = 0 THEN Root ELSE Below(ds, g[k - 1], comps[k])
    BY <1>3, <1>4, <2>1, <2>2, <2>3
  <2>5. g = [k \in 0 .. m |-> g[k]]
    OBVIOUS
  <2> HIDE DEF g
  <2>6. QED
    BY <2>4, <2>5 DEF Walk
<1>7. QED
  BY <1>2, <1>6

(* parsePath's fold over the components is the end of that walk.           *)
LEMMA ReachedWalks ==
  ASSUME NEW ds, NEW S, NEW comps \in Seq(S)
  PROVE  \E at : Walk(ds, comps, Len(comps), at) /\ Reached(ds, comps) = at[Len(comps)]
<1> DEFINE n == Len(comps)
           f == CHOOSE f : Walk(ds, comps, n, f)
<1>1. \E at : Walk(ds, comps, n, at)
  <2>1. n \in Nat
    OBVIOUS
  <2> HIDE DEF n
  <2>2. QED
    BY <2>1, WalkExists
<1>2. Walk(ds, comps, n, f)
  BY <1>1
<1>3. Reached(ds, comps) = f[n]
  BY DEF Reached, Walk
<1>4. QED
  BY <1>2, <1>3

(* Two walks along the same components are the same.                       *)
LEMMA WalksAgree ==
  ASSUME NEW ds, NEW cf, NEW cg, NEW m \in Nat, NEW n \in Nat, NEW f, NEW g,
         Walk(ds, cf, m, f), Walk(ds, cg, n, g),
         NEW k \in Nat, k <= m, k <= n, \A j \in 1 .. k : cf[j] = cg[j]
  PROVE  f[k] = g[k]
<1> DEFINE Bad == {j \in Nat : j <= k /\ f[j] # g[j]}
<1>1. SUFFICES ASSUME Bad # {} PROVE FALSE
  OBVIOUS
<1>2. PICK j \in Bad : \A i \in Nat : i < j => i \notin Bad
  BY <1>1, LeastNumber
<1>3. f[0] = Root /\ g[0] = Root
  BY DEF Walk
<1>4. j # 0 /\ j \in 1 .. k
  BY <1>2, <1>3
<1>5. f[j - 1] = g[j - 1]
  BY <1>2, <1>4
<1>6. f[j] = Below(ds, f[j - 1], cf[j]) /\ g[j] = Below(ds, g[j - 1], cg[j])
  BY <1>4 DEF Walk
<1>7. QED
  BY <1>2, <1>4, <1>5, <1>6

(* A path that is not empty is its front and its last component.           *)
LEMMA FrontLast ==
  ASSUME NEW S, NEW comps \in Seq(S), comps # <<>>
  PROVE  /\ Front(comps) \in Seq(S) /\ Len(Front(comps)) = Len(comps) - 1
         /\ Len(comps) \in Nat \ {0}
         /\ \A j \in 1 .. Len(comps) - 1 : Front(comps)[j] = comps[j]
         /\ Last(comps) \in S /\ Last(comps) = comps[Len(comps)]
<1>1. Len(comps) \in Nat \ {0}
  BY EmptySeq
<1>2. /\ Front(comps) \in Seq(S)
      /\ Len(Front(comps)) = Len(comps) - 1
      /\ \A j \in 1 .. Len(comps) - 1 : Front(comps)[j] = comps[j]
  <2>1. \A j \in 1 .. Len(comps) - 1 : comps[j] \in S
    BY <1>1, ElementOfSeq
  <2> DEFINE k == Len(comps) - 1
  <2>2. k \in Int /\ k >= 0 /\ \A j \in 1 .. k : comps[j] \in S
    BY <1>1, <2>1
  <2>3. /\ SubSeq(comps, 1, k) \in Seq(S)
        /\ Len(SubSeq(comps, 1, k)) = IF 1 <= k THEN k - 1 + 1 ELSE 0
        /\ \A j \in 1 .. k - 1 + 1 : SubSeq(comps, 1, k)[j] = comps[1 + j - 1]
    <3> HIDE DEF k
    <3>1. QED
      BY <2>2, SubSeqProperties
  <2>4. \A j \in 1 .. k : 1 + j - 1 = j /\ j \in 1 .. k - 1 + 1
    BY <2>2
  <2>5. Len(SubSeq(comps, 1, k)) = k /\ \A j \in 1 .. k : SubSeq(comps, 1, k)[j] = comps[j]
    <3> HIDE DEF k
    <3>1. QED
      BY <2>2, <2>3, <2>4
  <2>6. QED
    BY <2>3, <2>5 DEF Front
<1>4. Last(comps) \in S /\ Last(comps) = comps[Len(comps)]
  BY <1>1 DEF Last
<1>5. QED
  BY <1>1, <1>2, <1>4

(* A path's end is one component below the end of its front: what          *)
(* parsePath does one step at a time, without following the whole path.    *)
LEMMA ReachedStep ==
  ASSUME NEW ds, NEW S, NEW comps \in Seq(S)
  PROVE  Reached(ds, comps) =
           IF comps = <<>> THEN Root
                           ELSE Below(ds, Reached(ds, Front(comps)), Last(comps))
<1>1. CASE comps = <<>>
  <2>1. PICK f : Walk(ds, comps, Len(comps), f) /\ Reached(ds, comps) = f[Len(comps)]
    BY ReachedWalks
  <2>2. Len(comps) = 0
    BY <1>1
  <2>3. QED
    BY <1>1, <2>1, <2>2 DEF Walk
<1>2. CASE comps # <<>>
  <2> DEFINE n == Len(comps)
             up == Front(comps)
  <2>1. /\ up \in Seq(S) /\ Len(up) = n - 1 /\ n \in Nat /\ n - 1 \in Nat
        /\ \A j \in 1 .. n - 1 : up[j] = comps[j]
        /\ Last(comps) = comps[n]
    BY <1>2, FrontLast
  <2>2. PICK f : Walk(ds, comps, n, f) /\ Reached(ds, comps) = f[n]
    BY ReachedWalks
  <2>3. PICK g : Walk(ds, up, n - 1, g) /\ Reached(ds, up) = g[n - 1]
    BY <2>1, ReachedWalks
  <2>4. f[n] = Below(ds, f[n - 1], comps[n])
    BY <2>1, <2>2 DEF Walk
  <2>5. f[n - 1] = g[n - 1]
    <3> DEFINE k == n - 1
    <3>1. /\ Walk(ds, comps, n, f) /\ Walk(ds, up, k, g)
          /\ k <= n /\ k <= k /\ n \in Nat /\ k \in Nat
          /\ \A j \in 1 .. k : comps[j] = up[j]
      BY <2>1, <2>2, <2>3
    <3> HIDE DEF n, k, up
    <3>2. f[k] = g[k]
      BY <3>1, WalksAgree
    <3>3. QED
      BY <3>2 DEF k
  <2>6. QED
    BY <1>2, <2>1, <2>2, <2>3, <2>4, <2>5
<1>3. QED
  BY <1>1, <1>2
-----------------------------------------------------------------------------
Component == Names \cup {Dot, DotDot}

SlotRecord == [name : Names \cup {NoName}, first : Nat \cup {EOF_FLAG}, isDir : BOOLEAN]

DirRecord == [self : Nat, up : Nat \cup {EOF_FLAG}, slot : [1 .. Slots -> SlotRecord]]

Typed(f, ch, ds) ==
  /\ f \in Seq(Nat)
  /\ ch \in [DOMAIN ch -> Seq(Nat)] /\ DOMAIN ch \subseteq Nat
  /\ ds \in [DOMAIN ds -> DirRecord] /\ IsFiniteSet(DOMAIN ds)

\* no cluster is in two places, and a chain is named by its first cluster
Apart(f, ch) ==
  /\ \A i, j \in DOMAIN f : f[i] = f[j] => i = j
  /\ \A h \in DOMAIN ch : Len(ch[h]) >= 1 /\ ch[h][1] = h
  /\ \A h \in DOMAIN ch : \A i \in DOMAIN ch[h], j \in DOMAIN f : ch[h][i] # f[j]
  /\ \A g, h \in DOMAIN ch : \A i \in DOMAIN ch[g], j \in DOMAIN ch[h] :
       ch[g][i] = ch[h][j] => g = h /\ i = j

InUse(ds, d, i) == ds[d].slot[i].name # NoName

NamesDirectory(ds, d, i, c) ==
  InUse(ds, d, i) /\ ds[d].slot[i].isDir /\ ds[d].slot[i].first = c

\* the directories that can be reached have this in common
Live(ds) ==
  {c \in DOMAIN ds : c = Root \/ \E d \in DOMAIN ds : \E i \in 1 .. Slots :
                                   NamesDirectory(ds, d, i, c)}

EmptyDirectory(ds, c) == \A i \in 1 .. Slots : ~InUse(ds, c, i)

RootInPlace(ch, ds) ==
  /\ Root \in DOMAIN ds /\ Root \in DOMAIN ch
  /\ ds[Root].up = Root

DirectoriesInPlace(ch, ds) ==
  /\ \A c \in DOMAIN ds : c \in DOMAIN ch /\ ds[c].self = c
  /\ \A c \in DOMAIN ds \ Live(ds) : EmptyDirectory(ds, c)

\* what the entry of a call says that alloc refused
Refused(e) == e.first = EOF_FLAG /\ e.isDir /\ ~NeverRefused

EntryLeads(ch, ds, d, e) ==
  /\ e.first \in DOMAIN ch /\ e.first # Root
  /\ e.isDir => /\ e.first \in DOMAIN ds
                /\ Len(ch[e.first]) = DirClusters
                /\ ds[e.first].up = d
  /\ ~e.isDir => e.first \notin DOMAIN ds

EntriesLead(ch, ds) ==
  \A d \in DOMAIN ds : \A i \in 1 .. Slots :
    InUse(ds, d, i) => \/ Refused(ds[d].slot[i])
                       \/ EntryLeads(ch, ds, d, ds[d].slot[i])

NamedOnce(ds) ==
  \A d, b \in DOMAIN ds : \A i, j \in 1 .. Slots :
    /\ InUse(ds, d, i) /\ InUse(ds, b, j)
    /\ ds[d].slot[i].first = ds[b].slot[j].first
    /\ ds[d].slot[i].first # EOF_FLAG
    => d = b /\ i = j

ShortNamesUnique(ds) ==
  \A d \in DOMAIN ds : \A i, j \in 1 .. Slots :
    ds[d].slot[i].name = ds[d].slot[j].name /\ InUse(ds, d, i)
      => i = j \/ ds[d].slot[i].name \in LongNames

Shape(f, ch, ds) ==
  /\ Typed(f, ch, ds)
  /\ Apart(f, ch)
  /\ RootInPlace(ch, ds)
  /\ DirectoriesInPlace(ch, ds)
  /\ EntriesLead(ch, ds)
  /\ NamedOnce(ds)
  /\ ShortNamesUnique(ds)

IsNamed(ds, c) ==
  \E d \in DOMAIN ds : \E i \in 1 .. Slots : InUse(ds, d, i) /\ ds[d].slot[i].first = c

NothingLost(ch, ds) == \A c \in DOMAIN ch \ {Root} : IsNamed(ds, c)

\* a chain that alloc has just made
Fresh(ch, ds, c) ==
  c \in DOMAIN ch /\ c # Root /\ c \notin DOMAIN ds /\ ~IsNamed(ds, c)

Sound == Shape(free, chain, dirs) /\ currentDir \in Seq(Component)

IInv == Sound /\ NothingLost(chain, dirs) /\ rootStart = Root
-----------------------------------------------------------------------------
(* The marks ".", ".." and "no name" are not names, and -1 is not a        *)
(* cluster.                                                                *)
LEMMA NamesApart ==
  /\ \A n \in Names : n # Dot /\ n # DotDot /\ n # NoName
  /\ Dot # DotDot /\ Slots \in Nat /\ Slots >= 1 /\ EOF_FLAG \notin Nat
<1>1. Dot # DotDot /\ EOF_FLAG \notin Nat
  BY DEF Dot, DotDot, EOF_FLAG
<1>2. QED
  BY <1>1, DirectoryAssumption

(* searchDirectory finds "." at 0, ".." at 1, and a name at a slot that    *)
(* matches it or nowhere.                                                  *)
LEMMA PositionIs ==
  ASSUME NEW ds, NEW d, NEW n \in Component
  PROVE  LET i == Position(ds, d, n)
         IN  \/ n = Dot /\ i = 0
             \/ n = DotDot /\ i = IF ds[d].up = EOF_FLAG THEN -1 ELSE 1
             \/ n \in Names /\ i = -1 /\ \A j \in 1 .. Slots : ~Matches(ds[d].slot[j], n)
             \/ n \in Names /\ i \in Nat /\ i - 1 \in 1 .. Slots /\ Matches(ds[d].slot[i - 1], n)
<1> DEFINE S == {j \in 1 .. Slots : Matches(ds[d].slot[j], n)}
<1>1. CASE n = Dot
  BY <1>1 DEF Position
<1>2. CASE n = DotDot
  BY <1>2, NamesApart DEF Position
<1>3. CASE n \in Names /\ S = {}
  BY <1>3, NamesApart DEF Position
<1>4. CASE n \in Names /\ S # {}
  <2> DEFINE j == CHOOSE i \in S : \A k \in S : i <= k
  <2>1. Position(ds, d, n) = 1 + j
    BY <1>4, NamesApart DEF Position
  <2>2. S \in SUBSET Nat
    BY NamesApart
  <2>3. \E i \in S : \A k \in S : i <= k
    <3>1. PICK i \in S : \A k \in Nat : k < i => k \notin S
      BY <1>4, <2>2, LeastNumber
    <3>2. \A k \in S : i <= k
      <4> SUFFICES ASSUME NEW k \in S, ~(i <= k) PROVE FALSE
        OBVIOUS
      <4>1. k \in Nat /\ i \in Nat /\ k < i
        BY <2>2
      <4> HIDE DEF S
      <4>2. QED
        BY <3>1, <4>1
    <3>3. QED
      BY <3>2
  <2>4. j \in S
    BY <2>3
  <2>5. j \in 1 .. Slots /\ Matches(ds[d].slot[j], n)
    BY <2>4
  <2> HIDE DEF j
  <2>6. j \in Nat /\ (1 + j) - 1 = j
    BY <2>5, NamesApart
  <2>7. QED
    BY <1>4, <2>1, <2>5, <2>6
<1>5. QED
  BY <1>1, <1>2, <1>3, <1>4 DEF Component

(* The directory that ".." of a directory in use names is in use.          *)
LEMMA UpIsLive ==
  ASSUME NEW f, NEW ch, NEW ds, Shape(f, ch, ds), NEW d \in Live(ds)
  PROVE  ds[d].up \in Live(ds) /\ ds[d].up # EOF_FLAG /\ ds[d].self = d /\ d \in DOMAIN ds
<1>1. d \in DOMAIN ds /\ ds[d].self = d
  BY DEF Shape, DirectoriesInPlace, Live
<1>2. CASE d = Root
  BY <1>1, <1>2, DirectoryAssumption, NamesApart DEF Shape, RootInPlace, Live
<1>3. CASE d # Root
  <2>1. PICK b \in DOMAIN ds, i \in 1 .. Slots : NamesDirectory(ds, b, i, d)
    BY <1>3 DEF Live
  <2>2. d # EOF_FLAG
    BY <1>1, NamesApart DEF Shape, Typed, DirectoriesInPlace
  <2>3. ds[d].up = b
    BY <2>1, <2>2 DEF Shape, EntriesLead, EntryLeads, NamesDirectory, Refused
  <2>4. b \in Live(ds)
    BY <2>1 DEF Shape, DirectoriesInPlace, EmptyDirectory, NamesDirectory
  <2>5. b # EOF_FLAG
    BY NamesApart DEF Shape, Typed, DirectoriesInPlace
  <2>6. QED
    BY <1>1, <2>3, <2>4, <2>5
<1>4. QED
  BY <1>2, <1>3

(* What a component leads to is a directory in use, or nothing.            *)
LEMMA BelowIsLive ==
  ASSUME NEW f, NEW ch, NEW ds, Shape(f, ch, ds), NEW d \in Live(ds), NEW n \in Component
  PROVE  Below(ds, d, n) = EOF_FLAG \/ Below(ds, d, n) \in Live(ds)
<1> DEFINE i == Position(ds, d, n)
<1>1. /\ ds[d].up \in Live(ds) /\ ds[d].up # EOF_FLAG /\ ds[d].self = d
      /\ d \in DOMAIN ds /\ d # EOF_FLAG
  BY UpIsLive, NamesApart DEF Shape, Typed, DirectoriesInPlace
<1>2. i = -1 \/ i = 0 \/ i = 1 \/ (n \in Names /\ i \in Nat /\ i - 1 \in 1 .. Slots
                                  /\ Matches(ds[d].slot[i - 1], n))
  BY PositionIs
<1>3. Below(ds, d, n) = IF i = -1 THEN EOF_FLAG ELSE Enter(ds, EntryAt(ds, d, i))
  BY <1>1 DEF Below
<1> HIDE DEF i
<1>4. CASE i = -1
  BY <1>3, <1>4
<1>5. CASE i = 0
  BY <1>1, <1>3, <1>5 DEF EntryAt, Enter, Entry
<1>6. CASE i = 1
  BY <1>1, <1>3, <1>6 DEF EntryAt, Enter, Entry
<1>7. CASE n \in Names /\ i \in Nat /\ i - 1 \in 1 .. Slots /\ Matches(ds[d].slot[i - 1], n)
  <2>1. EntryAt(ds, d, i) = ds[d].slot[i - 1]
    <3>1. i # 0 /\ i # 1
      BY <1>7
    <3>2. QED
      BY <3>1 DEF EntryAt
  <2>2. InUse(ds, d, i - 1)
    BY <1>7, NamesApart DEF InUse, Matches
  <2>3. QED
    BY <1>1, <1>3, <1>7, <2>1, <2>2, NamesApart DEF Enter, Live, NamesDirectory
<1>8. QED
  BY <1>2, <1>4, <1>5, <1>6, <1>7

(* What a path leads to is a directory in use, or nothing.                 *)
LEMMA ReachedIsLive ==
  ASSUME NEW f, NEW ch, NEW ds, Shape(f, ch, ds), NEW comps \in Seq(Component)
  PROVE  Reached(ds, comps) = EOF_FLAG \/ Reached(ds, comps) \in Live(ds)
<1> DEFINE n == Len(comps)
<1>1. PICK at : Walk(ds, comps, n, at) /\ Reached(ds, comps) = at[n]
  BY ReachedWalks
<1> DEFINE Bad == {k \in Nat : k <= n /\ at[k] # EOF_FLAG /\ at[k] \notin Live(ds)}
<1>2. n \in Nat
  OBVIOUS
<1>3. Bad = {}
  <2> SUFFICES ASSUME Bad # {} PROVE FALSE
    OBVIOUS
  <2>1. PICK k \in Bad : \A j \in Nat : j < k => j \notin Bad
    BY LeastNumber
  <2>2. at[0] = Root
    BY <1>1, <1>2 DEF Walk
  <2>3. Root \in Live(ds)
    BY DEF Shape, RootInPlace, Live
  <2>4. k # 0 /\ k \in 1 .. n /\ k - 1 \in Nat /\ k - 1 <= n /\ k - 1 < k
    BY <1>2, <2>1, <2>2, <2>3
  <2>5. at[k] = Below(ds, at[k - 1], comps[k])
    BY <1>1, <1>2, <2>4 DEF Walk
  <2>6. at[k - 1] = EOF_FLAG \/ at[k - 1] \in Live(ds)
    BY <2>1, <2>4
  <2>7. comps[k] \in Component
    BY <2>4
  <2>8. at[k] = EOF_FLAG \/ at[k] \in Live(ds)
    <3>1. CASE at[k - 1] = EOF_FLAG
      BY <2>5, <3>1 DEF Below
    <3>2. CASE at[k - 1] \in Live(ds)
      BY <2>5, <2>7, <3>2, BelowIsLive
    <3>3. QED
      BY <2>6, <3>1, <3>2
  <2>9. QED
    BY <2>1, <2>8
<1>4. QED
  BY <1>1, <1>2, <1>3

\* what parsePath finds of the last component
NoEntry(ds, h, n) ==
  h.index = -1 /\ n \in Names /\ \A j \in 1 .. Slots : ~Matches(ds[h.parent].slot[j], n)

UpEntry(ds, h, n) ==
  n = DotDot /\ h.index = 1 /\ h.element = Entry(DotDot, ds[h.parent].up, TRUE)

OwnEntry(ds, h, n) ==
  /\ h.index \in Nat /\ h.index - 1 \in 1 .. Slots /\ n \in Names
  /\ h.element = ds[h.parent].slot[h.index - 1]
  /\ Matches(h.element, n)

Found(ds, comps, h) ==
  /\ comps # <<>> /\ h.parent \in Live(ds) /\ Last(comps) \in Component
  /\ h.parent = Reached(ds, Front(comps))
  /\ h = InDirectory(ds, h.parent, Last(comps))
  /\ NoEntry(ds, h, Last(comps)) \/ UpEntry(ds, h, Last(comps)) \/ OwnEntry(ds, h, Last(comps))

(* The index, parent and element of parsePath fit each other: the index is *)
(* the place of the last component in the parent, and the element is what  *)
(* is there.                                                               *)
LEMMA ParsedIs ==
  ASSUME NEW f, NEW ch, NEW ds, Shape(f, ch, ds), NEW comps \in Seq(Component)
  PROVE  parsePath(ds, comps).index \in {-2, 0} \/ Found(ds, comps, parsePath(ds, comps))
<1> DEFINE h == parsePath(ds, comps)
           n == Last(comps)
           d == Reached(ds, Front(comps))
<1>1. CASE comps = <<>>
  <2>1. h.index = 0
    BY <1>1, NamesApart DEF parsePath, InDirectory, Position
  <2>2. QED
    BY <2>1
<1>2. CASE comps # <<>> /\ d = EOF_FLAG
  BY <1>2 DEF parsePath, NotValid
<1>3. CASE comps # <<>> /\ d # EOF_FLAG
  <2>1. n \in Component /\ Front(comps) \in Seq(Component)
    BY <1>3, FrontLast
  <2>2. d \in Live(ds)
    BY <1>3, <2>1, ReachedIsLive
  <2>3. ds[d].up # EOF_FLAG /\ ds[d].self = d
    BY <2>2, UpIsLive
  <2>4. h = InDirectory(ds, d, n)
    BY <1>3 DEF parsePath
  <2> DEFINE i == Position(ds, d, n)
  <2>5. /\ h.index = i /\ h.parent = d
        /\ h.element = EntryAt(ds, d, IF i = -1 THEN 0 ELSE i)
    BY <2>3, <2>4 DEF InDirectory
  <2>6. \/ i = 0
        \/ i = 1 /\ n = DotDot
        \/ n \in Names /\ i = -1 /\ \A j \in 1 .. Slots : ~Matches(ds[d].slot[j], n)
        \/ n \in Names /\ i \in Nat /\ i - 1 \in 1 .. Slots /\ Matches(ds[d].slot[i - 1], n)
    BY <2>1, <2>3, PositionIs
  <2> HIDE DEF i, d, h, n
  <2>7. CASE i = 0
    BY <2>5, <2>7 DEF h
  <2>8. CASE i = 1 /\ n = DotDot
    <3>1. h.element = Entry(DotDot, ds[d].up, TRUE)
      BY <2>3, <2>5, <2>8 DEF EntryAt
    <3>2. QED
      BY <1>3, <2>1, <2>2, <2>4, <2>5, <2>8, <3>1 DEF h, n, d, Found, UpEntry
  <2>9. CASE n \in Names /\ i = -1 /\ \A j \in 1 .. Slots : ~Matches(ds[d].slot[j], n)
    BY <1>3, <2>1, <2>2, <2>4, <2>5, <2>9 DEF h, n, d, Found, NoEntry
  <2>10. CASE n \in Names /\ i \in Nat /\ i - 1 \in 1 .. Slots /\ Matches(ds[d].slot[i - 1], n)
    <3>1. i # 0 /\ i # 1 /\ i # -1
      BY <2>10
    <3>2. h.element = ds[d].slot[i - 1]
      BY <2>5, <3>1 DEF EntryAt
    <3>3. QED
      BY <1>3, <2>1, <2>2, <2>4, <2>5, <2>10, <3>2 DEF h, n, d, Found, OwnEntry
  <2>11. QED
    BY <2>6, <2>7, <2>8, <2>9, <2>10
<1>4. QED
  BY <1>1, <1>2, <1>3
-----------------------------------------------------------------------------
EntrySet(ds, d, i, e) == [ds EXCEPT ![d].slot[i] = e]

(* Writing one slot of a directory changes nothing else.                   *)
LEMMA EntrySetIs ==
  ASSUME NEW ds, ds \in [DOMAIN ds -> DirRecord], NEW d \in DOMAIN ds,
         NEW i \in 1 .. Slots, NEW e \in SlotRecord
  PROVE  LET new == EntrySet(ds, d, i, e)
         IN  /\ DOMAIN new = DOMAIN ds /\ new \in [DOMAIN ds -> DirRecord]
             /\ \A b \in DOMAIN ds : new[b].self = ds[b].self /\ new[b].up = ds[b].up
             /\ \A b \in DOMAIN ds, j \in 1 .. Slots :
                  new[b].slot[j] = IF b = d /\ j = i THEN e ELSE ds[b].slot[j]
BY DEF EntrySet, DirRecord

(* alloc keeps the order of the volume; the chain it gives is named by     *)
(* nobody and written by nobody.                                           *)
LEMMA TakeKeeps ==
  ASSUME NEW f, NEW ch, NEW ds, Shape(f, ch, ds), NEW n \in Nat \ {0}, Store!Grants(f, n)
  PROVE  /\ Shape(Store!Rest(f, n), Store!Taken(f, ch, n), ds)
         /\ f[1] \in Nat /\ f[1] \notin DOMAIN ch
         /\ DOMAIN Store!Taken(f, ch, n) = DOMAIN ch \cup {f[1]}
         /\ Len(Store!Taken(f, ch, n)[f[1]]) = n /\ Fresh(Store!Taken(f, ch, n), ds, f[1])
<1> DEFINE c    == f[1]
           new  == Store!Taken(f, ch, n)
           rest == Store!Rest(f, n)
<1>1. /\ f \in Seq(Nat) /\ Len(f) \in Nat /\ n + 1 <= Len(f) /\ c \in Nat
      /\ DOMAIN f = 1 .. Len(f)
  BY DEF Shape, Typed, Store!Grants
<1>2. c \notin DOMAIN ch
  <2>1. ASSUME c \in DOMAIN ch PROVE FALSE
    <3>1. ch[c] \in Seq(Nat) /\ Len(ch[c]) >= 1 /\ ch[c][1] = c
      BY <2>1 DEF Shape, Typed, Apart
    <3>2. 1 \in DOMAIN ch[c] /\ 1 \in DOMAIN f
      BY <1>1, <3>1
    <3>3. QED
      BY <2>1, <3>1, <3>2 DEF Shape, Apart
  <2>2. QED
    BY <2>1
<1>3. /\ new \in [DOMAIN ch \cup {c} -> Seq(Nat)]
      /\ \A h \in DOMAIN ch : new[h] = ch[h]
      /\ new[c] = SubSeq(f, 1, n)
  <2>1. SubSeq(f, 1, n) \in Seq(Nat)
    BY <1>1
  <2>2. QED
    BY <1>2, <2>1 DEF Store!Taken, Shape, Typed
<1>4. Len(new[c]) = n /\ DOMAIN new[c] = 1 .. n /\ \A i \in 1 .. n : new[c][i] = f[i]
  BY <1>1, <1>3
<1>5. /\ rest \in Seq(Nat) /\ Len(rest) = Len(f) - n /\ DOMAIN rest = 1 .. Len(f) - n
      /\ \A i \in 1 .. Len(f) - n : rest[i] = f[n + i]
  BY <1>1 DEF Store!Rest
<1> HIDE DEF c, new, rest
<1>11. \A j \in DOMAIN rest : j \in Nat /\ j > 0 /\ n + j \in DOMAIN f /\ rest[j] = f[n + j]
  <2> SUFFICES ASSUME NEW j \in 1 .. Len(f) - n
               PROVE  j \in Nat /\ j > 0 /\ n + j \in 1 .. Len(f) /\ rest[j] = f[n + j]
    BY <1>1, <1>5
  <2>1. j \in Nat /\ j > 0 /\ n + j \in 1 .. Len(f)
    BY <1>1
  <2>2. rest[j] = f[n + j]
    BY <1>5
  <2>3. QED
    BY <2>1, <2>2
<1>12. \A j \in 1 .. n : j \in Nat /\ j <= n /\ j \in DOMAIN f
  BY <1>1
<1>13. \A i, j \in DOMAIN f : f[i] = f[j] => i = j
  BY DEF Shape, Apart
<1>14. \A h \in DOMAIN ch : \A i \in DOMAIN ch[h], j \in DOMAIN f : ch[h][i] # f[j]
  BY DEF Shape, Apart
<1>6. Typed(rest, new, ds)
  BY <1>1, <1>3, <1>5 DEF Shape, Typed
<1>7. Apart(rest, new)
  <2>1. \A i, j \in DOMAIN rest : rest[i] = rest[j] => i = j
    BY <1>11, <1>13
  <2>9. Len(new[c]) >= 1 /\ new[c][1] = c
    BY <1>4 DEF c
  <2>2. \A h \in DOMAIN new : Len(new[h]) >= 1 /\ new[h][1] = h
    BY <1>3, <2>9 DEF Shape, Apart
  <2>3. \A h \in DOMAIN new : \A i \in DOMAIN new[h], j \in DOMAIN rest : new[h][i] # rest[j]
    <3>1. ASSUME NEW h \in DOMAIN ch, NEW i \in DOMAIN ch[h], NEW j \in DOMAIN rest
          PROVE  ch[h][i] # rest[j]
      BY <1>11, <1>14
    <3>2. ASSUME NEW i \in 1 .. n, NEW j \in DOMAIN rest PROVE f[i] # rest[j]
      <4>1. rest[j] = f[n + j] /\ i \in DOMAIN f /\ n + j \in DOMAIN f /\ i # n + j
        BY <1>11, <1>12
      <4>2. QED
        BY <4>1, <1>13
    <3>3. QED
      BY <1>3, <1>4, <3>1, <3>2
  <2>4. ASSUME NEW g \in DOMAIN new, NEW h \in DOMAIN new,
               NEW i \in DOMAIN new[g], NEW j \in DOMAIN new[h], new[g][i] = new[h][j]
        PROVE  g = h /\ i = j
    <3>1. \A x \in DOMAIN ch : \A k \in DOMAIN ch[x], l \in 1 .. n : ch[x][k] # f[l]
      BY <1>12, <1>14
    <3>2. CASE g = c /\ h = c
      BY <1>1, <1>4, <2>4, <3>2 DEF Shape, Apart
    <3>3. CASE g # c /\ h # c
      BY <1>3, <2>4, <3>3 DEF Shape, Apart
    <3>4. CASE g = c /\ h # c
      BY <1>3, <1>4, <2>4, <3>1, <3>4
    <3>5. CASE g # c /\ h = c
      BY <1>3, <1>4, <2>4, <3>1, <3>5
    <3>6. QED
      BY <3>2, <3>3, <3>4, <3>5
  <2>5. QED
    BY <2>1, <2>2, <2>3, <2>4 DEF Apart
<1>8. RootInPlace(new, ds) /\ DirectoriesInPlace(new, ds)
  BY <1>3 DEF Shape, RootInPlace, DirectoriesInPlace
<1>9. EntriesLead(new, ds)
  BY <1>3 DEF Shape, EntriesLead, EntryLeads
<1>15. c # Root /\ c \notin DOMAIN ds
  BY <1>2 DEF Shape, RootInPlace, DirectoriesInPlace
<1>16. ~IsNamed(ds, c)
  BY <1>1, <1>2, NamesApart DEF Shape, EntriesLead, EntryLeads, Refused, IsNamed
<1>17. Fresh(new, ds, c)
  BY <1>3, <1>15, <1>16 DEF Fresh
<1>18. Shape(rest, new, ds)
  BY <1>6, <1>7, <1>8, <1>9 DEF Shape
<1>10. QED
  BY <1>1, <1>2, <1>3, <1>4, <1>17, <1>18 DEF c, new, rest

\* the place i of d may take the name n
Place(ds, d, i, n) ==
  /\ d \in Live(ds) /\ i \in 1 .. Slots /\ ~InUse(ds, d, i)
  /\ n \in Names /\ \A j \in 1 .. Slots : ~Matches(ds[d].slot[j], n)

\* what alloc has returned to who writes the entry of it
Granted(ch, ds, e) ==
  \/ Fresh(ch, ds, e.first) /\ (e.isDir => Len(ch[e.first]) = DirClusters)
  \/ Refused(e)

EntryAdded(ds, nd, d, i, e) ==
  /\ nd \in [DOMAIN nd -> DirRecord]
  /\ DOMAIN nd = DOMAIN ds \cup (IF e.isDir /\ e.first # EOF_FLAG THEN {e.first} ELSE {})
  /\ \A b \in DOMAIN ds : nd[b].self = ds[b].self /\ nd[b].up = ds[b].up
  /\ \A b \in DOMAIN ds, j \in 1 .. Slots :
       nd[b].slot[j] = IF b = d /\ j = i THEN e ELSE ds[b].slot[j]
  /\ e.isDir /\ e.first # EOF_FLAG =>
       /\ nd[e.first].self = e.first /\ nd[e.first].up = d
       /\ EmptyDirectory(nd, e.first)

(* The entry e of a chain is written in the unused place i of d. *)
LEMMA EntryKeeps ==
  ASSUME NEW f, NEW ch, NEW ds, Shape(f, ch, ds),
         NEW d, NEW i, NEW e \in SlotRecord, Place(ds, d, i, e.name), Granted(ch, ds, e),
         NEW nd, EntryAdded(ds, nd, d, i, e)
  PROVE  Shape(f, ch, nd) /\ \A x : IsNamed(nd, x) <=> IsNamed(ds, x) \/ x = e.first
<1> DEFINE n == e.name
           c == e.first
           dir == e.isDir
<1>p. /\ d \in Live(ds) /\ i \in 1 .. Slots /\ ~InUse(ds, d, i)
      /\ n \in Names /\ \A j \in 1 .. Slots : ~Matches(ds[d].slot[j], n)
  BY DEF Place
<1>g. \/ Fresh(ch, ds, c) /\ (dir => Len(ch[c]) = DirClusters)
      \/ c = EOF_FLAG /\ dir /\ ~NeverRefused
  BY DEF Granted, Refused
<1>a. /\ nd \in [DOMAIN nd -> DirRecord]
      /\ DOMAIN nd = DOMAIN ds \cup (IF dir /\ c # EOF_FLAG THEN {c} ELSE {})
      /\ \A b \in DOMAIN ds : nd[b].self = ds[b].self /\ nd[b].up = ds[b].up
      /\ \A b \in DOMAIN ds, j \in 1 .. Slots :
           nd[b].slot[j] = IF b = d /\ j = i THEN e ELSE ds[b].slot[j]
      /\ dir /\ c # EOF_FLAG =>
           nd[c].self = c /\ nd[c].up = d /\ EmptyDirectory(nd, c)
  BY DEF EntryAdded
<1>b. dir \in BOOLEAN
  BY DEF SlotRecord
<1> HIDE DEF n, c, dir
<1> USE <1>p, <1>g, <1>a, <1>b
<1>1. /\ e.name = n /\ e.first = c /\ e.isDir = dir /\ n # NoName
      /\ nd[d].slot[i] = e /\ d \in DOMAIN ds /\ InUse(nd, d, i)
  BY NamesApart DEF n, c, dir, InUse, Live
<1>2. \A b \in DOMAIN ds, j \in 1 .. Slots :
        InUse(ds, b, j) => nd[b].slot[j] = ds[b].slot[j] /\ InUse(nd, b, j)
  BY DEF InUse
<1>3. \A b \in DOMAIN nd, j \in 1 .. Slots :
        InUse(nd, b, j) => \/ b = d /\ j = i
                           \/ b \in DOMAIN ds /\ InUse(ds, b, j) /\ nd[b].slot[j] = ds[b].slot[j]
  <2>1. ASSUME NEW b \in DOMAIN nd, NEW j \in 1 .. Slots, InUse(nd, b, j), ~(b = d /\ j = i)
        PROVE  b \in DOMAIN ds /\ InUse(ds, b, j) /\ nd[b].slot[j] = ds[b].slot[j]
    <3>1. b \in DOMAIN ds
      BY <2>1 DEF EmptyDirectory
    <3>2. nd[b].slot[j] = ds[b].slot[j]
      BY <2>1, <3>1
    <3>3. QED
      BY <2>1, <3>1, <3>2 DEF InUse
  <2>2. QED
    BY <2>1
<1>4. \A x : IsNamed(nd, x) <=> IsNamed(ds, x) \/ x = c
  BY <1>1, <1>2, <1>3 DEF IsNamed
<1>5. Typed(f, ch, nd)
  <2>1. IsFiniteSet(DOMAIN nd)
    BY FS_AddElement DEF Shape, Typed
  <2>2. QED
    BY <2>1 DEF Shape, Typed
<1>6. Apart(f, ch)
  BY DEF Shape
<1>7. RootInPlace(ch, nd)
  BY DEF Shape, RootInPlace
<1>8. DirectoriesInPlace(ch, nd)
  <2>1. \A b \in DOMAIN nd : b \in DOMAIN ch /\ nd[b].self = b
    BY DEF Shape, DirectoriesInPlace, Fresh
  <2>2. \A b \in Live(ds) : b \in Live(nd)
    BY <1>2 DEF Live, NamesDirectory
  <2>3. \A b \in DOMAIN nd \ Live(nd) : b \in DOMAIN ds
    BY <1>1 DEF Live, NamesDirectory
  <2>4. ASSUME NEW b \in DOMAIN nd \ Live(nd) PROVE EmptyDirectory(nd, b)
    <3>1. b \in DOMAIN ds \ Live(ds) /\ b # d
      BY <2>2, <2>3
    <3>2. EmptyDirectory(ds, b)
      BY <3>1 DEF Shape, DirectoriesInPlace
    <3>3. QED
      BY <1>3, <3>1, <3>2 DEF EmptyDirectory
  <2>5. QED
    BY <2>1, <2>4 DEF DirectoriesInPlace
<1>9. EntriesLead(ch, nd)
  <2> SUFFICES ASSUME NEW b \in DOMAIN nd, NEW j \in 1 .. Slots, InUse(nd, b, j)
               PROVE  Refused(nd[b].slot[j]) \/ EntryLeads(ch, nd, b, nd[b].slot[j])
    BY DEF EntriesLead
  <2>1. CASE b = d /\ j = i
    <3>1. nd[b].slot[j] = e
      BY <1>1, <2>1
    <3>2. CASE c = EOF_FLAG /\ dir /\ ~NeverRefused
      BY <1>1, <3>1, <3>2 DEF Refused
    <3>3. CASE Fresh(ch, ds, c) /\ (dir => Len(ch[c]) = DirClusters)
      <4>1. c \in DOMAIN ch /\ c # Root /\ c \notin DOMAIN ds /\ c # EOF_FLAG
        BY <3>3, NamesApart DEF Fresh, Shape, Typed
      <4>2. EntryLeads(ch, nd, b, e)
        BY <1>1, <2>1, <3>3, <4>1 DEF EntryLeads
      <4>3. QED
        BY <3>1, <4>2
    <3>4. QED
      BY <3>2, <3>3
  <2>2. CASE b \in DOMAIN ds /\ InUse(ds, b, j) /\ nd[b].slot[j] = ds[b].slot[j]
    <3>1. Refused(ds[b].slot[j]) \/ EntryLeads(ch, ds, b, ds[b].slot[j])
      BY <2>2 DEF Shape, EntriesLead
    <3>2. ds[b].slot[j].first # c \/ c = EOF_FLAG
      BY <2>2 DEF Fresh, IsNamed
    <3>3. QED
      BY <2>2, <3>1, <3>2, NamesApart DEF EntryLeads
  <2>3. QED
    BY <1>3, <2>1, <2>2
<1>10. NamedOnce(nd)
  <2>1. c # EOF_FLAG => ~IsNamed(ds, c)
    BY DEF Fresh
  <2>2. QED
    BY <1>1, <1>3, <2>1 DEF Shape, NamedOnce, IsNamed
<1>11. ShortNamesUnique(nd)
  <2>1. n \notin LongNames => \A j \in 1 .. Slots : ds[d].slot[j].name # n
    BY DEF Matches
  <2>2. QED
    BY <1>1, <1>3, <2>1 DEF Shape, ShortNamesUnique
<1>12. QED
  BY <1>4, <1>5, <1>6, <1>7, <1>8, <1>9, <1>10, <1>11 DEF Shape, c

(* release keeps each cluster on one chain or free.                        *)
LEMMA GiveKeeps ==
  ASSUME NEW f \in Seq(Nat), NEW ch, ch \in [DOMAIN ch -> Seq(Nat)],
         Apart(f, ch), NEW c \in DOMAIN ch
  PROVE  LET new == Store!Without(ch, c)
             fr  == ch[c] \o f
         IN  /\ DOMAIN new = DOMAIN ch \ {c} /\ new \in [DOMAIN new -> Seq(Nat)]
             /\ \A h \in DOMAIN new : new[h] = ch[h]
             /\ fr \in Seq(Nat) /\ Apart(fr, new)
<1> DEFINE new == Store!Without(ch, c)
           fr  == ch[c] \o f
<1>1. /\ DOMAIN new = DOMAIN ch \ {c} /\ new \in [DOMAIN new -> Seq(Nat)]
      /\ \A h \in DOMAIN new : new[h] = ch[h]
  BY DEF Store!Without, Store!Restrict
<1>2. /\ fr \in Seq(Nat)
      /\ \A j \in DOMAIN fr :
           \/ j \in DOMAIN ch[c] /\ fr[j] = ch[c][j]
           \/ j > Len(ch[c]) /\ j - Len(ch[c]) \in DOMAIN f /\ fr[j] = f[j - Len(ch[c])]
  <2> DEFINE s == ch[c]
  <2>1. s \in Seq(Nat) /\ f \in Seq(Nat)
    OBVIOUS
  <2> HIDE DEF s
  <2>2. /\ s \o f \in Seq(Nat) /\ Len(s \o f) = Len(s) + Len(f)
        /\ \A j \in 1 .. Len(s) + Len(f) :
             (s \o f)[j] = IF j <= Len(s) THEN s[j] ELSE f[j - Len(s)]
    BY <2>1, ConcatProperties
  <2>3. DOMAIN (s \o f) = 1 .. Len(s) + Len(f) /\ Len(s) \in Nat /\ Len(f) \in Nat
    BY <2>1, <2>2
  <2>4. ASSUME NEW j \in DOMAIN (s \o f)
        PROVE  \/ j \in DOMAIN s /\ (s \o f)[j] = s[j]
               \/ j > Len(s) /\ j - Len(s) \in DOMAIN f /\ (s \o f)[j] = f[j - Len(s)]
    <3>1. j \in 1 .. Len(s) + Len(f)
      BY <2>3
    <3>2. CASE j <= Len(s)
      BY <2>1, <2>2, <3>1, <3>2
    <3>3. CASE j > Len(s)
      BY <2>1, <2>2, <2>3, <3>1, <3>3
    <3>4. QED
      BY <2>3, <3>1, <3>2, <3>3
  <2>5. QED
    BY <2>2, <2>4 DEF s
<1> HIDE DEF new, fr
<1>3. Apart(fr, new)
  <2>0. /\ \A j, k \in DOMAIN f : f[j] = f[k] => j = k
        /\ \A h \in DOMAIN ch : \A j \in DOMAIN ch[h], k \in DOMAIN f : ch[h][j] # f[k]
        /\ \A g, h \in DOMAIN ch : \A j \in DOMAIN ch[g], k \in DOMAIN ch[h] :
             ch[g][j] = ch[h][k] => g = h /\ j = k
    BY DEF Apart
  <2> DEFINE s == ch[c]
             m == Len(s)
  <2>1. ASSUME NEW j \in DOMAIN fr, NEW k \in DOMAIN fr, fr[j] = fr[k] PROVE j = k
    <3>1. m \in Nat /\ j \in Int /\ k \in Int
      <4>1. s \in Seq(Nat) /\ DOMAIN fr = 1 .. Len(fr) /\ Len(fr) \in Nat
        BY <1>2
      <4>2. QED
        BY <4>1
    <3>2. /\ \A x, y \in DOMAIN s : s[x] = s[y] => x = y
          /\ \A x \in DOMAIN s, y \in DOMAIN f : s[x] # f[y]
      BY <2>0
    <3>3. /\ (j \in DOMAIN s /\ fr[j] = s[j]) \/ (j - m \in DOMAIN f /\ fr[j] = f[j - m])
          /\ (k \in DOMAIN s /\ fr[k] = s[k]) \/ (k - m \in DOMAIN f /\ fr[k] = f[k - m])
      BY <1>2
    <3> HIDE DEF s, m
    <3>4. CASE j \in DOMAIN s /\ fr[j] = s[j]
      BY <2>1, <3>2, <3>3, <3>4
    <3>5. CASE j - m \in DOMAIN f /\ fr[j] = f[j - m]
      <4>1. k - m \in DOMAIN f /\ fr[k] = f[k - m]
        BY <2>1, <3>2, <3>3, <3>5
      <4>2. j - m = k - m
        BY <2>0, <2>1, <3>5, <4>1
      <4>3. QED
        BY <3>1, <4>2
    <3>6. QED
      BY <3>3, <3>4, <3>5
  <2>2. \A h \in DOMAIN new : Len(new[h]) >= 1 /\ new[h][1] = h
    BY <1>1 DEF Apart
  <2>3. \A h \in DOMAIN new : \A j \in DOMAIN new[h], k \in DOMAIN fr : new[h][j] # fr[k]
    <3>1. ASSUME NEW h \in DOMAIN new, NEW j \in DOMAIN new[h], NEW k \in DOMAIN fr
          PROVE  new[h][j] # fr[k]
      <4>1. h \in DOMAIN ch /\ h # c /\ new[h] = ch[h]
        BY <1>1
      <4>2. (k \in DOMAIN s /\ fr[k] = s[k]) \/ (k - m \in DOMAIN f /\ fr[k] = f[k - m])
        BY <1>2
      <4>3. QED
        BY <2>0, <4>1, <4>2
    <3>2. QED
      BY <3>1
  <2>4. \A g, h \in DOMAIN new : \A j \in DOMAIN new[g], k \in DOMAIN new[h] :
          new[g][j] = new[h][k] => g = h /\ j = k
    BY <1>1, <2>0
  <2>5. QED
    BY <2>1, <2>2, <2>3, <2>4 DEF Apart
<1>4. QED
  BY <1>1, <1>2, <1>3 DEF new, fr

EntryRemoved(ds, nd, d, i, c) ==
  /\ nd \in [DOMAIN nd -> DirRecord]
  /\ DOMAIN nd = DOMAIN ds \ {c}
  /\ \A b \in DOMAIN nd : nd[b].self = ds[b].self /\ nd[b].up = ds[b].up
  /\ \A b \in DOMAIN nd, j \in 1 .. Slots :
       nd[b].slot[j] = IF b = d /\ j = i THEN Unused ELSE ds[b].slot[j]

\* the entry in place i of d may go, and c with it
Removable(ds, d, i, c) ==
  /\ d \in Live(ds) /\ i \in 1 .. Slots /\ InUse(ds, d, i)
  /\ c = ds[d].slot[i].first /\ c # EOF_FLAG
  /\ ds[d].slot[i].isDir => EmptyDirectory(ds, c)

(* The entry in place i of d is cleared and the chain it names is free. *)
LEMMA RemoveKeeps ==
  ASSUME NEW f, NEW ch, NEW ds, Shape(f, ch, ds),
         NEW d, NEW i, NEW c, Removable(ds, d, i, c),
         NEW nd, EntryRemoved(ds, nd, d, i, c)
  PROVE  /\ c \in DOMAIN ch /\ c # Root
         /\ Shape(ch[c] \o f, Store!Without(ch, c), nd)
         /\ \A x : IsNamed(nd, x) <=> IsNamed(ds, x) /\ x # c
<1> USE DEF Removable, EntryRemoved
<1> DEFINE e   == ds[d].slot[i]
           new == Store!Without(ch, c)
           fr  == ch[c] \o f
<1>1. d \in DOMAIN ds /\ EntryLeads(ch, ds, d, e)
  BY DEF Live, Shape, EntriesLead, Refused
<1>2. c \in DOMAIN ch /\ c # Root /\ (e.isDir <=> c \in DOMAIN ds)
  BY <1>1 DEF EntryLeads
<1>3. d # c /\ d \in DOMAIN nd
  BY <1>1, <1>2 DEF EmptyDirectory
<1>4. \A b \in DOMAIN ds, j \in 1 .. Slots :
        InUse(ds, b, j) /\ ~(b = d /\ j = i)
          => b \in DOMAIN nd /\ InUse(nd, b, j) /\ nd[b].slot[j] = ds[b].slot[j]
  <2>1. ASSUME NEW b \in DOMAIN ds, NEW j \in 1 .. Slots, InUse(ds, b, j), ~(b = d /\ j = i)
        PROVE  b \in DOMAIN nd /\ InUse(nd, b, j) /\ nd[b].slot[j] = ds[b].slot[j]
    <3>1. b \in DOMAIN nd
      BY <1>2, <2>1 DEF EmptyDirectory
    <3>2. nd[b].slot[j] = ds[b].slot[j]
      BY <2>1, <3>1
    <3>3. QED
      BY <2>1, <3>1, <3>2 DEF InUse
  <2>2. QED
    BY <2>1
<1>5. \A b \in DOMAIN nd, j \in 1 .. Slots :
        InUse(nd, b, j)
          => b \in DOMAIN ds /\ InUse(ds, b, j) /\ nd[b].slot[j] = ds[b].slot[j] /\ ~(b = d /\ j = i)
  <2>1. ASSUME NEW b \in DOMAIN nd, NEW j \in 1 .. Slots, InUse(nd, b, j)
        PROVE  b \in DOMAIN ds /\ InUse(ds, b, j) /\ nd[b].slot[j] = ds[b].slot[j] /\ ~(b = d /\ j = i)
    <3>1. ~(b = d /\ j = i)
      BY <2>1 DEF InUse, Unused
    <3>2. nd[b].slot[j] = ds[b].slot[j]
      BY <2>1, <3>1
    <3>3. QED
      BY <2>1, <3>1, <3>2 DEF InUse
  <2>2. QED
    BY <2>1
<1>6. \A b \in DOMAIN ds, j \in 1 .. Slots :
        InUse(ds, b, j) /\ ds[b].slot[j].first = c => b = d /\ j = i
  BY <1>1 DEF Shape, NamedOnce
<1>7. \A x : IsNamed(nd, x) <=> IsNamed(ds, x) /\ x # c
  BY SMTT(30), <1>1, <1>4, <1>5, <1>6 DEF IsNamed
<1>8. /\ DOMAIN new = DOMAIN ch \ {c} /\ new \in [DOMAIN new -> Seq(Nat)]
      /\ \A h \in DOMAIN new : new[h] = ch[h]
      /\ fr \in Seq(Nat) /\ Apart(fr, new)
  <2>1. f \in Seq(Nat) /\ ch \in [DOMAIN ch -> Seq(Nat)] /\ Apart(f, ch) /\ c \in DOMAIN ch
    BY <1>2 DEF Shape, Typed
  <2>2. /\ DOMAIN Store!Without(ch, c) = DOMAIN ch \ {c}
        /\ Store!Without(ch, c) \in [DOMAIN Store!Without(ch, c) -> Seq(Nat)]
        /\ \A h \in DOMAIN Store!Without(ch, c) : Store!Without(ch, c)[h] = ch[h]
        /\ ch[c] \o f \in Seq(Nat) /\ Apart(ch[c] \o f, Store!Without(ch, c))
    BY ONLY <2>1, GiveKeeps
  <2>3. QED
    BY Zenon, <2>2
<1> HIDE DEF new, fr
<1>10. Typed(fr, new, nd)
  <2>1. IsFiniteSet(DOMAIN ds \ {c})
    BY FS_RemoveElement DEF Shape, Typed
  <2>2. IsFiniteSet(DOMAIN nd)
    BY <2>1
  <2>3. DOMAIN new \subseteq Nat
    BY <1>8 DEF Shape, Typed
  <2>4. QED
    BY <1>8, <2>2, <2>3 DEF Typed
<1>12. RootInPlace(new, nd)
  BY <1>2, <1>8 DEF Shape, RootInPlace
<1>13. DirectoriesInPlace(new, nd)
  <2>1. \A b \in DOMAIN nd : b \in DOMAIN new /\ nd[b].self = b
    BY <1>8 DEF Shape, DirectoriesInPlace
  <2>2. \A b \in Live(ds) : b # c => b \in Live(nd)
    BY <1>4 DEF Live, NamesDirectory
  <2>3. ASSUME NEW b \in DOMAIN nd \ Live(nd) PROVE EmptyDirectory(nd, b)
    <3>1. b \in DOMAIN ds \ Live(ds)
      BY <2>2
    <3>2. EmptyDirectory(ds, b)
      BY <3>1 DEF Shape, DirectoriesInPlace
    <3>3. QED
      BY <1>5, <3>2 DEF EmptyDirectory
  <2>4. QED
    BY <2>1, <2>3 DEF DirectoriesInPlace
<1>14. EntriesLead(new, nd)
  <2>1. ASSUME NEW b \in DOMAIN nd, NEW j \in 1 .. Slots, InUse(nd, b, j)
        PROVE  Refused(nd[b].slot[j]) \/ EntryLeads(new, nd, b, nd[b].slot[j])
    <3>1. /\ b \in DOMAIN ds /\ InUse(ds, b, j) /\ nd[b].slot[j] = ds[b].slot[j]
          /\ nd[b].slot[j].first # c
      BY <1>5, <1>6, <2>1
    <3>2. Refused(ds[b].slot[j]) \/ EntryLeads(ch, ds, b, ds[b].slot[j])
      BY <3>1 DEF Shape, EntriesLead
    <3>3. CASE EntryLeads(ch, ds, b, ds[b].slot[j])
      <4> DEFINE x == nd[b].slot[j]
      <4>1. EntryLeads(ch, ds, b, x) /\ x.first # c
        BY SMTT(30), <3>1, <3>3
      <4>2. x.first \in DOMAIN new /\ x.first # Root /\ new[x.first] = ch[x.first]
        BY ZenonT(30), <1>8, <4>1 DEF EntryLeads
      <4>3. x.isDir => x.first \in DOMAIN nd /\ nd[x.first].up = b
        BY SMTT(30), <4>1 DEF EntryLeads
      <4>4. EntryLeads(new, nd, b, x)
        BY ZenonT(30), <4>1, <4>2, <4>3 DEF EntryLeads
      <4>5. QED
        BY <4>4
    <3>4. QED
      BY <3>1, <3>2, <3>3
  <2>2. QED
    BY <2>1 DEF EntriesLead
<1>15. NamedOnce(nd)
  BY <1>5 DEF Shape, NamedOnce
<1>16. ShortNamesUnique(nd)
  <2>1. ASSUME NEW b \in DOMAIN nd, NEW j \in 1 .. Slots, NEW k \in 1 .. Slots,
               nd[b].slot[j].name = nd[b].slot[k].name, InUse(nd, b, j)
        PROVE  j = k \/ nd[b].slot[j].name \in LongNames
    <3>1. InUse(nd, b, k)
      BY <2>1 DEF InUse
    <3>2. QED
      BY <1>5, <2>1, <3>1 DEF Shape, ShortNamesUnique
  <2>2. QED
    BY <2>1 DEF ShortNamesUnique
<1>17. Shape(fr, new, nd)
  BY <1>8, <1>10, <1>12, <1>13, <1>14, <1>15, <1>16 DEF Shape
<1>18. QED
  BY <1>2, <1>7, <1>17 DEF new, fr
-----------------------------------------------------------------------------
DirectoryEntry(e, n, c) == e = Entry(n, c, TRUE)
FileEntry(e, n, c)      == e = Entry(n, c, FALSE)

\* a cluster that fs_mkdir may write a directory into, or alloc's -1
Unwritten(ds, c) == c = EOF_FLAG \/ (c \in Nat /\ c \notin DOMAIN ds)

(* The two writes of fs_mkdir add one entry, and the directory it names.   *)
LEMMA MkdirAdds ==
  ASSUME NEW f, NEW ch, NEW ds, Shape(f, ch, ds),
         NEW d, NEW i, NEW n, Place(ds, d, i, n),
         NEW e, NEW c, DirectoryEntry(e, n, c), Unwritten(ds, c)
  PROVE  EntryAdded(ds, WithDirectory(EntrySet(ds, d, i, e), d, c), d, i, e) /\ e \in SlotRecord
<1> DEFINE mid == EntrySet(ds, d, i, e)
           nd  == WithDirectory(mid, d, c)
<1>12. e.first = c /\ e.name = n /\ e.isDir = TRUE
  BY DEF DirectoryEntry, Entry
<1>1. /\ ds \in [DOMAIN ds -> DirRecord] /\ d \in DOMAIN ds /\ d \in Nat
      /\ i \in 1 .. Slots /\ n \in Names
  BY DEF Shape, Typed, DirectoriesInPlace, Live, Place
<1>2. (c \in Nat /\ c # EOF_FLAG /\ c \notin DOMAIN ds) \/ c = EOF_FLAG
  BY NamesApart DEF Unwritten
<1>3. e \in SlotRecord /\ e.name = n /\ e.first = c /\ e.isDir = TRUE
  BY <1>1, <1>2, <1>12 DEF DirectoryEntry, Entry, SlotRecord
<1>4. /\ DOMAIN mid = DOMAIN ds /\ mid \in [DOMAIN ds -> DirRecord]
      /\ \A b \in DOMAIN ds : mid[b].self = ds[b].self /\ mid[b].up = ds[b].up
      /\ \A b \in DOMAIN ds, j \in 1 .. Slots :
           mid[b].slot[j] = IF b = d /\ j = i THEN e ELSE ds[b].slot[j]
  BY <1>1, <1>3, EntrySetIs
<1>5. /\ initDirectory(d, c).self = c /\ initDirectory(d, c).up = d
      /\ \A j \in 1 .. Slots : initDirectory(d, c).slot[j] = Unused
  BY DEF initDirectory
<1>6. c \in Nat => initDirectory(d, c) \in DirRecord
  BY <1>1 DEF initDirectory, DirRecord, SlotRecord, Unused
<1> HIDE DEF mid
<1>7. /\ DOMAIN nd = DOMAIN ds \cup (IF TRUE /\ c # EOF_FLAG THEN {c} ELSE {})
      /\ \A b \in DOMAIN ds : nd[b] = mid[b]
      /\ c # EOF_FLAG => nd[c] = initDirectory(d, c)
      /\ nd \in [DOMAIN nd -> DirRecord]
  <2>1. DOMAIN nd = DOMAIN ds \cup ({c} \ {EOF_FLAG})
    BY <1>4 DEF WithDirectory
  <2>2. \A b \in DOMAIN nd : nd[b] = IF b = c THEN initDirectory(d, c) ELSE mid[b]
    BY <1>4 DEF WithDirectory
  <2>3. nd = [b \in DOMAIN nd |-> nd[b]]
    BY DEF WithDirectory
  <2> HIDE DEF nd
  <2>4. c \notin DOMAIN ds
    BY <1>2, NamesApart DEF Shape, Typed, DirectoriesInPlace
  <2>5. \A b \in DOMAIN nd : nd[b] \in DirRecord
    BY <1>2, <1>4, <1>6, <2>1, <2>2, <2>4
  <2>6. QED
    BY <2>1, <2>2, <2>3, <2>4, <2>5
<1> HIDE DEF nd
<1>8. c # EOF_FLAG => nd[c].self = c /\ nd[c].up = d /\ EmptyDirectory(nd, c)
  BY <1>5, <1>7 DEF EmptyDirectory, InUse, Unused
<1>9. EntryAdded(ds, nd, d, i, e)
  <2>1. \A b \in DOMAIN ds : nd[b].self = ds[b].self /\ nd[b].up = ds[b].up
    BY <1>4, <1>7
  <2>2. \A b \in DOMAIN ds, j \in 1 .. Slots :
          nd[b].slot[j] = IF b = d /\ j = i THEN e ELSE ds[b].slot[j]
    BY <1>4, <1>7
  <2>3. DOMAIN nd = DOMAIN ds \cup (IF e.isDir /\ e.first # EOF_FLAG THEN {e.first} ELSE {})
    BY <1>3, <1>7
  <2>4. e.isDir /\ e.first # EOF_FLAG =>
          nd[e.first].self = e.first /\ nd[e.first].up = d /\ EmptyDirectory(nd, e.first)
    BY <1>3, <1>8
  <2>5. QED
    BY <1>7, <2>1, <2>2, <2>3, <2>4 DEF EntryAdded
<1>10. QED
  BY <1>3, <1>9 DEF nd, mid

(* They keep the order of the volume, and the new chain is the only one    *)
(* more that is named.                                                     *)
LEMMA MkdirKeeps ==
  ASSUME NEW f, NEW ch, NEW ds, Shape(f, ch, ds),
         NEW d, NEW i, NEW n, Place(ds, d, i, n),
         NEW e, NEW c, DirectoryEntry(e, n, c), Granted(ch, ds, e)
  PROVE  /\ Shape(f, ch, WithDirectory(EntrySet(ds, d, i, e), d, c))
         /\ \A x : IsNamed(WithDirectory(EntrySet(ds, d, i, e), d, c), x)
                    <=> IsNamed(ds, x) \/ x = c
<1> DEFINE nd == WithDirectory(EntrySet(ds, d, i, e), d, c)
<1>1. e.first = c /\ e.name = n
  BY DEF DirectoryEntry, Entry
<1>2. Unwritten(ds, c)
  BY <1>1, NamesApart DEF Granted, Refused, Fresh, Shape, Typed, Unwritten
<1>3. EntryAdded(ds, nd, d, i, e) /\ e \in SlotRecord
  BY <1>2, MkdirAdds
<1> HIDE DEF nd
<1>4. Shape(f, ch, nd) /\ \A x : IsNamed(nd, x) <=> IsNamed(ds, x) \/ x = c
  BY <1>1, <1>3, EntryKeeps
<1>5. QED
  BY <1>4 DEF nd

(* A new file's entry is one entry more.                                   *)
LEMMA FileAdds ==
  ASSUME NEW f, NEW ch, NEW ds, Shape(f, ch, ds),
         NEW d, NEW i, NEW n, Place(ds, d, i, n),
         NEW e, NEW c, FileEntry(e, n, c), Unwritten(ds, c)
  PROVE  EntryAdded(ds, EntrySet(ds, d, i, e), d, i, e) /\ e \in SlotRecord
<1> DEFINE nd == EntrySet(ds, d, i, e)
<1>1. /\ ds \in [DOMAIN ds -> DirRecord] /\ d \in DOMAIN ds
      /\ i \in 1 .. Slots /\ n \in Names
  BY DEF Shape, Typed, Live, Place
<1>2. e \in SlotRecord /\ e.name = n /\ e.first = c /\ e.isDir = FALSE
  BY <1>1, NamesApart DEF FileEntry, Entry, SlotRecord, Unwritten
<1>3. /\ DOMAIN nd = DOMAIN ds /\ nd \in [DOMAIN ds -> DirRecord]
      /\ \A b \in DOMAIN ds : nd[b].self = ds[b].self /\ nd[b].up = ds[b].up
      /\ \A b \in DOMAIN ds, j \in 1 .. Slots :
           nd[b].slot[j] = IF b = d /\ j = i THEN e ELSE ds[b].slot[j]
  BY <1>1, <1>2, EntrySetIs
<1> HIDE DEF nd
<1>4. EntryAdded(ds, nd, d, i, e)
  <2>1. nd \in [DOMAIN nd -> DirRecord]
    BY <1>3
  <2>2. DOMAIN nd = DOMAIN ds \cup (IF e.isDir /\ e.first # EOF_FLAG THEN {e.first} ELSE {})
    BY <1>2, <1>3
  <2>3. ~(e.isDir /\ e.first # EOF_FLAG)
    BY <1>2
  <2>4. QED
    BY <1>3, <2>1, <2>2, <2>3 DEF EntryAdded
<1>5. QED
  BY <1>2, <1>4 DEF nd

(* It keeps the order of the volume, and its chain is the only one more    *)
(* that is named.                                                          *)
LEMMA FileKeeps ==
  ASSUME NEW f, NEW ch, NEW ds, Shape(f, ch, ds),
         NEW d, NEW i, NEW n, Place(ds, d, i, n),
         NEW e, NEW c, FileEntry(e, n, c), Granted(ch, ds, e)
  PROVE  /\ Shape(f, ch, EntrySet(ds, d, i, e))
         /\ \A x : IsNamed(EntrySet(ds, d, i, e), x) <=> IsNamed(ds, x) \/ x = c
<1> DEFINE nd == EntrySet(ds, d, i, e)
<1>1. e.first = c /\ e.name = n
  BY DEF FileEntry, Entry
<1>2. Unwritten(ds, c)
  BY <1>1, NamesApart DEF Granted, Refused, Fresh, Shape, Typed, Unwritten
<1>3. EntryAdded(ds, nd, d, i, e) /\ e \in SlotRecord
  BY <1>2, FileAdds
<1> HIDE DEF nd
<1>4. Shape(f, ch, nd) /\ \A x : IsNamed(nd, x) <=> IsNamed(ds, x) \/ x = c
  BY <1>1, <1>3, EntryKeeps
<1>5. QED
  BY <1>4 DEF nd

\* dirs once the entry and the directory it may name are gone
Gone(ds, d, i, c) == Restrict(EntrySet(ds, d, i, Unused), DOMAIN ds \ {c})

(* Clearing the entry of a file or of an empty directory removes one       *)
(* entry.                                                                  *)
LEMMA GoneRemoves ==
  ASSUME NEW f, NEW ch, NEW ds, Shape(f, ch, ds),
         NEW d, NEW i, NEW c, Removable(ds, d, i, c)
  PROVE  EntryRemoved(ds, Gone(ds, d, i, c), d, i, c)
<1> DEFINE mid == EntrySet(ds, d, i, Unused)
           nd  == Gone(ds, d, i, c)
<1>1. ds \in [DOMAIN ds -> DirRecord] /\ d \in DOMAIN ds /\ i \in 1 .. Slots
  BY DEF Shape, Typed, Live, Removable
<1>2. Unused \in SlotRecord
  BY DEF Unused, SlotRecord
<1>3. /\ DOMAIN mid = DOMAIN ds /\ mid \in [DOMAIN ds -> DirRecord]
      /\ \A b \in DOMAIN ds : mid[b].self = ds[b].self /\ mid[b].up = ds[b].up
      /\ \A b \in DOMAIN ds, j \in 1 .. Slots :
           mid[b].slot[j] = IF b = d /\ j = i THEN Unused ELSE ds[b].slot[j]
  BY <1>1, <1>2, EntrySetIs
<1>4. nd = [b \in DOMAIN ds \ {c} |-> mid[b]]
  BY DEF Gone, Restrict
<1> HIDE DEF mid, nd
<1>5. /\ DOMAIN nd = DOMAIN ds \ {c}
      /\ \A b \in DOMAIN nd : b \in DOMAIN ds /\ nd[b] = mid[b]
      /\ nd \in [DOMAIN nd -> DirRecord]
  BY <1>3, <1>4
<1>6. /\ \A b \in DOMAIN nd : nd[b].self = ds[b].self /\ nd[b].up = ds[b].up
      /\ \A b \in DOMAIN nd, j \in 1 .. Slots :
           nd[b].slot[j] = IF b = d /\ j = i THEN Unused ELSE ds[b].slot[j]
  BY <1>3, <1>5
<1>7. EntryRemoved(ds, nd, d, i, c)
  BY <1>5, <1>6 DEF EntryRemoved
<1>8. QED
  BY <1>7 DEF nd

(* With the chain released as well the order of the volume is kept, and    *)
(* that chain is the only one no longer named.                             *)
LEMMA GoneKeeps ==
  ASSUME NEW f, NEW ch, NEW ds, Shape(f, ch, ds),
         NEW d, NEW i, NEW c, Removable(ds, d, i, c)
  PROVE  /\ c \in DOMAIN ch /\ c # Root
         /\ Shape(ch[c] \o f, Store!Without(ch, c), Gone(ds, d, i, c))
         /\ \A x : IsNamed(Gone(ds, d, i, c), x) <=> IsNamed(ds, x) /\ x # c
<1> DEFINE nd == Gone(ds, d, i, c)
<1>1. EntryRemoved(ds, nd, d, i, c)
  BY GoneRemoves
<1> HIDE DEF nd
<1>2. /\ c \in DOMAIN ch /\ c # Root
      /\ Shape(ch[c] \o f, Store!Without(ch, c), nd)
      /\ \A x : IsNamed(nd, x) <=> IsNamed(ds, x) /\ x # c
  BY <1>1, RemoveKeeps
<1>3. QED
  BY <1>2 DEF nd

\* a file's entry leads to no directory, so that there is none to take away
LEMMA GoneFile ==
  ASSUME NEW f, NEW ch, NEW ds, Shape(f, ch, ds),
         NEW d \in Live(ds), NEW i \in 1 .. Slots, InUse(ds, d, i), ~ds[d].slot[i].isDir
  PROVE  /\ Gone(ds, d, i, ds[d].slot[i].first) = EntrySet(ds, d, i, Unused)
         /\ ds[d].slot[i].first # EOF_FLAG
<1> DEFINE mid == EntrySet(ds, d, i, Unused)
           c   == ds[d].slot[i].first
<1>1. ds \in [DOMAIN ds -> DirRecord] /\ d \in DOMAIN ds
  BY DEF Shape, Typed, Live
<1>2. DOMAIN mid = DOMAIN ds /\ mid \in [DOMAIN ds -> DirRecord]
  <2>1. Unused \in SlotRecord
    BY DEF Unused, SlotRecord
  <2>2. QED
    BY <1>1, <2>1, EntrySetIs
<1>3. c \notin DOMAIN ds /\ c \in DOMAIN ch
  BY <1>1 DEF Shape, EntriesLead, EntryLeads, Refused
<1>4. c # EOF_FLAG
  BY <1>3, NamesApart DEF Shape, Typed
<1> HIDE DEF mid, c
<1>5. Restrict(mid, DOMAIN ds \ {c}) = mid
  BY <1>2, <1>3 DEF Restrict
<1>6. QED
  BY <1>4, <1>5 DEF Gone, mid, c

\* ".." never leads fs_rmdir to an empty directory but from the root
LEMMA ParentInUse ==
  ASSUME NEW f, NEW ch, NEW ds, Shape(f, ch, ds), NEW d \in Live(ds),
         EmptyDirectory(ds, ds[d].up)
  PROVE  d = Root /\ ds[d].up = Root
<1>1. CASE d = Root
  BY <1>1 DEF Shape, RootInPlace
<1>2. CASE d # Root
  <2>1. PICK b \in DOMAIN ds, i \in 1 .. Slots : NamesDirectory(ds, b, i, d)
    BY <1>2 DEF Live
  <2>2. d # EOF_FLAG
    BY NamesApart DEF Shape, Typed, DirectoriesInPlace, Live
  <2>3. ds[d].up = b
    BY <2>1, <2>2 DEF Shape, EntriesLead, EntryLeads, NamesDirectory, Refused
  <2>4. QED
    BY <2>1, <2>3 DEF EmptyDirectory, NamesDirectory
<1>3. QED
  BY <1>1, <1>2
-----------------------------------------------------------------------------
(* A path as parsePath reads it ends as the caller's text does.            *)
LEMMA FullPathIs ==
  ASSUME currentDir \in Seq(Component), NEW p \in Paths
  PROVE  /\ FullPath(p) \in Seq(Component)
         /\ FullPath(p) # <<>> => p.comps # <<>> /\ Last(FullPath(p)) = Last(p.comps)
<1> DEFINE s == p.comps
<1>1. p.abs \in BOOLEAN /\ s \in Seq(Component) /\ (s = <<>> => p.abs)
  BY DirectoryAssumption DEF Component
<1> HIDE DEF s
<1>2. FullPath(p) = IF p.abs THEN s ELSE currentDir \o s
  BY DEF FullPath, s
<1>3. /\ currentDir \o s \in Seq(Component)
      /\ Len(currentDir \o s) = Len(currentDir) + Len(s)
      /\ \A i \in 1 .. Len(currentDir) + Len(s) :
           (currentDir \o s)[i] = IF i <= Len(currentDir) THEN currentDir[i]
                                                        ELSE s[i - Len(currentDir)]
  BY <1>1, ConcatProperties
<1>4. s # <<>> => Last(currentDir \o s) = Last(s)
  <2>1. Len(s) \in Nat /\ Len(currentDir) \in Nat
    BY <1>1
  <2>2. s # <<>> => Len(s) > 0
    BY <1>1, EmptySeq
  <2> DEFINE m == Len(currentDir)
             k == Len(s)
  <2>3. s # <<>> => m + k \in 1 .. m + k /\ ~(m + k <= m) /\ (m + k) - m = k
    BY <2>1, <2>2
  <2>4. s # <<>> => (currentDir \o s)[m + k] = s[k]
    BY <1>3, <2>3
  <2>5. QED
    BY <1>3, <2>4 DEF Last
<1>5. QED
  BY <1>1, <1>2, <1>3, <1>4 DEF s

(* The slot that a new entry gets is one that is not in use.               *)
LEMMA FirstUnusedIs ==
  ASSUME NEW d, UnusedSlots(d) # {}
  PROVE  FirstUnused(d) \in 1 .. Slots /\ ~InUse(dirs, d, FirstUnused(d))
<1> DEFINE S == UnusedSlots(d)
<1>1. S \in SUBSET Nat
  BY NamesApart DEF UnusedSlots
<1>2. PICK i \in S : \A k \in Nat : k < i => k \notin S
  BY <1>1, LeastNumber
<1>3. \A k \in S : i <= k
  <2> SUFFICES ASSUME NEW k \in S, ~(i <= k) PROVE FALSE
    OBVIOUS
  <2>1. k \in Nat /\ i \in Nat /\ k < i
    BY <1>1
  <2> HIDE DEF S
  <2>2. QED
    BY <1>2, <2>1
<1>4. FirstUnused(d) \in S
  BY <1>3 DEF FirstUnused
<1>5. QED
  BY <1>4 DEF UnusedSlots, InUse

\* the directory that a call makes something new in
LEMMA ParentIs ==
  ASSUME Sound, NEW p \in Paths, Parsed(p).index = -1
  PROVE  /\ Parsed(p).parent \in Live(dirs) /\ Last(p.comps) \in Names
         /\ \A j \in 1 .. Slots : ~Matches(dirs[Parsed(p).parent].slot[j], Last(p.comps))
<1> DEFINE h == Parsed(p)
           comps == FullPath(p)
           n == Last(comps)
<1>1. comps \in Seq(Component) /\ (comps # <<>> => n = Last(p.comps))
  BY FullPathIs DEF Sound
<1>2. h = parsePath(dirs, comps)
  BY DEF Parsed
<1>3. Shape(free, chain, dirs) /\ h.index = -1
  BY DEF Sound
<1> HIDE DEF h, comps
<1>4. h.index \in {-2, 0} \/ Found(dirs, comps, h)
  BY <1>1, <1>2, <1>3, ParsedIs
<1>5. Found(dirs, comps, h) /\ NoEntry(dirs, h, n)
  BY <1>3, <1>4 DEF Found, UpEntry, OwnEntry
<1>6. QED
  BY <1>1, <1>5 DEF Found, NoEntry, h

\* the place that a call writes the entry of something new into
LEMMA PlaceIs ==
  ASSUME Sound, NEW p \in Paths,
         Parsed(p).index = -1, UnusedSlots(Parsed(p).parent) # {}
  PROVE  Place(dirs, Parsed(p).parent, FirstUnused(Parsed(p).parent), Last(p.comps))
BY ParentIs, FirstUnusedIs DEF Place

(* What an index above 0 says in the current state.                        *)
LEMMA FoundIs ==
  ASSUME Sound, NEW p \in Paths, Parsed(p).index > 0
  PROVE  /\ Found(dirs, FullPath(p), Parsed(p)) /\ FullPath(p) # <<>>
         /\ p.comps # <<>> /\ Last(FullPath(p)) = Last(p.comps)
<1>1. FullPath(p) \in Seq(Component)
  BY FullPathIs DEF Sound
<1>2. Parsed(p).index \notin {-2, 0}
  OBVIOUS
<1>3. Parsed(p) = parsePath(dirs, FullPath(p))
  BY DEF Parsed
<1>4. Found(dirs, FullPath(p), Parsed(p))
  BY <1>1, <1>2, <1>3, ParsedIs DEF Sound
<1>5. FullPath(p) # <<>>
  BY <1>4 DEF Found
<1>6. QED
  BY <1>4, <1>5, FullPathIs DEF Sound

\* fs_rmdir, unless it is asked for ".." of the root on a volume that was mounted
LEMMA RmdirRemoves ==
  ASSUME Sound, NEW p \in Paths, MayRemove(Parsed(p)),
         rootStart = Root \/ Last(p.comps) # DotDot
  PROVE  LET h == Parsed(p)
             c == h.element.first
         IN  /\ Removable(dirs, h.parent, h.index - 1, c) /\ h.index # 1
             /\ dirs[c].self = c
<1> DEFINE h == Parsed(p)
           c == h.element.first
           d == h.parent
           n == Last(FullPath(p))
<1>1. /\ h.index > 0 /\ h.element.isDir /\ c # rootStart
      /\ c \in DOMAIN dirs /\ EmptyDirectory(dirs, c)
  BY DEF MayRemove, IsRoot, IsEmpty, EmptyDirectory, InUse
<1>2. Found(dirs, FullPath(p), h) /\ n = Last(p.comps)
  BY <1>1, FoundIs
<1>3. Shape(free, chain, dirs)
  BY DEF Sound
<1> HIDE DEF h, c
<1>4. d \in Live(dirs) /\ dirs[c].self = c /\ c # EOF_FLAG
  BY <1>1, <1>2, <1>3, NamesApart DEF Found, Shape, DirectoriesInPlace, Typed
<1>5. ~NoEntry(dirs, h, n)
  BY <1>1 DEF NoEntry
<1>6. ~UpEntry(dirs, h, n)
  <2>1. ASSUME UpEntry(dirs, h, n) PROVE FALSE
    <3>1. c = dirs[d].up /\ n = DotDot
      BY <2>1 DEF UpEntry, Entry, c
    <3>2. d = Root /\ dirs[d].up = Root
      BY <1>1, <1>3, <1>4, <3>1, ParentInUse
    <3>3. QED
      BY <1>1, <1>2, <3>1, <3>2
  <2>2. QED
    BY <2>1
<1>7. OwnEntry(dirs, h, n)
  BY <1>2, <1>5, <1>6 DEF Found
<1>8. /\ h.index - 1 \in 1 .. Slots /\ h.index # 1
      /\ h.element = dirs[d].slot[h.index - 1]
      /\ InUse(dirs, d, h.index - 1)
  BY <1>7, NamesApart DEF OwnEntry, Matches, InUse
<1>9. Removable(dirs, d, h.index - 1, c)
  BY <1>1, <1>4, <1>8 DEF Removable, c
<1>10. QED
  BY <1>4, <1>8, <1>9 DEF h, c

(* fs_delete of a file clears the entry it found.                          *)
LEMMA DeleteRemoves ==
  ASSUME Sound, NEW p \in Paths, Parsed(p).index > 0, ~Parsed(p).element.isDir
  PROVE  LET h == Parsed(p)
             c == h.element.first
         IN  /\ Removable(dirs, h.parent, h.index - 1, c) /\ h.index # 1
             /\ Gone(dirs, h.parent, h.index - 1, c) = EntrySet(dirs, h.parent, h.index - 1, Unused)
<1> DEFINE h == Parsed(p)
           c == h.element.first
           d == h.parent
           i == h.index - 1
           n == Last(FullPath(p))
<1>1. Found(dirs, FullPath(p), h) /\ h.index > 0 /\ ~h.element.isDir
  BY FoundIs
<1>2. Shape(free, chain, dirs)
  BY DEF Sound
<1> HIDE DEF h
<1>3. d \in Live(dirs)
  BY <1>1 DEF Found
<1>4. ~NoEntry(dirs, h, n) /\ ~UpEntry(dirs, h, n)
  BY <1>1 DEF NoEntry, UpEntry, Entry
<1>5. OwnEntry(dirs, h, n)
  BY <1>1, <1>4 DEF Found
<1>6. /\ i \in 1 .. Slots /\ h.index # 1 /\ h.element = dirs[d].slot[i] /\ InUse(dirs, d, i)
  BY <1>5, NamesApart DEF OwnEntry, Matches, InUse
<1> HIDE DEF d, i
<1>7. /\ Gone(dirs, d, i, c) = EntrySet(dirs, d, i, Unused) /\ c # EOF_FLAG
  BY <1>1, <1>2, <1>3, <1>6, GoneFile
<1>8. Removable(dirs, d, i, c)
  BY <1>1, <1>3, <1>6, <1>7 DEF Removable
<1>9. QED
  BY <1>6, <1>7, <1>8 DEF h, d, i
-----------------------------------------------------------------------------
(* A formatted volume is in order.                                         *)
LEMMA InitHolds == Init => IInv
<1> SUFFICES ASSUME Init PROVE IInv
  OBVIOUS
<1> DEFINE ch == [h \in {Root} |-> RootChain]
           ds == [c \in {Root} |-> initDirectory(Root, Root)]
<1>1. free = InitFree /\ chain = ch /\ dirs = ds /\ currentDir = <<>> /\ rootStart = Root
  BY DEF Init, Store!Init
<1>2. /\ DOMAIN ch = {Root} /\ ch[Root] = RootChain /\ Root \in Nat
      /\ RootChain \in Seq(Nat) /\ Len(RootChain) >= 1 /\ RootChain[1] = Root
      /\ InitFree \in Seq(Nat)
  <2>1. Len(RootChain) # 0
    BY DirectoryAssumption, FormattedAssumption, EmptySeq
  <2>2. QED
    BY <2>1, DirectoryAssumption, FormattedAssumption
<1>3. /\ DOMAIN ds = {Root} /\ ds[Root].self = Root /\ ds[Root].up = Root
      /\ \A i \in 1 .. Slots : ds[Root].slot[i] = Unused
      /\ ds[Root] \in DirRecord /\ ds \in [DOMAIN ds -> DirRecord]
  BY <1>2 DEF initDirectory, DirRecord, SlotRecord, Unused
<1> HIDE DEF ch, ds
<1>4. Typed(InitFree, ch, ds)
  <2>1. IsFiniteSet(DOMAIN ds)
    BY <1>3, FS_Singleton
  <2>2. ch \in [DOMAIN ch -> Seq(Nat)]
    BY <1>2 DEF ch
  <2>3. QED
    BY <1>2, <1>3, <2>1, <2>2 DEF Typed
<1>5. Apart(InitFree, ch)
  <2>1. \A i, j \in DOMAIN InitFree : InitFree[i] = InitFree[j] => i = j
    BY FormattedAssumption DEF IsInjective
  <2>2. \A i, j \in DOMAIN RootChain : RootChain[i] = RootChain[j] => i = j
    BY FormattedAssumption DEF IsInjective
  <2>3. \A i \in DOMAIN RootChain, j \in DOMAIN InitFree : RootChain[i] # InitFree[j]
    BY FormattedAssumption DEF Range
  <2>4. QED
    BY <1>2, <2>1, <2>2, <2>3 DEF Apart
<1>6. \A i \in 1 .. Slots : ~InUse(ds, Root, i)
  BY <1>3 DEF InUse, Unused
<1>7. RootInPlace(ch, ds) /\ DirectoriesInPlace(ch, ds)
  BY <1>2, <1>3, <1>6 DEF RootInPlace, DirectoriesInPlace, EmptyDirectory
<1>8. EntriesLead(ch, ds) /\ NamedOnce(ds) /\ ShortNamesUnique(ds) /\ NothingLost(ch, ds)
  BY <1>2, <1>3, <1>6 DEF EntriesLead, NamedOnce, ShortNamesUnique, NothingLost
<1>9. <<>> \in Seq(Component)
  OBVIOUS
<1>10. QED
  BY <1>1, <1>4, <1>5, <1>7, <1>8, <1>9 DEF IInv, Sound, Shape

(* fs_mkdir keeps the invariant.                                           *)
LEMMA MkdirStep ==
  ASSUME IInv, NEW p \in Paths, CallMkdir(p)
  PROVE  IInv'
<1> DEFINE h == Parsed(p)
           d == h.parent
           i == FirstUnused(d)
           n == Last(p.comps)
           c == Alloc(DirClusters)
           e == Entry(n, c, TRUE)
<1>1. /\ h.index = -1 /\ UnusedSlots(d) # {}
      /\ Allocated(DirClusters)
      /\ dirs' = WithDirectory(EntrySet(dirs, d, i, e), d, c)
      /\ UNCHANGED <<currentDir, rootStart>>
      /\ NeverRefused => Store!Grants(free, DirClusters)
  BY DEF CallMkdir, fs_mkdir, WithEntry, EntrySet
<1>2. Place(dirs, d, i, n)
  BY <1>1, PlaceIs DEF IInv
<1>3. Shape(free, chain, dirs) /\ NothingLost(chain, dirs)
  BY DEF IInv, Sound
<1>4. DirClusters \in Nat \ {0}
  BY DirectoryAssumption
<1>5. e.first = c /\ e.isDir /\ DirectoryEntry(e, n, c)
  BY DEF Entry, DirectoryEntry
<1> HIDE DEF h, d, i, n, e
<1>6. Shape(free', chain', dirs') /\ NothingLost(chain', dirs')
  <2>1. CASE Store!Grants(free, DirClusters)
    <3>1. free' = Store!Rest(free, DirClusters) /\ chain' = Store!Taken(free, chain, DirClusters)
      BY <1>1, <2>1 DEF Allocated
    <3>2. c = free[1]
      BY <2>1 DEF Alloc
    <3> HIDE DEF c
    <3>3. /\ Shape(free', chain', dirs) /\ Fresh(chain', dirs, c)
          /\ Len(chain'[c]) = DirClusters /\ DOMAIN chain' = DOMAIN chain \cup {c}
      BY <1>3, <1>4, <2>1, <3>1, <3>2, TakeKeeps
    <3>4. Granted(chain', dirs, e)
      BY <1>5, <3>3 DEF Granted
    <3>5. /\ Shape(free', chain', dirs')
          /\ \A x : IsNamed(dirs', x) <=> IsNamed(dirs, x) \/ x = c
      BY <1>1, <1>2, <1>5, <3>3, <3>4, MkdirKeeps
    <3>6. QED
      BY <1>3, <3>3, <3>5 DEF NothingLost
  <2>2. CASE ~Store!Grants(free, DirClusters)
    <3>1. free' = free /\ chain' = chain
      BY <1>1, <2>2 DEF Allocated, AllocatedNothing, alloced
    <3>2. c = EOF_FLAG /\ ~NeverRefused
      BY <1>1, <2>2 DEF Alloc
    <3>3. Granted(chain, dirs, e)
      BY <1>5, <3>2 DEF Granted, Refused
    <3>4. /\ Shape(free, chain, dirs')
          /\ \A x : IsNamed(dirs', x) <=> IsNamed(dirs, x) \/ x = c
      <4> HIDE DEF c
      <4>1. QED
        BY <1>1, <1>2, <1>3, <1>5, <3>3, MkdirKeeps
    <3>5. QED
      BY <1>3, <3>1, <3>4 DEF NothingLost
  <2>3. QED
    BY <2>1, <2>2
<1>7. QED
  BY <1>1, <1>6 DEF IInv, Sound

(* The creation of a file keeps the invariant.                             *)
LEMMA NewFileStep ==
  ASSUME IInv, NEW p \in Paths, CallNewFile(p)
  PROVE  IInv'
<1> DEFINE h == Parsed(p)
           d == h.parent
           i == FirstUnused(d)
           n == Last(p.comps)
           c == Alloc(1)
           e == Entry(n, c, FALSE)
<1>1. /\ h.index = -1 /\ UnusedSlots(d) # {}
      /\ Store!Grants(free, 1) /\ Allocated(1)
      /\ dirs' = EntrySet(dirs, d, i, e)
      /\ UNCHANGED <<currentDir, rootStart>>
  BY DEF CallNewFile, NewFile, WithEntry, EntrySet
<1>2. Place(dirs, d, i, n)
  BY <1>1, PlaceIs DEF IInv
<1>3. Shape(free, chain, dirs) /\ NothingLost(chain, dirs)
  BY DEF IInv, Sound
<1>4. e.first = c /\ ~e.isDir /\ FileEntry(e, n, c)
  BY DEF Entry, FileEntry
<1>5. free' = Store!Rest(free, 1) /\ chain' = Store!Taken(free, chain, 1) /\ c = free[1]
  BY <1>1 DEF Allocated, Alloc
<1> HIDE DEF h, d, i, n, c, e
<1>6. /\ Shape(free', chain', dirs) /\ Fresh(chain', dirs, c)
      /\ DOMAIN chain' = DOMAIN chain \cup {c}
  <2> DEFINE k == 1
  <2>1. /\ k \in Nat \ {0} /\ Store!Grants(free, k)
        /\ free' = Store!Rest(free, k) /\ chain' = Store!Taken(free, chain, k)
    BY <1>1, <1>5
  <2> HIDE DEF k
  <2>2. /\ Shape(Store!Rest(free, k), Store!Taken(free, chain, k), dirs)
        /\ DOMAIN Store!Taken(free, chain, k) = DOMAIN chain \cup {free[1]}
        /\ Fresh(Store!Taken(free, chain, k), dirs, free[1])
    BY <1>3, <2>1, TakeKeeps
  <2>3. QED
    BY <1>5, <2>1, <2>2
<1>7. Granted(chain', dirs, e)
  BY <1>4, <1>6 DEF Granted
<1>8. /\ Shape(free', chain', dirs')
      /\ \A x : IsNamed(dirs', x) <=> IsNamed(dirs, x) \/ x = c
  BY <1>1, <1>2, <1>4, <1>6, <1>7, FileKeeps
<1>9. NothingLost(chain', dirs')
  BY <1>3, <1>6, <1>8 DEF NothingLost
<1>10. QED
  BY <1>1, <1>8, <1>9 DEF IInv, Sound

(* fs_rmdir keeps the invariant.                                           *)
LEMMA RmdirStep ==
  ASSUME IInv, NEW p \in Paths, fs_rmdir(p)
  PROVE  IInv'
<1> DEFINE h == Parsed(p)
           d == h.parent
           i == h.index - 1
           c == h.element.first
<1>1. /\ Removable(dirs, d, i, c) /\ h.index # 1 /\ dirs[c].self = c
  BY RmdirRemoves DEF fs_rmdir, IInv
<1>2. dirs' = Gone(dirs, d, i, c)
  <2>1. dirs' = Restrict(EntrySet(dirs, d, i, Unused), DOMAIN dirs \ {c})
    BY <1>1 DEF fs_rmdir, Cleared, WithEntry, EntrySet
  <2>2. QED
    BY <2>1 DEF Gone
<1>3. free' = chain[c] \o free /\ chain' = Store!Without(chain, c)
  BY <1>1 DEF fs_rmdir, Released
<1>4. UNCHANGED <<currentDir, rootStart>>
  BY DEF fs_rmdir
<1>5. Shape(free, chain, dirs) /\ NothingLost(chain, dirs)
  BY DEF IInv, Sound
<1> HIDE DEF h, d, i, c
<1>6. /\ Shape(free', chain', dirs')
      /\ \A x : IsNamed(dirs', x) <=> IsNamed(dirs, x) /\ x # c
  BY <1>1, <1>2, <1>3, <1>5, GoneKeeps
<1>7. DOMAIN chain' = DOMAIN chain \ {c}
  BY <1>3 DEF Store!Without, Store!Restrict
<1>8. NothingLost(chain', dirs')
  BY <1>5, <1>6, <1>7 DEF NothingLost
<1>9. QED
  BY <1>4, <1>6, <1>8 DEF IInv, Sound

(* fs_delete keeps the invariant.                                          *)
LEMMA DeleteStep ==
  ASSUME IInv, NEW p \in Paths, fs_delete(p)
  PROVE  IInv'
<1> DEFINE h == Parsed(p)
           d == h.parent
           i == h.index - 1
           c == h.element.first
<1>1. /\ Removable(dirs, d, i, c) /\ h.index # 1
      /\ Gone(dirs, d, i, c) = EntrySet(dirs, d, i, Unused)
  BY DeleteRemoves DEF fs_delete, IInv
<1>2. dirs' = Gone(dirs, d, i, c)
  <2>1. dirs' = EntrySet(dirs, d, i, Unused)
    BY <1>1 DEF fs_delete, Cleared, WithEntry, EntrySet
  <2>2. QED
    BY <1>1, <2>1
<1>3. free' = chain[c] \o free /\ chain' = Store!Without(chain, c)
  BY <1>1 DEF fs_delete, Released
<1>4. UNCHANGED <<currentDir, rootStart>>
  BY DEF fs_delete
<1>5. Shape(free, chain, dirs) /\ NothingLost(chain, dirs)
  BY DEF IInv, Sound
<1> HIDE DEF h, d, i, c
<1>6. /\ Shape(free', chain', dirs')
      /\ \A x : IsNamed(dirs', x) <=> IsNamed(dirs, x) /\ x # c
  BY <1>1, <1>2, <1>3, <1>5, GoneKeeps
<1>7. DOMAIN chain' = DOMAIN chain \ {c}
  BY <1>3 DEF Store!Without, Store!Restrict
<1>8. NothingLost(chain', dirs')
  BY <1>5, <1>6, <1>7 DEF NothingLost
<1>9. QED
  BY <1>4, <1>6, <1>8 DEF IInv, Sound

\* the text of currentDir stays one of components
LEMMA CwdIs ==
  ASSUME currentDir \in Seq(Component), NEW p \in Paths, fs_setcwd(p)
  PROVE  currentDir' \in Seq(Component) /\ UNCHANGED <<free, chain, dirs, rootStart>>
<1>1. p.comps \in Seq(Component) /\ FullPath(p) \in Seq(Component)
  BY FullPathIs, DirectoryAssumption DEF Component
<1>6. UNCHANGED <<free, chain, dirs, rootStart>>
  BY DEF fs_setcwd, alloced
<1>2. ASSUME fs_setcwdAbsolute(p) PROVE currentDir' \in Seq(Component)
  <2> DEFINE s == p.comps
  <2>1. currentDir' = SubSeq(s, 1, IF s = <<>> THEN 0 ELSE 1) /\ s \in Seq(Component)
    BY <1>1, <1>2 DEF fs_setcwdAbsolute
  <2> HIDE DEF s
  <2>2. CASE s = <<>>
    BY <2>1, <2>2
  <2>3. CASE s # <<>>
    <3>1. s[1] \in Component
      BY <2>1, <2>3, EmptySeq
    <3>2. SubSeq(s, 1, 1) \in Seq(Component)
      BY <2>1, <2>3, EmptySeq
    <3>3. QED
      BY <2>1, <2>3, <3>2
  <2>4. QED
    BY <2>2, <2>3
<1>3. ASSUME fs_setcwdUp(p) PROVE currentDir' \in Seq(Component)
  <2>1. currentDir' = IF currentDir = <<>> THEN <<>> ELSE Front(currentDir)
    BY <1>3 DEF fs_setcwdUp
  <2>2. <<>> \in Seq(Component)
    OBVIOUS
  <2>3. currentDir # <<>> => Front(currentDir) \in Seq(Component)
    BY FrontLast
  <2>4. QED
    BY <2>1, <2>2, <2>3
<1>4. ASSUME fs_setcwdRelative(p) PROVE currentDir' \in Seq(Component)
  BY <1>1, <1>4 DEF fs_setcwdRelative
<1>5. QED
  BY <1>2, <1>3, <1>4, <1>6 DEF fs_setcwd

(* The order of the volume holds at every step of every program.           *)
LEMMA Invariance == Spec => []IInv
<1>1. ASSUME IInv, [Next]_vars PROVE IInv'
  <2>1. ASSUME NEW p \in Paths, CallMkdir(p) PROVE IInv'
    BY <1>1, <2>1, MkdirStep
  <2>2. ASSUME NEW p \in Paths, CallNewFile(p) PROVE IInv'
    BY <1>1, <2>2, NewFileStep
  <2>3. ASSUME NEW p \in Paths, CallSetcwd(p) PROVE IInv'
    BY <1>1, <2>3, CwdIs DEF CallSetcwd, IInv, Sound
  <2>4. ASSUME NEW p \in Paths, cmd_rm(p) PROVE IInv'
    BY <1>1, <2>4, RmdirStep, DeleteStep DEF cmd_rm
  <2>5. CASE UNCHANGED vars
    BY <1>1, <2>5 DEF vars, IInv, Sound
  <2>6. QED
    BY <1>1, <2>1, <2>2, <2>3, <2>4, <2>5 DEF Next
<1>2. QED
  BY InitHolds, <1>1, PTL DEF Spec
-----------------------------------------------------------------------------
\* how the invariant reads in terms of the entries in use
LEMMA EntriesAre ==
  /\ \A u \in Used : /\ u[1] \in DOMAIN dirs /\ u[2] \in 1 .. Slots
                      /\ InUse(dirs, u[1], u[2]) /\ u = <<u[1], u[2]>>
  /\ \A d \in DOMAIN dirs, i \in 1 .. Slots : InUse(dirs, d, i) => <<d, i>> \in Used
  /\ \A x \in Entries : \E u \in Used : x[1] = u[1] /\ x[2] = dirs[u[1]].slot[u[2]]
  /\ {x[2].first : x \in Entries} = {dirs[u[1]].slot[u[2]].first : u \in Used}
<1>1. \A u \in Used : /\ u[1] \in DOMAIN dirs /\ u[2] \in 1 .. Slots
                      /\ InUse(dirs, u[1], u[2]) /\ u = <<u[1], u[2]>>
  BY DEF Used, InUse
<1>2. \A d \in DOMAIN dirs, i \in 1 .. Slots : InUse(dirs, d, i) => <<d, i>> \in Used
  BY DEF Used, InUse
<1>3. \A x \in Entries : \E u \in Used : x[1] = u[1] /\ x[2] = dirs[u[1]].slot[u[2]]
  BY DEF Entries
<1>4. \A u \in Used : \E x \in Entries : x[1] = u[1] /\ x[2] = dirs[u[1]].slot[u[2]]
  <2> SUFFICES ASSUME NEW u \in Used
               PROVE  \E x \in Entries : x[1] = u[1] /\ x[2] = dirs[u[1]].slot[u[2]]
    OBVIOUS
  <2>1. <<u[1], dirs[u[1]].slot[u[2]]>> \in Entries
    BY DEF Entries
  <2>2. QED
    BY <2>1
<1>5. {x[2].first : x \in Entries} = {dirs[u[1]].slot[u[2]].first : u \in Used}
  BY <1>3, <1>4
<1>6. QED
  BY <1>1, <1>2, <1>3, <1>5

(* There are finitely many directories in use.                             *)
LEMMA UsedIsFinite ==
  ASSUME Sound
  PROVE  IsFiniteSet(Used)
<1>1. IsFiniteSet(DOMAIN dirs)
  BY DEF Sound, Shape, Typed
<1>2. IsFiniteSet(1 .. Slots)
  BY FS_Interval, NamesApart
<1>3. IsFiniteSet((DOMAIN dirs) \X (1 .. Slots))
  BY <1>1, <1>2, FS_Product
<1>4. Used \in SUBSET ((DOMAIN dirs) \X (1 .. Slots))
  BY DEF Used
<1>5. QED
  BY <1>3, <1>4, FS_Subset

(* A volume in order is the tree that TreeIsSound describes.               *)
LEMMA ShapeIsSoundTree ==
  ASSUME NeverRefused, NEW f, Shape(f, chain, dirs)
  PROVE  TreeIsSound
<1> SUFFICES ASSUME NEW x \in Entries
             PROVE  /\ x[2].first \in DOMAIN chain
                    /\ x[2].isDir => SoundDirectory(x[1], x[2])
  BY DEF TreeIsSound
<1>1. PICK u \in Used : x[1] = u[1] /\ x[2] = dirs[u[1]].slot[u[2]]
  BY EntriesAre
<1>2. u[1] \in DOMAIN dirs /\ u[2] \in 1 .. Slots /\ InUse(dirs, u[1], u[2])
  BY EntriesAre
<1>3. EntryLeads(chain, dirs, u[1], x[2])
  BY <1>1, <1>2 DEF Shape, EntriesLead, Refused
<1>4. \A c \in DOMAIN dirs : dirs[c].self = c
  BY DEF Shape, DirectoriesInPlace
<1>5. QED
  BY <1>1, <1>3, <1>4 DEF EntryLeads, SoundDirectory

(* Each entry of a directory names a chain of its own, as long as the call *)
(* that made it has asked for, and a directory's "." and ".." are true, as *)
(* long as alloc has refused no fs_mkdir.                                  *)
THEOREM TreeSound ==
  ASSUME NeverRefused
  PROVE  Spec => []TreeIsSound
<1>1. IInv => TreeIsSound
  BY ShapeIsSoundTree DEF IInv, Sound
<1>2. QED
  BY <1>1, Invariance, PTL

(* Nothing is lost and nothing is named twice: the chains in use are the   *)
(* root's and those of the entries, and each entry has its own, as long as *)
(* alloc has refused no fs_mkdir.                                          *)
THEOREM ChainsNamedOnce ==
  ASSUME NeverRefused
  PROVE  Spec => []ChainsAreNamedOnce
<1>1. IInv => ChainsAreNamedOnce
  <2> SUFFICES ASSUME IInv PROVE ChainsAreNamedOnce
    OBVIOUS
  <2> DEFINE F == {dirs[u[1]].slot[u[2]].first : u \in Used}
             g == [u \in Used |-> dirs[u[1]].slot[u[2]].first]
  <2>1. \A u \in Used : EntryLeads(chain, dirs, u[1], dirs[u[1]].slot[u[2]])
    BY EntriesAre DEF IInv, Sound, Shape, EntriesLead, Refused
  <2>2. DOMAIN chain = {Root} \cup F
    <3>1. Root \in DOMAIN chain
      BY DEF IInv, Sound, Shape, RootInPlace
    <3>2. F \subseteq DOMAIN chain
      BY <2>1 DEF EntryLeads
    <3>3. ASSUME NEW c \in DOMAIN chain, c # Root PROVE c \in F
      <4>1. PICK d \in DOMAIN dirs, i \in 1 .. Slots : InUse(dirs, d, i) /\ dirs[d].slot[i].first = c
        BY <3>3 DEF IInv, NothingLost, IsNamed
      <4>2. <<d, i>> \in Used
        BY <4>1, EntriesAre
      <4>3. QED
        BY <4>1, <4>2
    <3>4. QED
      BY <3>1, <3>2, <3>3
  <2>3. \A u \in Used : dirs[u[1]].slot[u[2]].first # EOF_FLAG
    BY <2>1, NamesApart DEF EntryLeads, IInv, Sound, Shape, Typed
  <2>4. \A u, v \in Used : g[u] = g[v] => u = v
    <3> SUFFICES ASSUME NEW u \in Used, NEW v \in Used,
                        dirs[u[1]].slot[u[2]].first = dirs[v[1]].slot[v[2]].first
                 PROVE  u = v
      OBVIOUS
    <3>1. u[1] = v[1] /\ u[2] = v[2]
      <4>1. NamedOnce(dirs)
        BY DEF IInv, Sound, Shape
      <4>2. /\ u[1] \in DOMAIN dirs /\ u[2] \in 1 .. Slots /\ InUse(dirs, u[1], u[2])
            /\ v[1] \in DOMAIN dirs /\ v[2] \in 1 .. Slots /\ InUse(dirs, v[1], v[2])
        BY EntriesAre
      <4>3. dirs[u[1]].slot[u[2]].first # EOF_FLAG
        BY <2>3
      <4> QED BY <4>1, <4>2, <4>3 DEF NamedOnce
    <3>2. QED
      BY <3>1, EntriesAre
  <2>5. g \in Bijection(Used, F)
    <3>1. g \in [Used -> F]
      OBVIOUS
    <3>2. \A c \in F : \E u \in Used : g[u] = c
      OBVIOUS
    <3> HIDE DEF g, F
    <3>3. DOMAIN g = Used
      BY <3>1
    <3>4. QED
      BY <2>4, <3>1, <3>2, <3>3 DEF Bijection, Injection, Surjection, IsInjective
  <2>6. Cardinality(F) = Cardinality(Used)
    <3> HIDE DEF F, g
    <3>1. ExistsBijection(Used, F)
      BY <2>5 DEF ExistsBijection
    <3>2. QED
      BY <3>1, UsedIsFinite, FS_Bijection DEF IInv
  <2>7. F = {x[2].first : x \in Entries}
    BY EntriesAre
  <2>8. QED
    BY <2>2, <2>6, <2>7 DEF ChainsAreNamedOnce
<1>2. QED
  BY <1>1, Invariance, PTL

(* A name that is not of eleven characters is in a directory once, whatever *)
(* the others are.                                                         *)
THEOREM ShortNamesAreUnique == Spec => []ShortNamesUnique(dirs)
<1>1. IInv => ShortNamesUnique(dirs)
  BY DEF IInv, Sound, Shape
<1>2. QED
  BY <1>1, Invariance, PTL

(* Where no name has eleven characters no name is twice in a directory.    *)
THEOREM NamesUnique ==
  ASSUME LongNames = {}
  PROVE  Spec => []NamesAreUnique
<1>1. ShortNamesUnique(dirs) => NamesAreUnique
  BY DEF ShortNamesUnique, NamesAreUnique, InUse
<1>2. QED
  BY <1>1, ShortNamesAreUnique, PTL

(* No call takes the root's chain away, on the volume just formatted.      *)
THEOREM RootIsKept == Spec => []RootStays
<1>1. IInv => RootStays
  BY DEF IInv, Sound, Shape, RootInPlace, RootStays
<1>2. QED
  BY <1>1, Invariance, PTL

-----------------------------------------------------------------------------
(***************************************************************************)
(* The set of paths.                                                       *)
(***************************************************************************)

(* Where no name has eleven characters isSameName compares names.          *)
LEMMA MatchesByName ==
  ASSUME LongNames = {}, NEW e, NEW n
  PROVE  Matches(e, n) <=> e.name = n
BY DEF Matches

\* what parsePath says of the name n in the directory d
KindIn(ds, d, n) == Kind(InDirectory(ds, d, n))
KindOf(ds, q)    == Kind(parsePath(ds, q))

\* the directory that an entry leads to
Leads(ds, e) == IF e.isDir /\ e.first \in DOMAIN ds THEN e.first ELSE EOF_FLAG

(* A name that is not in use in d is not found there. *)
LEMMA NotFound ==
  ASSUME LongNames = {}, NEW ds, NEW d, d # EOF_FLAG, NEW n \in Names,
         \A j \in 1 .. Slots : ds[d].slot[j].name # n
  PROVE  Below(ds, d, n) = EOF_FLAG /\ KindIn(ds, d, n) = "none"
<1>1. Position(ds, d, n) = -1
  <2>1. \A j \in 1 .. Slots : ~Matches(ds[d].slot[j], n)
    BY MatchesByName
  <2>2. {j \in 1 .. Slots : Matches(ds[d].slot[j], n)} = {}
    BY <2>1
  <2>3. QED
    BY <2>2, NamesApart DEF Position
<1>2. Below(ds, d, n) = EOF_FLAG
  BY <1>1 DEF Below
<1>3. InDirectory(ds, d, n).index = -1
  BY <1>1 DEF InDirectory
<1>4. KindIn(ds, d, n) = "none"
  BY <1>3 DEF KindIn, Kind
<1>5. QED
  BY <1>2, <1>4

(* A name in use in d is found there, and the entry is the one of its own. *)
LEMMA FoundOnce ==
  ASSUME LongNames = {}, NEW ds, ShortNamesUnique(ds), NEW d \in DOMAIN ds, d # EOF_FLAG,
         NEW j \in 1 .. Slots, InUse(ds, d, j), ds[d].slot[j].name \in Names
  PROVE  /\ Below(ds, d, ds[d].slot[j].name) = Leads(ds, ds[d].slot[j])
         /\ KindIn(ds, d, ds[d].slot[j].name) = IF ds[d].slot[j].isDir THEN "dir" ELSE "file"
         /\ InDirectory(ds, d, ds[d].slot[j].name).index >= 0
         /\ InDirectory(ds, d, ds[d].slot[j].name).element = ds[d].slot[j]
<1> DEFINE n == ds[d].slot[j].name
           i == Position(ds, d, n)
<1>1. n \in Component /\ n # Dot /\ n # DotDot
  BY NamesApart DEF Component
<1>2. i \in Nat /\ i - 1 \in 1 .. Slots /\ ds[d].slot[i - 1].name = n
  <2>1. \/ i = -1 /\ \A k \in 1 .. Slots : ~Matches(ds[d].slot[k], n)
        \/ i \in Nat /\ i - 1 \in 1 .. Slots /\ Matches(ds[d].slot[i - 1], n)
    BY <1>1, PositionIs
  <2> HIDE DEF i
  <2>2. QED
    BY <2>1, MatchesByName
<1> HIDE DEF i
<1>3. i - 1 = j
  BY <1>2 DEF ShortNamesUnique
<1>4. EntryAt(ds, d, i) = ds[d].slot[j]
  <2>1. i # 0 /\ i # 1
    BY <1>2
  <2>2. QED
    BY <1>3, <2>1 DEF EntryAt
<1>5. i # -1 /\ i >= 0 /\ ~(i < 0)
  BY <1>2
<1>6. Below(ds, d, n) = Leads(ds, ds[d].slot[j])
  BY <1>4, <1>5 DEF Below, Leads, Enter, i
<1>7. /\ InDirectory(ds, d, n).index = i
      /\ InDirectory(ds, d, n).element = ds[d].slot[j]
  BY <1>4, <1>5 DEF InDirectory, i
<1>8. KindIn(ds, d, n) = IF ds[d].slot[j].isDir THEN "dir" ELSE "file"
  BY <1>5, <1>7 DEF KindIn, Kind
<1>9. QED
  BY <1>5, <1>6, <1>7, <1>8
-----------------------------------------------------------------------------
(* Paths of names are paths for parsePath.                                 *)
LEMMA NamesAreComponents ==
  ASSUME NEW q \in Seq(Names)
  PROVE  /\ q \in Seq(Component)
         /\ q # <<>> => Front(q) \in Seq(Names) /\ Last(q) \in Names
<1>1. Names \subseteq Component
  BY DEF Component
<1>2. q \in Seq(Component)
  BY <1>1
<1>3. q # <<>> => Front(q) \in Seq(Names) /\ Last(q) \in Names
  BY FrontLast
<1>4. QED
  BY <1>2, <1>3

(* A path is given by its front and its last component.                    *)
LEMMA FrontLastDetermine ==
  ASSUME NEW S, NEW q \in Seq(S), NEW r \in Seq(S), q # <<>>, r # <<>>,
         Front(q) = Front(r), Last(q) = Last(r)
  PROVE  q = r
<1>1. /\ Len(Front(q)) = Len(q) - 1 /\ Len(q) \in Nat \ {0}
      /\ \A j \in 1 .. Len(q) - 1 : Front(q)[j] = q[j]
      /\ Last(q) = q[Len(q)]
  BY FrontLast
<1>2. /\ Len(Front(r)) = Len(r) - 1 /\ Len(r) \in Nat \ {0}
      /\ \A j \in 1 .. Len(r) - 1 : Front(r)[j] = r[j]
      /\ Last(r) = r[Len(r)]
  BY FrontLast
<1>3. Len(q) = Len(r)
  BY <1>1, <1>2
<1>4. \A j \in 1 .. Len(q) : q[j] = r[j]
  <2> SUFFICES ASSUME NEW j \in 1 .. Len(q) PROVE q[j] = r[j]
    OBVIOUS
  <2>1. CASE j = Len(q)
    BY <1>1, <1>2, <1>3, <2>1
  <2>2. CASE j # Len(q)
    <3>1. j \in 1 .. Len(q) - 1
      BY <1>1, <2>2
    <3>2. QED
      BY <1>1, <1>2, <1>3, <3>1
  <2>3. QED
    BY <2>1, <2>2
<1>5. QED
  BY <1>3, <1>4, SeqEqual

\* the last step of a path of names leads down from b, through its place j
StepsDown(ds, q, b, j) ==
  /\ b \in Live(ds) /\ b # EOF_FLAG /\ j \in 1 .. Slots
  /\ b = Reached(ds, Front(q))
  /\ NamesDirectory(ds, b, j, Reached(ds, q))
  /\ ds[b].slot[j].name = Last(q)
  /\ Reached(ds, q) \in DOMAIN ds

(* A path of names that leads somewhere leads there through an entry of    *)
(* the directory its front leads to.                                       *)
LEMMA PathStepsDown ==
  ASSUME LongNames = {}, NEW f, NEW ch, NEW ds, Shape(f, ch, ds),
         NEW q \in Seq(Names), q # <<>>, Reached(ds, q) # EOF_FLAG
  PROVE  \E b, j : StepsDown(ds, q, b, j)
<1> DEFINE b == Reached(ds, Front(q))
           n == Last(q)
<1>1. Front(q) \in Seq(Names) /\ n \in Names /\ Front(q) \in Seq(Component) /\ q \in Seq(Component)
  BY NamesAreComponents
<1>2. Reached(ds, q) = Below(ds, b, n)
  BY <1>1, ReachedStep
<1>3. b # EOF_FLAG
  BY <1>2 DEF Below
<1>4. b \in Live(ds)
  BY <1>1, <1>3, ReachedIsLive
<1> HIDE DEF b, n
<1>5. b \in DOMAIN ds
  BY <1>4 DEF Live
<1>6. PICK j \in 1 .. Slots : ds[b].slot[j].name = n
  BY <1>1, <1>2, <1>3, NotFound
<1>7. InUse(ds, b, j)
  BY <1>1, <1>6, NamesApart DEF InUse
<1>8. Reached(ds, q) = Leads(ds, ds[b].slot[j])
  <2>1. ShortNamesUnique(ds)
    BY DEF Shape
  <2>2. QED
    BY <1>1, <1>2, <1>3, <1>5, <1>6, <1>7, <2>1, FoundOnce
<1>9. NamesDirectory(ds, b, j, Reached(ds, q)) /\ Reached(ds, q) \in DOMAIN ds
  BY <1>7, <1>8 DEF NamesDirectory, Leads
<1>10. QED
  BY <1>3, <1>4, <1>6, <1>9 DEF StepsDown, b, n

(* A directory has one path of names. *)
LEMMA NamePathIsOnly ==
  ASSUME LongNames = {}, NEW f, NEW ch, NEW ds, Shape(f, ch, ds)
  PROVE  \A q, r \in Seq(Names) :
           Reached(ds, q) = Reached(ds, r) /\ Reached(ds, q) # EOF_FLAG => q = r
<1> DEFINE Twice(q, r) == /\ q \in Seq(Names) /\ r \in Seq(Names) /\ q # r
                          /\ Reached(ds, q) = Reached(ds, r) /\ Reached(ds, q) # EOF_FLAG
           Bad == {k \in Nat : \E q, r \in Seq(Names) : Len(q) = k /\ Twice(q, r)}
<1>1. Bad = {}
  <2> SUFFICES ASSUME Bad # {} PROVE FALSE
    OBVIOUS
  <2>1. PICK k \in Bad : \A j \in Nat : j < k => j \notin Bad
    BY LeastNumber
  <2>2. PICK q \in Seq(Names), r \in Seq(Names) : Len(q) = k /\ Twice(q, r)
    OBVIOUS
  <2>3. \A s \in Seq(Names) : s # <<>> /\ Reached(ds, s) # EOF_FLAG => Reached(ds, s) # Root
    <3> SUFFICES ASSUME NEW s \in Seq(Names), s # <<>>, Reached(ds, s) # EOF_FLAG
                 PROVE  Reached(ds, s) # Root
      OBVIOUS
    <3>1. PICK b, j : StepsDown(ds, s, b, j)
      BY PathStepsDown
    <3>2. /\ b \in DOMAIN ds /\ j \in 1 .. Slots /\ InUse(ds, b, j)
          /\ ds[b].slot[j].first = Reached(ds, s)
      BY <3>1 DEF StepsDown, NamesDirectory, Live
    <3>3. EntriesLead(ch, ds)
      BY DEF Shape
    <3>4. QED
      BY <3>2, <3>3 DEF EntriesLead, EntryLeads, Refused
  <2>4. Reached(ds, <<>>) = Root
    <3>1. <<>> \in Seq(Names)
      OBVIOUS
    <3>2. QED
      BY <3>1, ReachedStep
  <2>5. q # <<>> /\ r # <<>>
    BY <2>2, <2>3, <2>4
  <2>6. PICK b, j : StepsDown(ds, q, b, j)
    BY <2>2, <2>5, PathStepsDown
  <2>7. PICK c, i : StepsDown(ds, r, c, i)
    BY <2>2, <2>5, PathStepsDown
  <2>8. b = c /\ i = j
    <3>1. /\ b \in DOMAIN ds /\ j \in 1 .. Slots /\ InUse(ds, b, j)
          /\ ds[b].slot[j].first = Reached(ds, q)
      BY <2>6 DEF StepsDown, NamesDirectory, Live
    <3>2. /\ c \in DOMAIN ds /\ i \in 1 .. Slots /\ InUse(ds, c, i)
          /\ ds[c].slot[i].first = Reached(ds, q)
      BY <2>2, <2>7 DEF StepsDown, NamesDirectory, Live
    <3>3. NamedOnce(ds) /\ Reached(ds, q) # EOF_FLAG
      BY <2>2 DEF Shape
    <3>4. QED
      BY <3>1, <3>2, <3>3 DEF NamedOnce
  <2>9. /\ Last(q) = Last(r) /\ Reached(ds, Front(q)) = Reached(ds, Front(r))
        /\ Reached(ds, Front(q)) # EOF_FLAG
    BY <2>6, <2>7, <2>8 DEF StepsDown
  <2>10. /\ Front(q) \in Seq(Names) /\ Front(r) \in Seq(Names)
         /\ Len(Front(q)) = k - 1 /\ k \in Nat \ {0}
    BY <2>2, <2>5, FrontLast
  <2>11. k - 1 \notin Bad
    <3>1. k - 1 \in Nat /\ k - 1 < k
      BY <2>10
    <3> HIDE DEF Bad
    <3>2. QED
      BY <2>1, <3>1
  <2>12. Front(q) = Front(r)
    <3>1. k - 1 \in Nat
      BY <2>10
    <3>2. QED
      BY <2>9, <2>10, <2>11, <3>1
  <2>13. q = r
    BY <2>2, <2>5, <2>9, <2>12, FrontLastDetermine
  <2>14. QED
    BY <2>2, <2>13
<1>2. QED
  <2> SUFFICES ASSUME NEW q \in Seq(Names), NEW r \in Seq(Names), Twice(q, r) PROVE FALSE
    OBVIOUS
  <2>1. Len(q) \in Bad
    OBVIOUS
  <2>2. QED
    BY <1>1, <2>1
-----------------------------------------------------------------------------
\* bg is sm with the entry e in place i of d
Grown(sm, bg, d, i, e) ==
  /\ d \in Live(sm) /\ i \in 1 .. Slots
  /\ e.name \in Names /\ \A j \in 1 .. Slots : sm[d].slot[j].name # e.name
  /\ e.first \notin DOMAIN sm
  /\ DOMAIN bg = DOMAIN sm \cup (IF e.isDir /\ e.first # EOF_FLAG THEN {e.first} ELSE {})
  /\ \A b \in DOMAIN sm : bg[b].self = sm[b].self /\ bg[b].up = sm[b].up
  /\ \A b \in DOMAIN sm, j \in 1 .. Slots :
       IF b = d /\ j = i THEN bg[b].slot[j] = e ELSE bg[b].slot[j] = sm[b].slot[j]
  /\ ~InUse(sm, d, i)
  /\ e.isDir /\ e.first # EOF_FLAG => EmptyDirectory(bg, e.first)

\* the two directory trees are both in order
Both(f, ch, sm, g, ci, bg) == Shape(f, ch, sm) /\ Shape(g, ci, bg)

(* There is no directory at -1.                                            *)
LEMMA NoDirectoryThere ==
  ASSUME NEW f, NEW ch, NEW ds, Shape(f, ch, ds)
  PROVE  EOF_FLAG \notin DOMAIN ds
BY NamesApart DEF Shape, Typed, DirectoriesInPlace

(* In a directory that was there each name leads where it did, but for the *)
(* one that is new.                                                        *)
LEMMA GrownLookup ==
  ASSUME LongNames = {}, NEW f, NEW ch, NEW sm, NEW g, NEW ci, NEW bg,
         Both(f, ch, sm, g, ci, bg), NEW d, NEW i, NEW e, Grown(sm, bg, d, i, e),
         NEW b \in Live(sm), NEW n \in Names
  PROVE  /\ ~(b = d /\ n = e.name) => /\ Below(bg, b, n) = Below(sm, b, n)
                                      /\ KindIn(bg, b, n) = KindIn(sm, b, n)
         /\ b = d /\ n = e.name => /\ Below(sm, b, n) = EOF_FLAG
                                   /\ KindIn(sm, b, n) = "none"
                                   /\ Below(bg, b, n) = Leads(bg, e)
                                   /\ KindIn(bg, b, n) = IF e.isDir THEN "dir" ELSE "file"
<1>1. /\ b \in DOMAIN sm /\ b \in DOMAIN bg /\ b # EOF_FLAG
      /\ ShortNamesUnique(sm) /\ ShortNamesUnique(bg)
  <2>1. EOF_FLAG \notin DOMAIN sm
    BY NoDirectoryThere DEF Both
  <2>2. QED
    BY <2>1 DEF Both, Shape, Live, Grown
<1>2. ASSUME b = d, n = e.name
      PROVE  /\ Below(sm, b, n) = EOF_FLAG /\ KindIn(sm, b, n) = "none"
             /\ Below(bg, b, n) = Leads(bg, e)
             /\ KindIn(bg, b, n) = IF e.isDir THEN "dir" ELSE "file"
  <2>1. \A j \in 1 .. Slots : sm[b].slot[j].name # n
    BY <1>2 DEF Grown
  <2>2. Below(sm, b, n) = EOF_FLAG /\ KindIn(sm, b, n) = "none"
    BY <1>1, <2>1, NotFound
  <2>3. /\ i \in 1 .. Slots /\ bg[b].slot[i] = e /\ bg[b].slot[i].name = n
        /\ bg[b].slot[i].name \in Names /\ InUse(bg, b, i)
    BY <1>1, <1>2, NamesApart DEF Grown, InUse
  <2>4. /\ Below(bg, b, bg[b].slot[i].name) = Leads(bg, bg[b].slot[i])
        /\ KindIn(bg, b, bg[b].slot[i].name) = IF bg[b].slot[i].isDir THEN "dir" ELSE "file"
    BY <1>1, <2>3, FoundOnce
  <2>5. QED
    BY <2>2, <2>3, <2>4
<1>3. ASSUME ~(b = d /\ n = e.name), \A j \in 1 .. Slots : sm[b].slot[j].name # n
      PROVE  Below(bg, b, n) = Below(sm, b, n) /\ KindIn(bg, b, n) = KindIn(sm, b, n)
  <2>1. \A j \in 1 .. Slots : bg[b].slot[j].name # n
    BY <1>1, <1>3 DEF Grown
  <2>2. Below(sm, b, n) = EOF_FLAG /\ KindIn(sm, b, n) = "none"
    BY <1>1, <1>3, NotFound
  <2>3. Below(bg, b, n) = EOF_FLAG /\ KindIn(bg, b, n) = "none"
    BY <1>1, <2>1, NotFound
  <2>4. QED
    BY <2>2, <2>3
<1>4. ASSUME ~(b = d /\ n = e.name), NEW j \in 1 .. Slots, sm[b].slot[j].name = n
      PROVE  Below(bg, b, n) = Below(sm, b, n) /\ KindIn(bg, b, n) = KindIn(sm, b, n)
  <2>1. InUse(sm, b, j)
    BY <1>4, NamesApart DEF InUse
  <2>2. ~(b = d /\ j = i)
    BY <2>1 DEF Grown
  <2>3. bg[b].slot[j] = sm[b].slot[j] /\ bg[b].slot[j].name \in Names /\ InUse(bg, b, j)
    BY <1>1, <1>4, <2>1, <2>2 DEF Grown, InUse
  <2>4. /\ Below(sm, b, sm[b].slot[j].name) = Leads(sm, sm[b].slot[j])
        /\ KindIn(sm, b, sm[b].slot[j].name) = IF sm[b].slot[j].isDir THEN "dir" ELSE "file"
    BY <1>1, <1>4, <2>1, FoundOnce
  <2>5. /\ Below(bg, b, bg[b].slot[j].name) = Leads(bg, bg[b].slot[j])
        /\ KindIn(bg, b, bg[b].slot[j].name) = IF bg[b].slot[j].isDir THEN "dir" ELSE "file"
    BY <1>1, <2>3, FoundOnce
  <2>6. Leads(bg, bg[b].slot[j]) = Leads(sm, sm[b].slot[j])
    <3>1. EOF_FLAG \notin DOMAIN bg /\ EOF_FLAG \notin DOMAIN sm
      BY NoDirectoryThere DEF Both
    <3>2. DOMAIN sm \subseteq DOMAIN bg
      BY DEF Grown
    <3>3. sm[b].slot[j].isDir => sm[b].slot[j].first = EOF_FLAG \/ sm[b].slot[j].first \in DOMAIN sm
      BY <1>1, <2>1 DEF Both, Shape, EntriesLead, EntryLeads, Refused
    <3>4. QED
      BY <2>3, <3>1, <3>2, <3>3 DEF Leads
  <2>7. QED
    BY <1>4, <2>3, <2>4, <2>5, <2>6
<1>5. QED
  BY <1>2, <1>3, <1>4

\* q is the path of the new entry
NewPath(sm, d, e, q) == q # <<>> /\ Reached(sm, Front(q)) = d /\ Last(q) = e.name

(* A path of names leads where it did, but for the one that is new.        *)
LEMMA GrownReach ==
  ASSUME LongNames = {}, NEW f, NEW ch, NEW sm, NEW g, NEW ci, NEW bg,
         Both(f, ch, sm, g, ci, bg), NEW d, NEW i, NEW e, Grown(sm, bg, d, i, e)
  PROVE  \A q \in Seq(Names) :
           /\ NewPath(sm, d, e, q) => Reached(sm, q) = EOF_FLAG
           /\ Reached(bg, q) = IF NewPath(sm, d, e, q) THEN Leads(bg, e) ELSE Reached(sm, q)
<1> DEFINE Ok(q) == /\ NewPath(sm, d, e, q) => Reached(sm, q) = EOF_FLAG
                    /\ Reached(bg, q) = IF NewPath(sm, d, e, q) THEN Leads(bg, e) ELSE Reached(sm, q)
           Bad == {k \in Nat : \E q \in Seq(Names) : Len(q) = k /\ ~Ok(q)}
<1>1. Shape(f, ch, sm) /\ Shape(g, ci, bg)
  BY DEF Both
<1>2. d \in Live(sm) /\ d # EOF_FLAG
  BY <1>1, NoDirectoryThere DEF Grown, Live
<1>3. Ok(<<>>)
  <2>1. <<>> \in Seq(Names)
    OBVIOUS
  <2>2. Reached(sm, <<>>) = Root /\ Reached(bg, <<>>) = Root
    BY <2>1, ReachedStep
  <2>3. QED
    BY <2>2 DEF NewPath
<1>4. ASSUME NEW q \in Seq(Names), q # <<>>, Ok(Front(q)) PROVE Ok(q)
  <2> DEFINE u == Front(q)
             n == Last(q)
  <2>1. /\ u \in Seq(Names) /\ n \in Names /\ u \in Seq(Component) /\ q \in Seq(Component)
    BY <1>4, NamesAreComponents
  <2>2. /\ Reached(sm, q) = Below(sm, Reached(sm, u), n)
        /\ Reached(bg, q) = Below(bg, Reached(bg, u), n)
    BY <1>4, <2>1, ReachedStep
  <2>3. CASE NewPath(sm, d, e, u)
    <3>1. Reached(sm, u) = EOF_FLAG /\ Reached(bg, u) = Leads(bg, e)
      BY <1>4, <2>3
    <3>2. Reached(sm, q) = EOF_FLAG /\ ~NewPath(sm, d, e, q)
      BY <1>2, <2>2, <3>1 DEF Below, NewPath
    <3>3. Reached(bg, q) = EOF_FLAG
      <4>1. CASE Leads(bg, e) = EOF_FLAG
        BY <2>2, <3>1, <4>1 DEF Below
      <4>2. CASE Leads(bg, e) # EOF_FLAG
        <5>1. Leads(bg, e) = e.first /\ EmptyDirectory(bg, e.first) /\ e.first # EOF_FLAG
          BY <4>2 DEF Leads, Grown
        <5>2. \A j \in 1 .. Slots : bg[e.first].slot[j].name # n
          BY <2>1, <5>1, NamesApart DEF EmptyDirectory, InUse
        <5>3. Below(bg, e.first, n) = EOF_FLAG
          BY <2>1, <5>1, <5>2, NotFound
        <5>4. QED
          BY <2>2, <3>1, <5>1, <5>3
      <4>3. QED
        BY <4>1, <4>2
    <3>4. QED
      BY <3>2, <3>3
  <2>4. CASE ~NewPath(sm, d, e, u)
    <3> DEFINE b == Reached(sm, u)
    <3>1. Reached(bg, u) = b
      BY <1>4, <2>4
    <3>2. CASE b = EOF_FLAG
      <4>1. Reached(sm, q) = EOF_FLAG /\ Reached(bg, q) = EOF_FLAG
        BY <2>2, <3>1, <3>2 DEF Below
      <4>2. ~NewPath(sm, d, e, q)
        BY <1>2, <3>2 DEF NewPath
      <4>3. QED
        BY <4>1, <4>2
    <3>3. CASE b # EOF_FLAG
      <4>1. b \in Live(sm)
        BY <1>1, <2>1, <3>3, ReachedIsLive
      <4>2. NewPath(sm, d, e, q) <=> b = d /\ n = e.name
        BY <1>4 DEF NewPath
      <4> HIDE DEF b, n, u
      <4>3. /\ ~(b = d /\ n = e.name) => Below(bg, b, n) = Below(sm, b, n)
            /\ b = d /\ n = e.name => Below(sm, b, n) = EOF_FLAG /\ Below(bg, b, n) = Leads(bg, e)
        BY <2>1, <4>1, GrownLookup
      <4>4. Reached(sm, q) = Below(sm, b, n) /\ Reached(bg, q) = Below(bg, b, n)
        BY <2>2, <3>1 DEF b, n, u
      <4>5. QED
        BY <4>2, <4>3, <4>4
    <3>4. QED
      BY <3>2, <3>3
  <2>5. QED
    BY <2>3, <2>4
<1>5. Bad = {}
  <2> SUFFICES ASSUME Bad # {} PROVE FALSE
    OBVIOUS
  <2>1. PICK k \in Bad : \A j \in Nat : j < k => j \notin Bad
    BY LeastNumber
  <2>2. PICK q \in Seq(Names) : Len(q) = k /\ ~Ok(q)
    OBVIOUS
  <2>3. q # <<>>
    BY <1>3, <2>2
  <2>4. Front(q) \in Seq(Names) /\ Len(Front(q)) = k - 1 /\ k \in Nat \ {0}
    BY <2>2, <2>3, FrontLast
  <2>5. k - 1 \notin Bad /\ k - 1 \in Nat
    <3>1. k - 1 \in Nat /\ k - 1 < k
      BY <2>4
    <3> HIDE DEF Bad
    <3>2. QED
      BY <2>1, <3>1
  <2>6. Ok(Front(q))
    <3> HIDE DEF Ok
    <3>1. QED
      BY <2>4, <2>5
  <2> HIDE DEF Ok
  <2>7. QED
    BY <1>4, <2>2, <2>3, <2>6
<1>6. QED
  <2> SUFFICES ASSUME NEW q \in Seq(Names), ~Ok(q) PROVE FALSE
    OBVIOUS
  <2> HIDE DEF Ok
  <2>1. Len(q) \in Bad
    OBVIOUS
  <2>2. QED
    BY <1>5, <2>1
-----------------------------------------------------------------------------
(* What is at a path is told by the directory before its last component.   *)
LEMMA KindIs ==
  ASSUME NEW ds, NEW q
  PROVE  /\ q = <<>> => KindOf(ds, q) = "dir"
         /\ q # <<>> => KindOf(ds, q) = IF Reached(ds, Front(q)) = EOF_FLAG THEN "none"
                                        ELSE KindIn(ds, Reached(ds, Front(q)), Last(q))
<1>1. ASSUME q = <<>> PROVE KindOf(ds, q) = "dir"
  <2>1. Position(ds, Root, Dot) = 0
    BY NamesApart DEF Position
  <2>2. EntryAt(ds, Root, 0) = Entry(Dot, ds[Root].self, TRUE)
    BY DEF EntryAt
  <2>3. InDirectory(ds, Root, Dot).index = 0 /\ InDirectory(ds, Root, Dot).element.isDir
    BY <2>1, <2>2 DEF InDirectory, Entry
  <2>4. QED
    BY <1>1, <2>3 DEF KindOf, Kind, parsePath
<1>2. ASSUME q # <<>>, Reached(ds, Front(q)) = EOF_FLAG PROVE KindOf(ds, q) = "none"
  BY <1>2 DEF KindOf, Kind, parsePath, NotValid
<1>3. ASSUME q # <<>>, Reached(ds, Front(q)) # EOF_FLAG
      PROVE  KindOf(ds, q) = KindIn(ds, Reached(ds, Front(q)), Last(q))
  BY <1>3 DEF KindOf, KindIn, parsePath
<1>4. QED
  BY <1>1, <1>2, <1>3

(* What can be entered by its names is a directory. *)
LEMMA ReachedIsDir ==
  ASSUME LongNames = {}, NEW f, NEW ch, NEW ds, Shape(f, ch, ds),
         NEW q \in Seq(Names), Reached(ds, q) # EOF_FLAG
  PROVE  KindOf(ds, q) = "dir"
<1>1. CASE q = <<>>
  BY <1>1, KindIs
<1>2. CASE q # <<>>
  <2>1. PICK b, j : StepsDown(ds, q, b, j)
    BY <1>2, PathStepsDown
  <2>2. /\ b \in DOMAIN ds /\ b # EOF_FLAG /\ j \in 1 .. Slots /\ InUse(ds, b, j)
        /\ ds[b].slot[j].isDir /\ ds[b].slot[j].name = Last(q) /\ Last(q) \in Names
        /\ b = Reached(ds, Front(q))
    BY <1>2, <2>1, NamesAreComponents DEF StepsDown, NamesDirectory, Live
  <2>3. ShortNamesUnique(ds)
    BY DEF Shape
  <2>4. KindIn(ds, b, ds[b].slot[j].name) = IF ds[b].slot[j].isDir THEN "dir" ELSE "file"
    BY <2>2, <2>3, FoundOnce
  <2>5. KindIn(ds, b, Last(q)) = "dir"
    BY <2>2, <2>4
  <2>6. QED
    BY <1>2, <2>2, <2>5, KindIs
<1>3. QED
  BY <1>1, <1>2

(* With one entry more there is something at exactly one more path.        *)
LEMMA GrownKind ==
  ASSUME LongNames = {}, NEW f, NEW ch, NEW sm, NEW g, NEW ci, NEW bg,
         Both(f, ch, sm, g, ci, bg), NEW d, NEW i, NEW e, Grown(sm, bg, d, i, e),
         NEW q \in Seq(Names)
  PROVE  /\ NewPath(sm, d, e, q) => /\ KindOf(sm, q) = "none"
                                    /\ KindOf(bg, q) = IF e.isDir THEN "dir" ELSE "file"
         /\ ~NewPath(sm, d, e, q) => KindOf(bg, q) = KindOf(sm, q)
<1>1. CASE q = <<>>
  BY <1>1, KindIs DEF NewPath
<1>2. CASE q # <<>>
  <2> DEFINE u == Front(q)
             n == Last(q)
             b == Reached(sm, u)
  <2>1. /\ u \in Seq(Names) /\ n \in Names /\ u \in Seq(Component)
    BY <1>2, NamesAreComponents
  <2>2. Shape(f, ch, sm) /\ d # EOF_FLAG /\ d \in Live(sm)
    BY NoDirectoryThere DEF Both, Grown, Live
  <2>3. NewPath(sm, d, e, q) <=> b = d /\ n = e.name
    BY <1>2 DEF NewPath
  <2>4. /\ NewPath(sm, d, e, u) => Reached(sm, u) = EOF_FLAG
        /\ Reached(bg, u) = IF NewPath(sm, d, e, u) THEN Leads(bg, e) ELSE Reached(sm, u)
    BY <2>1, GrownReach
  <2>5. /\ KindOf(sm, q) = IF b = EOF_FLAG THEN "none" ELSE KindIn(sm, b, n)
        /\ KindOf(bg, q) = IF Reached(bg, u) = EOF_FLAG THEN "none" ELSE KindIn(bg, Reached(bg, u), n)
    BY <1>2, KindIs
  <2>6. CASE NewPath(sm, d, e, u)
    <3>1. b = EOF_FLAG /\ Reached(bg, u) = Leads(bg, e)
      BY <2>4, <2>6
    <3>2. KindOf(sm, q) = "none" /\ ~NewPath(sm, d, e, q)
      BY <2>2, <2>3, <2>5, <3>1
    <3>3. KindOf(bg, q) = "none"
      <4>1. CASE Leads(bg, e) = EOF_FLAG
        BY <2>5, <3>1, <4>1
      <4>2. CASE Leads(bg, e) # EOF_FLAG
        <5>1. Leads(bg, e) = e.first /\ EmptyDirectory(bg, e.first) /\ e.first # EOF_FLAG
          BY <4>2 DEF Leads, Grown
        <5>2. \A j \in 1 .. Slots : bg[e.first].slot[j].name # n
          BY <2>1, <5>1, NamesApart DEF EmptyDirectory, InUse
        <5>3. KindIn(bg, e.first, n) = "none"
          BY <2>1, <5>1, <5>2, NotFound
        <5>4. QED
          BY <2>5, <3>1, <5>1, <5>3
      <4>3. QED
        BY <4>1, <4>2
    <3>4. QED
      BY <3>2, <3>3
  <2>7. CASE ~NewPath(sm, d, e, u)
    <3>1. Reached(bg, u) = b
      BY <2>4, <2>7
    <3>2. CASE b = EOF_FLAG
      BY <2>2, <2>3, <2>5, <3>1, <3>2
    <3>3. CASE b # EOF_FLAG
      <4>1. b \in Live(sm)
        BY <2>1, <2>2, <3>3, ReachedIsLive
      <4>2. KindOf(sm, q) = KindIn(sm, b, n) /\ KindOf(bg, q) = KindIn(bg, b, n)
        BY <2>5, <3>1, <3>3
      <4> HIDE DEF b, n, u
      <4>3. /\ ~(b = d /\ n = e.name) => KindIn(bg, b, n) = KindIn(sm, b, n)
            /\ b = d /\ n = e.name => /\ KindIn(sm, b, n) = "none"
                                      /\ KindIn(bg, b, n) = IF e.isDir THEN "dir" ELSE "file"
        BY <2>1, <4>1, GrownLookup
      <4>4. QED
        BY <2>3, <4>2, <4>3
    <3>4. QED
      BY <3>2, <3>3
  <2>8. QED
    BY <2>6, <2>7
<1>3. QED
  BY <1>1, <1>2

(* With a path its front is among the paths of bounded depth.              *)
LEMMA NamePathsAre ==
  /\ \A q \in NamePaths : q \in Seq(Names)
  /\ <<>> \in NamePaths
  /\ \A q \in NamePaths : q # <<>> => Front(q) \in NamePaths
<1>1. MaxDepth \in Nat
  BY DirectoryAssumption
<1>2. \A q : q \in NamePaths <=> \E k \in 0 .. MaxDepth : q \in [1 .. k -> Names]
  BY DEF NamePaths
<1>3. \A q : q \in NamePaths <=> q \in Seq(Names) /\ Len(q) <= MaxDepth
  <2>1. ASSUME NEW k \in 0 .. MaxDepth, NEW q \in [1 .. k -> Names]
        PROVE  q \in Seq(Names) /\ Len(q) <= MaxDepth
    <3>1. q \in Seq(Names)
      BY <1>1, SeqDef
    <3>2. Len(q) = k
      BY <1>1, <3>1, LenProperties
    <3>3. QED
      BY <1>1, <3>1, <3>2
  <2>2. ASSUME NEW q \in Seq(Names), Len(q) <= MaxDepth
        PROVE  Len(q) \in 0 .. MaxDepth /\ q \in [1 .. Len(q) -> Names]
    BY <1>1, <2>2, LenProperties
  <2>3. QED
    BY <1>2, <2>1, <2>2
<1>4. <<>> \in Seq(Names) /\ Len(<<>>) = 0
  OBVIOUS
<1>5. \A q \in NamePaths : q # <<>> => Front(q) \in NamePaths
  <2> SUFFICES ASSUME NEW q \in Seq(Names), Len(q) <= MaxDepth, q # <<>>
               PROVE  Front(q) \in Seq(Names) /\ Len(Front(q)) <= MaxDepth
    BY <1>3
  <2>1. Front(q) \in Seq(Names) /\ Len(Front(q)) = Len(q) - 1 /\ Len(q) \in Nat
    BY FrontLast
  <2>2. QED
    BY <1>1, <2>1
<1>6. <<>> \in NamePaths
  <2>1. Len(<<>>) <= MaxDepth
    BY <1>1, <1>4
  <2>2. QED
    BY <1>3, <1>4, <2>1
<1>7. \A q \in NamePaths : q \in Seq(Names)
  BY <1>3
<1>8. QED
  BY <1>5, <1>6, <1>7

Node(ds, q) == [path |-> q, kind |-> KindOf(ds, q)]

(* TreeOf has the node of each path at which there is something.           *)
LEMMA TreeIs ==
  ASSUME NEW ds
  PROVE  /\ \A x \in TreeOf(ds) : /\ x.path \in NamePaths /\ x = Node(ds, x.path)
                                  /\ KindOf(ds, x.path) # "none" /\ x.kind = KindOf(ds, x.path)
         /\ \A q \in NamePaths : KindOf(ds, q) # "none" => Node(ds, q) \in TreeOf(ds)
         /\ \A q : Node(ds, q).path = q /\ Node(ds, q).kind = KindOf(ds, q)
<1>1. \A x \in TreeOf(ds) : /\ x.path \in NamePaths /\ x = Node(ds, x.path)
                            /\ KindOf(ds, x.path) # "none" /\ x.kind = KindOf(ds, x.path)
  <2> SUFFICES ASSUME NEW q \in NamePaths, Kind(parsePath(ds, q)) # "none",
                      NEW x, x = [path |-> q, kind |-> Kind(parsePath(ds, q))]
               PROVE  /\ x.path \in NamePaths /\ x = Node(ds, x.path)
                      /\ KindOf(ds, x.path) # "none" /\ x.kind = KindOf(ds, x.path)
    BY DEF TreeOf
  <2>1. x.path = q /\ x.kind = KindOf(ds, q)
    BY DEF KindOf
  <2>2. QED
    BY <2>1 DEF Node, KindOf
<1>2. \A q \in NamePaths : KindOf(ds, q) # "none" => Node(ds, q) \in TreeOf(ds)
  BY DEF TreeOf, Node, KindOf
<1>3. \A q : Node(ds, q).path = q /\ Node(ds, q).kind = KindOf(ds, q)
  BY DEF Node
<1>4. QED
  BY <1>1, <1>2, <1>3

(* NameTree's operators are those used here.                               *)
LEMMA SameOperators ==
  /\ \A x, y : Abstract!Above(x, y) <=> x.path # <<>> /\ y.path = Front(x.path)
  /\ \A q : Abstract!Last(q) = Last(q)
BY DEF Abstract!Above, Abstract!Front, Abstract!Last, Front, Last

(* With a new entry the tree has one name more, under a directory that was *)
(* there, or stays as it was when the entry is below what it shows.        *)
LEMMA GrownTree ==
  ASSUME LongNames = {}, NEW f, NEW ch, NEW sm, NEW g, NEW ci, NEW bg,
         Both(f, ch, sm, g, ci, bg), NEW d, NEW i, NEW e, Grown(sm, bg, d, i, e)
  PROVE  \/ TreeOf(bg) = TreeOf(sm)
         \/ Abstract!Added(TreeOf(sm), TreeOf(bg)) /\ Abstract!Removed(TreeOf(bg), TreeOf(sm))
<1>1. Shape(f, ch, sm) /\ d \in Live(sm) /\ d # EOF_FLAG
  BY NoDirectoryThere DEF Both, Grown, Live
<1>2. \A q \in NamePaths : q \in Seq(Names)
  BY NamePathsAre
<1>3. \A q \in Seq(Names) :
        /\ NewPath(sm, d, e, q) => /\ KindOf(sm, q) = "none"
                                   /\ KindOf(bg, q) = IF e.isDir THEN "dir" ELSE "file"
        /\ ~NewPath(sm, d, e, q) => KindOf(bg, q) = KindOf(sm, q)
  BY GrownKind
<1>4. \A q \in NamePaths : ~NewPath(sm, d, e, q) => Node(bg, q) = Node(sm, q)
  BY <1>2, <1>3 DEF Node
<1>5. ASSUME \A q \in NamePaths : ~NewPath(sm, d, e, q) PROVE TreeOf(bg) = TreeOf(sm)
  <2>1. \A q \in NamePaths : KindOf(bg, q) = KindOf(sm, q) /\ Node(bg, q) = Node(sm, q)
    BY <1>2, <1>3, <1>4, <1>5
  <2>2. ASSUME NEW x \in TreeOf(bg) PROVE x \in TreeOf(sm)
    BY <2>1, TreeIs
  <2>3. ASSUME NEW x \in TreeOf(sm) PROVE x \in TreeOf(bg)
    BY <2>1, TreeIs
  <2>4. QED
    BY <2>2, <2>3
<1>6. ASSUME NEW q \in NamePaths, NewPath(sm, d, e, q)
      PROVE  /\ Abstract!Added(TreeOf(sm), TreeOf(bg))
             /\ Abstract!Removed(TreeOf(bg), TreeOf(sm))
  <2> DEFINE t == TreeOf(sm)
             u == TreeOf(bg)
             x == Node(bg, q)
             y == Node(sm, Front(q))
  <2>1. /\ q # <<>> /\ Reached(sm, Front(q)) = d /\ Last(q) = e.name
        /\ q \in Seq(Names) /\ Front(q) \in Seq(Names) /\ Front(q) \in NamePaths
        /\ Last(q) \in Names
    BY <1>2, <1>6, NamePathsAre, NamesAreComponents DEF NewPath
  <2>2. \A r \in NamePaths : r # q => ~NewPath(sm, d, e, r)
    <3> SUFFICES ASSUME NEW r \in NamePaths, NewPath(sm, d, e, r) PROVE r = q
      OBVIOUS
    <3>1. /\ r # <<>> /\ Reached(sm, Front(r)) = d /\ Last(r) = e.name
          /\ r \in Seq(Names) /\ Front(r) \in Seq(Names)
      BY <1>2, NamePathsAre DEF NewPath
    <3>2. Front(r) = Front(q)
      BY <1>1, <2>1, <3>1, NamePathIsOnly
    <3>3. QED
      BY <2>1, <3>1, <3>2, FrontLastDetermine
  <2>3. KindOf(sm, q) = "none" /\ KindOf(bg, q) # "none"
    BY <1>3, <1>6, <2>1
  <2>4. x \in u /\ x \notin t /\ x.path = q
    BY <2>3, TreeIs
  <2>5. \A z \in t : z.path # q
    BY <2>3, TreeIs
  <2>6. \A r \in NamePaths : r # q => KindOf(bg, r) = KindOf(sm, r) /\ Node(bg, r) = Node(sm, r)
    BY <1>2, <1>3, <1>4, <2>2
  <2>7. \A z \in u : z = x \/ z \in t
    <3> SUFFICES ASSUME NEW z \in u, z # x PROVE z \in t
      OBVIOUS
    <3>1. z.path \in NamePaths /\ z = Node(bg, z.path) /\ KindOf(bg, z.path) # "none"
      BY TreeIs
    <3>2. z.path # q
      BY <3>1
    <3>3. QED
      BY <2>6, <3>1, <3>2, TreeIs
  <2>8. \A z \in t : z \in u
    <3> SUFFICES ASSUME NEW z \in t PROVE z \in u
      OBVIOUS
    <3>1. z.path \in NamePaths /\ z = Node(sm, z.path) /\ KindOf(sm, z.path) # "none"
      BY TreeIs
    <3>2. z.path # q
      BY <2>3, <3>1
    <3>3. QED
      BY <2>6, <3>1, <3>2, TreeIs
  <2>9. y \in t /\ y.path = Front(q) /\ y.kind = "dir"
    <3>1. KindOf(sm, Front(q)) = "dir"
      BY <1>1, <2>1, ReachedIsDir
    <3>2. /\ Node(sm, Front(q)).path = Front(q)
          /\ Node(sm, Front(q)).kind = KindOf(sm, Front(q))
      BY DEF Node
    <3>3. Node(sm, Front(q)) \in t
      <4> HIDE DEF y
      <4>1. KindOf(sm, Front(q)) # "none"
        BY <3>1
      <4>2. QED
        BY <2>1, <4>1, TreeIs
    <3>4. QED
      BY <3>1, <3>2, <3>3
  <2>10. \A z \in t : z.path # <<>> => Front(z.path) # q
    <3> SUFFICES ASSUME NEW z \in t, z.path # <<>>, Front(z.path) = q PROVE FALSE
      OBVIOUS
    <3>1. z.path \in NamePaths /\ KindOf(sm, z.path) # "none"
      BY TreeIs
    <3>2. Reached(sm, q) = EOF_FLAG
      BY <1>6, <2>1, GrownReach
    <3>3. QED
      BY <3>1, <3>2, KindIs
  <2> HIDE DEF t, u, x, y
  <2>11. u = t \cup {x} /\ t = u \ {x}
    BY <2>4, <2>7, <2>8
  <2>12. Abstract!Added(t, u)
    <3>1. Abstract!Above(x, y)
      BY <2>1, <2>4, <2>9, SameOperators
    <3>2. x \in u \ t
      BY <2>4
    <3>3. QED
      BY <2>1, <2>4, <2>5, <2>9, <2>11, <3>1, <3>2, SameOperators DEF Abstract!Added
  <2>13. Abstract!Removed(u, t)
    <3>1. \A z \in t : ~Abstract!Above(z, x)
      BY <2>4, <2>10, SameOperators
    <3>2. x \in u \ t
      BY <2>4
    <3>3. QED
      BY <2>1, <2>4, <2>11, <3>1, <3>2 DEF Abstract!Removed
  <2>14. QED
    BY <2>12, <2>13 DEF t, u
<1>7. QED
  BY <1>5, <1>6
-----------------------------------------------------------------------------
(* Adding an entry at a free place grows the volume by it.                 *)
LEMMA GrownByAdding ==
  ASSUME LongNames = {}, NEW f, NEW ch, NEW sm, Shape(f, ch, sm), NEW bg,
         NEW d, NEW i, NEW e, Place(sm, d, i, e.name), EntryAdded(sm, bg, d, i, e),
         e.first \notin DOMAIN sm
  PROVE  Grown(sm, bg, d, i, e)
<1>1. /\ d \in Live(sm) /\ i \in 1 .. Slots /\ ~InUse(sm, d, i) /\ e.name \in Names
  BY DEF Place
<1>2. \A j \in 1 .. Slots : sm[d].slot[j].name # e.name
  BY MatchesByName DEF Place
<1>3. /\ \A b \in DOMAIN sm : bg[b].self = sm[b].self /\ bg[b].up = sm[b].up
      /\ \A b \in DOMAIN sm, j \in 1 .. Slots :
           IF b = d /\ j = i THEN bg[b].slot[j] = e ELSE bg[b].slot[j] = sm[b].slot[j]
  BY DEF EntryAdded
<1>4. /\ DOMAIN bg = DOMAIN sm \cup (IF e.isDir /\ e.first # EOF_FLAG THEN {e.first} ELSE {})
      /\ e.isDir /\ e.first # EOF_FLAG => EmptyDirectory(bg, e.first)
  BY DEF EntryAdded
<1>5. QED
  BY <1>1, <1>2, <1>3, <1>4 DEF Grown

(* Removing one is the same, seen from the other side.                     *)
LEMMA GrownByRemoving ==
  ASSUME LongNames = {}, NEW f, NEW ch, NEW bg, Shape(f, ch, bg), NEW sm,
         NEW d, NEW i, NEW c, Removable(bg, d, i, c), EntryRemoved(bg, sm, d, i, c)
  PROVE  Grown(sm, bg, d, i, bg[d].slot[i])
<1> DEFINE e == bg[d].slot[i]
<1>1. /\ d \in DOMAIN bg /\ i \in 1 .. Slots /\ InUse(bg, d, i) /\ e.first = c /\ c # EOF_FLAG
      /\ e.isDir => EmptyDirectory(bg, c)
  BY DEF Removable, Live
<1>2. /\ DOMAIN sm = DOMAIN bg \ {c}
      /\ \A b \in DOMAIN sm : sm[b].self = bg[b].self /\ sm[b].up = bg[b].up
      /\ \A b \in DOMAIN sm, j \in 1 .. Slots :
           sm[b].slot[j] = IF b = d /\ j = i THEN Unused ELSE bg[b].slot[j]
  BY DEF EntryRemoved
<1> HIDE DEF e
<1>3. EntryLeads(ch, bg, d, e)
  BY <1>1 DEF Shape, EntriesLead, Refused, e
<1>4. e.isDir <=> c \in DOMAIN bg
  BY <1>1, <1>3 DEF EntryLeads
<1>5. c # Root /\ d # c /\ d \in DOMAIN sm
  BY <1>1, <1>2, <1>3, <1>4 DEF EntryLeads, EmptyDirectory
<1>6. d \in Live(sm)
  <2>1. CASE d = Root
    BY <1>5, <2>1 DEF Live
  <2>2. CASE d # Root
    <3>1. PICK b \in DOMAIN bg, j \in 1 .. Slots : NamesDirectory(bg, b, j, d)
      BY <2>2 DEF Removable, Live
    <3>2. b # c
      BY <1>1, <1>4, <3>1 DEF EmptyDirectory, NamesDirectory
    <3>3. ~(b = d /\ j = i)
      BY <1>1, <1>5, <3>1 DEF NamesDirectory, e
    <3>4. b \in DOMAIN sm /\ NamesDirectory(sm, b, j, d)
      BY <1>2, <3>1, <3>2, <3>3 DEF NamesDirectory, InUse
    <3>5. QED
      BY <1>5, <3>4 DEF Live
  <2>3. QED
    BY <2>1, <2>2
<1>7. e.name \in Names /\ e.name # NoName
  BY <1>1 DEF InUse, Shape, Typed, DirRecord, SlotRecord, e
<1>8. ~InUse(sm, d, i)
  BY <1>1, <1>2, <1>5 DEF InUse, Unused
<1>9. \A j \in 1 .. Slots : sm[d].slot[j].name # e.name
  <2> SUFFICES ASSUME NEW j \in 1 .. Slots, sm[d].slot[j].name = e.name PROVE FALSE
    OBVIOUS
  <2>1. j # i
    BY <1>7, <1>8 DEF InUse
  <2>2. bg[d].slot[j].name = bg[d].slot[i].name /\ InUse(bg, d, j)
    BY <1>2, <1>5, <1>7, <2>1 DEF InUse, e
  <2>3. QED
    BY <1>1, <2>1, <2>2 DEF Shape, ShortNamesUnique
<1>10. DOMAIN bg = DOMAIN sm \cup (IF e.isDir /\ e.first # EOF_FLAG THEN {e.first} ELSE {})
  BY <1>1, <1>2, <1>4 DEF e
<1>11. \A b \in DOMAIN sm, j \in 1 .. Slots :
         IF b = d /\ j = i THEN bg[b].slot[j] = e ELSE bg[b].slot[j] = sm[b].slot[j]
  BY <1>2 DEF e
<1>12. \A b \in DOMAIN sm : bg[b].self = sm[b].self /\ bg[b].up = sm[b].up
  BY <1>2
<1>13. e.first \notin DOMAIN sm /\ (e.isDir /\ e.first # EOF_FLAG => EmptyDirectory(bg, e.first))
  BY <1>1, <1>2 DEF e
<1>14. Grown(sm, bg, d, i, e)
  BY <1>1, <1>6, <1>7, <1>8, <1>9, <1>10, <1>11, <1>12, <1>13 DEF Grown
<1>15. QED
  BY <1>14 DEF e

(* A chain that alloc gives is no directory's and no entry names it.       *)
LEMMA AllocIsUnwritten ==
  ASSUME NEW f, NEW ch, NEW ds, Shape(f, ch, ds), NEW n \in Nat \ {0}, Store!Grants(f, n)
  PROVE  Unwritten(ds, f[1]) /\ f[1] \notin DOMAIN ds
BY TakeKeeps DEF Unwritten, Fresh

\* fs_mkdir has put the entry e into d, under the name it was asked for
Made(ds, nd, d, i, e, p) ==
  /\ Grown(ds, nd, d, i, e) /\ e.isDir /\ e.name = Last(FullPath(p))
  /\ FullPath(p) \in Seq(Component) /\ FullPath(p) # <<>>
  /\ d = Reached(ds, Front(FullPath(p)))

(* fs_mkdir, when it makes one, is a growth by one entry.                  *)
LEMMA MkdirGrows ==
  ASSUME LongNames = {}, Sound, NEW p \in Paths, fs_mkdir(p)
  PROVE  \E d, i, e : Made(dirs, dirs', d, i, e, p)
<1> DEFINE h == Parsed(p)
           d == h.parent
           i == FirstUnused(d)
           n == Last(p.comps)
           c == Alloc(DirClusters)
           e == Entry(n, c, TRUE)
<1>1. /\ h.index = -1 /\ UnusedSlots(d) # {}
      /\ dirs' = WithDirectory(EntrySet(dirs, d, i, e), d, c)
  BY DEF fs_mkdir, WithEntry, EntrySet
<1>2. Place(dirs, d, i, n)
  BY <1>1, PlaceIs
<1>3. Shape(free, chain, dirs)
  BY DEF Sound
<1>4. DirClusters \in Nat \ {0}
  BY DirectoryAssumption
<1>5. e.first = c /\ e.isDir /\ e.name = n /\ DirectoryEntry(e, n, c)
  BY DEF Entry, DirectoryEntry
<1>6. Unwritten(dirs, c) /\ c \notin DOMAIN dirs
  <2>1. CASE Store!Grants(free, DirClusters)
    BY <1>3, <1>4, <2>1, AllocIsUnwritten DEF Alloc
  <2>2. CASE ~Store!Grants(free, DirClusters)
    BY <1>3, <2>2, NoDirectoryThere DEF Alloc, Unwritten
  <2>3. QED
    BY <2>1, <2>2
<1>7. /\ FullPath(p) \in Seq(Component) /\ FullPath(p) # <<>>
      /\ n = Last(FullPath(p)) /\ d = Reached(dirs, Front(FullPath(p)))
  <2>1. /\ FullPath(p) \in Seq(Component)
        /\ FullPath(p) # <<>> => Last(FullPath(p)) = n
    BY FullPathIs DEF Sound
  <2>2. h = parsePath(dirs, FullPath(p))
    BY DEF Parsed
  <2> HIDE DEF h
  <2>3. Found(dirs, FullPath(p), h)
    BY <1>1, <1>3, <2>1, <2>2, ParsedIs
  <2>4. QED
    BY <2>1, <2>3 DEF Found
<1> HIDE DEF h, i, n, c, e
<1>8. EntryAdded(dirs, dirs', d, i, e)
  BY <1>1, <1>2, <1>3, <1>5, <1>6, MkdirAdds
<1>9. Grown(dirs, dirs', d, i, e)
  BY <1>2, <1>3, <1>5, <1>6, <1>8, GrownByAdding
<1>10. QED
  BY <1>5, <1>7, <1>9 DEF Made

(* The creation of a file is a growth by one entry.                        *)
LEMMA NewFileGrows ==
  ASSUME LongNames = {}, Sound, NEW p \in Paths, CallNewFile(p)
  PROVE  \E d, i, e : Grown(dirs, dirs', d, i, e)
<1> DEFINE h == Parsed(p)
           d == h.parent
           i == FirstUnused(d)
           n == Last(p.comps)
           c == Alloc(1)
           e == Entry(n, c, FALSE)
<1>1. /\ h.index = -1 /\ UnusedSlots(d) # {} /\ Store!Grants(free, 1)
      /\ dirs' = EntrySet(dirs, d, i, e)
  BY DEF CallNewFile, NewFile, WithEntry, EntrySet
<1>2. Place(dirs, d, i, n)
  BY <1>1, PlaceIs
<1>3. Shape(free, chain, dirs)
  BY DEF Sound
<1>4. e.first = c /\ e.name = n /\ FileEntry(e, n, c)
  BY DEF Entry, FileEntry
<1>5. Unwritten(dirs, c) /\ c \notin DOMAIN dirs
  <2> DEFINE k == 1
  <2>1. k \in Nat \ {0} /\ Store!Grants(free, k) /\ c = free[1]
    BY <1>1 DEF Alloc
  <2> HIDE DEF k, c
  <2>2. QED
    BY <1>3, <2>1, AllocIsUnwritten
<1> HIDE DEF h, i, n, c, e
<1>6. EntryAdded(dirs, dirs', d, i, e)
  BY <1>1, <1>2, <1>3, <1>4, <1>5, FileAdds
<1>7. Grown(dirs, dirs', d, i, e)
  BY <1>2, <1>3, <1>4, <1>5, <1>6, GrownByAdding
<1>8. QED
  BY <1>7

(* A removal is the opposite of a growth by one entry.                     *)
LEMMA RemovalShrinks ==
  ASSUME LongNames = {}, IInv, NEW p \in Paths, cmd_rm(p)
  PROVE  \E d, i, e : Grown(dirs', dirs, d, i, e)
<1> DEFINE h == Parsed(p)
           d == h.parent
           i == h.index - 1
           c == h.element.first
<1>1. Shape(free, chain, dirs) /\ Sound /\ rootStart = Root
  BY DEF IInv, Sound
<1>2. Removable(dirs, d, i, c) /\ dirs' = Gone(dirs, d, i, c)
  <2>1. CASE fs_rmdir(p)
    <3>1. Removable(dirs, d, i, c) /\ h.index # 1
      BY <1>1, <2>1, RmdirRemoves DEF fs_rmdir
    <3>2. dirs' = Restrict(EntrySet(dirs, d, i, Unused), DOMAIN dirs \ {c})
      BY <2>1, <3>1 DEF fs_rmdir, Cleared, WithEntry, EntrySet
    <3>3. QED
      BY <3>1, <3>2 DEF Gone
  <2>2. CASE fs_delete(p)
    <3>1. /\ Removable(dirs, d, i, c) /\ h.index # 1
          /\ Gone(dirs, d, i, c) = EntrySet(dirs, d, i, Unused)
      BY <1>1, <2>2, DeleteRemoves DEF fs_delete
    <3>2. dirs' = EntrySet(dirs, d, i, Unused)
      BY <2>2, <3>1 DEF fs_delete, Cleared, WithEntry, EntrySet
    <3>3. QED
      BY <3>1, <3>2
  <2>3. QED
    BY <2>1, <2>2 DEF cmd_rm
<1> HIDE DEF h, d, i, c
<1>3. EntryRemoved(dirs, dirs', d, i, c)
  BY <1>1, <1>2, GoneRemoves
<1>4. Grown(dirs', dirs, d, i, dirs[d].slot[i])
  BY <1>1, <1>2, <1>3, GrownByRemoving
<1>5. QED
  BY <1>4
-----------------------------------------------------------------------------
(* With one entry more a component leads where it led.                     *)
LEMMA GrownBelow ==
  ASSUME LongNames = {}, NEW f, NEW ch, NEW sm, NEW g, NEW ci, NEW bg,
         Both(f, ch, sm, g, ci, bg), NEW d, NEW i, NEW e, Grown(sm, bg, d, i, e),
         NEW b \in Live(sm), NEW n \in Component, Below(sm, b, n) # EOF_FLAG
  PROVE  Below(bg, b, n) = Below(sm, b, n)
<1>1. /\ b \in DOMAIN sm /\ b # EOF_FLAG /\ DOMAIN sm \subseteq DOMAIN bg
      /\ bg[b].self = sm[b].self /\ bg[b].up = sm[b].up
  BY NoDirectoryThere DEF Both, Live, Grown
<1>2. CASE n \in Names
  BY <1>2, GrownLookup
<1>3. CASE n = Dot
  <2>1. Position(sm, b, n) = 0 /\ Position(bg, b, n) = 0
    BY <1>3, NamesApart DEF Position
  <2>2. EntryAt(sm, b, 0) = EntryAt(bg, b, 0)
    BY <1>1 DEF EntryAt
  <2>3. /\ Below(sm, b, n) = Enter(sm, EntryAt(sm, b, 0))
        /\ Below(bg, b, n) = Enter(bg, EntryAt(sm, b, 0))
    BY <1>1, <2>1, <2>2 DEF Below
  <2>4. QED
    BY <1>1, <2>3 DEF Enter
<1>4. CASE n = DotDot
  <2>1. /\ Position(sm, b, n) = IF sm[b].up = EOF_FLAG THEN -1 ELSE 1
        /\ Position(bg, b, n) = IF sm[b].up = EOF_FLAG THEN -1 ELSE 1
    BY <1>1, <1>4, NamesApart DEF Position
  <2>2. EntryAt(sm, b, 1) = EntryAt(bg, b, 1)
    BY <1>1 DEF EntryAt
  <2>3. sm[b].up # EOF_FLAG
    BY <1>1, <2>1 DEF Below
  <2>4. /\ Below(sm, b, n) = Enter(sm, EntryAt(sm, b, 1))
        /\ Below(bg, b, n) = Enter(bg, EntryAt(sm, b, 1))
    BY <1>1, <2>1, <2>2, <2>3 DEF Below
  <2>5. QED
    BY <1>1, <2>4 DEF Enter
<1>5. QED
  BY <1>2, <1>3, <1>4 DEF Component

(* Every path that was there, "." and ".." in it too, leads where it did.  *)
LEMMA GrownKeepsPaths ==
  ASSUME LongNames = {}, NEW f, NEW ch, NEW sm, NEW g, NEW ci, NEW bg,
         Both(f, ch, sm, g, ci, bg), NEW d, NEW i, NEW e, Grown(sm, bg, d, i, e)
  PROVE  \A q \in Seq(Component) :
           Reached(sm, q) # EOF_FLAG => Reached(bg, q) = Reached(sm, q)
<1> DEFINE Ok(q) == Reached(sm, q) # EOF_FLAG => Reached(bg, q) = Reached(sm, q)
           Bad == {k \in Nat : \E q \in Seq(Component) : Len(q) = k /\ ~Ok(q)}
<1>1. Shape(f, ch, sm)
  BY DEF Both
<1>2. Ok(<<>>)
  <2>1. <<>> \in Seq(Component)
    OBVIOUS
  <2>2. QED
    BY <2>1, ReachedStep
<1>3. ASSUME NEW q \in Seq(Component), q # <<>>, Ok(Front(q)) PROVE Ok(q)
  <2> DEFINE b == Reached(sm, Front(q))
  <2>1. Front(q) \in Seq(Component) /\ Last(q) \in Component
    BY <1>3, FrontLast
  <2>2. /\ Reached(sm, q) = Below(sm, b, Last(q))
        /\ Reached(bg, q) = Below(bg, Reached(bg, Front(q)), Last(q))
    BY <1>3, ReachedStep
  <2>3. CASE b = EOF_FLAG
    BY <2>2, <2>3 DEF Below
  <2>4. CASE b # EOF_FLAG
    <3>1. b \in Live(sm) /\ Reached(bg, Front(q)) = b
      BY <1>1, <1>3, <2>1, <2>4, ReachedIsLive
    <3> HIDE DEF b
    <3>2. QED
      BY <2>1, <2>2, <3>1, GrownBelow
  <2>5. QED
    BY <2>3, <2>4
<1>4. Bad = {}
  <2> SUFFICES ASSUME Bad # {} PROVE FALSE
    OBVIOUS
  <2>1. PICK k \in Bad : \A j \in Nat : j < k => j \notin Bad
    BY LeastNumber
  <2>2. PICK q \in Seq(Component) : Len(q) = k /\ ~Ok(q)
    OBVIOUS
  <2>3. q # <<>>
    BY <1>2, <2>2
  <2>4. Front(q) \in Seq(Component) /\ Len(Front(q)) = k - 1 /\ k \in Nat \ {0}
    BY <2>2, <2>3, FrontLast
  <2>5. k - 1 \notin Bad /\ k - 1 \in Nat
    <3>1. k - 1 \in Nat /\ k - 1 < k
      BY <2>4
    <3> HIDE DEF Bad
    <3>2. QED
      BY <2>1, <3>1
  <2>6. Ok(Front(q))
    <3> HIDE DEF Ok
    <3>1. QED
      BY <2>4, <2>5
  <2> HIDE DEF Ok
  <2>7. QED
    BY <1>3, <2>2, <2>3, <2>6
<1>5. QED
  <2> SUFFICES ASSUME NEW q \in Seq(Component), ~Ok(q) PROVE FALSE
    OBVIOUS
  <2> HIDE DEF Ok
  <2>1. Len(q) \in Bad
    OBVIOUS
  <2>2. QED
    BY <1>4, <2>1

(* The path that was made is found afterwards.                             *)
LEMMA MadeIsFound ==
  ASSUME LongNames = {}, NEW f, NEW ch, NEW sm, NEW g, NEW ci, NEW bg,
         Both(f, ch, sm, g, ci, bg), NEW p, NEW d, NEW i, NEW e, Made(sm, bg, d, i, e, p)
  PROVE  IsDirectory(parsePath(bg, FullPath(p)))
<1> DEFINE q == FullPath(p)
<1>1. /\ Grown(sm, bg, d, i, e) /\ e.isDir /\ e.name = Last(q)
      /\ q \in Seq(Component) /\ q # <<>> /\ d = Reached(sm, Front(q))
  BY DEF Made
<1> HIDE DEF q
<1>2. /\ d \in Live(sm) /\ d \in DOMAIN sm /\ d \in DOMAIN bg /\ d # EOF_FLAG
      /\ i \in 1 .. Slots /\ e.name \in Names
  BY <1>1, NoDirectoryThere DEF Both, Live, Grown
<1>3. Reached(bg, Front(q)) = d
  <2>1. Front(q) \in Seq(Component)
    BY <1>1, FrontLast
  <2>2. QED
    BY <1>1, <1>2, <2>1, GrownKeepsPaths
<1>4. bg[d].slot[i] = e /\ InUse(bg, d, i)
  BY <1>1, <1>2, NamesApart DEF Grown, InUse
<1>5. /\ InDirectory(bg, d, bg[d].slot[i].name).index >= 0
      /\ InDirectory(bg, d, bg[d].slot[i].name).element = bg[d].slot[i]
  BY <1>2, <1>4, FoundOnce DEF Both, Shape
<1>6. parsePath(bg, q) = InDirectory(bg, d, Last(q))
  BY <1>1, <1>2, <1>3 DEF parsePath
<1>7. QED
  BY <1>1, <1>4, <1>5, <1>6 DEF IsDirectory, q

(* What fs_mkdir has made is found under the path it was asked for, where  *)
(* no name has eleven characters.                                          *)
THEOREM MadeIsFoundAlways ==
  ASSUME LongNames = {}
  PROVE  Spec => MadeIsThere
<1>1. IInv /\ IInv' => \A p \in Paths : fs_mkdir(p) => IsDirectory(parsePath(dirs', FullPath(p)))
  <2> SUFFICES ASSUME IInv, IInv', NEW p \in Paths, fs_mkdir(p)
               PROVE  IsDirectory(parsePath(dirs', FullPath(p)))
    OBVIOUS
  <2>1. PICK d, i, e : Made(dirs, dirs', d, i, e, p)
    BY MkdirGrows DEF IInv
  <2>2. Both(free, chain, dirs, free', chain', dirs')
    BY DEF Both, IInv, Sound
  <2>3. QED
    BY <2>1, <2>2, MadeIsFound
<1>2. QED
  BY <1>1, Invariance, PTL DEF MadeIsThere

\* a volume just formatted has the tree of one directory
LEMMA TreeBegins ==
  ASSUME LongNames = {}
  PROVE  Init => Abstract!Init
<1> SUFFICES ASSUME Init PROVE TreeOf(dirs) = {Node(dirs, <<>>)} /\ KindOf(dirs, <<>>) = "dir"
  BY DEF Abstract!Init, Node
<1>1. Shape(free, chain, dirs)
  BY InitHolds DEF IInv, Sound
<1>2. DOMAIN dirs = {Root} /\ \A j \in 1 .. Slots : dirs[Root].slot[j].name = NoName
  BY DEF Init, initDirectory, Unused
<1>3. KindOf(dirs, <<>>) = "dir"
  BY KindIs
<1>4. ASSUME NEW q \in NamePaths, q # <<>> PROVE KindOf(dirs, q) = "none"
  <2> DEFINE b == Reached(dirs, Front(q))
  <2>1. Front(q) \in Seq(Names) /\ Front(q) \in Seq(Component) /\ Last(q) \in Names
    BY <1>4, NamePathsAre, NamesAreComponents
  <2>2. b = EOF_FLAG \/ b = Root
    BY <1>1, <1>2, <2>1, ReachedIsLive DEF Live
  <2>3. KindOf(dirs, q) = IF b = EOF_FLAG THEN "none" ELSE KindIn(dirs, b, Last(q))
    BY <1>4, KindIs
  <2> HIDE DEF b
  <2>4. CASE b # EOF_FLAG
    <3>1. \A j \in 1 .. Slots : dirs[b].slot[j].name # Last(q)
      BY <1>2, <2>1, <2>2, <2>4, NamesApart
    <3>2. KindIn(dirs, b, Last(q)) = "none"
      BY <2>1, <2>4, <3>1, NotFound
    <3>3. QED
      BY <2>3, <3>2
  <2>5. QED
    BY <2>3, <2>4
<1>5. \A x \in TreeOf(dirs) : x = Node(dirs, <<>>)
  BY <1>4, TreeIs
<1>6. Node(dirs, <<>>) \in TreeOf(dirs)
  <2>1. <<>> \in NamePaths /\ KindOf(dirs, <<>>) # "none"
    BY <1>3, NamePathsAre
  <2>2. QED
    BY <2>1, TreeIs
<1>7. QED
  BY <1>3, <1>5, <1>6

(* What a user sees of the directories is NameTree: each call adds one     *)
(* name that was not there under a directory that was, or takes one away   *)
(* with nothing below it, or changes nothing, where no name has eleven     *)
(* characters.                                                             *)
THEOREM TreeIsImplemented ==
  ASSUME LongNames = {}
  PROVE  Spec => ImplementsNameTree
<1> DEFINE Step == LET t == TreeOf(dirs)
                       u == TreeOf(dirs')
                   IN  t = u \/ Abstract!Added(t, u) \/ Abstract!Removed(t, u)
<1>1. IInv /\ IInv' /\ [Next]_vars => Step
  <2> SUFFICES ASSUME IInv, IInv', [Next]_vars PROVE Step
    OBVIOUS
  <2>1. Both(free, chain, dirs, free', chain', dirs') /\ Both(free', chain', dirs', free, chain, dirs)
    BY DEF Both, IInv, Sound
  <2>2. ASSUME NEW d, NEW i, NEW e, Grown(dirs, dirs', d, i, e) PROVE Step
    BY <2>1, <2>2, GrownTree
  <2>3. ASSUME NEW d, NEW i, NEW e, Grown(dirs', dirs, d, i, e) PROVE Step
    BY <2>1, <2>3, GrownTree
  <2> HIDE DEF Step
  <2>4. ASSUME NEW p \in Paths, CallMkdir(p) PROVE Step
    <3>1. PICK d, i, e : Made(dirs, dirs', d, i, e, p)
      BY <2>4, MkdirGrows DEF IInv, CallMkdir
    <3>2. QED
      BY <2>2, <3>1 DEF Made
  <2>5. ASSUME NEW p \in Paths, CallNewFile(p) PROVE Step
    BY <2>2, <2>5, NewFileGrows DEF IInv
  <2>6. ASSUME NEW p \in Paths, cmd_rm(p) PROVE Step
    BY <2>3, <2>6, RemovalShrinks
  <2>7. ASSUME UNCHANGED dirs PROVE Step
    BY <2>7 DEF Step
  <2>8. ASSUME NEW p \in Paths, CallSetcwd(p) PROVE Step
    BY <2>7, <2>8 DEF CallSetcwd, fs_setcwd
  <2>9. QED
    BY <2>4, <2>5, <2>6, <2>7, <2>8 DEF Next, vars
<1>2. QED
  BY TreeBegins, <1>1, Invariance, PTL DEF Spec, ImplementsNameTree
-----------------------------------------------------------------------------
\* what fs_readdir has returned, as a function of how many places it has passed
Listing(d, n, read) ==
  read = [k \in 0 .. n |->
            IF k = 0 THEN <<>>
            ELSE IF EntryAt(dirs, d, k - 1).name = NoName THEN read[k - 1]
            ELSE Append(read[k - 1], EntryAt(dirs, d, k - 1))]

(* The listing of a directory, slot by slot, exists.                       *)
LEMMA ListingExists ==
  ASSUME NEW d, NEW n \in Nat
  PROVE  \E read : Listing(d, n, read)
<1> DEFINE Bad == {m \in Nat : ~\E read : Listing(d, m, read)}
<1>1. SUFFICES ASSUME Bad # {} PROVE FALSE
  OBVIOUS
<1>2. PICK m \in Bad : \A k \in Nat : k < m => k \notin Bad
  BY <1>1, LeastNumber
<1>3. m # 0
  <2>1. Listing(d, 0, [k \in 0 .. 0 |-> <<>>])
    BY DEF Listing
  <2>2. QED
    BY <1>2, <2>1
<1>4. m \in Nat /\ m - 1 \in Nat /\ m - 1 \notin Bad
    BY <1>2, <1>3
<1>5. PICK f : Listing(d, m - 1, f)
  BY <1>4
<1> DEFINE e(k) == EntryAt(dirs, d, k - 1)
           next(r, k) == IF e(k).name = NoName THEN r ELSE Append(r, e(k))
           g == [k \in 0 .. m |-> IF k = m THEN next(f[m - 1], m) ELSE f[k]]
<1>6. \A k \in 0 .. m - 1 : f[k] = IF k = 0 THEN <<>> ELSE next(f[k - 1], k)
  BY <1>4, <1>5 DEF Listing
<1> HIDE DEF next
<1>7. \A k \in 0 .. m : g[k] = IF k = 0 THEN <<>> ELSE next(g[k - 1], k)
  <2>1. \A k \in 0 .. m : k # m /\ k # 0 => g[k] = next(f[k - 1], k) /\ g[k - 1] = f[k - 1]
    BY <1>4, <1>6
  <2>2. g[0] = <<>>
    BY <1>3, <1>4, <1>6
  <2>3. g[m - 1] = f[m - 1] /\ g[m] = next(f[m - 1], m)
    BY <1>3, <1>4
  <2>4. QED
    BY <1>3, <1>4, <2>1, <2>2, <2>3
<1>8. g = [k \in 0 .. m |-> g[k]]
  OBVIOUS
<1> HIDE DEF g
<1>9. g = [k \in 0 .. m |-> IF k = 0 THEN <<>> ELSE next(g[k - 1], k)]
  BY <1>7, <1>8
<1>10. Listing(d, m, g)
  BY <1>9 DEF Listing, next
<1>11. QED
  BY <1>2, <1>10

(* fs_readdirs is its end.                                                 *)
LEMMA ReaddirsLists ==
  ASSUME NEW d
  PROVE  \E read : Listing(d, Slots + 2, read) /\ fs_readdirs(d) = read[Slots + 2]
<1> DEFINE n == Slots + 2
           f == CHOOSE f : Listing(d, n, f)
<1>1. \E read : Listing(d, n, read)
  <2>1. n \in Nat
    BY NamesApart
  <2> HIDE DEF n
  <2>2. QED
    BY <2>1, ListingExists
<1>2. Listing(d, n, f)
  BY <1>1
<1>3. fs_readdirs(d) = f[n]
  BY DEF fs_readdirs, Listing
<1>4. QED
  BY <1>2, <1>3

\* the places of d have names of their own, as far as they are in use
OwnNames(d) ==
  \A i, j \in 0 .. Slots + 1 :
    i # j /\ EntryAt(dirs, d, i).name # NoName
      => EntryAt(dirs, d, i).name # EntryAt(dirs, d, j).name

(* fs_readdir returns entries of the directory, none of them twice. *)
LEMMA ReaddirsAre ==
  ASSUME NEW d, OwnNames(d)
  PROVE  /\ fs_readdirs(d) \in Seq({EntryAt(dirs, d, i) : i \in 0 .. Slots + 1})
         /\ \A j \in DOMAIN fs_readdirs(d) : \E i \in 0 .. Slots + 1 :
              /\ fs_readdirs(d)[j] = EntryAt(dirs, d, i)
              /\ EntryAt(dirs, d, i).name # NoName
         /\ \A j, k \in DOMAIN fs_readdirs(d) :
              j # k => fs_readdirs(d)[j].name # fs_readdirs(d)[k].name
<1> DEFINE n == Slots + 2
           S == {EntryAt(dirs, d, i) : i \in 0 .. Slots + 1}
           Ok(r, k) == /\ r \in Seq(S)
                       /\ \A j \in DOMAIN r : \E i \in 0 .. Slots + 1 :
                            /\ i < k /\ r[j] = EntryAt(dirs, d, i)
                            /\ EntryAt(dirs, d, i).name # NoName
                       /\ \A j, l \in DOMAIN r : j # l => r[j].name # r[l].name
<1>1. PICK read : Listing(d, n, read) /\ fs_readdirs(d) = read[n]
  BY ReaddirsLists
<1> DEFINE Bad == {k \in Nat : k <= n /\ ~Ok(read[k], k)}
<1>2. n \in Nat
  BY NamesApart
<1>3. Ok(read[0], 0)
  <2>1. read[0] = <<>>
    BY <1>1, <1>2 DEF Listing
  <2>2. QED
    BY <2>1
<1>4. ASSUME NEW k \in Nat, k + 1 <= n, Ok(read[k], k) PROVE Ok(read[k + 1], k + 1)
  <2> DEFINE e == EntryAt(dirs, d, k)
             r == read[k]
  <2>1. read[k + 1] = IF e.name = NoName THEN r ELSE Append(r, e)
    <3>1. k + 1 \in 0 .. n /\ k + 1 # 0 /\ (k + 1) - 1 = k
      BY <1>2, <1>4
    <3>2. QED
      BY <1>1, <3>1 DEF Listing
  <2>2. Ok(r, k)
    BY <1>4
  <2>3. k \in 0 .. Slots + 1 /\ \A i \in 0 .. Slots + 1 : i < k => i < k + 1 /\ i # k
    BY <1>4, NamesApart
  <2>4. k < k + 1 /\ e \in S
    BY <1>4, <2>3
  <2> HIDE DEF e, r, S
  <2>5. CASE e.name = NoName
    BY <2>1, <2>2, <2>3, <2>5
  <2>6. CASE e.name # NoName
    <3> DEFINE a == Append(r, e)
    <3>1. /\ a \in Seq(S) /\ DOMAIN a = 1 .. Len(r) + 1 /\ Len(r) \in Nat
          /\ a[Len(r) + 1] = e /\ \A j \in 1 .. Len(r) : a[j] = r[j]
          /\ DOMAIN r = 1 .. Len(r)
      BY <2>2, <2>4, AppendProperties
    <3> HIDE DEF a
    <3>2. \A j \in DOMAIN a : j = Len(r) + 1 \/ j \in DOMAIN r
      BY <3>1
    <3>3. \A j \in DOMAIN r : r[j].name # e.name
      BY <2>2, <2>3, <2>6 DEF OwnNames, e
    <3>4. ASSUME NEW j \in DOMAIN a
          PROVE  \E i \in 0 .. Slots + 1 : /\ i < k + 1 /\ a[j] = EntryAt(dirs, d, i)
                                           /\ EntryAt(dirs, d, i).name # NoName
      <4>1. CASE j \in DOMAIN r
        BY <2>2, <2>3, <3>1, <4>1
      <4>2. CASE j = Len(r) + 1
        BY <2>3, <2>4, <2>6, <3>1, <4>2 DEF e
      <4>3. QED
        BY <3>2, <4>1, <4>2
    <3>5. ASSUME NEW j \in DOMAIN a, NEW l \in DOMAIN a, j # l PROVE a[j].name # a[l].name
      BY <2>2, <3>1, <3>2, <3>3, <3>5
    <3>6. read[k + 1] = a
      BY <2>1, <2>6 DEF a
    <3>7. QED
      BY <3>1, <3>4, <3>5, <3>6
  <2>7. QED
    BY <2>5, <2>6
<1>5. Bad = {}
  <2> SUFFICES ASSUME Bad # {} PROVE FALSE
    OBVIOUS
  <2> HIDE DEF Ok
  <2>1. PICK k \in Bad : \A j \in Nat : j < k => j \notin Bad
    BY LeastNumber
  <2>2. k # 0 /\ k \in Nat /\ k <= n /\ ~Ok(read[k], k)
    BY <1>3, <2>1
  <2>3. k - 1 \in Nat /\ k - 1 < k /\ (k - 1) + 1 = k /\ k - 1 <= n
    BY <1>2, <2>2
  <2>4. Ok(read[k - 1], k - 1)
    BY <2>1, <2>3
  <2> DEFINE l == k - 1
  <2>5. l \in Nat /\ l + 1 <= n /\ Ok(read[l], l) /\ l + 1 = k
    BY <2>2, <2>3, <2>4
  <2> HIDE DEF l, n
  <2>6. Ok(read[l + 1], l + 1)
    BY <1>4, <2>5
  <2>7. QED
    BY <2>2, <2>5, <2>6
<1>6. Ok(read[n], n)
  <2> HIDE DEF Ok, n
  <2>1. n <= n
    BY <1>2
  <2>2. n \notin Bad
    BY <1>5
  <2>3. QED
    BY <1>2, <2>1, <2>2
<1>7. QED
  BY <1>1, <1>6

(* A path with one component appended.                                     *)
LEMMA FrontOfAppended ==
  ASSUME NEW S, NEW s \in Seq(S), NEW n \in S
  PROVE  /\ s \o <<n>> \in Seq(S) /\ s \o <<n>> # <<>>
         /\ Front(s \o <<n>>) = s /\ Last(s \o <<n>>) = n
<1> DEFINE t == s \o <<n>>
<1>1. /\ t \in Seq(S) /\ Len(t) = Len(s) + 1 /\ Len(s) \in Nat
      /\ \A j \in 1 .. Len(s) : t[j] = s[j]
      /\ t[Len(s) + 1] = n
  <2>1. <<n>> \in Seq(S) /\ Len(<<n>>) = 1 /\ <<n>>[1] = n
    OBVIOUS
  <2>2. /\ t \in Seq(S) /\ Len(t) = Len(s) + Len(<<n>>)
        /\ \A j \in 1 .. Len(s) + Len(<<n>>) :
             t[j] = IF j <= Len(s) THEN s[j] ELSE <<n>>[j - Len(s)]
    BY <2>1, ConcatProperties
  <2>3. Len(s) \in Nat
    OBVIOUS
  <2> HIDE DEF t
  <2>4. \A j \in 1 .. Len(s) + 1 : t[j] = IF j <= Len(s) THEN s[j] ELSE <<n>>[j - Len(s)]
    BY <2>1, <2>2
  <2>5. \A j \in 1 .. Len(s) : t[j] = s[j]
    BY <2>3, <2>4
  <2>6. t[Len(s) + 1] = n
    <3>1. Len(s) + 1 \in 1 .. Len(s) + 1 /\ ~(Len(s) + 1 <= Len(s)) /\ (Len(s) + 1) - Len(s) = 1
      BY <2>3
    <3>2. QED
      BY <2>1, <2>4, <3>1
  <2>7. QED
    BY <2>1, <2>2, <2>3, <2>5, <2>6
<1> HIDE DEF t
<1>2. t # <<>>
  BY <1>1
<1>3. /\ Front(t) \in Seq(S) /\ Len(Front(t)) = Len(t) - 1
      /\ \A j \in 1 .. Len(t) - 1 : Front(t)[j] = t[j]
      /\ Last(t) = t[Len(t)]
  BY <1>1, <1>2, FrontLast
<1>4. Len(Front(t)) = Len(s) /\ \A j \in 1 .. Len(s) : Front(t)[j] = s[j]
  BY <1>1, <1>3
<1>5. Front(t) = s
  BY <1>3, <1>4, SeqEqual
<1>6. QED
  BY <1>1, <1>2, <1>3, <1>5 DEF t

(* In a live directory each entry in use, "." and ".." too, is what its    *)
(* name finds.                                                             *)
LEMMA EachIsFound ==
  ASSUME LongNames = {}, NEW f, NEW ch, Shape(f, ch, dirs), NEW d \in Live(dirs),
         NEW i \in 0 .. Slots + 1, EntryAt(dirs, d, i).name # NoName
  PROVE  LET e == EntryAt(dirs, d, i)
             h == InDirectory(dirs, d, e.name)
         IN  /\ e.name \in Component /\ h.index >= 0 /\ h.element = e
             /\ e.isDir \in BOOLEAN
             /\ i = 0 => e.name = Dot
             /\ i = 1 => e.name = DotDot
             /\ i > 1 => e.name \in Names /\ i - 1 \in 1 .. Slots /\ e = dirs[d].slot[i - 1]
<1> DEFINE e == EntryAt(dirs, d, i)
<1>1. d \in DOMAIN dirs /\ d # EOF_FLAG /\ dirs[d].up # EOF_FLAG
  BY UpIsLive, NoDirectoryThere
<1>2. CASE i = 0
  <2>1. e = Entry(Dot, dirs[d].self, TRUE) /\ e.name = Dot
    BY <1>2 DEF EntryAt, Entry
  <2>2. Position(dirs, d, Dot) = 0
    BY NamesApart DEF Position
  <2>3. InDirectory(dirs, d, Dot).index = 0 /\ InDirectory(dirs, d, Dot).element = e
    BY <1>2, <2>1, <2>2 DEF InDirectory
  <2>4. e.isDir \in BOOLEAN
    BY <2>1 DEF Entry
  <2>5. QED
    BY <1>2, <2>1, <2>3, <2>4 DEF Component
<1>3. CASE i = 1
  <2>1. e = Entry(DotDot, dirs[d].up, TRUE) /\ e.name = DotDot
    BY <1>1, <1>3 DEF EntryAt, Entry
  <2>2. Position(dirs, d, DotDot) = 1
    BY <1>1, NamesApart DEF Position
  <2>3. InDirectory(dirs, d, DotDot).index = 1 /\ InDirectory(dirs, d, DotDot).element = e
    BY <1>3, <2>1, <2>2 DEF InDirectory
  <2>4. e.isDir \in BOOLEAN
    BY <2>1 DEF Entry
  <2>5. QED
    BY <1>3, <2>1, <2>3, <2>4 DEF Component
<1>4. CASE i > 1
  <2> DEFINE j == i - 1
  <2>1. j \in 1 .. Slots /\ e = dirs[d].slot[j]
    <3>1. i # 0 /\ i # 1 /\ i - 1 \in 1 .. Slots
      BY <1>4, NamesApart
    <3>2. QED
      BY <3>1 DEF EntryAt
  <2> HIDE DEF j
  <2>2. InUse(dirs, d, j) /\ e.name = dirs[d].slot[j].name
    BY <2>1 DEF InUse
  <2>3. dirs[d].slot[j].name \in Names /\ e.isDir \in BOOLEAN
    BY <1>1, <2>1, <2>2 DEF InUse, Shape, Typed, DirRecord, SlotRecord
  <2>4. /\ InDirectory(dirs, d, dirs[d].slot[j].name).index >= 0
        /\ InDirectory(dirs, d, dirs[d].slot[j].name).element = dirs[d].slot[j]
    BY <1>1, <2>1, <2>2, <2>3, FoundOnce DEF Shape
  <2>5. QED
    BY <1>4, <2>1, <2>3, <2>4 DEF Component, j
<1>5. QED
  BY <1>2, <1>3, <1>4, NamesApart

(* No two entries of a directory have the same name, and none is named "." *)
(* or "..".                                                                *)
LEMMA NamesAreOwn ==
  ASSUME LongNames = {}, NEW f, NEW ch, Shape(f, ch, dirs), NEW d \in Live(dirs)
  PROVE  OwnNames(d)
<1> SUFFICES ASSUME NEW i \in 0 .. Slots + 1, NEW j \in 0 .. Slots + 1, i # j,
                    EntryAt(dirs, d, i).name # NoName,
                    EntryAt(dirs, d, i).name = EntryAt(dirs, d, j).name
             PROVE  FALSE
  BY DEF OwnNames
<1> DEFINE e == EntryAt(dirs, d, i)
           g == EntryAt(dirs, d, j)
<1>1. /\ i = 0 => e.name = Dot
      /\ i = 1 => e.name = DotDot
      /\ i > 1 => e.name \in Names /\ i - 1 \in 1 .. Slots /\ e = dirs[d].slot[i - 1]
  BY EachIsFound
<1>2. /\ j = 0 => g.name = Dot
      /\ j = 1 => g.name = DotDot
      /\ j > 1 => g.name \in Names /\ j - 1 \in 1 .. Slots /\ g = dirs[d].slot[j - 1]
  BY EachIsFound
<1> HIDE DEF e, g
<1>3. e.name = g.name /\ e.name # NoName
  BY DEF e, g
<1>4. i > 1 /\ j > 1
  BY <1>1, <1>2, <1>3, NamesApart
<1>5. i - 1 # j - 1
  BY NamesApart
<1>6. d \in DOMAIN dirs /\ InUse(dirs, d, i - 1)
  BY <1>1, <1>3, <1>4 DEF InUse, Live
<1>7. QED
  BY <1>1, <1>2, <1>3, <1>4, <1>5, <1>6 DEF Shape, ShortNamesUnique

(* The entry that a path finds of a directory is of the one it leads to.   *)
LEMMA FoundDirectoryIs ==
  ASSUME NeverRefused, NEW f, NEW ch, NEW ds, Shape(f, ch, ds), NEW comps \in Seq(Component),
         IsDirectory(parsePath(ds, comps))
  PROVE  /\ parsePath(ds, comps).element.first = Reached(ds, comps)
         /\ Reached(ds, comps) # EOF_FLAG
<1> DEFINE h == parsePath(ds, comps)
           n == Last(comps)
           d == Reached(ds, Front(comps))
<1>1. h.index >= 0 /\ h.element.isDir
  BY DEF IsDirectory
<1>2. CASE comps = <<>>
  <2>1. Position(ds, Root, Dot) = 0
    BY NamesApart DEF Position
  <2>2. h.element = Entry(Dot, ds[Root].self, TRUE)
    BY <1>2, <2>1 DEF parsePath, InDirectory, EntryAt
  <2>3. ds[Root].self = Root /\ Root # EOF_FLAG
    BY NoDirectoryThere DEF Shape, DirectoriesInPlace, RootInPlace
  <2>4. Reached(ds, comps) = Root
    BY <1>2, ReachedStep
  <2>5. h.element.first = Root
    BY <2>2, <2>3 DEF Entry
  <2>6. QED
    BY <2>3, <2>4, <2>5
<1>3. CASE comps # <<>>
  <2>1. n \in Component /\ Front(comps) \in Seq(Component)
    BY <1>3, FrontLast
  <2>2. d # EOF_FLAG
    <3>1. ASSUME d = EOF_FLAG PROVE h.index = -2
      BY <1>3, <3>1 DEF parsePath, NotValid
    <3>2. QED
      BY <1>1, <3>1
  <2>3. d \in Live(ds) /\ ds[d].self = d /\ d \in DOMAIN ds /\ ds[d].up \in Live(ds)
    BY <2>1, <2>2, ReachedIsLive, UpIsLive
  <2>4. h = InDirectory(ds, d, n)
    BY <1>3, <2>2 DEF parsePath
  <2> DEFINE i == Position(ds, d, n)
  <2>5. h.index = i /\ (i # -1 => h.element = EntryAt(ds, d, i))
    BY <2>4 DEF InDirectory
  <2>6. Reached(ds, comps) = Below(ds, d, n)
    BY <1>3, ReachedStep
  <2>7. i # -1
    BY <1>1, <2>5
  <2>8. Reached(ds, comps) = Enter(ds, h.element) /\ h.element = EntryAt(ds, d, i)
    BY <2>2, <2>5, <2>6, <2>7 DEF Below
  <2>9. \/ i = 0 \/ i = 1
        \/ i \in Nat /\ i - 1 \in 1 .. Slots /\ n \in Names /\ ds[d].slot[i - 1].name = n
    <3>1. \/ n = Dot /\ i = 0
          \/ n = DotDot /\ i = IF ds[d].up = EOF_FLAG THEN -1 ELSE 1
          \/ i = -1
          \/ n \in Names /\ i \in Nat /\ i - 1 \in 1 .. Slots /\ Matches(ds[d].slot[i - 1], n)
      BY <2>1, PositionIs
    <3> HIDE DEF i, d, n
    <3>2. QED
      BY <2>7, <3>1 DEF Matches
  <2> HIDE DEF i, d, n, h
  <2>10. h.element.first \in DOMAIN ds
    <3>1. CASE i = 0
      BY <2>3, <2>8, <3>1 DEF EntryAt, Entry
    <3>2. CASE i = 1
      <4>1. ds[d].up \in DOMAIN ds /\ ds[d].up # EOF_FLAG
        BY <2>3, NoDirectoryThere DEF Live
      <4>2. QED
        BY <2>8, <3>2, <4>1 DEF EntryAt, Entry
    <3>3. CASE i \in Nat /\ i - 1 \in 1 .. Slots /\ n \in Names /\ ds[d].slot[i - 1].name = n
      <4>1. i # 0 /\ i # 1
        BY <3>3
      <4>2. h.element = ds[d].slot[i - 1]
        BY <2>8, <4>1 DEF EntryAt
      <4>3. InUse(ds, d, i - 1)
        BY <3>3, NamesApart DEF InUse
      <4>4. QED
        BY <1>1, <2>3, <3>3, <4>2, <4>3 DEF Shape, EntriesLead, EntryLeads, Refused
    <3>4. QED
      BY <2>9, <3>1, <3>2, <3>3
  <2>11. Reached(ds, comps) = h.element.first
    BY <1>1, <2>8, <2>10 DEF Enter
  <2>12. QED
    BY <2>10, <2>11, NoDirectoryThere DEF h
<1>4. QED
  BY <1>2, <1>3

(* ls -l of the current directory shows each entry once and as it is, as   *)
(* long as alloc has refused no fs_mkdir and no name has eleven characters. *)
THEOREM LongListingTrue ==
  ASSUME NeverRefused, LongNames = {}
  PROVE  Spec => []LongListingIsTrue
<1>1. IInv => LongListingIsTrue
  <2> SUFFICES ASSUME IInv PROVE LongListingIsTrue
    OBVIOUS
  <2> DEFINE p == [abs |-> TRUE, comps |-> currentDir]
             h == Parsed(p)
             d == h.element.first
             listed == fs_opendir(p)
             lines == displayFiles(p)
  <2>1. Shape(free, chain, dirs) /\ currentDir \in Seq(Component)
    BY DEF IInv, Sound
  <2>2. p.abs = TRUE /\ p.comps = currentDir /\ FullPath(p) = currentDir
    BY DEF FullPath
  <2>3. h = parsePath(dirs, currentDir)
    BY <2>2 DEF Parsed
  <2>4. DOMAIN lines = DOMAIN listed /\ \A k \in DOMAIN listed : lines[k] = Line(listed[k].name)
    BY DEF displayFiles
  <2>5. listed = IF IsDirectory(h) THEN fs_readdirs(d) ELSE <<>>
    BY DEF fs_opendir, fs_isDir
  <2>6. /\ \A j, k \in DOMAIN lines : j # k => lines[j].name # lines[k].name
        /\ \A k \in DOMAIN lines : lines[k].isDir = listed[k].isDir /\ lines[k].stat = listed[k]
    <3> HIDE DEF h, lines, listed, p
    <3>1. CASE ~IsDirectory(h)
      BY <2>4, <2>5, <3>1
    <3>2. CASE IsDirectory(h)
      <4>1. d = Reached(dirs, currentDir) /\ d # EOF_FLAG
        BY <2>1, <2>3, <3>2, FoundDirectoryIs
      <4>2. d \in Live(dirs)
        BY <2>1, <4>1, ReachedIsLive
      <4> HIDE DEF d
      <4>3. OwnNames(d)
        BY <2>1, <4>2, NamesAreOwn
      <4>4. /\ \A k \in DOMAIN listed : \E i \in 0 .. Slots + 1 :
                 listed[k] = EntryAt(dirs, d, i) /\ EntryAt(dirs, d, i).name # NoName
            /\ \A j, k \in DOMAIN listed : j # k => listed[j].name # listed[k].name
        <5>1. listed = fs_readdirs(d)
          BY <2>5, <3>2 DEF d
        <5>2. /\ \A k \in DOMAIN fs_readdirs(d) : \E i \in 0 .. Slots + 1 :
                   fs_readdirs(d)[k] = EntryAt(dirs, d, i) /\ EntryAt(dirs, d, i).name # NoName
              /\ \A j, k \in DOMAIN fs_readdirs(d) :
                   j # k => fs_readdirs(d)[j].name # fs_readdirs(d)[k].name
          BY <4>3, ReaddirsAre
        <5> QED BY <5>1, <5>2
      <4>5. ASSUME NEW k \in DOMAIN listed
            PROVE  /\ lines[k].name = listed[k].name
                   /\ lines[k].isDir = listed[k].isDir /\ lines[k].stat = listed[k]
        <5> DEFINE e == listed[k]
                   n == e.name
                   q == [abs |-> FALSE, comps |-> <<n>>]
                   g == InDirectory(dirs, d, n)
        <5>1. PICK i \in 0 .. Slots + 1 :
                e = EntryAt(dirs, d, i) /\ EntryAt(dirs, d, i).name # NoName
          BY <4>4
        <5>2. n \in Component /\ g.index >= 0 /\ g.element = e /\ e.isDir \in BOOLEAN
          BY <2>1, <4>2, <5>1, EachIsFound
        <5>3. FullPath(q) = currentDir \o <<n>>
          BY DEF FullPath
        <5>4. Parsed(q) = g
          <6>1. /\ currentDir \o <<n>> # <<>> /\ Front(currentDir \o <<n>>) = currentDir
                /\ Last(currentDir \o <<n>>) = n
            BY <2>1, <5>2, FrontOfAppended
          <6>2. QED
            BY <4>1, <5>3, <6>1 DEF Parsed, parsePath, d
        <5>5. fs_isDir(q) = e.isDir
          <6>1. fs_isDir(q) <=> e.isDir
            BY <5>2, <5>4 DEF fs_isDir, IsDirectory
          <6>2. fs_isDir(q) \in BOOLEAN
            BY DEF fs_isDir, IsDirectory
          <6> HIDE DEF q, e
          <6>3. QED
            BY <5>2, <6>1, <6>2
        <5>6. lines[k] = Line(n)
          BY <2>4
        <5> HIDE DEF e, g
        <5>7. Line(n) = [name |-> n, isDir |-> fs_isDir(q),
                         stat |-> IF Parsed(q).index >= 0 THEN Parsed(q).element ELSE Unused]
          BY DEF Line
        <5>8. Parsed(q).index >= 0 /\ Parsed(q).element = e
          BY <5>2, <5>4
        <5> HIDE DEF q, n
        <5>9. Line(n).name = n /\ Line(n).isDir = e.isDir /\ Line(n).stat = e
          BY <5>5, <5>7, <5>8
        <5>10. QED
          BY <5>6, <5>9 DEF e, n
      <4>6. QED
        BY <2>4, <4>4, <4>5
    <3>3. QED
      BY <3>1, <3>2
  <2>7. QED
    BY <2>6 DEF LongListingIsTrue, ListingIsTrue
<1>2. QED
  BY <1>1, Invariance, PTL
=============================================================================
