---------------------------- MODULE FileIOProofs ----------------------------
(***************************************************************************)
(* What each call of b_io.c does to a file that is in order, to the chains *)
(* and to the directory, whoever calls it and whatever else is open.  The  *)
(* callers' theorems (FileUseProofs, ShellProofs) rest on these lemmas.    *)
(***************************************************************************)
EXTENDS FileIO, FiniteSetTheorems, WellFoundedInduction, TLAPS

Clusters == Range(InitFree)

(* What alloc and release keep: each cluster is free or on one chain, once. *)
Apart(f, ch) ==
  /\ f \in Seq(Clusters) /\ IsInjective(f)
  /\ Root \in DOMAIN ch
  /\ \A h \in DOMAIN ch \ {Root} :
       /\ ch[h] \in Seq(Clusters) /\ IsInjective(ch[h])
       /\ Len(ch[h]) >= 1 /\ ch[h][1] = h
       /\ Range(ch[h]) \cap Range(f) = {}
       /\ \A g \in DOMAIN ch \ {Root, h} : Range(ch[h]) \cap Range(ch[g]) = {}
  /\ \A c \in Clusters \ Range(f) : \E h \in DOMAIN ch \ {Root} : c \in Range(ch[h])

-----------------------------------------------------------------------------
(* Quotients by the size of a block.                                       *)
LEMMA DivIsNat ==
  ASSUME NEW x \in Nat, NEW b \in Nat \ {0}
  PROVE  x \div b \in Nat
OBVIOUS

(* The quotient of a larger number is not smaller.                         *)
LEMMA DivGrows ==
  ASSUME NEW x \in Nat, NEW y \in Nat, x <= y, NEW b \in Nat \ {0}
  PROVE  x \div b <= y \div b
OBVIOUS

(* A block has at least two bytes.                                         *)
LEMMA BlockIsNat == B \in Nat \ {0, 1}
BY FileAssumption DEF B

(* What BlocksFor is without its name.                                     *)
LEMMA BlocksForIsNat ==
  ASSUME NEW x \in Nat
  PROVE  BlocksFor(x) \in Nat \ {0} /\ BlocksFor(x) = x \div B + 1 /\ x \div B \in Nat
BY DivIsNat, BlockIsNat DEF BlocksFor

(* A longer file needs no fewer blocks, and the block before a position of *)
(* the file is one of them.                                                *)
LEMMA BlocksForGrows ==
  ASSUME NEW x \in Nat, NEW y \in Nat, x <= y
  PROVE  x \div B <= y \div B /\ BlocksFor(x) <= BlocksFor(y) /\ BlockOf(x) <= y \div B
         /\ BlockOf(x) \in Nat
<1>1. x \div B <= y \div B /\ x \div B \in Nat /\ y \div B \in Nat
  BY DivGrows, DivIsNat, BlockIsNat
<1>2. CASE x = 0
  BY <1>1, <1>2 DEF BlocksFor, BlockOf
<1>3. CASE x # 0
  <2>1. x - 1 \in Nat /\ x - 1 <= y
    BY <1>3
  <2>2. (x - 1) \div B <= y \div B /\ (x - 1) \div B \in Nat
    BY <2>1, DivGrows, DivIsNat, BlockIsNat
  <2> QED BY <1>1, <1>3, <2>2 DEF BlocksFor, BlockOf
<1> QED BY <1>2, <1>3

(* Products by the size of a block.                                        *)
LEMMA TimesGrows ==
  ASSUME NEW a \in Nat, NEW b \in Nat
  PROVE  /\ a * B \in Nat /\ (a + b) * B = a * B + b * B
         /\ a < b => a * B + B <= b * B
         /\ a <= b => a * B <= b * B
         /\ (a + 1) * B = a * B + B
<1>1. B \in Nat \ {0, 1}
  BY BlockIsNat
<1>2. a * B \in Nat /\ b * B \in Nat /\ (a + b) * B = a * B + b * B /\ (a + 1) * B = a * B + B
  BY <1>1
<1>3. ASSUME a < b PROVE a * B + B <= b * B
  <2> DEFINE c == b - a - 1
  <2>1. c \in Nat /\ b = (a + 1) + c
    BY <1>3
  <2> HIDE DEF c
  <2>2. c * B \in Nat /\ (a + 1) \in Nat
    BY <1>1, <2>1
  <2>4. ((a + 1) + c) * B = (a + 1) * B + c * B
    BY <1>1, <2>1
  <2>3. b * B = (a + 1) * B + c * B
    BY <2>1, <2>4
  <2>5. b * B = a * B + B + c * B
    BY <1>2, <2>3
  <2> QED BY <1>1, <1>2, <2>2, <2>5
<1>4. ASSUME a <= b PROVE a * B <= b * B
  <2>1. CASE a < b
    <3>1. a * B + B <= b * B
      BY <1>3, <2>1
    <3> QED BY <1>1, <1>2, <3>1
  <2>2. CASE a = b
    BY <1>2, <2>2
  <2> QED BY <1>4, <2>1, <2>2
<1> QED BY <1>2, <1>3, <1>4

(* Two inequalities added up.                                              *)
LEMMA AddsUp ==
  ASSUME NEW a \in Nat, NEW b \in Nat, NEW c \in Nat, NEW d \in Nat, NEW e \in Nat,
         a <= b, c + d <= e
  PROVE  a + c + d \in Nat /\ b + e \in Nat /\ a + c + d <= b + e
OBVIOUS

-----------------------------------------------------------------------------
(* Sequences that are cut and joined.                                      *)
LEMMA CutSeq ==
  ASSUME NEW S, NEW f \in Seq(S), IsInjective(f), NEW n \in Nat, n <= Len(f)
  PROVE  /\ SubSeq(f, 1, n) \in Seq(S) /\ Len(SubSeq(f, 1, n)) = n
         /\ \A k \in 1 .. n : SubSeq(f, 1, n)[k] = f[k]
         /\ SubSeq(f, n + 1, Len(f)) \in Seq(S)
         /\ Len(SubSeq(f, n + 1, Len(f))) = Len(f) - n
         /\ IsInjective(SubSeq(f, 1, n)) /\ IsInjective(SubSeq(f, n + 1, Len(f)))
         /\ Range(SubSeq(f, 1, n)) \cap Range(SubSeq(f, n + 1, Len(f))) = {}
         /\ Range(f) = Range(SubSeq(f, 1, n)) \cup Range(SubSeq(f, n + 1, Len(f)))
<1> DEFINE a == SubSeq(f, 1, n)
           b == SubSeq(f, n + 1, Len(f))
<1>1. a \in Seq(S) /\ Len(a) = n /\ \A k \in 1 .. n : a[k] = f[k]
  OBVIOUS
<1>2. b \in Seq(S) /\ Len(b) = Len(f) - n /\ \A k \in 1 .. Len(f) - n : b[k] = f[n + k]
  OBVIOUS
<1>3. DOMAIN a = 1 .. n /\ DOMAIN b = 1 .. Len(f) - n /\ DOMAIN f = 1 .. Len(f)
      /\ Len(f) \in Nat
  BY <1>1, <1>2
<1> HIDE DEF a, b
<1>4. IsInjective(a)
  BY <1>1, <1>3 DEF IsInjective
<1>9. \A k \in DOMAIN b : n + k \in DOMAIN f /\ n + k > n /\ b[k] = f[n + k]
  BY <1>2, <1>3
<1>10. \A k \in DOMAIN a : k \in DOMAIN f /\ k <= n /\ a[k] = f[k]
  BY <1>1, <1>3
<1>5. IsInjective(b)
  <2> SUFFICES ASSUME NEW j \in DOMAIN b, NEW k \in DOMAIN b, b[j] = b[k]
               PROVE  j = k
    BY DEF IsInjective
  <2>1. n + j = n + k
    BY <1>9 DEF IsInjective
  <2> QED BY <1>3, <2>1
<1>6. Range(a) \cap Range(b) = {}
  <2> SUFFICES ASSUME NEW j \in DOMAIN a, NEW k \in DOMAIN b, a[j] = b[k]
               PROVE  FALSE
    BY DEF Range
  <2>1. j = n + k
    BY <1>9, <1>10 DEF IsInjective
  <2> QED BY <1>3, <1>9, <1>10, <2>1
<1>7. Range(f) \subseteq Range(a) \cup Range(b)
  <2> SUFFICES ASSUME NEW k \in 1 .. Len(f)
               PROVE  f[k] \in Range(a) \cup Range(b)
    BY <1>3 DEF Range
  <2>1. CASE k <= n
    BY <1>1, <1>3, <2>1 DEF Range
  <2>2. CASE k > n
    <3>1. k - n \in 1 .. Len(f) - n /\ f[k] = b[k - n]
      BY <1>2, <2>2
    <3> QED BY <1>3, <3>1 DEF Range
  <2> QED BY <2>1, <2>2
<1>8. Range(a) \cup Range(b) \subseteq Range(f)
  BY <1>9, <1>10 DEF Range
<1> QED BY <1>1, <1>2, <1>4, <1>5, <1>6, <1>7, <1>8 DEF a, b

(* Two sequences without repetition that have nothing in common, joined.   *)
LEMMA JoinSeq ==
  ASSUME NEW S, NEW a \in Seq(S), NEW b \in Seq(S),
         IsInjective(a), IsInjective(b), Range(a) \cap Range(b) = {}
  PROVE  /\ a \o b \in Seq(S) /\ Len(a \o b) = Len(a) + Len(b)
         /\ \A k \in 1 .. Len(a) : (a \o b)[k] = a[k]
         /\ IsInjective(a \o b)
         /\ Range(a \o b) = Range(a) \cup Range(b)
<1> DEFINE q == a \o b
<1>1. q \in Seq(S) /\ Len(q) = Len(a) + Len(b)
  OBVIOUS
<1>2. /\ \A k \in 1 .. Len(a) : q[k] = a[k]
      /\ \A k \in 1 .. Len(b) : q[Len(a) + k] = b[k]
  OBVIOUS
<1>3. DOMAIN q = 1 .. Len(a) + Len(b) /\ DOMAIN a = 1 .. Len(a) /\ DOMAIN b = 1 .. Len(b)
      /\ Len(a) \in Nat /\ Len(b) \in Nat
  BY <1>1
<1> HIDE DEF q
<1>4. ASSUME NEW k \in 1 .. Len(a) + Len(b), k > Len(a)
      PROVE  k - Len(a) \in 1 .. Len(b) /\ q[k] = b[k - Len(a)]
  BY <1>2, <1>3, <1>4
<1>8. ASSUME NEW k \in DOMAIN q
      PROVE  IF k <= Len(a) THEN k \in DOMAIN a /\ q[k] = a[k]
                            ELSE k - Len(a) \in DOMAIN b /\ q[k] = b[k - Len(a)]
  BY <1>2, <1>3, <1>4
<1>9. ASSUME NEW k \in DOMAIN q
      PROVE  IF k <= Len(a) THEN q[k] \in Range(a) ELSE q[k] \in Range(b)
  BY <1>8 DEF Range
<1>5. IsInjective(q)
  <2> SUFFICES ASSUME NEW j \in 1 .. Len(a) + Len(b), NEW k \in 1 .. Len(a) + Len(b),
                      q[j] = q[k]
               PROVE  j = k
    BY <1>3 DEF IsInjective
  <2>1. CASE j <= Len(a) /\ k <= Len(a)
    BY <1>2, <1>3, <2>1 DEF IsInjective
  <2>2. CASE j > Len(a) /\ k > Len(a)
    BY <1>3, <1>4, <2>2 DEF IsInjective
  <2>3. CASE j <= Len(a) /\ k > Len(a)
    <3>1. q[j] \in Range(a) /\ q[k] \in Range(b)
      BY <1>3, <1>9, <2>3
    <3> QED BY <3>1
  <2>4. CASE j > Len(a) /\ k <= Len(a)
    <3>1. q[k] \in Range(a) /\ q[j] \in Range(b)
      BY <1>3, <1>9, <2>4
    <3> QED BY <3>1
  <2> QED BY <1>3, <2>1, <2>2, <2>3, <2>4
<1>6. Range(q) \subseteq Range(a) \cup Range(b)
  <2> SUFFICES ASSUME NEW k \in DOMAIN q PROVE q[k] \in Range(a) \cup Range(b)
    BY DEF Range
  <2> QED BY <1>9
<1>7. Range(a) \cup Range(b) \subseteq Range(q)
  <2>1. \A k \in 1 .. Len(a) : a[k] \in Range(q)
    BY <1>2, <1>3 DEF Range
  <2>2. \A k \in 1 .. Len(b) : b[k] \in Range(q)
    <3> SUFFICES ASSUME NEW k \in 1 .. Len(b) PROVE b[k] \in Range(q)
      OBVIOUS
    <3>1. Len(a) + k \in 1 .. Len(a) + Len(b) /\ q[Len(a) + k] = b[k]
      BY <1>2, <1>3
    <3> QED BY <1>3, <3>1 DEF Range
  <2> QED BY <1>3, <2>1, <2>2 DEF Range
<1> QED BY <1>1, <1>2, <1>5, <1>6, <1>7 DEF q

-----------------------------------------------------------------------------
(* alloc and release.                                                      *)
LEMMA RootIsApart == Root \notin Clusters /\ Clusters \subseteq Nat
BY FileAssumption DEF Clusters, Range

(* A chain is named by its first cluster.                                  *)
LEMMA HeadIsCluster ==
  ASSUME NEW f, NEW ch, Apart(f, ch), NEW h \in DOMAIN ch \ {Root}
  PROVE  h \in Clusters /\ h \in Range(ch[h]) /\ h \in Nat
<1>1. ch[h] \in Seq(Clusters) /\ Len(ch[h]) >= 1 /\ ch[h][1] = h
  BY DEF Apart
<1>2. 1 \in DOMAIN ch[h]
  BY <1>1
<1> QED BY <1>1, <1>2, RootIsApart DEF Range

(* A chain is taken off the front of the free clusters.                    *)
LEMMA TakeKeepsApart ==
  ASSUME NEW f, NEW ch, Apart(f, ch), NEW n \in Nat, 1 <= n, n < Len(f)
  PROVE  /\ f[1] \in Clusters \ (DOMAIN ch)
         /\ Apart(Store!Rest(f, n), Store!Taken(f, ch, n))
         /\ Len(Store!Taken(f, ch, n)[f[1]]) = n
         /\ \A k \in 1 .. n : Store!Taken(f, ch, n)[f[1]][k] = f[k]
<1> DEFINE a == SubSeq(f, 1, n)
           b == SubSeq(f, n + 1, Len(f))
           t == Store!Taken(f, ch, n)
<1>1. f \in Seq(Clusters) /\ IsInjective(f) /\ Root \in DOMAIN ch
  BY DEF Apart
<1>2. /\ a \in Seq(Clusters) /\ Len(a) = n /\ \A k \in 1 .. n : a[k] = f[k]
      /\ b \in Seq(Clusters) /\ IsInjective(a) /\ IsInjective(b)
      /\ Range(a) \cap Range(b) = {} /\ Range(f) = Range(a) \cup Range(b)
  BY <1>1, CutSeq
<1>3. f[1] \in Clusters /\ f[1] \in Range(f)
  BY <1>1 DEF Range
<1>4. f[1] # Root
  BY <1>3, RootIsApart
<1>5. f[1] \notin DOMAIN ch
  <2> SUFFICES ASSUME f[1] \in DOMAIN ch PROVE FALSE
    OBVIOUS
  <2>1. f[1] \in Range(ch[f[1]])
    BY <1>4, HeadIsCluster
  <2>2. Range(ch[f[1]]) \cap Range(f) = {}
    BY <1>4 DEF Apart
  <2> QED BY <1>3, <2>1, <2>2
<1>6. /\ DOMAIN t = DOMAIN ch \cup {f[1]}
      /\ t[f[1]] = a
      /\ \A h \in DOMAIN ch : t[h] = ch[h]
  BY <1>5 DEF Store!Taken
<1>7. Store!Rest(f, n) = b
  BY DEF Store!Rest
<1> HIDE DEF a, b, t
<1>8. a[1] = f[1] /\ Len(a) >= 1
  BY <1>2
<1>9. \A h \in DOMAIN ch \ {Root} :
        /\ ch[h] \in Seq(Clusters) /\ IsInjective(ch[h])
        /\ Len(ch[h]) >= 1 /\ ch[h][1] = h
        /\ Range(ch[h]) \cap Range(f) = {}
        /\ \A g \in DOMAIN ch \ {Root, h} : Range(ch[h]) \cap Range(ch[g]) = {}
  BY DEF Apart
<1>10. ASSUME NEW h \in DOMAIN t \ {Root}
       PROVE  /\ t[h] \in Seq(Clusters) /\ IsInjective(t[h])
              /\ Len(t[h]) >= 1 /\ t[h][1] = h
              /\ Range(t[h]) \cap Range(b) = {}
              /\ \A g \in DOMAIN t \ {Root, h} : Range(t[h]) \cap Range(t[g]) = {}
  <2>1. CASE h = f[1]
    <3>1. \A g \in DOMAIN t \ {Root, h} : Range(t[h]) \cap Range(t[g]) = {}
      BY <1>2, <1>6, <1>9, <2>1
    <3> QED BY <1>2, <1>6, <1>8, <2>1, <3>1
  <2>2. CASE h # f[1]
    <3>1. h \in DOMAIN ch \ {Root} /\ t[h] = ch[h]
      BY <1>6, <2>2
    <3>2. \A g \in DOMAIN t \ {Root, h} : Range(t[h]) \cap Range(t[g]) = {}
      BY <1>2, <1>6, <1>9, <3>1
    <3> QED BY <1>2, <1>9, <3>1, <3>2
  <2> QED BY <2>1, <2>2
<1>11. ASSUME NEW c \in Clusters \ Range(b)
       PROVE  \E h \in DOMAIN t \ {Root} : c \in Range(t[h])
  <2>1. CASE c \in Range(a)
    BY <1>4, <1>6, <2>1
  <2>2. CASE c \notin Range(a)
    <3>1. c \in Clusters \ Range(f)
      BY <1>2, <2>2
    <3>2. PICK h \in DOMAIN ch \ {Root} : c \in Range(ch[h])
      BY <3>1 DEF Apart
    <3> QED BY <1>6, <3>2
  <2> QED BY <2>1, <2>2
<1>12. Apart(b, t)
  BY <1>1, <1>2, <1>6, <1>10, <1>11 DEF Apart
<1> QED BY <1>2, <1>3, <1>5, <1>6, <1>7, <1>12 DEF t

(* A chain is put before the free clusters.                                *)
LEMMA GiveKeepsApart ==
  ASSUME NEW f, NEW ch, Apart(f, ch), NEW h, h \in DOMAIN ch, h # Root
  PROVE  /\ Apart(ch[h] \o f, Store!Without(ch, h))
         /\ \A k \in 1 .. Len(ch[h]) : (ch[h] \o f)[k] = ch[h][k]
<1> DEFINE q == ch[h] \o f
           w == Store!Without(ch, h)
<1>1. /\ f \in Seq(Clusters) /\ IsInjective(f) /\ Root \in DOMAIN ch
      /\ \A g \in DOMAIN ch \ {Root} :
        /\ ch[g] \in Seq(Clusters) /\ IsInjective(ch[g])
        /\ Len(ch[g]) >= 1 /\ ch[g][1] = g
        /\ Range(ch[g]) \cap Range(f) = {}
        /\ \A e \in DOMAIN ch \ {Root, g} : Range(ch[g]) \cap Range(ch[e]) = {}
  BY DEF Apart
<1>2. /\ q \in Seq(Clusters) /\ Len(q) = Len(ch[h]) + Len(f)
      /\ \A k \in 1 .. Len(ch[h]) : q[k] = ch[h][k]
      /\ IsInjective(q) /\ Range(q) = Range(ch[h]) \cup Range(f)
  BY <1>1, JoinSeq
<1>3. DOMAIN w = DOMAIN ch \ {h} /\ \A g \in DOMAIN ch \ {h} : w[g] = ch[g]
  BY DEF Store!Without, Store!Restrict
<1> HIDE DEF q, w
<1>4. ASSUME NEW g \in DOMAIN w \ {Root}
      PROVE  /\ w[g] \in Seq(Clusters) /\ IsInjective(w[g])
             /\ Len(w[g]) >= 1 /\ w[g][1] = g
             /\ Range(w[g]) \cap Range(q) = {}
             /\ \A e \in DOMAIN w \ {Root, g} : Range(w[g]) \cap Range(w[e]) = {}
  BY <1>1, <1>2, <1>3
<1>5. ASSUME NEW c \in Clusters \ Range(q)
      PROVE  \E g \in DOMAIN w \ {Root} : c \in Range(w[g])
  <2>1. PICK g \in DOMAIN ch \ {Root} : c \in Range(ch[g])
    BY <1>2 DEF Apart
  <2> QED BY <1>2, <1>3, <2>1
<1>6. Apart(q, w)
  BY <1>1, <1>2, <1>3, <1>4, <1>5 DEF Apart
<1> QED BY <1>2, <1>6 DEF q, w

-----------------------------------------------------------------------------
NoLonger(ch, n) == \A h \in DOMAIN ch \ {Root} : Len(ch[h]) <= n

(* A chain that a file of the given size can be on.                        *)
Holds(ch, first, size) ==
  /\ first \in DOMAIN ch \ {Root}
  /\ BlocksFor(size) <= Len(ch[first])

\* the blocks of the chain at h, if there is one
Had(h) == IF h \in DOMAIN chain THEN Len(chain[h]) ELSE 0

(* What a b_write does to the chains: the file has one from its first      *)
(* cluster h that holds size bytes, of which the clusters it had are the   *)
(* first and the new ones were free, and the others stay as they are.      *)
Grown(p, h, size) ==
  /\ p.first = h
  /\ Apart(p.free, p.chain)
  /\ DOMAIN p.chain = DOMAIN chain \cup {h}
  /\ Holds(p.chain, h, size)
  /\ NoLonger(p.chain, BlocksFor(MaxSize))
  /\ \A g \in DOMAIN chain \ {h} : p.chain[g] = chain[g]
  /\ h \in DOMAIN chain =>
       \A k \in 1 .. Len(chain[h]) : k <= Len(p.chain[h]) => p.chain[h][k] = chain[h][k]
  /\ Len(p.free) + Len(p.chain[h]) = Len(free) + Had(h)

(* The bound of a file's size is a number.                                 *)
LEMMA MaxIsNat == BlocksFor(MaxSize) \in Nat \ {0} /\ MaxSize \in Nat
BY BlocksForIsNat, FileAssumption

(* alloc for a new file, when the free clusters are more than it needs.    *)
LEMMA NewGrows ==
  ASSUME Apart(free, chain), NoLonger(chain, BlocksFor(MaxSize)),
         NEW size \in Nat, size <= MaxSize,
         NEW n \in Nat, BlocksFor(size) <= n, n <= BlocksFor(MaxSize),
         n < Len(free)
  PROVE  /\ Grown(Alloc(free, chain, n), free[1], size)
         /\ free[1] \in Clusters \ DOMAIN chain
<1> DEFINE p == Alloc(free, chain, n)
           h == free[1]
<1>1. BlocksFor(size) \in Nat \ {0} /\ BlocksFor(MaxSize) \in Nat
  BY BlocksForIsNat, MaxIsNat
<1>2. 1 <= n /\ free \in Seq(Clusters) /\ Len(free) \in Nat
  BY <1>1 DEF Apart
<1>4. n < Len(free)
  OBVIOUS
<1>5. Store!Grants(free, n)
  BY <1>2, <1>4 DEF Store!Grants
<1>6. p.first = h /\ p.free = Store!Rest(free, n) /\ p.chain = Store!Taken(free, chain, n)
  BY <1>5 DEF Alloc
<1>7. /\ h \in Clusters \ (DOMAIN chain)
      /\ Apart(p.free, p.chain) /\ Len(p.chain[h]) = n
  BY <1>2, <1>4, <1>6, TakeKeepsApart
<1>8. /\ DOMAIN p.chain = DOMAIN chain \cup {h}
      /\ \A g \in DOMAIN chain \ {h} : p.chain[g] = chain[g]
  BY <1>6 DEF Store!Taken
<1>9. h # Root
  BY <1>7, RootIsApart
<1> HIDE DEF p, h
<1>10. Holds(p.chain, h, size)
  BY <1>7, <1>8, <1>9 DEF Holds
<1>11. NoLonger(p.chain, BlocksFor(MaxSize))
  BY <1>7, <1>8 DEF NoLonger
<1>12. Len(p.free) + Len(p.chain[h]) = Len(free) + Had(h)
  <2>1. p.free = SubSeq(free, n + 1, Len(free)) /\ Had(h) = 0
    BY <1>6, <1>7 DEF Store!Rest, Had
  <2>2. free \in Seq(Clusters) /\ IsInjective(free)
    BY DEF Apart
  <2>3. Len(p.free) = Len(free) - n
    BY <1>2, <1>4, <2>1, <2>2, CutSeq
  <2> QED BY <1>2, <1>7, <2>1, <2>3
<1> QED BY <1>6, <1>7, <1>8, <1>10, <1>11, <1>12 DEF Grown, p, h

(* release and alloc for a file that grows.                                *)
LEMMA PlaceGrows ==
  ASSUME Apart(free, chain), NoLonger(chain, BlocksFor(MaxSize)),
         NEW f, f.size \in Nat, NEW count \in Nat, f.size + count <= MaxSize,
         Holds(chain, f.DEptr.first, f.size),
         BlocksFor(f.size + count) < Len(chain[f.DEptr.first]) + Len(free)
  PROVE  Grown(Place(f, count), f.DEptr.first, f.size + count)
<1> DEFINE h == f.DEptr.first
           n == BlocksFor(f.size + count)
           q == chain[h] \o free
           w == Store!Without(chain, h)
<1>1. n \in Nat \ {0} /\ BlocksFor(MaxSize) \in Nat /\ n <= BlocksFor(MaxSize)
      /\ BlocksFor(f.size) \in Nat /\ BlocksFor(f.size) <= n
  <2>1. f.size + count \in Nat /\ MaxSize \in Nat /\ f.size <= f.size + count
    BY MaxIsNat
  <2> QED BY <2>1, BlocksForIsNat, BlocksForGrows
<1>2. h \in DOMAIN chain \ {Root} /\ BlocksFor(f.size) <= Len(chain[h])
  BY DEF Holds
<1>3. CASE ~(n > BlocksFor(f.size))
  <2>1. n = BlocksFor(f.size)
    BY <1>1, <1>3
  <2>2. Place(f, count) = [first |-> h, free |-> free, chain |-> chain]
    BY <1>3 DEF Place
  <2>3. Holds(chain, h, f.size + count)
    BY <1>2, <2>1 DEF Holds
  <2>4. Place(f, count).first = h /\ Place(f, count).free = free
        /\ Place(f, count).chain = chain
    BY <2>2
  <2>5. DOMAIN chain = DOMAIN chain \cup {h}
    BY <1>2
  <2>6. Had(h) = Len(chain[h])
    BY <1>2 DEF Had
  <2> QED BY <2>3, <2>4, <2>5, <2>6 DEF Grown
<1>4. CASE n > BlocksFor(f.size)
  <2> DEFINE p == Alloc(q, w, n)
  <2>1. Place(f, count) = p
    BY <1>4 DEF Place
  <2> HIDE DEF h
  <2>2. /\ Apart(q, w) /\ q[1] = h
        /\ DOMAIN w = DOMAIN chain \ {h}
        /\ \A g \in DOMAIN chain \ {h} : w[g] = chain[g]
        /\ \A k \in 1 .. Len(chain[h]) : q[k] = chain[h][k]
    <3>1. h \in DOMAIN chain /\ h # Root
      BY <1>2
    <3>2. Apart(q, w) /\ \A k \in 1 .. Len(chain[h]) : q[k] = chain[h][k]
      BY <3>1, GiveKeepsApart
    <3>3. 1 \in 1 .. Len(chain[h]) /\ chain[h][1] = h
      BY <3>1 DEF Apart
    <3>4. DOMAIN w = DOMAIN chain \ {h} /\ \A g \in DOMAIN chain \ {h} : w[g] = chain[g]
      BY DEF Store!Without, Store!Restrict
    <3> QED BY <3>2, <3>3, <3>4
  <2>3. NoLonger(w, BlocksFor(MaxSize))
    BY <2>2 DEF NoLonger
  <2> HIDE DEF n, q, w
  <2>6. n < Len(q) /\ n \in Nat /\ 1 <= n /\ Len(q) \in Nat
    <3>1. chain[h] \in Seq(Clusters) /\ free \in Seq(Clusters)
      BY <1>2 DEF Apart
    <3>2. Len(q) = Len(chain[h]) + Len(free)
      BY <3>1 DEF q
    <3> QED BY <1>1, <3>1, <3>2 DEF n, h
  <2>7. Store!Grants(q, n)
    BY <2>6 DEF Store!Grants
  <2>8. p.first = h /\ p.free = Store!Rest(q, n) /\ p.chain = Store!Taken(q, w, n)
    BY <2>2, <2>7 DEF Alloc
  <2> HIDE DEF p
  <2>9. /\ Apart(p.free, p.chain) /\ Len(p.chain[h]) = n
        /\ \A k \in 1 .. n : p.chain[h][k] = q[k]
    BY <2>2, <2>6, <2>8, TakeKeepsApart
  <2>10. /\ DOMAIN p.chain = DOMAIN chain \cup {h}
         /\ \A g \in DOMAIN chain \ {h} : p.chain[g] = chain[g]
    BY <1>2, <2>2, <2>8 DEF Store!Taken
  <2>11. Holds(p.chain, h, f.size + count)
    <3>1. h \in DOMAIN p.chain \ {Root} /\ BlocksFor(f.size + count) <= Len(p.chain[h])
      BY <1>1, <1>2, <2>9, <2>10 DEF n
    <3> QED BY <3>1 DEF Holds
  <2>12. NoLonger(p.chain, BlocksFor(MaxSize))
    BY <1>1, <2>9, <2>10 DEF NoLonger
  <2>13. \A k \in 1 .. Len(chain[h]) : k <= Len(p.chain[h]) => p.chain[h][k] = chain[h][k]
    <3> SUFFICES ASSUME NEW k \in 1 .. Len(chain[h]), k <= n
                 PROVE  p.chain[h][k] = chain[h][k]
      BY <2>9
    <3>1. chain[h] \in Seq(Clusters)
      BY <1>2 DEF Apart
    <3>2. k \in 1 .. n
      BY <2>6, <3>1
    <3>3. p.chain[h][k] = q[k]
      BY <2>9, <3>2
    <3>4. q[k] = chain[h][k]
      BY <2>2
    <3> QED BY <3>3, <3>4
  <2>14. Len(p.free) + Len(p.chain[h]) = Len(free) + Had(h)
    <3>1. chain[h] \in Seq(Clusters) /\ free \in Seq(Clusters) /\ Had(h) = Len(chain[h])
      BY <1>2 DEF Apart, Had
    <3>2. Len(q) = Len(chain[h]) + Len(free)
      BY <3>1 DEF q
    <3>3. q \in Seq(Clusters) /\ IsInjective(q) /\ p.free = SubSeq(q, n + 1, Len(q))
      BY <2>2, <2>8 DEF Apart, Store!Rest
    <3>4. Len(p.free) = Len(q) - n
      BY <2>6, <3>3, CutSeq
    <3>5. Len(chain[h]) \in Nat /\ Len(free) \in Nat
      BY <3>1
    <3> QED BY <2>6, <2>9, <3>1, <3>2, <3>4, <3>5
  <2>15. Grown(p, h, f.size + count)
    BY <2>8, <2>9, <2>10, <2>11, <2>12, <2>13, <2>14 DEF Grown
  <2> QED BY <2>1, <2>15 DEF h
<1> QED BY <1>3, <1>4

-----------------------------------------------------------------------------
(* What reaches the blocks on disk.                                        *)
(* A set of numbers has a least one. *)
LEMMA LeastNumber ==
  ASSUME NEW T \in SUBSET Nat, T # {}
  PROVE  \E m \in T : \A k \in Nat : k < m => k \notin T
<1>1. PICK m \in T : \A k \in T : ~(<<k, m>> \in OpToRel(<, Nat))
  BY Zenon, NatLessThanWellFounded, WFMin
<1>2. ASSUME NEW k \in Nat, k < m PROVE k \notin T
  <2>1. m \in Nat
    OBVIOUS
  <2>2. <<k, m>> \in OpToRel(<, Nat)
    BY <1>2, <2>1 DEF OpToRel
  <2>3. QED
    BY Zenon, <1>1, <2>2
<1>3. QED
  BY <1>2

(* A finite set of numbers has a largest one. *)
LEMMA LastOne ==
  ASSUME NEW N \in Nat, NEW T \in SUBSET (1 .. N), T # {}
  PROVE  Max(T) \in T /\ \A k \in T : k <= Max(T)
<1> DEFINE U == {N - k : k \in T}
<1>1. U \subseteq Nat /\ U # {}
  OBVIOUS
<1>2. PICK m \in U : \A k \in U : m <= k
  <2> HIDE DEF U
  <2>1. PICK m \in U : \A k \in Nat : k < m => k \notin U
    BY <1>1, LeastNumber
  <2>2. \A k \in U : k \in Nat /\ m \in Nat /\ ~(k < m)
    BY <1>1, <2>1
  <2> QED BY <2>2
<1>3. PICK x \in T : m = N - x
  BY <1>2
<1>4. \A k \in T : x >= k
  <2> SUFFICES ASSUME NEW k \in T PROVE x >= k
    OBVIOUS
  <2>1. N - k \in U
    OBVIOUS
  <2>2. N - x <= N - k
    BY <1>2, <1>3, <2>1
  <2>3. x \in 1 .. N /\ k \in 1 .. N
    OBVIOUS
  <2> HIDE DEF U
  <2> QED BY <2>2, <2>3
<1>5. \E y \in T : \A k \in T : y >= k
  BY <1>4
<1> QED BY <1>5 DEF Max

\* puts of blocks of the file that starts at first and has them on its chain
PutsOf(puts) ==
  \E N \in Nat : /\ DOMAIN puts = 1 .. N
                 /\ \A k \in 1 .. N : puts[k][1] \in Nat /\ puts[k][2] \in Block

Target(ch, first, puts, k, c) ==
  HasBlock(ch, first, puts[k][1]) /\ PutAt(ch, first, puts[k][1]) = c

(* Each cluster holds what was last put there, or what it held.            *)
LEMMA PutsReach ==
  ASSUME NEW bl, NEW ch, NEW first, NEW puts, PutsOf(puts), NEW c \in DOMAIN bl
  PROVE  \/ /\ \A k \in DOMAIN puts : ~Target(ch, first, puts, k, c)
            /\ PutBlocks(bl, ch, first, puts)[c] = bl[c]
         \/ \E k \in DOMAIN puts :
              /\ Target(ch, first, puts, k, c)
              /\ \A j \in DOMAIN puts : Target(ch, first, puts, j, c) => j <= k
              /\ PutBlocks(bl, ch, first, puts)[c] = puts[k][2]
<1> DEFINE to == {k \in DOMAIN puts : Target(ch, first, puts, k, c)}
<1>1. PutBlocks(bl, ch, first, puts)[c] = IF to = {} THEN bl[c] ELSE puts[Max(to)][2]
  BY DEF PutBlocks, Target
<1>2. CASE to = {}
  BY <1>1, <1>2
<1>3. CASE to # {}
  <2>1. PICK N \in Nat : DOMAIN puts = 1 .. N
    BY DEF PutsOf
  <2>2. to \in SUBSET (1 .. N)
    BY <2>1
  <2>3. Max(to) \in to /\ \A k \in to : k <= Max(to)
    <3> HIDE DEF to
    <3> QED BY <1>3, <2>2, LastOne
  <2> QED BY <1>1, <1>3, <2>3
<1> QED BY <1>2, <1>3

(* Puts of whole blocks leave whole blocks.                                *)
LEMMA PutsAreBlocks ==
  ASSUME NEW bl \in [Clusters -> Block], NEW ch, NEW first, NEW puts, PutsOf(puts)
  PROVE  PutBlocks(bl, ch, first, puts) \in [Clusters -> Block]
<1>1. DOMAIN PutBlocks(bl, ch, first, puts) = Clusters
      /\ PutBlocks(bl, ch, first, puts) =
           [c \in Clusters |-> PutBlocks(bl, ch, first, puts)[c]]
  BY DEF PutBlocks
<1>2. ASSUME NEW c \in Clusters
      PROVE  PutBlocks(bl, ch, first, puts)[c] \in Block
  <2>1. bl[c] \in Block /\ \A k \in DOMAIN puts : puts[k][2] \in Block
    BY DEF PutsOf
  <2>2. c \in DOMAIN bl
    OBVIOUS
  <2> QED BY <2>1, <2>2, PutsReach
<1> QED BY <1>1, <1>2

(* One put of a block is a sequence of puts.                               *)
LEMMA OnePut ==
  ASSUME NEW rel \in Nat, NEW buf \in Block
  PROVE  PutsOf(<<<<rel, buf>>>>)
<1>1. 1 \in Nat /\ DOMAIN <<<<rel, buf>>>> = 1 .. 1
  OBVIOUS
<1>2. \A k \in 1 .. 1 : <<<<rel, buf>>>>[k] = <<rel, buf>>
  OBVIOUS
<1>3. <<rel, buf>>[1] = rel /\ <<rel, buf>>[2] = buf
  OBVIOUS
<1> QED BY <1>1, <1>2, <1>3 DEF PutsOf

(* So one put leaves whole blocks.                                         *)
LEMMA PutIsBlocks ==
  ASSUME NEW bl \in [Clusters -> Block], NEW ch, NEW first,
         NEW rel \in Nat, NEW buf \in Block
  PROVE  PutBlock(bl, ch, first, rel, buf) \in [Clusters -> Block]
BY OnePut, PutsAreBlocks DEF PutBlock

(* The blocks of the other chains stay as they are.                        *)
LEMMA PutsSpareOthers ==
  ASSUME NEW bl \in [Clusters -> Block], NEW f, NEW ch, Apart(f, ch),
         NEW first, first \in DOMAIN ch, first # Root, NEW puts, PutsOf(puts),
         NEW g, g \in DOMAIN ch, g # Root, g # first, NEW c \in Range(ch[g])
  PROVE  PutBlocks(bl, ch, first, puts)[c] = bl[c]
<1>1. /\ ch[g] \in Seq(Clusters) /\ ch[first] \in Seq(Clusters)
      /\ Range(ch[first]) \cap Range(ch[g]) = {}
  BY DEF Apart
<1>2. c \in Clusters
  BY <1>1 DEF Range
<1>3. ASSUME NEW k \in DOMAIN puts, Target(ch, first, puts, k, c)
      PROVE  FALSE
  <2>1. puts[k][1] \in Nat
    BY DEF PutsOf
  <2>2. puts[k][1] + 1 \in DOMAIN ch[first] /\ ch[first][puts[k][1] + 1] = c
    BY <1>1, <1>3, <2>1 DEF Target, HasBlock, PutAt
  <2> QED BY <1>1, <2>2 DEF Range
<1> QED BY <1>2, <1>3, PutsReach

-----------------------------------------------------------------------------
(* A directory in order: its entries name chains that hold its files, and  *)
(* no chain twice.  A descriptor in order has the directory as it is, its  *)
(* own entry in it or a free one, and a chain that holds as many bytes as  *)
(* it counts.                                                              *)
Used(d) == {s \in Slots : d[s] # Unused}

Firsts(d) == {d[s].first : s \in Used(d)}

Tidy(d, ch) ==
  /\ \A s \in Used(d) : d[s].name \in Files /\ Holds(ch, d[s].first, d[s].size)
  /\ \A s, t \in Used(d) : d[s].first = d[t].first => s = t

\* a new file, before its first b_write
Fresh(f, d) ==
  /\ d[f.indexDE] = Unused
  /\ f.size = 0 /\ f.filePosition = 0 /\ f.buflen = 0

HasEntry(f, d) ==
  /\ d[f.indexDE] # Unused
  /\ d[f.indexDE].first = f.DEptr.first
  /\ d[f.indexDE].name = f.DEptr.name
  /\ d[f.indexDE].size <= f.size

NoEntryYet(f, d) ==
  /\ d[f.indexDE] = Unused
  /\ \A s \in Used(d) : d[s].first # f.DEptr.first

OnItsChain(f, d, ch) ==
  /\ Holds(ch, f.DEptr.first, f.size)
  /\ f.relativeFileBlockPs <= f.size \div B
  /\ f.filePosition <= f.size
  /\ HasEntry(f, d) \/ NoEntryYet(f, d)

\* what is left in the buffer is left in the file
ReadsInFile(f) ==
  /\ f.newFile = 1 /\ f.isBufferDirty = 1
  /\ f.buflen <= f.size
  /\ f.index <= f.buflen => f.filePosition + f.buflen - f.index <= f.size

Good(f, d, ch) ==
  /\ f.parentDir = d
  /\ f.DEptr.name \in Files
  /\ f.newFile = 0 => Fresh(f, d)
  /\ f.newFile = 1 => OnItsChain(f, d, ch)
  /\ f.mode = "read" => ReadsInFile(f)

\* a volume in order, whatever is open
Sound ==
  /\ TypeOK /\ stray = FALSE
  /\ Apart(free, chain) /\ NoLonger(chain, BlocksFor(MaxSize))
  /\ Tidy(dir, chain)

-----------------------------------------------------------------------------
(* An unused entry is an entry, with the location -1.                      *)
LEMMA UnusedIsEntry == Unused \in Entry /\ Unused.name = NoName /\ Unused.first = -1
                       /\ Unused.size = 0
BY MaxIsNat DEF Unused, Entry, EOF_FLAG

(* A call that sets a descriptor leaves the others as they are.            *)
LEMMA NowOpen ==
  ASSUME fcbArray \in [Fds -> Fcb \cup {NULL, CLOSED}], NEW fd \in Fds,
         NEW g \in Fcb, fcbArray' = [fcbArray EXCEPT ![fd] = g]
  PROVE  /\ fcbArray' \in [Fds -> Fcb \cup {NULL, CLOSED}]
         /\ OpenFds' = OpenFds \cup {fd} /\ fcbArray'[fd] = g
         /\ \A fe \in Fds \ {fd} : fcbArray'[fe] = fcbArray[fe]
<1>1. fcbArray'[fd] = g /\ g \notin {NULL, CLOSED}
  BY FcbAssumption
<1>2. \A fe \in Fds \ {fd} : fcbArray'[fe] = fcbArray[fe]
  OBVIOUS
<1> QED BY <1>1, <1>2 DEF OpenFds, IsOpen

(* So does one that closes a descriptor, or fails to open one.             *)
LEMMA NowClosed ==
  ASSUME fcbArray \in [Fds -> Fcb \cup {NULL, CLOSED}], NEW fd \in Fds,
         fcbArray' = [fcbArray EXCEPT ![fd] = CLOSED]
  PROVE  /\ fcbArray' \in [Fds -> Fcb \cup {NULL, CLOSED}]
         /\ OpenFds' = OpenFds \ {fd} /\ fcbArray'[fd] = CLOSED
         /\ \A fe \in Fds \ {fd} : fcbArray'[fe] = fcbArray[fe]
<1>1. fcbArray'[fd] = CLOSED /\ \A fe \in Fds \ {fd} : fcbArray'[fe] = fcbArray[fe]
  OBVIOUS
<1> QED BY <1>1 DEF OpenFds, IsOpen

-----------------------------------------------------------------------------
(* b_open.                                                                 *)
LEMMA LeastIn ==
  ASSUME NEW T \in SUBSET Nat, T # {}
  PROVE  Least(T) \in T
<1>1. PICK m \in T : \A k \in Nat : k < m => k \notin T
  BY LeastNumber
<1>2. m \in Nat /\ \A k \in T : k \in Nat /\ ~(k < m)
  BY <1>1
<1>3. \A k \in T : m <= k
  BY <1>2
<1> QED BY <1>3 DEF Least

(* The slot that a name is found in has that name.                         *)
LEMMA SlotIsThere ==
  ASSUME NEW n, SlotsOf(n) # {}
  PROVE  Least(SlotsOf(n)) \in Slots /\ dir[Least(SlotsOf(n))].name = n
<1>1. SlotsOf(n) \subseteq Slots /\ SlotsOf(n) \in SUBSET Nat
  BY FileAssumption DEF SlotsOf
<1>2. Least(SlotsOf(n)) \in SlotsOf(n)
  BY <1>1, LeastIn
<1> QED BY <1>2 DEF SlotsOf

(* b_getFCB gives a descriptor of the table.                               *)
LEMMA DescriptorIsThere ==
  ASSUME NEW fd \in {b_getFCB} \ {-1}
  PROVE  fd \in Fds /\ fcbArray[fd] = NULL
<1>1. FreeFcbs # {} /\ fd = Least(FreeFcbs)
  BY DEF b_getFCB
<1>2. FreeFcbs \in SUBSET Nat /\ FreeFcbs \subseteq Fds
  BY FileAssumption DEF FreeFcbs, Fds
<1>3. fd \in FreeFcbs
  BY <1>1, <1>2, LeastIn
<1> QED BY <1>3 DEF FreeFcbs

-----------------------------------------------------------------------------
(* b_write.                                                                *)
\* blocks 0 to n of a file
Puts(n) == (0 .. n) \X Block

(* Puts of blocks up to n, as a sequence.                                  *)
LEMMA PutsInSeq ==
  ASSUME NEW n \in Nat, NEW puts \in Seq(Puts(n))
  PROVE  PutsOf(puts) /\ \A k \in DOMAIN puts : puts[k][1] <= n
<1>1. DOMAIN puts = 1 .. Len(puts) /\ Len(puts) \in Nat
  OBVIOUS
<1>2. \A k \in 1 .. Len(puts) : puts[k] \in Puts(n)
  OBVIOUS
<1>3. \A k \in 1 .. Len(puts) : puts[k][1] \in 0 .. n /\ puts[k][2] \in Block
  BY SMTT(30), <1>2 DEF Puts
<1>4. \A k \in 1 .. Len(puts) : puts[k][1] \in Nat /\ puts[k][1] <= n
  BY <1>3
<1>5. PutsOf(puts)
  BY Zenon, <1>1, <1>3, <1>4 DEF PutsOf
<1> QED BY <1>1, <1>4, <1>5

(* A chain that is long enough for a file has the block of each of its     *)
(* positions.                                                              *)
LEMMA HoldsBlock ==
  ASSUME NEW ch, NEW first, NEW size \in Nat, Holds(ch, first, size),
         NEW rel \in Nat, rel <= size \div B, Len(ch[first]) \in Nat
  PROVE  HasBlock(ch, first, rel)
<1>1. BlocksFor(size) = size \div B + 1 /\ size \div B \in Nat
  BY BlocksForIsNat
<1>2. rel < Len(ch[first])
  BY <1>1 DEF Holds
<1> QED BY <1>2 DEF Holds, HasBlock

(* A chain is a sequence of clusters.                                      *)
LEMMA ChainIsSeq ==
  ASSUME NEW f, NEW ch, Apart(f, ch), NEW h, h \in DOMAIN ch, h # Root
  PROVE  ch[h] \in Seq(Clusters) /\ Len(ch[h]) \in Nat
BY DEF Apart

(* The descriptor after a branch of b_write.                               *)
WentOn(f, g, count) ==
  /\ g \in Fcb /\ g.newFile = 1 /\ g.mode # "read" /\ g.mode = f.mode
  /\ g.parentDir = f.parentDir /\ g.DEptr = f.DEptr /\ g.indexDE = f.indexDE
  /\ f.size <= g.size /\ g.size <= f.size + count /\ g.filePosition <= g.size
  /\ g.relativeFileBlockPs <= g.size \div B

Advance(f, count, buf, len, ix) ==
  [f EXCEPT !.buf = buf, !.index = ix, !.buflen = len, !.size = @ + count,
            !.filePosition = @ + count,
            !.relativeFileBlockPs = BlockOf(f.filePosition + count),
            !.isBufferDirty = 1, !.newFile = 1]

(* The fields that a branch of b_write moves stay in their ranges.         *)
LEMMA AdvanceGoesOn ==
  ASSUME NEW f \in Fcb, NEW count \in Nat, f.size + count <= MaxSize,
         f.filePosition <= f.size, f.mode # "read",
         NEW buf \in Block, NEW len \in 0 .. B, NEW ix \in Nat
  PROVE  /\ WentOn(f, Advance(f, count, buf, len, ix), count)
         /\ BlockOf(f.filePosition + count) \in 0 .. ((f.size + count) \div B)
<1> DEFINE g == Advance(f, count, buf, len, ix)
           rel == BlockOf(f.filePosition + count)
           size == f.size + count
           pos == f.filePosition + count
<1>1. f.size \in 0 .. MaxSize /\ f.filePosition \in Nat
  BY DEF Fcb
<1>2. size \in 0 .. MaxSize /\ pos \in Nat /\ f.size <= size /\ pos <= size /\ size \in Nat
  BY <1>1, MaxIsNat
<1>3. rel \in Nat /\ rel <= size \div B /\ size \div B \in Nat
  <2> HIDE DEF size
  <2> QED BY <1>2, BlocksForGrows, BlocksForIsNat
<1>4. /\ g.size = size /\ g.filePosition = pos /\ g.relativeFileBlockPs = rel
      /\ g.newFile = 1 /\ g.mode = f.mode
      /\ g.parentDir = f.parentDir /\ g.DEptr = f.DEptr /\ g.indexDE = f.indexDE
  BY DEF Advance, Fcb
<1>5. g \in Fcb
  <2> HIDE DEF size, pos, rel
  <2>1. g = [f EXCEPT !.buf = buf, !.index = ix, !.buflen = len, !.size = size,
                      !.filePosition = pos, !.relativeFileBlockPs = rel,
                      !.isBufferDirty = 1, !.newFile = 1]
    BY DEF Advance, Fcb, size, pos, rel
  <2> HIDE DEF g
  <2> QED BY <1>2, <1>3, <2>1 DEF Fcb
<1> HIDE DEF g
<1> QED BY <1>2, <1>3, <1>4, <1>5 DEF WentOn, g

(* Whatever branch b_write takes, the file has a chain for all its bytes,  *)
(* no put goes past it and the fields do not count more.                   *)
WroteAs(fd, bytes, p, h, puts, g) ==
  LET f == fcbArray[fd]
      count == Len(bytes)
  IN  /\ Grown(p, h, f.size + count)
      /\ \/ f.newFile = 1 /\ h = f.DEptr.first
         \/ f.newFile = 0 /\ h \in Clusters \ DOMAIN chain
      /\ puts \in Seq(Puts((f.size + count) \div B))
      /\ WentOn(f, g, count)
      /\ Wrote(fd, bytes, p, puts, g)

(* The bytes that b_write copies are blocks.                               *)
LEMMA OverlayIsBlock ==
  ASSUME NEW buf \in Block, NEW at \in Nat, NEW bytes \in Seq(Byte)
  PROVE  Overlay(buf, at, bytes) \in Block
<1>1. ASSUME NEW k \in 1 .. B
      PROVE  (IF k - at \in DOMAIN bytes THEN bytes[k - at] ELSE buf[k]) \in Byte
  BY DEF Block
<1> QED BY <1>1 DEF Overlay, Block

(* A block's worth of the caller's bytes is a block.                       *)
LEMMA CutIsBlock ==
  ASSUME NEW bytes \in Seq(Byte), NEW m \in Nat, NEW n \in Nat, n = m + B, n <= Len(bytes)
  PROVE  SubSeq(bytes, m + 1, n) \in Block
<1>1. SubSeq(bytes, m + 1, n) = [k \in 1 .. B |-> bytes[m + k]]
  BY BlockIsNat
<1>2. \A k \in 1 .. B : bytes[m + k] \in Byte
  BY BlockIsNat
<1> QED BY <1>1, <1>2 DEF Block

(* The buffer after a remainder was laid over it is a block.               *)
LEMMA TailIsBlock ==
  ASSUME NEW buf \in Block, NEW bytes \in Seq(Byte), NEW n \in Nat, n <= Len(bytes)
  PROVE  TailBuf(buf, bytes, n) \in Block
<1>1. SubSeq(bytes, Len(bytes) - n + 1, Len(bytes)) \in Seq(Byte)
  OBVIOUS
<1> QED BY <1>1, OverlayIsBlock DEF TailBuf

(* The whole blocks of a b_write are blocks of the file.                   *)
LEMMA WholeIsPuts ==
  ASSUME NEW fd, fcbArray[fd].filePosition \in Nat, NEW size \in Nat,
         fcbArray[fd].filePosition <= size,
         NEW bytes \in Seq(Byte), NEW from \in Nat, from <= Len(bytes)
  PROVE  /\ WholePuts(fd, from, bytes) \in Seq(Puts((size + Len(bytes)) \div B))
         /\ WholePuts(fd, from, bytes) # <<>> => Last(WholePuts(fd, from, bytes))[2] \in Block
         /\ Len(WholePuts(fd, from, bytes)) = (Len(bytes) - from) \div B
<1> DEFINE pos == fcbArray[fd].filePosition
           m == (Len(bytes) - from) \div B
           put(k) == <<BlockOf(pos + from + k * B),
                       SubSeq(bytes, from + (k - 1) * B + 1, from + k * B)>>
           whole == [k \in 1 .. m |-> put(k)]
           n == (size + Len(bytes)) \div B
<1>1. m \in Nat /\ m * B <= Len(bytes) - from
  <2>1. Len(bytes) - from \in Nat
    OBVIOUS
  <2> QED BY <2>1, BlockIsNat
<1>2. ASSUME NEW k \in 1 .. m
      PROVE  put(k) \in Puts(n) /\ put(k)[2] \in Block
  <2>1. k * B \in Nat /\ (k - 1) * B \in Nat /\ k * B = (k - 1) * B + B
        /\ k * B <= m * B
    <3>1. k \in Nat \ {0} /\ m \in Nat /\ k <= m
      BY <1>1
    <3> HIDE DEF m, put, n
    <3> DEFINE j == k - 1
    <3>2. j \in Nat /\ k = j + 1
      BY <3>1
    <3> HIDE DEF j
    <3>3. j * B \in Nat /\ (j + 1) * B = j * B + B
      BY <3>2, TimesGrows
    <3>4. k * B \in Nat /\ k * B <= m * B
      BY <3>1, TimesGrows
    <3>5. k * B = j * B + B
      BY <3>2, <3>3
    <3> QED BY <3>3, <3>4, <3>5 DEF j
  <2> DEFINE kb == k * B
             jb == (k - 1) * B
             len == Len(bytes)
  <2>6. kb \in Nat /\ jb \in Nat /\ kb = jb + B /\ kb <= len - from /\ len \in Nat
    <3>1. m * B \in Nat
      BY <1>1, BlockIsNat
    <3> QED BY <1>1, <2>1, <3>1
  <2> HIDE DEF kb, jb, len
  <2>2. from + jb \in Nat /\ from + kb = (from + jb) + B /\ from + kb <= len
        /\ from + kb \in Nat
    BY <2>6, BlockIsNat
  <2>3. SubSeq(bytes, from + jb + 1, from + kb) \in Block
    BY <2>2, CutIsBlock DEF len
  <2>4. pos + from + kb \in Nat /\ size + len \in Nat /\ pos + from + kb <= size + len
    <3>1. pos \in Nat /\ size \in Nat /\ pos <= size
      OBVIOUS
    <3> QED BY <2>2, <2>6, <3>1, AddsUp
  <2>5. BlockOf(pos + from + kb) \in Nat /\ BlockOf(pos + from + kb) <= n /\ n \in Nat
    BY <2>4, BlocksForGrows, BlocksForIsNat DEF len
  <2> DEFINE rel == BlockOf(pos + from + kb)
             buf == SubSeq(bytes, from + jb + 1, from + kb)
  <2>7. put(k) = <<rel, buf>>
    BY DEF kb, jb
  <2>8. rel \in 0 .. n
    BY <2>5
  <2>9. buf \in Block
    BY <2>3
  <2> HIDE DEF rel, buf, put
  <2> QED BY <2>7, <2>8, <2>9 DEF Puts
<1>3. WholePuts(fd, from, bytes) = whole
  BY DEF WholePuts
<1> HIDE DEF put, m, n
<1>4. whole \in Seq(Puts(n)) /\ Len(whole) = m
  BY <1>1, <1>2
<1>5. ASSUME whole # <<>> PROVE Last(whole)[2] \in Block
  <2>1. m \in 1 .. m
    BY <1>1, <1>4, <1>5
  <2> QED BY <1>2, <1>4, <2>1 DEF Last
<1> QED BY <1>3, <1>4, <1>5 DEF n, m

-----------------------------------------------------------------------------
(* The bytes.  Block r of a file of the given bytes holds its part of them. *)
Fits(buf, r, data) == \A j \in 1 .. B : r * B + j <= Len(data) => buf[j] = data[r * B + j]

\* the chain of a file of that size has the bytes, and no others count
Keeps(ch, bl, first, size, data) ==
  /\ size = Len(data)
  /\ \A r \in Nat : r * B < size => Fits(bl[ch[first][r + 1]], r, data)

(* What lies before a byte of block b is in it, or in a block before it.   *)
LEMMA BlockBefore ==
  ASSUME NEW a \in Nat, NEW b \in Nat, NEW j \in Nat, j <= B, a * B < b * B + j
  PROVE  a < b \/ (a = b /\ j > 0)
<1>1. B \in Nat \ {0, 1} /\ a * B \in Nat /\ b * B \in Nat
  BY BlockIsNat, TimesGrows
<1>2. CASE a < b
  BY <1>2
<1>3. CASE a = b
  BY <1>1, <1>3
<1>4. CASE b < a
  <2>1. b * B + B <= a * B
    BY <1>4, TimesGrows
  <2> QED BY <1>1, <2>1
<1> QED BY <1>2, <1>3, <1>4

(* The block of the j-th byte behind r blocks.                             *)
LEMMA BlockIs ==
  ASSUME NEW r \in Nat, NEW j \in Nat, 1 <= j, j <= B, NEW x, x = r * B + j
  PROVE  BlockOf(x) = r
<1>1. B \in Nat \ {0, 1} /\ r * B \in Nat
  BY BlockIsNat, TimesGrows
<1>2. x \in Nat /\ x # 0 /\ x - 1 = r * B + (j - 1) /\ j - 1 \in Nat /\ j - 1 < B
  BY <1>1
<1>3. (r * B + (j - 1)) \div B = r
  BY <1>1, <1>2
<1> QED BY <1>2, <1>3 DEF BlockOf

(* A position is a block and a place in it.                                *)
LEMMA Split ==
  ASSUME NEW x \in Nat
  PROVE  /\ x \div B \in Nat /\ x % B \in Nat /\ x % B < B
         /\ x = (x \div B) * B + (x % B)
<1> DEFINE q == x \div B
           r == x % B
<1>1. B \in Nat \ {0, 1}
  BY BlockIsNat
<1>2. r \in Nat /\ r < B /\ q \in Nat
  BY <1>1
<1>3. r = x - B * q
  BY <1>1, Z3
<1> HIDE DEF q, r
<1>4. B * q = q * B /\ q * B \in Nat
  BY <1>1, <1>2
<1>6. PICK m \in Nat : m = q * B
  BY <1>4
<1>7. r = x - m
  BY <1>3, <1>4, <1>6
<1>8. x = m + r
  BY <1>2, <1>7
<1>5. x = q * B + r
  BY <1>6, <1>8
<1> QED BY <1>2, <1>5 DEF q, r

(* A byte that is handed over comes after those that the file has.         *)
LEMMA JoinedAt ==
  ASSUME NEW data \in Seq(Byte), NEW bytes \in Seq(Byte)
  PROVE  /\ data \o bytes \in Seq(Byte) /\ Len(data \o bytes) = Len(data) + Len(bytes)
         /\ \A k \in 1 .. Len(data) : (data \o bytes)[k] = data[k]
         /\ \A k \in 1 .. Len(bytes) : (data \o bytes)[Len(data) + k] = bytes[k]
OBVIOUS

\* the part of the caller's bytes that begins behind the first from ones
PartOf(part, from, bytes) ==
  /\ part \in Seq(Byte) /\ from \in Nat /\ from + Len(part) <= Len(bytes)
  /\ \A k \in 1 .. Len(part) : part[k] = bytes[from + k]

\* a place in block r, behind at bytes, that the byte behind from others has
PlaceOf(r, at, data, from) ==
  /\ r \in Nat /\ at \in 0 .. B /\ from \in Nat
  /\ Len(data) + from = r * B + at

\* block r begins behind the first from bytes
StartsAt(r, data, from) == PlaceOf(r, 0, data, from)

(* A part of the bytes that is laid over a buffer, where they belong and   *)
(* as many as there are or as fit in, makes it the block of the file.      *)
LEMMA LaidFits ==
  ASSUME NEW data \in Seq(Byte), NEW bytes \in Seq(Byte), NEW r, NEW at, NEW buf,
         NEW part, NEW from, PartOf(part, from, bytes), PlaceOf(r, at, data, from),
         at + Len(part) >= B \/ from + Len(part) = Len(bytes),
         at > 0 => from = 0 /\ Fits(buf, r, data)
  PROVE  Fits(Overlay(buf, at, part), r, data \o bytes)
<1> DEFINE d2 == data \o bytes
           rb == r * B
<1>1. /\ r \in Nat /\ at \in Nat /\ at <= B /\ from \in Nat /\ rb \in Nat
      /\ Len(data) + from = rb + at /\ B \in Nat
      /\ part \in Seq(Byte) /\ Len(part) \in Nat /\ from + Len(part) <= Len(bytes)
      /\ \A k \in 1 .. Len(part) : part[k] = bytes[from + k]
  BY BlockIsNat, TimesGrows DEF PartOf, PlaceOf
<1>2. /\ Len(d2) = Len(data) + Len(bytes) /\ Len(data) \in Nat /\ Len(bytes) \in Nat
      /\ \A k \in 1 .. Len(data) : d2[k] = data[k]
      /\ \A k \in 1 .. Len(bytes) : d2[Len(data) + k] = bytes[k]
  BY JoinedAt
<1>3. SUFFICES ASSUME NEW j \in 1 .. B, rb + j <= Len(d2)
               PROVE  Overlay(buf, at, part)[j] = d2[rb + j]
  BY DEF Fits
<1>4. Overlay(buf, at, part)[j] = IF j - at \in DOMAIN part THEN part[j - at] ELSE buf[j]
  BY DEF Overlay
<1>5. DOMAIN part = 1 .. Len(part)
  BY <1>1
<1> HIDE DEF d2, rb
<1>6. CASE j <= at
  <2>1. j - at \notin 1 .. Len(part)
    BY <1>1, <1>6
  <2>2. from = 0 /\ Fits(buf, r, data)
    BY <1>1, <1>6
  <2>3. rb + j <= Len(data) /\ rb + j \in 1 .. Len(data)
    BY <1>1, <1>2, <1>6, <2>2
  <2>4. buf[j] = data[rb + j]
    BY <2>2, <2>3 DEF Fits, rb
  <2> QED BY <1>2, <1>4, <1>5, <2>1, <2>3, <2>4
<1>7. CASE at < j
  <2> DEFINE k == j - at
  <2>1. k \in Nat /\ 1 <= k /\ at + k = j /\ k <= B - at
    BY <1>1, <1>7
  <2> HIDE DEF k
  <2>2. rb + j = Len(data) + (from + k) /\ from + k \in Nat
    <3> DEFINE ld == Len(data)
    <3>1. ld \in Nat /\ ld + from = rb + at
      BY <1>1, <1>2
    <3> HIDE DEF ld
    <3>2. rb + j = ld + (from + k) /\ from + k \in Nat
      BY <1>1, <2>1, <3>1
    <3> QED BY <3>2 DEF ld
  <2>3. k <= Len(part) /\ from + k <= Len(bytes)
    <3> DEFINE ld == Len(data)
               lb == Len(bytes)
               lp == Len(part)
    <3>1. /\ ld \in Nat /\ lb \in Nat /\ lp \in Nat /\ from \in Nat
          /\ rb + j <= ld + lb /\ rb + j = ld + (from + k)
      BY <1>1, <1>2, <1>3, <2>2
    <3>2. at + lp >= B \/ from + lp = lb
      OBVIOUS
    <3> HIDE DEF ld, lb, lp
    <3>3. from + k <= lb
      BY <2>1, <3>1
    <3>4. at + lp >= B => k <= lp
      BY <1>1, <2>1, <3>1
    <3>5. from + lp = lb => k <= lp
      BY <1>1, <2>1, <3>1, <3>3
    <3> QED BY <3>2, <3>3, <3>4, <3>5 DEF lp, lb
  <2>4. from + k \in 1 .. Len(bytes) /\ k \in 1 .. Len(part)
    BY <1>1, <1>2, <2>1, <2>3
  <2>5. part[k] = bytes[from + k] /\ d2[rb + j] = bytes[from + k]
    BY <1>1, <1>2, <2>2, <2>4
  <2> QED BY <1>4, <1>5, <2>4, <2>5 DEF k
<1> QED BY <1>1, <1>6, <1>7

(* A block's worth of the bytes is a block of the file.                    *)
LEMMA CutFits ==
  ASSUME NEW data \in Seq(Byte), NEW bytes \in Seq(Byte), NEW r, NEW m, NEW n,
         StartsAt(r, data, m), n = m + B, n <= Len(bytes)
  PROVE  Fits(SubSeq(bytes, m + 1, n), r, data \o bytes)
<1> DEFINE d2 == data \o bytes
           rb == r * B
           cut == SubSeq(bytes, m + 1, n)
<1>1. /\ r \in Nat /\ m \in Nat /\ rb \in Nat /\ Len(data) + m = rb /\ B \in Nat \ {0, 1}
      /\ n \in Nat /\ Len(data) \in Nat /\ Len(bytes) \in Nat
  BY BlockIsNat, TimesGrows DEF StartsAt, PlaceOf
<1>2. /\ Len(d2) = Len(data) + Len(bytes)
      /\ \A k \in 1 .. Len(bytes) : d2[Len(data) + k] = bytes[k]
  BY JoinedAt
<1>3. cut = [k \in 1 .. B |-> bytes[m + k]]
  BY <1>1
<1> HIDE DEF cut
<1>4. SUFFICES ASSUME NEW j \in 1 .. B PROVE cut[j] = d2[rb + j]
  BY DEF Fits, cut
<1>5. cut[j] = bytes[m + j]
  BY <1>3
<1> HIDE DEF d2, rb
<1>6. m + j \in 1 .. Len(bytes) /\ rb + j = Len(data) + (m + j)
  BY <1>1
<1> QED BY <1>2, <1>5, <1>6

(* What is in sequences that are joined.                                   *)
LEMMA RangeJoins ==
  ASSUME NEW S, NEW a \in Seq(S), NEW b \in Seq(S)
  PROVE  Range(a \o b) = Range(a) \cup Range(b)
<1>1. /\ Len(a) \in Nat /\ Len(b) \in Nat
      /\ DOMAIN a = 1 .. Len(a) /\ DOMAIN b = 1 .. Len(b)
      /\ DOMAIN (a \o b) = 1 .. (Len(a) + Len(b))
      /\ \A k \in 1 .. Len(a) : (a \o b)[k] = a[k]
      /\ \A k \in 1 .. Len(b) : (a \o b)[Len(a) + k] = b[k]
  OBVIOUS
<1> DEFINE c == a \o b
<1> HIDE DEF c
<1>2. ASSUME NEW k \in DOMAIN c PROVE c[k] \in Range(a) \cup Range(b)
  <2>1. CASE k <= Len(a)
    BY <1>1, <2>1 DEF Range, c
  <2>2. CASE Len(a) < k
    <3>1. k - Len(a) \in 1 .. Len(b) /\ Len(a) + (k - Len(a)) = k
      BY <1>1, <2>2 DEF c
    <3> QED BY <1>1, <3>1 DEF Range, c
  <2> QED BY <1>1, <2>1, <2>2 DEF c
<1>3. \A k \in DOMAIN a : k \in DOMAIN c /\ c[k] = a[k]
  BY <1>1 DEF c
<1>4. \A k \in DOMAIN b : Len(a) + k \in DOMAIN c /\ c[Len(a) + k] = b[k]
  BY <1>1 DEF c
<1>5. Range(c) \subseteq Range(a) \cup Range(b)
  BY <1>2 DEF Range
<1>6. Range(a) \subseteq Range(c)
  BY <1>3 DEF Range
<1>7. Range(b) \subseteq Range(c)
  BY <1>4 DEF Range
<1> QED BY <1>5, <1>6, <1>7 DEF c

(* The same of three, as b_write joins them.                               *)
LEMMA RangeOfThree ==
  ASSUME NEW S, NEW a \in Seq(S), NEW b \in Seq(S), NEW c \in Seq(S)
  PROVE  Range(a \o b \o c) = Range(a) \cup Range(b) \cup Range(c)
<1> DEFINE ab == a \o b
<1>1. ab \in Seq(S)
  OBVIOUS
<1>2. Range(ab) = Range(a) \cup Range(b)
  BY RangeJoins
<1> HIDE DEF ab
<1>3. Range(ab \o c) = Range(ab) \cup Range(c)
  BY <1>1, RangeJoins
<1> QED BY <1>2, <1>3 DEF ab

\* the last block of the given bytes, r, has len of them
Ends(len, r, data) == r \in Nat /\ len \in 0 .. B /\ Len(data) = r * B + len

\* every put is what the file of the bytes data \o bytes has there, and each
\* block that is not full in data is put
PutsRight(puts, data, bytes) ==
  /\ \A x \in Range(puts) : Fits(x[2], x[1], data \o bytes)
  /\ \A r \in Nat : r * B < Len(data \o bytes) =>
       r * B + B <= Len(data) \/ \E x \in Range(puts) : x[1] = r

(* The whole blocks that b_write puts from the given place on.             *)
LEMMA WholeFits ==
  ASSUME NEW fd, NEW data \in Seq(Byte), fcbArray[fd].filePosition = Len(data),
         NEW bytes \in Seq(Byte), NEW r, NEW from, StartsAt(r, data, from),
         from <= Len(bytes)
  PROVE  LET m == (Len(bytes) - from) \div B
         IN  \A k \in 1 .. m :
               /\ WholePuts(fd, from, bytes)[k][1] = r + (k - 1)
               /\ Fits(WholePuts(fd, from, bytes)[k][2], r + (k - 1), data \o bytes)
<1> DEFINE rest == Len(bytes) - from
           m == rest \div B
<1>1. /\ r \in Nat /\ from \in Nat /\ r * B \in Nat /\ Len(data) + from = r * B
      /\ Len(data) \in Nat /\ Len(bytes) \in Nat /\ rest \in Nat
      /\ Len(bytes) = from + rest /\ B \in Nat \ {0, 1}
  <2>1. r \in Nat /\ from \in Nat /\ Len(data) + from = r * B + 0
    BY DEF StartsAt, PlaceOf
  <2>2. r * B \in Nat
    BY <2>1, TimesGrows
  <2> QED BY <2>1, <2>2, BlockIsNat
<1>2. m \in Nat /\ m * B <= rest /\ m * B \in Nat
  <2> HIDE DEF rest
  <2>1. m \in Nat /\ rest % B \in Nat /\ rest = m * B + (rest % B)
    BY <1>1, Split
  <2>2. m * B \in Nat
    BY <2>1, TimesGrows
  <2> QED BY <2>1, <2>2
<1>3. SUFFICES ASSUME NEW k \in 1 .. m
               PROVE  /\ WholePuts(fd, from, bytes)[k][1] = r + (k - 1)
                      /\ Fits(WholePuts(fd, from, bytes)[k][2], r + (k - 1), data \o bytes)
  OBVIOUS
<1> DEFINE put == <<BlockOf(Len(data) + from + k * B),
                    SubSeq(bytes, from + (k - 1) * B + 1, from + k * B)>>
<1>4. WholePuts(fd, from, bytes)[k] = put
  BY DEF WholePuts
<1> HIDE DEF m, rest, put
<1> DEFINE i == k - 1
           s == r + i
           a == from + i * B
           n == from + k * B
<1>5. /\ i \in Nat /\ i * B \in Nat /\ k * B \in Nat /\ k * B = i * B + B /\ k * B <= m * B
      /\ s \in Nat /\ s * B = r * B + i * B /\ s * B \in Nat
  <2>1. i \in Nat /\ k = i + 1 /\ k \in Nat /\ k <= m
    BY <1>2
  <2> HIDE DEF i
  <2>2. i * B \in Nat /\ (i + 1) * B = i * B + B /\ (r + i) * B = r * B + i * B
    BY <1>1, <2>1, TimesGrows
  <2>3. k * B \in Nat /\ k * B <= m * B
    BY <1>2, <2>1, TimesGrows
  <2>4. k * B = i * B + B
    BY <2>1, <2>2
  <2>5. s \in Nat
    BY <1>1, <2>1
  <2>6. s * B \in Nat
    BY <2>5, TimesGrows
  <2> QED BY <2>1, <2>2, <2>3, <2>4, <2>5, <2>6
<1> DEFINE ld == Len(data)
           lb == Len(bytes)
           rb == r * B
           ib == i * B
           kb == k * B
           sb == s * B
<1>11. /\ rb \in Nat /\ ib \in Nat /\ kb \in Nat /\ sb \in Nat /\ ld \in Nat /\ lb \in Nat
       /\ from \in Nat /\ rest \in Nat /\ ld + from = rb /\ lb = from + rest
       /\ kb = ib + B /\ kb <= rest /\ sb = rb + ib /\ B \in Nat \ {0, 1}
  <2>1. kb <= rest
    <3>1. m * B \in Nat /\ m * B <= rest /\ rest \in Nat /\ kb \in Nat /\ kb <= m * B
      BY <1>1, <1>2, <1>5
    <3> DEFINE mb == m * B
    <3> HIDE DEF mb, kb, rest
    <3>2. mb \in Nat /\ mb <= rest /\ kb <= mb
      BY <3>1 DEF mb
    <3> QED BY <3>1, <3>2
  <2> HIDE DEF rest
  <2> QED BY <1>1, <1>5, <2>1 DEF rest
<1> HIDE DEF i, s, ld, lb, rb, ib, kb, sb, rest
<1>6. StartsAt(s, data, a)
  <2>1. from + ib \in Nat /\ ld + (from + ib) = sb + 0
    BY <1>11
  <2>2. 0 \in 0 .. B
    BY <1>1
  <2> QED BY <1>5, <2>1, <2>2 DEF StartsAt, PlaceOf, ld, ib, sb
<1>7. n = a + B /\ n <= Len(bytes)
  <2>1. from + kb = (from + ib) + B /\ from + kb <= lb
    BY <1>11
  <2> QED BY <2>1 DEF kb, ib, lb
<1>8. BlockOf(Len(data) + from + k * B) = s
  <2> DEFINE x == ld + from + kb
  <2>1. x = sb + B
    BY <1>11
  <2> HIDE DEF x
  <2>2. x = s * B + B /\ 1 <= B /\ B <= B /\ B \in Nat /\ s \in Nat
    BY <1>5, <1>11, <2>1 DEF sb
  <2>3. BlockOf(x) = s
    BY <2>2, BlockIs
  <2> QED BY <2>3 DEF x, ld, kb
<1> HIDE DEF a, n
<1>9. Fits(SubSeq(bytes, a + 1, n), s, data \o bytes)
  BY <1>6, <1>7, CutFits
<1>10. put = <<s, SubSeq(bytes, a + 1, n)>>
  BY <1>8 DEF put, a, n, i
<1> QED BY <1>4, <1>9, <1>10 DEF s, i

\* what a branch leaves on disk and in the buffer
RightAfter(puts, buf, len, data, bytes) ==
  /\ PutsRight(puts, data, bytes)
  /\ \E q \in Nat : Ends(len, q, data \o bytes) /\ Fits(buf, q, data \o bytes)

(* A sequence of one put holds that put.                                   *)
LEMMA OneInRange ==
  ASSUME NEW x
  PROVE  Range(<<x>>) = {x}
<1>1. DOMAIN <<x>> = {1} /\ <<x>>[1] = x
  OBVIOUS
<1> DEFINE s == <<x>>
<1> HIDE DEF s
<1>2. DOMAIN s = {1} /\ s[1] = x
  BY <1>1 DEF s
<1>3. Range(s) = {x}
  BY <1>2 DEF Range
<1> QED BY <1>3 DEF s

(* Bytes that fit in the rest of a block are put there, and are the last   *)
(* of the file.                                                            *)
LEMMA OnePutRight ==
  ASSUME NEW data \in Seq(Byte), NEW bytes \in Seq(Byte), NEW r, NEW at, NEW buf,
         Ends(at, r, data), at > 0 => Fits(buf, r, data),
         1 <= at + Len(bytes), at + Len(bytes) <= B
  PROVE  RightAfter(<<<<BlockOf(Len(data) + Len(bytes)), Overlay(buf, at, bytes)>>>>,
                    Overlay(buf, at, bytes), at + Len(bytes), data, bytes)
<1> DEFINE d2 == data \o bytes
           lay == Overlay(buf, at, bytes)
           ld == Len(data)
           lb == Len(bytes)
           rb == r * B
           put == <<BlockOf(ld + lb), lay>>
           len == at + lb
<1>1. /\ r \in Nat /\ at \in Nat /\ rb \in Nat /\ ld \in Nat /\ lb \in Nat
      /\ ld = rb + at /\ len \in Nat /\ 1 <= len /\ len <= B /\ B \in Nat \ {0, 1}
      /\ ld + lb = rb + len
  <2>1. r \in Nat /\ at \in 0 .. B /\ ld = rb + at
    BY DEF Ends
  <2>2. rb \in Nat
    BY <2>1, TimesGrows
  <2>3. ld \in Nat /\ lb \in Nat /\ 1 <= at + lb /\ at + lb <= B
    OBVIOUS
  <2> HIDE DEF ld, lb, rb
  <2> QED BY <2>1, <2>2, <2>3, BlockIsNat
<1>2. Len(d2) = ld + lb
  BY JoinedAt
<1>3. Fits(lay, r, d2)
  <2> DEFINE zero == 0
  <2>1. PlaceOf(r, at, data, zero)
    BY <1>1 DEF PlaceOf, Ends
  <2>2. PartOf(bytes, zero, bytes)
    BY DEF PartOf
  <2>3. zero + Len(bytes) = Len(bytes)
    OBVIOUS
  <2>4. at > 0 => zero = 0 /\ Fits(buf, r, data)
    OBVIOUS
  <2> HIDE DEF zero
  <2> QED BY <2>1, <2>2, <2>3, <2>4, LaidFits
<1>4. BlockOf(ld + lb) = r
  <2> DEFINE x == ld + lb
  <2>1. x = r * B + len
    BY <1>1
  <2> HIDE DEF x, len
  <2>2. BlockOf(x) = r
    BY <1>1, <2>1, BlockIs
  <2> QED BY <2>2 DEF x
<1>5. Range(<<put>>) = {put}
  BY OneInRange
<1>6. put[1] = r /\ put[2] = lay
  BY <1>4
<1> HIDE DEF d2, lay, ld, lb, put, len
<1>7. ASSUME NEW k \in Nat, k * B < Len(d2)
      PROVE  k * B + B <= ld \/ k = r
  <2>1. k * B < r * B + len
    BY <1>1, <1>2, <1>7
  <2>2. k < r \/ k = r
    BY <1>1, <2>1, BlockBefore
  <2>3. k < r => k * B + B <= rb
    BY <1>1, TimesGrows
  <2>4. k * B \in Nat
    BY <1>1, TimesGrows
  <2> HIDE DEF rb
  <2> QED BY <1>1, <2>2, <2>3, <2>4
<1>8. PutsRight(<<put>>, data, bytes)
  BY <1>3, <1>5, <1>6, <1>7 DEF PutsRight, d2, ld
<1>9. Ends(len, r, d2)
  BY <1>1, <1>2 DEF Ends
<1> QED BY <1>1, <1>3, <1>8, <1>9 DEF RightAfter, put, lay, len, d2, ld, lb

\* the whole blocks behind the first from bytes, and what they leave
Remain(m, tail, from, bytes) ==
  /\ from <= Len(bytes)
  /\ m = (Len(bytes) - from) \div B /\ tail = (Len(bytes) - from) % B

\* the remainder is block r + m, unless there is none, and what is before it
TailIs(last, r, m, tail, data, bytes) ==
  /\ m \in Nat /\ r + m \in Nat
  /\ Fits(TailBuf(last, bytes, tail), r + m, data \o bytes)
  /\ Ends(tail, r + m, data \o bytes)
  /\ tail > 0 => BlockOf(Len(data) + Len(bytes)) = r + m
  /\ tail = 0 /\ m > 0 => /\ BlockOf(Len(data) + Len(bytes)) = r + (m - 1)
                          /\ Ends(B, r + (m - 1), data \o bytes)
  /\ \A k \in Nat : k * B < Len(data \o bytes) =>
       \/ k < r
       \/ \E i \in 1 .. m : k = r + (i - 1)
       \/ k = r + m /\ tail > 0

(* The remainder behind m whole blocks from block r on.                    *)
LEMMA TailRight ==
  ASSUME NEW data \in Seq(Byte), NEW bytes \in Seq(Byte), NEW r, NEW from, NEW last,
         StartsAt(r, data, from), NEW m, NEW tail, Remain(m, tail, from, bytes)
  PROVE  TailIs(last, r, m, tail, data, bytes)
<1> DEFINE d2 == data \o bytes
           ld == Len(data)
           lb == Len(bytes)
           rest == lb - from
           rb == r * B
           mb == m * B
           s == r + m
           sb == s * B
           x == ld + lb
           part == SubSeq(bytes, lb - tail + 1, lb)
           start == lb - tail
<1>1. /\ r \in Nat /\ from \in Nat /\ rb \in Nat /\ ld \in Nat /\ lb \in Nat /\ rest \in Nat
      /\ ld + from = rb /\ lb = from + rest /\ B \in Nat \ {0, 1}
  <2>1. r \in Nat /\ from \in Nat /\ ld + from = rb + 0 /\ ld \in Nat /\ lb \in Nat
    BY DEF StartsAt, PlaceOf
  <2>2. rb \in Nat
    BY <2>1, TimesGrows
  <2>3. from <= lb
    BY DEF Remain
  <2> HIDE DEF ld, lb, rb
  <2> QED BY <2>1, <2>2, <2>3, BlockIsNat
<1>2. /\ m \in Nat /\ mb \in Nat /\ tail \in Nat /\ tail < B /\ rest = mb + tail
      /\ s \in Nat /\ sb \in Nat /\ sb = rb + mb
  <2>1. m = rest \div B /\ tail = rest % B
    BY DEF Remain
  <2> HIDE DEF rest
  <2>2. /\ m \in Nat /\ tail \in Nat /\ tail < B /\ rest = m * B + tail
    BY <1>1, <2>1, Split
  <2>3. m * B \in Nat /\ s * B = rb + mb /\ s \in Nat
    BY <1>1, <2>2, TimesGrows
  <2>4. sb \in Nat
    BY <2>3, TimesGrows
  <2> QED BY <2>2, <2>3, <2>4
<1>3. Len(d2) = x
  BY JoinedAt
<1>4. x \in Nat /\ x = sb + tail /\ start \in Nat /\ ld + start = sb
  <2> HIDE DEF ld, lb, rb, mb, sb, rest, s
  <2> QED BY <1>1, <1>2
<1>5. part \in Seq(Byte) /\ Len(part) = tail /\ \A k \in 1 .. tail : part[k] = bytes[start + k]
  <2>1. lb - tail + 1 = start + 1 /\ start \in Nat /\ start <= lb /\ lb - start = tail
    BY <1>1, <1>2, <1>4
  <2>2. start + 1 >= 1 /\ lb \in Nat /\ lb <= Len(bytes)
    BY <1>4
  <2> HIDE DEF start
  <2>3. part = SubSeq(bytes, start + 1, lb)
    BY <2>1
  <2>4. /\ SubSeq(bytes, start + 1, lb) \in Seq(Byte)
        /\ Len(SubSeq(bytes, start + 1, lb)) = lb - start
        /\ \A k \in 1 .. lb - start : SubSeq(bytes, start + 1, lb)[k] = bytes[start + k]
    BY <2>1, <2>2
  <2> QED BY <2>1, <2>3, <2>4
<1>6. Fits(TailBuf(last, bytes, tail), s, d2)
  <2> DEFINE at == 0
  <2>1. TailBuf(last, bytes, tail) = Overlay(last, at, part)
    BY DEF TailBuf
  <2> HIDE DEF part, start, s
  <2>2. PartOf(part, start, bytes)
    <3>1. start + tail <= Len(bytes)
      BY <1>1, <1>2, <1>4 DEF start
    <3> QED BY <1>4, <1>5, <3>1 DEF PartOf
  <2>3. PlaceOf(s, at, data, start)
    BY <1>1, <1>2, <1>4 DEF StartsAt, PlaceOf
  <2>4. start + Len(part) = Len(bytes)
    BY <1>1, <1>2, <1>4, <1>5 DEF start
  <2>5. at > 0 => start = 0 /\ Fits(last, s, data)
    OBVIOUS
  <2> HIDE DEF at
  <2>6. Fits(Overlay(last, at, part), s, data \o bytes)
    BY <2>2, <2>3, <2>4, <2>5, LaidFits
  <2> QED BY <2>1, <2>6
<1> HIDE DEF d2, ld, lb, rest, rb, mb, s, sb, x, part, start
<1>7. Ends(tail, s, d2)
  BY <1>1, <1>2, <1>3, <1>4 DEF Ends, sb
<1>8. ASSUME tail > 0 PROVE BlockOf(x) = s
  <2>1. 1 <= tail /\ tail <= B /\ x = s * B + tail
    BY <1>1, <1>2, <1>4, <1>8 DEF sb
  <2> QED BY <1>2, <2>1, BlockIs
<1>9. ASSUME tail = 0, m > 0
      PROVE  BlockOf(x) = r + (m - 1) /\ Ends(B, r + (m - 1), d2)
  <2> DEFINE j == r + (m - 1)
  <2>1. j \in Nat /\ s = j + 1
    BY <1>1, <1>2, <1>9 DEF s
  <2> HIDE DEF j
  <2>2. j * B \in Nat /\ (j + 1) * B = j * B + B
    BY <2>1, TimesGrows
  <2>3. sb = j * B + B
    BY <2>1, <2>2 DEF sb
  <2>4. x = j * B + B /\ 1 <= B /\ B <= B /\ B \in Nat
    BY <1>1, <1>4, <1>9, <2>2, <2>3
  <2>5. BlockOf(x) = j
    BY <2>1, <2>4, BlockIs
  <2>6. Ends(B, j, d2)
    BY <1>3, <2>1, <2>4 DEF Ends
  <2> QED BY <2>5, <2>6 DEF j
<1>10. ASSUME NEW k \in Nat, k * B < Len(d2)
       PROVE  k < r \/ (\E i \in 1 .. m : k = r + (i - 1)) \/ (k = s /\ tail > 0)
  <2>1. k * B < s * B + tail /\ tail <= B
    BY <1>1, <1>2, <1>3, <1>4, <1>10 DEF sb
  <2>2. k < s \/ (k = s /\ tail > 0)
    BY <1>2, <2>1, BlockBefore
  <2>3. CASE k < s /\ ~(k < r)
    <3> DEFINE i == k - r + 1
    <3>1. i \in 1 .. m /\ k = r + (i - 1)
      BY <1>1, <1>2, <2>3 DEF s
    <3> QED BY <3>1
  <2> QED BY <2>2, <2>3
<1> QED BY <1>2, <1>6, <1>7, <1>8, <1>9, <1>10 DEF TailIs, s, d2, x, ld, lb

\* what is put before the whole blocks and after them
Around(head, rest, r, m, tail, data, bytes) ==
  /\ \A x \in Range(head) \cup Range(rest) : Fits(x[2], x[1], data \o bytes)
  /\ \A k \in Nat : k < r => k * B + B <= Len(data) \/ \E x \in Range(head) : x[1] = k
  /\ tail > 0 => \E x \in Range(rest) : x[1] = r + m

(* The puts of a branch that goes over several blocks: those of head, up   *)
(* to block r, then the whole ones, then those of the remainder.           *)
LEMMA RunRight ==
  ASSUME NEW data \in Seq(Byte), NEW bytes \in Seq(Byte), NEW r, NEW from,
         StartsAt(r, data, from), NEW m, NEW tail, Remain(m, tail, from, bytes),
         NEW fd, fcbArray[fd].filePosition = Len(data),
         NEW S, NEW head \in Seq(S), NEW rest \in Seq(S),
         WholePuts(fd, from, bytes) \in Seq(S),
         Around(head, rest, r, m, tail, data, bytes)
  PROVE  PutsRight(head \o WholePuts(fd, from, bytes) \o rest, data, bytes)
<1> DEFINE whole == WholePuts(fd, from, bytes)
           d2 == data \o bytes
           puts == head \o whole \o rest
<1>1. Range(puts) = Range(head) \cup Range(whole) \cup Range(rest)
  <2>1. whole \in Seq(S) /\ head \in Seq(S) /\ rest \in Seq(S)
    OBVIOUS
  <2> HIDE DEF whole
  <2> QED BY <2>1, RangeOfThree
<1>2. /\ DOMAIN whole = 1 .. m
      /\ \A k \in 1 .. m : whole[k][1] = r + (k - 1) /\ Fits(whole[k][2], r + (k - 1), d2)
  <2>1. from <= Len(bytes) /\ m = (Len(bytes) - from) \div B
    BY DEF Remain
  <2>2. \A k \in 1 .. (Len(bytes) - from) \div B :
          whole[k][1] = r + (k - 1) /\ Fits(whole[k][2], r + (k - 1), d2)
    BY <2>1, WholeFits
  <2> QED BY <2>1, <2>2 DEF WholePuts
<1> HIDE DEF whole, puts
<1>3. ASSUME NEW x \in Range(puts) PROVE Fits(x[2], x[1], d2)
  <2>1. CASE x \in Range(head) \cup Range(rest)
    BY <2>1 DEF Around
  <2>2. CASE x \in Range(whole)
    BY <1>2, <2>2 DEF Range
  <2> QED BY <1>1, <2>1, <2>2
<1>4. ASSUME NEW k \in Nat, k * B < Len(d2)
      PROVE  k * B + B <= Len(data) \/ \E x \in Range(puts) : x[1] = k
  <2>1. k < r \/ (\E i \in 1 .. m : k = r + (i - 1)) \/ (k = r + m /\ tail > 0)
    <3>1. TailIs(<<>>, r, m, tail, data, bytes)
      BY TailRight
    <3> QED BY <1>4, <3>1 DEF TailIs
  <2>2. CASE k < r
    BY <1>1, <2>2 DEF Around
  <2>3. CASE \E i \in 1 .. m : k = r + (i - 1)
    <3>1. PICK i \in 1 .. m : k = r + (i - 1)
      BY <2>3
    <3>2. whole[i] \in Range(whole) /\ whole[i][1] = k
      BY <1>2, <3>1 DEF Range
    <3> QED BY <1>1, <3>2
  <2>4. CASE k = r + m /\ tail > 0
    BY <1>1, <2>4 DEF Around
  <2> QED BY <2>1, <2>2, <2>3, <2>4
<1> QED BY <1>3, <1>4 DEF PutsRight, puts, whole, d2

(* A cut of nothing is empty.                                              *)
LEMMA EmptyCut ==
  ASSUME NEW S, NEW s \in Seq(S), NEW m \in Nat
  PROVE  SubSeq(s, m + 1, m) = <<>>
<1>1. SubSeq(s, m + 1, m) \in Seq(S) /\ Len(SubSeq(s, m + 1, m)) = 0
  OBVIOUS
<1> QED BY <1>1

(* A remainder of no bytes leaves the buffer.                              *)
LEMMA NoTailFits ==
  ASSUME NEW buf, NEW bytes \in Seq(Byte), NEW r, NEW data, Fits(buf, r, data)
  PROVE  Fits(TailBuf(buf, bytes, 0), r, data)
<1> DEFINE part == SubSeq(bytes, Len(bytes) - 0 + 1, Len(bytes))
<1>1. part = <<>>
  <2>1. Len(bytes) - 0 + 1 = Len(bytes) + 1 /\ Len(bytes) \in Nat
    OBVIOUS
  <2>2. SubSeq(bytes, Len(bytes) + 1, Len(bytes)) = <<>>
    BY <2>1, EmptyCut
  <2> QED BY <2>1, <2>2
<1> HIDE DEF part
<1>2. DOMAIN part = {}
  BY <1>1
<1>3. \A j \in 1 .. B : Overlay(buf, 0, part)[j] = buf[j]
  BY <1>2 DEF Overlay
<1>4. TailBuf(buf, bytes, 0) = Overlay(buf, 0, part)
  BY DEF TailBuf, part
<1> QED BY <1>3, <1>4 DEF Fits

(* The bytes fill the block that was begun, then whole blocks, then part   *)
(* of one.                                                                 *)
LEMMA FillAndGoOnRight ==
  ASSUME NEW data \in Seq(Byte), NEW bytes \in Seq(Byte), NEW q, NEW len, Ends(len, q, data),
         NEW buf, Fits(buf, q, data), NEW space, space = B - len, space > 0, space < Len(bytes),
         NEW fd, fcbArray[fd].filePosition = Len(data),
         NEW S, NEW full, full = Overlay(buf, len, SubSeq(bytes, 1, space)),
         NEW head, head = <<BlockOf(Len(data) + space), full>>, NEW tail,
         tail = (Len(bytes) - space) % B, NEW last, NEW rest,
         rest = IF tail > 0 THEN <<<<BlockOf(Len(data) + Len(bytes)), TailBuf(last, bytes, tail)>>>>
                            ELSE <<>>,
         WholePuts(fd, space, bytes) \in Seq(S), <<head>> \in Seq(S), rest \in Seq(S)
  PROVE  RightAfter(<<head>> \o WholePuts(fd, space, bytes) \o rest,
                    TailBuf(last, bytes, tail), tail, data, bytes)
<1> DEFINE d2 == data \o bytes
           m == (Len(bytes) - space) \div B
           r == q + 1
           qb == q * B
           rb == r * B
           ld == Len(data)
<1>1. /\ q \in Nat /\ len \in Nat /\ len < B /\ B \in Nat \ {0, 1} /\ space \in Nat
      /\ qb \in Nat /\ rb = qb + B /\ ld \in Nat /\ ld = qb + len /\ r \in Nat
      /\ len + space = B
  <2>1. q \in Nat /\ len \in 0 .. B /\ ld = qb + len /\ B \in Nat \ {0, 1}
    BY BlockIsNat DEF Ends
  <2>2. qb \in Nat /\ rb = qb + B
    BY <2>1, TimesGrows
  <2> HIDE DEF qb, rb
  <2> QED BY <2>1, <2>2
<1>2. Remain(m, tail, space, bytes)
  BY <1>1 DEF Remain
<1>3. StartsAt(r, data, space)
  <2>1. ld + space = rb + 0
    <3> HIDE DEF ld, qb, rb
    <3> QED BY <1>1
  <2> QED BY <1>1, <2>1 DEF StartsAt, PlaceOf
<1>4. Fits(full, q, d2)
  <2> DEFINE part == SubSeq(bytes, 1, space)
             zero == 0
  <2>1. part \in Seq(Byte) /\ Len(part) = space /\ \A k \in 1 .. space : part[k] = bytes[k]
    BY <1>1
  <2> HIDE DEF part
  <2>2. PartOf(part, zero, bytes)
    BY <1>1, <2>1 DEF PartOf
  <2>3. PlaceOf(q, len, data, zero)
    BY <1>1 DEF StartsAt, PlaceOf
  <2>4. len + Len(part) >= B
    BY <1>1, <2>1
  <2>5. len > 0 => zero = 0 /\ Fits(buf, q, data)
    OBVIOUS
  <2> HIDE DEF zero
  <2>6. Fits(Overlay(buf, len, part), q, d2)
    BY <2>2, <2>3, <2>4, <2>5, LaidFits
  <2> QED BY <2>6 DEF part
<1>5. head[1] = q /\ head[2] = full /\ Range(<<head>>) = {head}
  <2> DEFINE x == ld + space
  <2>1. x = q * B + B /\ 1 <= B /\ B <= B
    <3>1. x = qb + B
      <4> HIDE DEF ld, qb
      <4> QED BY <1>1
    <3> QED BY <1>1, <3>1
  <2> HIDE DEF x
  <2>2. BlockOf(x) = q
    BY <1>1, <2>1, BlockIs
  <2> QED BY <2>2, OneInRange DEF x
<1> HIDE DEF m
<1>6. /\ r + m \in Nat
      /\ Fits(TailBuf(last, bytes, tail), r + m, d2)
      /\ Ends(tail, r + m, d2)
      /\ tail > 0 => BlockOf(Len(data) + Len(bytes)) = r + m
  <2>1. TailIs(last, r, m, tail, data, bytes)
    <3> HIDE DEF r
    <3> QED BY <1>2, <1>3, TailRight
  <2> QED BY <2>1 DEF TailIs
<1>8. /\ \A x \in Range(rest) : Fits(x[2], x[1], d2)
      /\ tail > 0 => \E x \in Range(rest) : x[1] = r + m
  <2>1. CASE tail > 0
    <3> DEFINE put == <<BlockOf(Len(data) + Len(bytes)), TailBuf(last, bytes, tail)>>
    <3>1. rest = <<put>> /\ put[1] = r + m /\ put[2] = TailBuf(last, bytes, tail)
      BY <1>6, <2>1
    <3> HIDE DEF put
    <3>2. Range(rest) = {put}
      BY <3>1, OneInRange
    <3> QED BY <1>6, <3>1, <3>2
  <2>2. CASE ~(tail > 0)
    <3>1. rest = <<>>
      BY <2>2
    <3>2. Range(rest) = {}
      BY <3>1 DEF Range
    <3> QED BY <2>2, <3>2
  <2> QED BY <2>1, <2>2
<1>9. ASSUME NEW k \in Nat, k < r
      PROVE  k * B + B <= Len(data) \/ \E x \in Range(<<head>>) : x[1] = k
  <2>1. CASE k = q
    BY <1>5, <2>1
  <2>2. CASE k < q
    <3>1. k * B + B <= qb /\ k * B \in Nat
      BY <1>1, <2>2, TimesGrows
    <3> DEFINE kb == k * B
    <3> HIDE DEF kb, qb, ld
    <3>2. kb + B <= ld
      BY <1>1, <3>1 DEF kb
    <3> QED BY <3>2 DEF kb, ld
  <2>3. k < q \/ k = q
    BY <1>1, <1>9
  <2> QED BY <2>1, <2>2, <2>3
<1> HIDE DEF r, d2
<1>10. PutsRight(<<head>> \o WholePuts(fd, space, bytes) \o rest, data, bytes)
  <2>1. \A x \in Range(<<head>>) \cup Range(rest) : Fits(x[2], x[1], data \o bytes)
    BY <1>4, <1>5, <1>8 DEF d2
  <2>2. Around(<<head>>, rest, r, m, tail, data, bytes)
    BY <1>8, <1>9, <2>1 DEF Around
  <2> DEFINE hd == <<head>>
  <2>3. hd \in Seq(S) /\ Around(hd, rest, r, m, tail, data, bytes)
    BY <2>2
  <2> HIDE DEF hd
  <2>4. PutsRight(hd \o WholePuts(fd, space, bytes) \o rest, data, bytes)
    BY <1>2, <1>3, <2>3, RunRight
  <2> QED BY <2>4 DEF hd
<1> QED BY <1>6, <1>10 DEF RightAfter, d2

(* The bytes are more than a block, and the block that was begun is full.  *)
LEMMA NextBlocksRight ==
  ASSUME NEW data \in Seq(Byte), NEW bytes \in Seq(Byte), NEW q, Ends(B, q, data),
         B < Len(bytes), NEW fd, fcbArray[fd].filePosition = Len(data),
         NEW whole, whole = WholePuts(fd, 0, bytes), NEW tail, tail = Len(bytes) % B,
         NEW buf, buf = TailBuf(Last(whole)[2], bytes, tail),
         NEW put, put = <<BlockOf(Len(data) + Len(bytes)), buf>>,
         NEW S, whole \in Seq(S), <<put>> \in Seq(S)
  PROVE  RightAfter(whole \o <<put>>, buf, IF tail > 0 THEN tail ELSE B, data, bytes)
<1> DEFINE d2 == data \o bytes
           from == 0
           m == (Len(bytes) - from) \div B
           r == q + 1
           qb == q * B
           rb == r * B
           ld == Len(data)
           lb == Len(bytes)
           last == Last(whole)[2]
           len == IF tail > 0 THEN tail ELSE B
           none == <<>>
           rest == <<put>>
<1>1. /\ q \in Nat /\ B \in Nat \ {0, 1} /\ qb \in Nat /\ rb = qb + B
      /\ ld \in Nat /\ ld = rb /\ r \in Nat /\ lb \in Nat /\ B < lb
  <2>1. q \in Nat /\ ld = qb + B /\ B \in Nat \ {0, 1} /\ ld \in Nat
    BY BlockIsNat DEF Ends
  <2>2. qb \in Nat /\ rb = qb + B
    BY <2>1, TimesGrows
  <2> QED BY <2>1, <2>2
<1>2. m \in Nat \ {0} /\ tail \in Nat /\ m = lb \div B
  <2>1. m = lb \div B
    BY <1>1
  <2> HIDE DEF m, lb
  <2>2. lb \div B \in Nat /\ lb % B \in Nat /\ lb % B < B
        /\ lb = (lb \div B) * B + (lb % B)
    BY <1>1, Split
  <2>3. CASE lb \div B = 0
    <3>1. 0 * B = 0
      BY <1>1
    <3>2. lb = 0 + (lb % B)
      BY <2>2, <2>3, <3>1
    <3> QED BY <1>1, <2>2, <3>2
  <2> QED BY <2>1, <2>2, <2>3 DEF lb
<1>3. Remain(m, tail, from, bytes) /\ from \in Nat /\ from <= Len(bytes)
  <2>1. lb - from = lb /\ 0 <= lb
    BY <1>1
  <2> QED BY <2>1 DEF Remain
<1>4. StartsAt(r, data, from)
  <2>1. ld + from = rb + 0
    BY <1>1
  <2> QED BY <1>1, <2>1 DEF StartsAt, PlaceOf
<1>5. whole = WholePuts(fd, from, bytes)
  OBVIOUS
<1> HIDE DEF from, m, r, last
<1>6. TailIs(last, r, m, tail, data, bytes)
  BY <1>3, <1>4, TailRight
<1>7. /\ DOMAIN whole = 1 .. m
      /\ \A k \in 1 .. m : Fits(whole[k][2], r + (k - 1), d2)
  <2>1. \A k \in 1 .. (Len(bytes) - from) \div B :
          Fits(WholePuts(fd, from, bytes)[k][2], r + (k - 1), d2)
    BY <1>3, <1>4, WholeFits
  <2> QED BY <1>5, <2>1 DEF m, WholePuts
<1>8. last = whole[m][2] /\ Fits(last, r + (m - 1), d2)
  <2>1. Len(whole) = m /\ m \in 1 .. m
    BY <1>2, <1>7
  <2> QED BY <1>7, <2>1 DEF last, Last
<1>9. PICK k \in Nat : /\ put[1] = k /\ put[2] = buf /\ Fits(buf, k, d2) /\ Ends(len, k, d2)
                       /\ tail > 0 => k = r + m
  <2>1. CASE tail > 0
    <3>1. /\ BlockOf(Len(data) + Len(bytes)) = r + m /\ r + m \in Nat
          /\ Fits(TailBuf(last, bytes, tail), r + m, d2) /\ Ends(tail, r + m, d2)
      BY <1>6, <2>1 DEF TailIs
    <3> QED BY <2>1, <3>1 DEF last
  <2>2. CASE tail = 0
    <3> DEFINE k == r + (m - 1)
    <3>1. /\ BlockOf(Len(data) + Len(bytes)) = k /\ Ends(B, k, d2)
      BY <1>2, <1>6, <2>2 DEF TailIs
    <3>2. k \in Nat
      BY <1>1, <1>2
    <3> HIDE DEF k, d2
    <3>3. Fits(TailBuf(last, bytes, 0), k, d2)
      BY <1>8, NoTailFits DEF k
    <3> QED BY <2>2, <3>1, <3>2, <3>3 DEF last
  <2> QED BY <1>2, <2>1, <2>2
<1>10. Range(rest) = {put} /\ Range(none) = {}
  <2>1. \A x \in Range(none) : FALSE
    BY DEF Range
  <2> QED BY <2>1, OneInRange
<1>11. \A w \in Nat : w < r => w * B + B <= Len(data)
  <2> SUFFICES ASSUME NEW w \in Nat, w < r PROVE w * B + B <= Len(data)
    OBVIOUS
  <2>1. w * B + B <= rb
    BY <1>1, TimesGrows
  <2> QED BY <1>1, <2>1
<1> HIDE DEF rest, none, d2, ld, lb, rb, qb, len
<1>12. Around(none, rest, r, m, tail, data, bytes)
  BY <1>9, <1>10, <1>11 DEF Around, d2
<1>13. none \in Seq(S) /\ rest \in Seq(S) /\ WholePuts(fd, from, bytes) \in Seq(S)
  BY <1>5 DEF none, rest
<1>14. PutsRight(none \o WholePuts(fd, from, bytes) \o rest, data, bytes)
  BY <1>3, <1>4, <1>12, <1>13, RunRight
<1>15. none \o whole = whole
  BY DEF none
<1> QED BY <1>5, <1>9, <1>14, <1>15 DEF RightAfter, rest, d2, len

(* A file's blocks are not past the one of its end.                        *)
LEMMA BlockWithin ==
  ASSUME NEW n \in Nat, NEW r \in Nat, r * B < n
  PROVE  r <= n \div B
<1> DEFINE q == n \div B
           t == n % B
<1>1. q \in Nat /\ t \in Nat /\ t < B /\ n = q * B + t
  BY Split
<1> HIDE DEF q, t
<1>2. t <= B /\ r * B < q * B + t
  BY <1>1, BlockIsNat
<1>3. r < q \/ r = q
  BY <1>1, <1>2, BlockBefore
<1> QED BY <1>1, <1>3 DEF q

(* The puts of a b_write leave the file's bytes on its chain.              *)
LEMMA PutsKeep ==
  ASSUME NEW data \in Seq(Byte), NEW bytes \in Seq(Byte), NEW bl \in [Clusters -> Block],
         NEW f, NEW ch, Apart(f, ch), NEW first, NEW size, size = Len(data \o bytes),
         Holds(ch, first, size), NEW puts, PutsOf(puts), PutsRight(puts, data, bytes),
         Keeps(ch, bl, first, Len(data), data)
  PROVE  Keeps(ch, PutBlocks(bl, ch, first, puts), first, size, data \o bytes)
<1> DEFINE d2 == data \o bytes
           new == PutBlocks(bl, ch, first, puts)
<1>1. /\ ch[first] \in Seq(Clusters) /\ Len(ch[first]) \in Nat /\ IsInjective(ch[first])
      /\ size \in Nat /\ B \in Nat \ {0, 1}
  BY ChainIsSeq, BlockIsNat DEF Holds, Apart
<1>2. SUFFICES ASSUME NEW r \in Nat, r * B < size
               PROVE  Fits(new[ch[first][r + 1]], r, d2)
  BY DEF Keeps
<1> DEFINE c == ch[first][r + 1]
<1>3. HasBlock(ch, first, r)
  <2>1. r <= size \div B
    BY <1>1, <1>2, BlockWithin
  <2> QED BY <1>1, <2>1, HoldsBlock
<1>4. r + 1 \in DOMAIN ch[first] /\ c \in DOMAIN bl
  BY <1>1, <1>3 DEF HasBlock
<1> HIDE DEF new, d2
<1>5. CASE \E k \in DOMAIN puts : /\ Target(ch, first, puts, k, c)
                                  /\ new[c] = puts[k][2]
  <2>1. PICK k \in DOMAIN puts : Target(ch, first, puts, k, c) /\ new[c] = puts[k][2]
    BY <1>5
  <2>2. puts[k][1] \in Nat
    BY DEF PutsOf
  <2>3. /\ puts[k][1] + 1 \in DOMAIN ch[first]
        /\ ch[first][puts[k][1] + 1] = ch[first][r + 1]
    BY <1>1, <2>1, <2>2 DEF Target, HasBlock, PutAt
  <2>4. puts[k][1] + 1 = r + 1
    BY <1>1, <1>4, <2>3 DEF IsInjective
  <2>5. Fits(puts[k][2], puts[k][1], d2)
    BY DEF PutsRight, Range, d2
  <2>6. puts[k][1] = r
    BY <2>2, <2>4
  <2> QED BY <2>1, <2>5, <2>6
<1>6. CASE /\ \A k \in DOMAIN puts : ~Target(ch, first, puts, k, c)
           /\ new[c] = bl[c]
  <2>1. ASSUME NEW x \in Range(puts), x[1] = r PROVE FALSE
    <3>1. PICK k \in DOMAIN puts : puts[k] = x
      BY DEF Range
    <3> QED BY <1>3, <1>6, <2>1, <3>1 DEF Target, PutAt
  <2>2. r * B + B <= Len(data)
    BY <1>2, <2>1 DEF PutsRight
  <2>3. /\ Len(data) \in Nat /\ \A j \in 1 .. Len(data) : d2[j] = data[j]
        /\ r * B \in Nat
    BY JoinedAt, TimesGrows, <1>1 DEF d2
  <2>4. Fits(bl[c], r, data)
    <3>1. r * B < Len(data)
      BY <1>1, <2>2, <2>3
    <3> QED BY <3>1 DEF Keeps
  <2>5. ASSUME NEW j \in 1 .. B PROVE new[c][j] = d2[r * B + j]
    <3> DEFINE rb == r * B
    <3>1. rb + j \in 1 .. Len(data) /\ rb + j <= Len(data)
      <4> HIDE DEF rb
      <4>1. rb \in Nat /\ rb + B <= Len(data) /\ Len(data) \in Nat
        BY <2>2, <2>3 DEF rb
      <4> QED BY <1>1, <4>1
    <3>2. bl[c][j] = data[rb + j]
      BY <2>4, <3>1 DEF Fits
    <3> QED BY <1>6, <2>3, <3>1, <3>2
  <2> QED BY <2>5 DEF Fits
<1>7. PutsOf(puts) /\ c \in DOMAIN bl
  BY <1>4
<1> HIDE DEF c
<1>8. \/ /\ \A k \in DOMAIN puts : ~Target(ch, first, puts, k, c)
         /\ new[c] = bl[c]
      \/ \E k \in DOMAIN puts : /\ Target(ch, first, puts, k, c)
                                /\ new[c] = puts[k][2]
  BY <1>7, PutsReach DEF new
<1> QED BY <1>5, <1>6, <1>8 DEF c

\* a b_write at the end of a file whose buffer is the last block's part of it
Appends(f, count) ==
  /\ f.size = Len(f.expect) /\ f.filePosition = Len(f.expect) /\ count # B
  /\ f.newFile = 0 => count < B /\ f.expect = <<>>
  /\ f.newFile = 1 => count + f.buflen # 0
  /\ f.newFile = 1 => \E q \in Nat : /\ Ends(f.buflen, q, f.expect)
                                     /\ Fits(f.buf, q, f.expect)

\* the same of the descriptor that it leaves, with the bytes on disk
Leaves(f, bytes, puts, g) ==
  Appends(f, Len(bytes)) =>
    /\ RightAfter(puts, g.buf, g.buflen, f.expect, bytes)
    /\ g.size = Len(f.expect) + Len(bytes) /\ g.filePosition = g.size
    /\ g.isBufferDirty = 1 /\ g.expect = f.expect

(* What a branch of b_write leaves, from its puts and buffer.              *)
LEMMA AdvanceLeaves ==
  ASSUME NEW f \in Fcb, NEW bytes, NEW count, count = Len(bytes), NEW buf, NEW len, NEW ix,
         NEW puts, Appends(f, count) => RightAfter(puts, buf, len, f.expect, bytes)
  PROVE  Leaves(f, bytes, puts, Advance(f, count, buf, len, ix))
<1> DEFINE g == Advance(f, count, buf, len, ix)
<1>1. /\ g.buf = buf /\ g.buflen = len /\ g.isBufferDirty = 1 /\ g.expect = f.expect
      /\ g.size = f.size + count /\ g.filePosition = f.filePosition + count
  BY DEF Advance, Fcb
<1> HIDE DEF g
<1>2. Appends(f, count) => f.size = Len(f.expect) /\ f.filePosition = Len(f.expect)
  BY DEF Appends
<1> QED BY <1>1, <1>2 DEF Leaves, g

(* Nothing follows the bytes of a file when none are given.               *)
LEMMA NoBytes ==
  ASSUME NEW S, NEW bytes \in Seq(S), Len(bytes) = 0, NEW data \in Seq(S)
  PROVE  bytes = <<>> /\ data \o bytes = data
OBVIOUS

(* Nothing is laid over a buffer by a call without bytes.                  *)
LEMMA NothingLaid ==
  ASSUME NEW buf \in Block, NEW at, NEW bytes \in Seq(Byte), Len(bytes) = 0
  PROVE  Overlay(buf, at, bytes) = buf
<1>1. bytes = <<>> /\ DOMAIN bytes = {}
  OBVIOUS
<1>2. Overlay(buf, at, bytes) = [k \in 1 .. B |-> buf[k]]
  BY <1>1 DEF Overlay
<1> QED BY <1>2 DEF Block

(* The first block of a new file.                                          *)
LEMMA FirstBlockRight ==
  ASSUME NEW f \in Fcb, NEW bytes \in Seq(Byte), NEW count, count = Len(bytes),
         f.newFile = 0, Appends(f, count), NEW buf, buf = Overlay(f.buf, 0, bytes)
  PROVE  RightAfter(<<<<BlockOf(f.filePosition + count), buf>>>>, buf, count, f.expect, bytes)
<1> DEFINE zero == 0
           data == f.expect
<1>1. /\ data \in Seq(Byte) /\ data = <<>> /\ Len(data) = 0 /\ f.filePosition = Len(data)
      /\ count < B /\ zero + Len(bytes) <= B /\ zero + Len(bytes) = count
  BY BlockIsNat DEF Appends, Fcb
<1>2. Ends(zero, zero, data)
  <2>1. zero * B = 0
    BY BlockIsNat
  <2> QED BY <1>1, <2>1, BlockIsNat DEF Ends
<1>3. zero > 0 => Fits(f.buf, zero, data)
  OBVIOUS
<1>4. buf = Overlay(f.buf, zero, bytes)
  OBVIOUS
<1>5. CASE 1 <= count
  <2>1. 1 <= zero + Len(bytes)
    BY <1>1, <1>5
  <2> HIDE DEF zero, data
  <2>2. RightAfter(<<<<BlockOf(Len(data) + Len(bytes)), Overlay(f.buf, zero, bytes)>>>>,
                   Overlay(f.buf, zero, bytes), zero + Len(bytes), data, bytes)
    BY <1>1, <1>2, <1>3, <2>1, OnePutRight
  <2> QED BY <1>1, <1>4, <2>2 DEF data
<1>6. CASE count = 0
  <2> DEFINE d2 == data \o bytes
             puts == <<<<BlockOf(f.filePosition + count), buf>>>>
  <2>1. bytes = <<>> /\ d2 = <<>> /\ Len(d2) = 0 /\ d2 = data
    <3>1. Len(bytes) = 0 /\ data \in Seq(Byte) /\ bytes \in Seq(Byte)
      BY <1>1, <1>6
    <3> HIDE DEF data
    <3> QED BY <1>1, <3>1, NoBytes
  <2>2. puts = <<<<zero, buf>>>>
    BY <1>1, <1>6 DEF BlockOf
  <2>3. Range(puts) = {<<zero, buf>>}
    BY <2>2, OneInRange
  <2> HIDE DEF puts
  <2>4. Fits(buf, zero, d2)
    BY <1>2, <2>1, BlockIsNat DEF Fits
  <2>5. \A r \in Nat : ~(r * B < Len(d2))
    <3>1. \A r \in Nat : r * B \in Nat
      BY BlockIsNat, TimesGrows
    <3> QED BY <2>1, <3>1
  <2>6. PutsRight(puts, data, bytes)
    BY <2>3, <2>4, <2>5 DEF PutsRight
  <2>7. \E q \in Nat : Ends(count, q, d2) /\ Fits(buf, q, d2)
    BY <1>2, <1>6, <2>1, <2>4
  <2> QED BY <2>6, <2>7 DEF RightAfter, puts
<1> QED BY <1>5, <1>6

(* Bytes that fit in the rest of the buffer.                               *)
LEMMA FillBufferRight ==
  ASSUME NEW f \in Fcb, NEW bytes \in Seq(Byte), NEW count, count = Len(bytes),
         f.newFile = 1, Appends(f, count), count <= B - f.buflen,
         NEW buf, buf = Overlay(f.buf, f.buflen, bytes)
  PROVE  RightAfter(<<<<BlockOf(f.filePosition + count), buf>>>>, buf, f.buflen + count,
                    f.expect, bytes)
<1> DEFINE data == f.expect
           at == f.buflen
<1>1. /\ data \in Seq(Byte) /\ f.filePosition = Len(data)
      /\ at \in 0 .. B /\ at + Len(bytes) <= B /\ 1 <= at + Len(bytes)
  <2>1. /\ data \in Seq(Byte) /\ at \in 0 .. B /\ f.filePosition = Len(data)
        /\ Len(bytes) + at # 0
    BY DEF Appends, Fcb
  <2> HIDE DEF at
  <2> QED BY <2>1, BlockIsNat DEF at
<1>2. PICK q \in Nat : Ends(at, q, data) /\ Fits(f.buf, q, data)
  BY DEF Appends
<1> HIDE DEF data, at
<1>3. RightAfter(<<<<BlockOf(Len(data) + Len(bytes)), Overlay(f.buf, at, bytes)>>>>,
                 Overlay(f.buf, at, bytes), at + Len(bytes), data, bytes)
  BY <1>1, <1>2, OnePutRight
<1> QED BY <1>1, <1>3 DEF data, at

(* Bytes that begin the next block.                                        *)
LEMMA NextBlockRight ==
  ASSUME NEW f \in Fcb, NEW bytes \in Seq(Byte), NEW count, count = Len(bytes),
         f.newFile = 1, Appends(f, count), f.buflen = B, count < B,
         NEW buf, buf = Overlay(f.buf, 0, bytes)
  PROVE  RightAfter(<<<<BlockOf(f.filePosition + count), buf>>>>, buf, count, f.expect, bytes)
<1> DEFINE zero == 0
           data == f.expect
<1>1. /\ data \in Seq(Byte) /\ f.filePosition = Len(data)
      /\ zero + Len(bytes) <= B /\ zero + Len(bytes) = count
  BY BlockIsNat DEF Appends, Fcb
<1>2. PICK q \in Nat : Ends(B, q, data) /\ Fits(f.buf, q, data)
  BY DEF Appends
<1> DEFINE r == q + 1
<1>3. Ends(zero, r, data)
  <2>1. (q + 1) * B = q * B + B /\ q * B \in Nat
    BY BlockIsNat, TimesGrows
  <2> QED BY <1>2, <2>1, BlockIsNat DEF Ends
<1>4. zero > 0 => Fits(f.buf, r, data)
  OBVIOUS
<1>5. buf = Overlay(f.buf, zero, bytes)
  OBVIOUS
<1>6. CASE 1 <= count
  <2>1. 1 <= zero + Len(bytes)
    BY <1>1, <1>6
  <2> HIDE DEF zero, data, r
  <2>2. RightAfter(<<<<BlockOf(Len(data) + Len(bytes)), Overlay(f.buf, zero, bytes)>>>>,
                   Overlay(f.buf, zero, bytes), zero + Len(bytes), data, bytes)
    BY <1>1, <1>3, <1>4, <2>1, OnePutRight
  <2> QED BY <1>1, <1>5, <2>2 DEF data
<1>7. CASE count = 0
  <2> DEFINE d2 == data \o bytes
             puts == <<<<BlockOf(f.filePosition + count), buf>>>>
  <2>1. d2 = data
    <3>1. Len(bytes) = 0 /\ data \in Seq(Byte) /\ bytes \in Seq(Byte)
      BY <1>1, <1>7
    <3> HIDE DEF data
    <3> QED BY <1>1, <3>1, NoBytes
  <2>2. buf = f.buf
    BY <1>7, NothingLaid DEF Fcb
  <2>3. Len(data) = q * B + B
    BY <1>2 DEF Ends
  <2>4. BlockOf(f.filePosition + count) = q
    <3>1. f.filePosition + count = q * B + B
      BY <1>1, <1>7, <2>3
    <3> DEFINE x == f.filePosition + count
    <3> HIDE DEF x
    <3>2. BlockOf(x) = q
      BY <3>1, BlockIs, BlockIsNat DEF x
    <3> QED BY <3>2 DEF x
  <2>5. Range(puts) = {<<q, buf>>}
    BY <2>4, OneInRange
  <2> HIDE DEF puts, data, r
  <2>6. ASSUME NEW k \in Nat, k * B < Len(d2)
        PROVE  k * B + B <= Len(data)
    <3>1. k < q + 1
      <4>1. B \in Nat /\ B <= B /\ k * B < q * B + B
        BY <2>1, <2>3, <2>6, BlockIsNat
      <4>2. k < q \/ k = q
        BY <4>1, BlockBefore
      <4> QED BY <4>2
    <3>2. k * B + B <= (q + 1) * B /\ (q + 1) * B = q * B + B
      BY <3>1, BlockIsNat, TimesGrows
    <3> QED BY <2>3, <3>2
  <2>7. PutsRight(puts, data, bytes)
    <3>1. \A x \in Range(puts) : x[1] = q /\ x[2] = buf
      BY <2>5
    <3>2. Fits(buf, q, d2)
      BY <1>2, <2>1, <2>2
    <3> QED BY <2>6, <3>1, <3>2 DEF PutsRight
  <2>8. Ends(count, r, d2)
    BY <1>3, <1>7, <2>1
  <2>9. Fits(buf, r, d2)
    <3>1. Len(d2) = r * B + 0
      BY <1>3, <2>1 DEF Ends
    <3>2. r \in Nat /\ r * B \in Nat
      BY BlockIsNat, TimesGrows DEF r
    <3> QED BY <3>1, <3>2 DEF Fits
  <2>10. r \in Nat
    BY DEF r
  <2> HIDE DEF d2
  <2> QED BY <2>7, <2>8, <2>9, <2>10 DEF RightAfter, puts, d2, data
<1> QED BY <1>6, <1>7
-----------------------------------------------------------------------------
(* A file that b_write may be called on with these bytes: the chains it    *)
(* asks of alloc are granted.                                              *)
WriteReady(f, bytes) ==
  /\ f \in Fcb /\ f.mode # "read" /\ f.filePosition <= f.size
  /\ bytes \in Seq(Byte) /\ f.size + Len(bytes) <= MaxSize
  /\ f.newFile = 0 =>
       /\ f.size = 0 /\ f.filePosition = 0 /\ f.buflen = 0 /\ Len(bytes) # B
       /\ Grown(Alloc(free, chain, BlocksFor(Len(bytes))), free[1], Len(bytes))
       /\ free[1] \in Clusters \ DOMAIN chain
  /\ f.newFile = 1 =>
       /\ f.relativeFileBlockPs <= f.size \div B
       /\ Grown(Place(f, Len(bytes)), f.DEptr.first, f.size + Len(bytes))

(* Each branch of b_write is such a call: the chain it has afterwards is   *)
(* long enough, the puts are blocks of it, and so are their bytes.         *)
LEMMA WriteIsWrote ==
  ASSUME NEW fd \in Fds, NEW bytes, WriteReady(fcbArray[fd], bytes), b_write(fd, bytes)
  PROVE  \E p, h, puts, g :
           /\ WroteAs(fd, bytes, p, h, puts, g)
           /\ Leaves(fcbArray[fd], bytes, puts, g)
<1> DEFINE f == fcbArray[fd]
           count == Len(bytes)
           n == (f.size + count) \div B
           pos == f.filePosition + count
<1>1. f \in Fcb
  BY DEF WriteReady
<1>2. /\ f.mode # "read" /\ f.size + count <= MaxSize /\ b_write(fd, bytes)
      /\ f.newFile = 0 => count # B
  BY DEF WriteReady
<1>5. bytes \in Seq(Byte) /\ Len(bytes) = count
  BY DEF WriteReady
<1>3. /\ count \in Nat /\ f.size \in Nat /\ f.filePosition \in Nat
      /\ f.buf \in Block /\ f.buflen \in 0 .. B /\ f.index \in Nat
      /\ f.newFile \in {0, 1}
  <2>1. count \in Nat
    BY <1>5
  <2> HIDE DEF f, count
  <2> QED BY <1>1, <2>1, MaxIsNat DEF Fcb
<1>4. f.filePosition <= f.size
  BY DEF WriteReady
<1>6. BlockOf(pos) \in 0 .. n /\ n \in Nat
  <2> DEFINE size == f.size + count
  <2>1. size \in Nat /\ pos \in Nat /\ pos <= size
    BY <1>3, <1>4
  <2>2. n = size \div B
    OBVIOUS
  <2> HIDE DEF size, pos, n
  <2> QED BY <2>1, <2>2, BlocksForGrows, BlocksForIsNat
<1>7. ASSUME f.newFile = 1
      PROVE  /\ Grown(Place(f, count), f.DEptr.first, f.size + count)
             /\ f.relativeFileBlockPs <= f.size \div B
  BY <1>7 DEF WriteReady
<1>9. ASSUME f.newFile = 0
      PROVE  f.size = 0 /\ f.filePosition = 0 /\ f.buflen = 0
  BY <1>9 DEF WriteReady
<1>8. ASSUME f.newFile = 0
      PROVE  /\ Grown(Alloc(free, chain, BlocksFor(count)), free[1], f.size + count)
             /\ free[1] \in Clusters \ DOMAIN chain
  <2>1. f.size + count = count
    BY <1>3, <1>8, <1>9
  <2> QED BY <1>8, <2>1 DEF WriteReady
<1>10. ASSUME NEW rel \in 0 .. n, NEW buf \in Block
       PROVE  <<<<rel, buf>>>> \in Seq(Puts(n))
  BY DEF Puts
<1>11. ASSUME NEW buf \in Block, NEW len \in 0 .. B, NEW ix \in Nat
       PROVE  WentOn(f, Advance(f, count, buf, len, ix), count)
  BY <1>1, <1>2, <1>3, <1>4, AdvanceGoesOn
<1>12. Overlay(f.buf, 0, bytes) \in Block /\ Overlay(f.buf, f.buflen, bytes) \in Block
  <2>1. f.buf \in Block /\ f.buflen \in Nat /\ bytes \in Seq(Byte)
    BY <1>3, <1>5, BlockIsNat
  <2> HIDE DEF f
  <2>2. Overlay(f.buf, f.buflen, bytes) \in Block
    BY <2>1, OverlayIsBlock
  <2> DEFINE zero == 0
  <2>3. zero \in Nat
    OBVIOUS
  <2> HIDE DEF zero
  <2>4. Overlay(f.buf, zero, bytes) \in Block
    BY <2>1, <2>3, OverlayIsBlock
  <2> QED BY <2>2, <2>4 DEF zero
<1>13. B \in Nat \ {0, 1} /\ Len(bytes) \in Nat
  BY BlockIsNat
<1>14. ASSUME NEW buf, NEW len, NEW ix, NEW puts,
              Appends(f, count) => RightAfter(puts, buf, len, f.expect, bytes)
       PROVE  Leaves(f, bytes, puts, Advance(f, count, buf, len, ix))
  BY <1>1, <1>5, <1>14, AdvanceLeaves
<1> HIDE DEF f, count, n, pos
<1>20. CASE FirstBlocks(fd, bytes)
  <2> DEFINE buf == SubSeq(bytes, 1, B)
             m == BlockOf(count) + 1
             g == Advance(f, count, buf, count % B, f.index + (count % B))
             p == Alloc(free, chain, BlocksFor(count))
             puts == [k \in 1 .. m |-> <<k - 1, buf>>]
  <2>1. f.newFile = 0 /\ count > B
    BY <1>5, <1>20 DEF FirstBlocks, f
  <2>2. count % B \in 0 .. B - 1
    BY <1>3, <1>13
  <2>3. Wrote(fd, bytes, p, puts, g)
    <3>1. f.buflen + (count % B) = count % B
      BY <1>9, <2>1, <2>2
    <3> DEFINE e == [Moved(f, count) EXCEPT
                       !.buf = buf, !.buflen = @ + (count % B),
                       !.index = @ + (count % B), !.isBufferDirty = 1, !.newFile = 1]
    <3>2. Wrote(fd, bytes, p, puts, e)
      BY <1>5, <1>20 DEF FirstBlocks, f
    <3>3. e = g
      <4> HIDE DEF buf
      <4> QED BY <1>1, <3>1 DEF Moved, Advance, Fcb
    <3> QED BY <3>2, <3>3
  <2>4. Grown(p, free[1], f.size + count) /\ free[1] \in Clusters \ DOMAIN chain
    BY <1>8, <2>1
  <2>5. buf \in Block
    <3> DEFINE zero == 0
    <3>1. zero \in Nat /\ B \in Nat /\ B = zero + B /\ B <= Len(bytes) /\ buf = SubSeq(bytes, zero + 1, B)
      BY <1>3, <1>5, <1>13, <2>1
    <3> HIDE DEF zero, buf
    <3> QED BY <1>5, <3>1, CutIsBlock
  <2>6. puts \in Seq(Puts(n))
    <3>1. f.size + count = count
      BY <1>3, <1>9, <2>1
    <3>2. m - 1 \in Nat /\ m - 1 <= n /\ m \in Nat
      BY <1>3, <3>1, BlocksForGrows DEF n
    <3> HIDE DEF m, buf
    <3>3. \A k \in 1 .. m : <<k - 1, buf>> \in Puts(n)
      BY <1>6, <2>5, <3>2 DEF Puts
    <3> QED BY <3>2, <3>3
  <2>7. WentOn(f, g, count)
    <3>1. count % B \in 0 .. B /\ f.index + (count % B) \in Nat
      BY <1>3, <1>13, <2>2
    <3> QED BY <1>11, <2>5, <3>1
  <2>8. Leaves(f, bytes, puts, g)
    <3>1. ~Appends(f, count)
      BY <1>3, <1>13, <2>1 DEF Appends
    <3> QED BY <1>14, <3>1
  <2> HIDE DEF g, p, puts
  <2> QED BY <1>2, <1>3, <1>5, <2>1, <2>3, <2>4, <2>6, <2>7, <2>8 DEF WroteAs, f, n, count
<1>21. CASE FirstBlock(fd, bytes)
  <2> DEFINE buf == Overlay(f.buf, 0, bytes)
             g == Advance(f, count, buf, count, count)
             p == Alloc(free, chain, 1)
             puts == <<<<BlockOf(pos), buf>>>>
  <2>1. f.newFile = 0 /\ count <= B
    BY <1>5, <1>21 DEF FirstBlock, f
  <2>2. Wrote(fd, bytes, p, puts, g)
    BY ZenonT(30), <1>1, <1>5, <1>21 DEF FirstBlock, Moved, Advance, Fcb, f, pos
  <2>3. count < B /\ BlocksFor(count) = 1
    <3>1. count < B
      BY <1>2, <1>3, <1>13, <2>1
    <3>2. count \div B = 0
      BY <1>3, <1>13, <3>1
    <3> QED BY <3>1, <3>2 DEF BlocksFor
  <2>4. Grown(p, free[1], f.size + count) /\ free[1] \in Clusters \ DOMAIN chain
    BY <1>8, <2>1, <2>3
  <2>5. puts \in Seq(Puts(n))
    BY <1>6, <1>10, <1>12
  <2>6. WentOn(f, g, count)
    <3>1. count \in 0 .. B
      BY <1>3, <1>13, <2>3
    <3> QED BY <1>3, <1>11, <1>12, <3>1
  <2>7. Leaves(f, bytes, puts, g)
    <3> HIDE DEF p, buf
    <3>1. Appends(f, count) => RightAfter(puts, buf, count, f.expect, bytes)
      <4>1. /\ f \in Fcb /\ bytes \in Seq(Byte) /\ count = Len(bytes)
            /\ f.newFile = 0 /\ count <= B /\ buf = Overlay(f.buf, 0, bytes)
        BY <1>1, <1>3, <1>5, <2>1 DEF buf
      <4> QED BY <4>1, FirstBlockRight DEF pos
    <3> QED BY <1>14, <3>1
  <2> HIDE DEF g, p, puts
  <2> QED BY <1>2, <1>3, <1>5, <2>1, <2>2, <2>4, <2>5, <2>6, <2>7 DEF WroteAs, f, n, count
<1>22. CASE FillBuffer(fd, bytes)
  <2> DEFINE buf == Overlay(f.buf, f.buflen, bytes)
             g == Advance(f, count, buf, f.buflen + count, f.index + count)
             p == Place(f, count)
             puts == <<<<BlockOf(pos), buf>>>>
  <2>1. f.newFile = 1 /\ count <= B - f.buflen
    BY <1>5, <1>22 DEF FillBuffer, SpaceLeft, f
  <2>2. Wrote(fd, bytes, p, puts, g)
    BY ZenonT(30), <1>1, <1>5, <1>22 DEF FillBuffer, Moved, Advance, Fcb, f, pos
  <2>3. puts \in Seq(Puts(n))
    <3>1. buf \in Block
      BY <1>12
    <3> HIDE DEF buf
    <3> QED BY <1>6, <1>10, <3>1
  <2>4. WentOn(f, g, count)
    <3>1. f.buflen + count \in 0 .. B /\ f.index + count \in Nat
      BY <1>3, <1>13, <2>1
    <3> QED BY <1>11, <1>12, <3>1
  <2>5. Grown(p, f.DEptr.first, f.size + count)
    BY <1>7, <2>1
  <2>6. Leaves(f, bytes, puts, g)
    <3> HIDE DEF p, buf
    <3>1. Appends(f, count) => RightAfter(puts, buf, f.buflen + count, f.expect, bytes)
      <4>1. /\ f \in Fcb /\ bytes \in Seq(Byte) /\ count = Len(bytes)
            /\ f.newFile = 1 /\ count <= B - f.buflen /\ buf = Overlay(f.buf, f.buflen, bytes)
        BY <1>1, <1>3, <1>5, <2>1 DEF buf
      <4> QED BY <4>1, FillBufferRight DEF pos
    <3> QED BY <1>14, <3>1
  <2> HIDE DEF g, p, puts
  <2> QED BY <1>2, <1>3, <1>5, <2>1, <2>2, <2>3, <2>4, <2>5, <2>6 DEF WroteAs, f, n, count
<1>23. CASE FillAndGoOn(fd, bytes)
  <2> DEFINE space == SpaceLeft(f)
             full  == Overlay(f.buf, f.buflen, SubSeq(bytes, 1, space))
             whole == WholePuts(fd, space, bytes)
             tail  == (count - space) % B
             last  == IF whole = <<>> THEN full ELSE Last(whole)[2]
             buf   == TailBuf(last, bytes, tail)
             len   == IF whole = <<>> /\ tail = 0 THEN B ELSE tail
             ix    == IF whole = <<>> /\ tail = 0 THEN f.index + space ELSE tail
             g     == Advance(f, count, buf, len, ix)
             head  == <<BlockOf(f.filePosition + space), full>>
             rest  == IF tail > 0 THEN <<<<BlockOf(pos), buf>>>> ELSE <<>>
             p     == Place(f, count)
             puts  == <<head>> \o whole \o rest
  <2>1. f.newFile = 1 /\ space > 0 /\ count > space
    BY <1>5, <1>23 DEF FillAndGoOn, f
  <2>2. space \in Nat /\ space <= count /\ tail \in 0 .. B - 1 /\ tail <= count
    <3>1. space \in Nat /\ space <= count
      BY <1>3, <1>13, <2>1 DEF SpaceLeft
    <3>2. count - space \in Nat
      BY <1>3, <3>1
    <3> HIDE DEF space
    <3>3. tail \in 0 .. B - 1 /\ tail <= count - space
      BY <1>13, <3>2
    <3> QED BY <1>3, <3>1, <3>3
  <2> HIDE DEF space, tail, last
  <2>3. Wrote(fd, bytes, p, puts, g)
    <3>1. Moved(f, count).relativeFileBlockPs = BlockOf(pos)
      BY <1>1 DEF Moved, Fcb, pos
    <3>2. [Moved(f, count) EXCEPT !.buf = buf, !.isBufferDirty = 1, !.buflen = len,
             !.index = IF whole = <<>> /\ tail = 0 THEN @ + space ELSE tail] = g
      <4> HIDE DEF buf, whole
      <4> QED BY <1>1, <2>1 DEF Moved, Advance, Fcb, pos
    <3>3. Wrote(fd, bytes, p,
                <<head>> \o whole
                  \o (IF tail > 0 THEN <<<<Moved(f, count).relativeFileBlockPs, buf>>>>
                                  ELSE <<>>),
                [Moved(f, count) EXCEPT !.buf = buf, !.isBufferDirty = 1, !.buflen = len,
                   !.index = IF whole = <<>> /\ tail = 0 THEN @ + space ELSE tail])
      BY <1>5, <1>23 DEF FillAndGoOn, f, space, tail, last
    <3> QED BY <3>1, <3>2, <3>3
  <2>4. full \in Block
    <3>1. SubSeq(bytes, 1, space) \in Seq(Byte)
      BY <1>5, <2>2
    <3>2. f.buflen \in Nat
      BY <1>3, <1>13
    <3> QED BY <1>3, <3>1, <3>2, OverlayIsBlock
  <2>5. whole \in Seq(Puts(n)) /\ (whole # <<>> => Last(whole)[2] \in Block)
    BY <1>3, <1>4, <1>5, <2>2, WholeIsPuts DEF f, n
  <2> HIDE DEF full, whole
  <2>6. last \in Block
    BY <2>4, <2>5 DEF last
  <2>7. buf \in Block
    BY <1>5, <1>13, <2>2, <2>6, TailIsBlock
  <2> HIDE DEF buf
  <2>8. <<head>> \in Seq(Puts(n))
    <3>1. f.filePosition + space \in Nat /\ f.filePosition + space <= f.size + count
          /\ f.size + count \in Nat
      BY <1>3, <1>4, <2>2
    <3>2. BlockOf(f.filePosition + space) \in 0 .. n
      BY <1>6, <3>1, BlocksForGrows DEF n
    <3> QED BY <1>10, <2>4, <3>2
  <2>9. rest \in Seq(Puts(n))
    <3>1. <<>> \in Seq(Puts(n))
      OBVIOUS
    <3> QED BY <1>6, <1>10, <2>7, <3>1
  <2> HIDE DEF head, rest
  <2>10. puts \in Seq(Puts(n))
    BY <2>5, <2>8, <2>9
  <2>11. WentOn(f, g, count)
    <3>1. len \in 0 .. B /\ ix \in Nat
      BY <1>3, <1>13, <2>2
    <3> HIDE DEF len, ix
    <3> QED BY <1>11, <2>7, <3>1
  <2>12. Grown(p, f.DEptr.first, f.size + count)
    BY <1>7, <2>1
  <2>13. Leaves(f, bytes, puts, g)
    <3>1. ASSUME Appends(f, count)
          PROVE  RightAfter(puts, buf, len, f.expect, bytes)
      <4> DEFINE data == f.expect
                 at == f.buflen
                 S == Puts(n)
      <4>1. /\ data \in Seq(Byte) /\ fcbArray[fd].filePosition = Len(data)
            /\ f.filePosition = Len(data)
        BY <1>1, <3>1 DEF Appends, Fcb, f
      <4>2. PICK q \in Nat : Ends(at, q, data) /\ Fits(f.buf, q, data)
        BY <2>1, <3>1 DEF Appends
      <4>3. space = B - at /\ space > 0 /\ space < Len(bytes)
        BY <1>5, <2>1 DEF SpaceLeft, space
      <4>4. tail = (Len(bytes) - space) % B
        BY <1>5 DEF tail
      <4>5. head = <<BlockOf(Len(data) + space), full>>
        BY <4>1 DEF head
      <4>6. rest = IF tail > 0 THEN <<<<BlockOf(Len(data) + Len(bytes)), TailBuf(last, bytes, tail)>>>>
                               ELSE <<>>
        BY <1>5, <4>1 DEF rest, buf, pos
      <4>7. full = Overlay(f.buf, at, SubSeq(bytes, 1, space))
        BY DEF full
      <4>8. /\ WholePuts(fd, space, bytes) \in Seq(S) /\ <<head>> \in Seq(S)
            /\ rest \in Seq(S)
        BY <2>5, <2>8, <2>9 DEF whole
      <4>9. len = tail
        <5>1. CASE tail = 0
          <6>1. Len(bytes) - space \in Nat /\ Len(bytes) - space > 0
            BY <1>13, <2>2, <4>3
          <6>2. (Len(bytes) - space) \div B # 0
            <7> DEFINE x == Len(bytes) - space
            <7>1. x \in Nat /\ x > 0 /\ x % B = 0
              BY <4>4, <5>1, <6>1
            <7> HIDE DEF x
            <7>2. x = (x \div B) * B + (x % B)
              BY <7>1, Split
            <7>3. 0 * B = 0
              BY <1>13
            <7>4. x \div B # 0
              BY <7>1, <7>2, <7>3
            <7> QED BY <7>4 DEF x
          <6>3. DOMAIN whole = 1 .. (Len(bytes) - space) \div B
            BY DEF whole, WholePuts
          <6>4. (Len(bytes) - space) \div B \in Nat
            BY <1>13, <6>1, DivIsNat
          <6>5. whole # <<>>
            BY <6>2, <6>3, <6>4
          <6> QED BY <5>1, <6>5
        <5> QED BY <5>1
      <4> HIDE DEF data, at, S
      <4>10. RightAfter(<<head>> \o WholePuts(fd, space, bytes) \o rest,
                        TailBuf(last, bytes, tail), tail, data, bytes)
        BY <1>5, <4>1, <4>2, <4>3, <4>4, <4>5, <4>6, <4>7, <4>8, FillAndGoOnRight
      <4> QED BY <4>9, <4>10 DEF data, whole, buf
    <3> HIDE DEF puts, len
    <3> QED BY <1>14, <3>1
  <2> HIDE DEF g, p, puts
  <2> QED BY <1>2, <1>3, <1>5, <2>1, <2>3, <2>10, <2>11, <2>12, <2>13 DEF WroteAs, f, n, count
<1>24. CASE NextBlock(fd, bytes)
  <2> DEFINE buf == Overlay(f.buf, 0, bytes)
             g == Advance(f, count, buf, count, count)
             p == Place(f, count)
             puts == <<<<BlockOf(pos), buf>>>>
  <2>1. f.newFile = 1 /\ count < B
    BY <1>5, <1>24 DEF NextBlock, f
  <2>2. Wrote(fd, bytes, p, puts, g)
    BY <1>1, <1>5, <1>24 DEF NextBlock, Moved, Advance, Fcb, f, pos
  <2>3. puts \in Seq(Puts(n))
    BY <1>6, <1>10, <1>12
  <2>4. WentOn(f, g, count)
    <3>1. count \in 0 .. B /\ count \in Nat
      BY <1>3, <1>13, <2>1
    <3> QED BY <1>11, <1>12, <3>1
  <2>5. Grown(p, f.DEptr.first, f.size + count)
    BY <1>7, <2>1
  <2>6. Leaves(f, bytes, puts, g)
    <3>1. f.buflen = B
      BY <1>3, <1>5, <1>13, <1>24 DEF NextBlock, SpaceLeft, f
    <3> HIDE DEF p, buf
    <3>2. Appends(f, count) => RightAfter(puts, buf, count, f.expect, bytes)
      <4>1. /\ f \in Fcb /\ bytes \in Seq(Byte) /\ count = Len(bytes)
            /\ f.newFile = 1 /\ count < B /\ buf = Overlay(f.buf, 0, bytes)
        BY <1>1, <1>3, <1>5, <2>1 DEF buf
      <4> QED BY <3>1, <4>1, NextBlockRight DEF pos
    <3> QED BY <1>14, <3>2
  <2> HIDE DEF g, p, puts
  <2> QED BY <1>2, <1>3, <1>5, <2>1, <2>2, <2>3, <2>4, <2>5, <2>6 DEF WroteAs, f, n, count
<1>25. CASE NextBlocks(fd, bytes)
  <2> DEFINE whole == WholePuts(fd, 0, bytes)
             tail  == count % B
             buf   == TailBuf(Last(whole)[2], bytes, tail)
             len   == IF tail > 0 THEN tail ELSE f.buflen
             ix    == IF tail > 0 THEN tail ELSE f.index
             g     == Advance(f, count, buf, len, ix)
             p     == Place(f, count)
             puts  == whole \o <<<<BlockOf(pos), buf>>>>
  <2>1. f.newFile = 1 /\ count > B
    BY <1>5, <1>25 DEF NextBlocks, f
  <2>2. tail \in 0 .. B - 1 /\ tail <= count /\ count \div B \in Nat \ {0}
    <3>1. tail \in 0 .. B - 1 /\ tail <= count
      BY <1>3, <1>13
    <3>2. count \div B >= 1
      BY <1>3, <1>13, <2>1
    <3> QED BY <1>3, <3>1, <3>2, BlocksForIsNat
  <2>3. Wrote(fd, bytes, p, puts, g)
    <3>1. Moved(f, count).relativeFileBlockPs = BlockOf(pos)
      BY <1>1 DEF Moved, Fcb, pos
    <3>2. [Moved(f, count) EXCEPT !.buf = buf, !.isBufferDirty = 1,
             !.buflen = IF tail > 0 THEN tail ELSE @,
             !.index = IF tail > 0 THEN tail ELSE @] = g
      <4> HIDE DEF buf, tail
      <4> QED BY <1>1, <2>1 DEF Moved, Advance, Fcb, pos
    <3>3. Wrote(fd, bytes, p, whole \o <<<<Moved(f, count).relativeFileBlockPs, buf>>>>,
                [Moved(f, count) EXCEPT !.buf = buf, !.isBufferDirty = 1,
                   !.buflen = IF tail > 0 THEN tail ELSE @,
                   !.index = IF tail > 0 THEN tail ELSE @])
      BY <1>5, <1>25 DEF NextBlocks, f
    <3> QED BY <3>1, <3>2, <3>3
  <2> HIDE DEF tail
  <2>4. /\ whole \in Seq(Puts(n)) /\ (whole # <<>> => Last(whole)[2] \in Block)
        /\ Len(whole) = count \div B
    <3> DEFINE from == 0
    <3>1. from \in Nat /\ from <= Len(bytes) /\ Len(bytes) - from = count
          /\ whole = WholePuts(fd, from, bytes)
      BY <1>3, <1>5
    <3>2. fcbArray[fd].filePosition \in Nat /\ fcbArray[fd].filePosition <= f.size
      BY <1>3, <1>4 DEF f
    <3> HIDE DEF from, whole
    <3>3. /\ whole \in Seq(Puts((f.size + Len(bytes)) \div B))
          /\ (whole # <<>> => Last(whole)[2] \in Block)
      BY <1>3, <1>5, <3>1, <3>2, WholeIsPuts
    <3>4. Len(whole) = (Len(bytes) - from) \div B
      BY <1>3, <1>5, <3>1, <3>2, WholeIsPuts
    <3> QED BY <1>5, <3>1, <3>3, <3>4 DEF n
  <2>5. Last(whole)[2] \in Block
    <3>1. whole # <<>>
      BY <2>2, <2>4
    <3> QED BY <2>4, <3>1
  <2> HIDE DEF whole
  <2>6. buf \in Block
    BY <1>5, <1>13, <2>2, <2>5, TailIsBlock
  <2> HIDE DEF buf
  <2>7. puts \in Seq(Puts(n))
    <3>1. <<<<BlockOf(pos), buf>>>> \in Seq(Puts(n))
      BY <1>6, <1>10, <2>6
    <3> QED BY <2>4, <3>1
  <2>8. WentOn(f, g, count)
    <3>1. len \in 0 .. B /\ ix \in Nat
      BY <1>3, <1>13, <2>2
    <3> HIDE DEF len, ix
    <3> QED BY <1>11, <2>6, <3>1
  <2>9. Grown(p, f.DEptr.first, f.size + count)
    BY <1>7, <2>1
  <2>10. Leaves(f, bytes, puts, g)
    <3>1. ASSUME Appends(f, count)
          PROVE  RightAfter(puts, buf, len, f.expect, bytes)
      <4> DEFINE data == f.expect
                 S == Puts(n)
                 put == <<BlockOf(pos), buf>>
                 size == IF tail > 0 THEN tail ELSE B
      <4>1. /\ data \in Seq(Byte) /\ fcbArray[fd].filePosition = Len(data)
            /\ f.filePosition = Len(data)
        BY <1>1, <3>1 DEF Appends, Fcb, f
      <4>2. f.buflen = B /\ B < Len(bytes)
        BY <1>3, <1>5, <1>13, <1>25, <2>1 DEF NextBlocks, SpaceLeft, f
      <4>3. PICK q \in Nat : Ends(B, q, data)
        BY <2>1, <3>1, <4>2 DEF Appends
      <4>4. whole = WholePuts(fd, 0, bytes) /\ tail = Len(bytes) % B
        BY <1>5 DEF whole, tail
      <4>5. buf = TailBuf(Last(whole)[2], bytes, tail)
        BY DEF buf
      <4>6. put = <<BlockOf(Len(data) + Len(bytes)), buf>>
        BY <1>5, <4>1 DEF pos
      <4>7. whole \in Seq(S) /\ <<put>> \in Seq(S)
        BY <1>6, <1>10, <2>4, <2>6
      <4>8. len = size
        BY <4>2
      <4> HIDE DEF data, S, put
      <4>9. RightAfter(whole \o <<put>>, buf, size, data, bytes)
        BY <1>5, <4>1, <4>2, <4>3, <4>4, <4>5, <4>6, <4>7, NextBlocksRight
      <4> QED BY <4>8, <4>9 DEF data, put
    <3> HIDE DEF puts, len
    <3> QED BY <1>14, <3>1
  <2> HIDE DEF g, p, puts
  <2> QED BY <1>2, <1>3, <1>5, <2>1, <2>3, <2>7, <2>8, <2>9, <2>10 DEF WroteAs, f, n, count
<1>26. CASE NoBranch(fd, bytes)
  <2> DEFINE p == Place(f, count)
             puts == <<>>
  <2>1. f.newFile = 1
    BY <1>26 DEF NoBranch, f
  <2>2. Wrote(fd, bytes, p, puts, f)
    BY <1>5, <1>26 DEF NoBranch, f
  <2>3. puts \in Seq(Puts(n))
    OBVIOUS
  <2>4. WentOn(f, f, count)
    BY <1>1, <1>2, <1>3, <1>4, <1>7, <2>1 DEF WentOn
  <2>5. Grown(p, f.DEptr.first, f.size + count)
    BY <1>7, <2>1
  <2>6. Leaves(f, bytes, puts, f)
    <3>1. ~Appends(f, count)
      BY <1>5, <1>26 DEF NoBranch, Appends
    <3> QED BY <1>5, <3>1 DEF Leaves
  <2> HIDE DEF p, puts
  <2> QED BY <1>2, <1>3, <1>5, <2>1, <2>2, <2>3, <2>4, <2>5, <2>6 DEF WroteAs, f, n, count
<1> QED BY <1>2, <1>20, <1>21, <1>22, <1>23, <1>24, <1>25, <1>26 DEF b_write

(* A call that has put its blocks on a grown chain and moved its position  *)
(* by the bytes it took leaves the volume and the descriptor in order.     *)
LEMMA WroteFits ==
  ASSUME Sound, NEW fd \in Fds, fcbArray[fd] \in Fcb, Good(fcbArray[fd], dir, chain),
         NEW bytes \in Seq(Byte), fcbArray[fd].mode # "read",
         fcbArray[fd].size + Len(bytes) <= MaxSize,
         NEW p, NEW h, NEW puts, NEW g, WroteAs(fd, bytes, p, h, puts, g)
  PROVE  /\ Sound' /\ OpenFds' = OpenFds \cup {fd}
         /\ \A fe \in Fds \ {fd} : fcbArray'[fe] = fcbArray[fe]
         /\ fcbArray'[fd] \in Fcb /\ Good(fcbArray'[fd], dir', chain')
         /\ fcbArray'[fd].newFile = 1 /\ fcbArray'[fd].mode # "read"
         /\ fcbArray'[fd].DEptr.first = h
         /\ fcbArray'[fd].DEptr.name = fcbArray[fd].DEptr.name
         /\ DOMAIN chain' = DOMAIN chain \cup {h} /\ h # Root
         /\ \A c \in DOMAIN chain \ {h} : chain'[c] = chain[c]
         /\ UNCHANGED <<dir, content>> /\ given' = NoRead
<1> DEFINE f == fcbArray[fd]
           count == Len(bytes)
<1>0. /\ Grown(p, h, f.size + count)
      /\ \/ f.newFile = 1 /\ h = f.DEptr.first
         \/ f.newFile = 0 /\ h \in Clusters \ DOMAIN chain
      /\ puts \in Seq(Puts((f.size + count) \div B))
      /\ WentOn(f, g, count)
      /\ Wrote(fd, bytes, p, puts, g)
      /\ f.size + count <= MaxSize /\ count \in Nat
      /\ bytes \in Seq(Byte) /\ Len(bytes) \in Nat
  BY DEF WroteAs
<1>22. f = fcbArray[fd]
  OBVIOUS
<1> HIDE DEF f, count
<1>21. /\ g \in Fcb /\ g.newFile = 1 /\ g.mode # "read"
       /\ g.parentDir = f.parentDir /\ g.DEptr = f.DEptr /\ g.indexDE = f.indexDE
       /\ f.size <= g.size /\ g.size <= f.size + count /\ g.filePosition <= g.size
       /\ g.relativeFileBlockPs <= g.size \div B
  BY <1>0 DEF WentOn
<1> DEFINE e == [g EXCEPT !.DEptr.first = p.first, !.done = @ + Len(bytes),
                          !.expect = @ \o bytes]
<1>1. /\ free' = p.free /\ chain' = p.chain
      /\ blocks' = PutBlocks(blocks, p.chain, p.first, puts)
      /\ stray' = (\E k \in DOMAIN puts : ~HasBlock(p.chain, p.first, puts[k][1]))
      /\ fcbArray' = [fcbArray EXCEPT ![fd] = e]
      /\ dir' = dir /\ content' = content /\ given' = NoRead
  BY <1>0 DEF Wrote
<1>2. /\ p.first = h /\ Apart(p.free, p.chain)
      /\ DOMAIN p.chain = DOMAIN chain \cup {h}
      /\ Holds(p.chain, h, f.size + count)
      /\ NoLonger(p.chain, BlocksFor(MaxSize))
      /\ \A c \in DOMAIN chain \ {h} : p.chain[c] = chain[c]
  BY <1>0 DEF Grown
<1>3. /\ fd \in Fds /\ f \in Fcb /\ Good(f, dir, chain)
  BY <1>22
<1>4. /\ count \in Nat /\ f.size \in Nat /\ g.size \in Nat /\ f.indexDE \in Slots
      /\ dir \in [Slots -> Entry] /\ blocks \in [Clusters -> Block]
      /\ (f.size + count) \div B \in Nat
  <2>1. f.size \in 0 .. MaxSize /\ g.size \in 0 .. MaxSize /\ f.indexDE \in Slots
    BY <1>21, <1>3 DEF Fcb
  <2>2. f.size \in Nat /\ g.size \in Nat /\ f.size + count \in Nat
    BY <1>0, <2>1, MaxIsNat
  <2>3. dir \in [Slots -> Entry] /\ blocks \in [Clusters -> Block]
    BY DEF Sound, TypeOK, Clusters
  <2> QED BY <1>0, <2>1, <2>2, <2>3, BlocksForIsNat
<1>5. h \in DOMAIN p.chain /\ h # Root /\ h \in Nat
  <2>1. h \in DOMAIN p.chain \ {Root}
    BY <1>2 DEF Holds
  <2> QED BY <1>2, <2>1, HeadIsCluster
<1>6. /\ e \in Fcb /\ e.DEptr.first = h /\ e.DEptr.name = f.DEptr.name
      /\ e.size = g.size /\ e.filePosition = g.filePosition /\ e.newFile = 1
      /\ e.relativeFileBlockPs = g.relativeFileBlockPs /\ e.mode = g.mode
      /\ e.parentDir = f.parentDir /\ e.indexDE = f.indexDE
  <2>1. g.done + Len(bytes) \in Nat /\ g.expect \o bytes \in Seq(Byte)
    <3>1. g.done \in Nat /\ g.expect \in Seq(Byte)
      BY <1>21 DEF Fcb
    <3> QED BY <1>0, <3>1
  <2>2. [g.DEptr EXCEPT !.first = h] \in Entry
    BY <1>21, <1>5 DEF Fcb, Entry
  <2>3. e \in Fcb
    BY <1>21, <1>2, <2>1, <2>2 DEF Fcb
  <2>4. /\ e.DEptr = [g.DEptr EXCEPT !.first = h]
        /\ e.size = g.size /\ e.filePosition = g.filePosition /\ e.newFile = 1
        /\ e.relativeFileBlockPs = g.relativeFileBlockPs /\ e.mode = g.mode
        /\ e.parentDir = f.parentDir /\ e.indexDE = f.indexDE
    BY <1>21, <1>2 DEF Fcb
  <2>5. g.DEptr \in Entry
    BY <1>21 DEF Fcb
  <2> HIDE DEF e
  <2> QED BY <1>21, <2>3, <2>4, <2>5 DEF Entry
<1> HIDE DEF e
<1>7. /\ fcbArray' \in [Fds -> Fcb \cup {NULL, CLOSED}]
      /\ OpenFds' = OpenFds \cup {fd} /\ fcbArray'[fd] = e
      /\ \A fe \in Fds \ {fd} : fcbArray'[fe] = fcbArray[fe]
  <2>1. fcbArray \in [Fds -> Fcb \cup {NULL, CLOSED}]
    BY DEF Sound, TypeOK
  <2> QED BY <1>1, <1>3, <1>6, <2>1, NowOpen
<1>8. PutsOf(puts) /\ \A k \in DOMAIN puts :
                        puts[k][1] \in Nat /\ puts[k][1] <= (f.size + count) \div B
  BY <1>0, <1>4, PutsInSeq DEF PutsOf
<1>9. stray' = FALSE
  <2>1. Len(p.chain[h]) \in Nat
    BY <1>2, <1>5, ChainIsSeq
  <2>2. ASSUME NEW k \in DOMAIN puts PROVE HasBlock(p.chain, p.first, puts[k][1])
    <3>1. f.size + count \in Nat
      BY <1>4
    <3> QED BY <1>2, <1>8, <2>1, <3>1, HoldsBlock
  <2> QED BY <1>1, <2>2
<1>10. blocks' \in [Clusters -> Block]
  BY <1>1, <1>4, <1>8, PutsAreBlocks
<1>11. TypeOK'
  BY <1>1, <1>7, <1>9, <1>10 DEF Sound, TypeOK, Clusters
<1>12. Tidy(dir, chain)
  BY DEF Sound
<1>13. f.newFile = 1 => OnItsChain(f, dir, chain)
  BY <1>3 DEF Good
<1>14. f.newFile = 0 => dir[f.indexDE] = Unused
  BY <1>3 DEF Good, Fresh
<1>15. ASSUME NEW s \in Used(dir)
       PROVE  Holds(p.chain, dir[s].first, dir[s].size)
  <2>1. Holds(chain, dir[s].first, dir[s].size)
    BY <1>12 DEF Tidy
  <2>2. CASE dir[s].first # h
    BY <1>2, <2>1, <2>2 DEF Holds
  <2>3. CASE dir[s].first = h
    <3>1. h \in DOMAIN chain
      BY <2>1, <2>3 DEF Holds
    <3>2. f.newFile = 1 /\ h = f.DEptr.first
      BY <1>0, <3>1
    <3>3. HasEntry(f, dir)
      BY <1>13, <2>3, <3>2 DEF OnItsChain, NoEntryYet
    <3>4. s = f.indexDE
      BY <1>4, <1>12, <2>3, <3>2, <3>3 DEF HasEntry, Tidy, Used
    <3>5. dir[s].size \in Nat /\ dir[s].size <= f.size + count
      BY <1>4, <3>3, <3>4, MaxIsNat DEF HasEntry, Entry
    <3>6. /\ BlocksFor(dir[s].size) <= BlocksFor(f.size + count)
          /\ BlocksFor(dir[s].size) \in Nat /\ BlocksFor(f.size + count) \in Nat
      <4>1. f.size + count \in Nat
        BY <1>4
      <4> QED BY <3>5, <4>1, BlocksForGrows, BlocksForIsNat
    <3>7. Len(p.chain[h]) \in Nat
      BY <1>2, <1>5, ChainIsSeq
    <3> QED BY <1>2, <2>3, <3>6, <3>7 DEF Holds
  <2> QED BY <2>2, <2>3
<1>16. Tidy(dir, p.chain)
  BY <1>12, <1>15 DEF Tidy
<1>18. HasEntry(e, dir) \/ NoEntryYet(e, dir)
  <2>1. CASE f.newFile = 1 /\ h = f.DEptr.first
    <3>1. CASE HasEntry(f, dir)
      <4>1. dir[f.indexDE].size \in Nat
        BY <1>4, MaxIsNat DEF Entry
      <4> QED BY <1>21, <1>4, <1>6, <2>1, <3>1, <4>1 DEF HasEntry
    <3>2. CASE NoEntryYet(f, dir)
      BY <1>6, <2>1, <3>2 DEF NoEntryYet
    <3> QED BY <1>13, <2>1, <3>1, <3>2 DEF OnItsChain
  <2>2. CASE f.newFile = 0 /\ h \in Clusters \ DOMAIN chain
    <3>1. \A s \in Used(dir) : dir[s].first \in DOMAIN chain
      BY <1>12 DEF Tidy, Holds
    <3> QED BY <1>6, <1>14, <2>2, <3>1 DEF NoEntryYet
  <2> QED BY <1>0, <2>1, <2>2
<1>19. OnItsChain(e, dir, p.chain)
  <2>1. Holds(p.chain, h, g.size)
    <3>1. /\ BlocksFor(g.size) <= BlocksFor(f.size + count)
          /\ BlocksFor(g.size) \in Nat /\ BlocksFor(f.size + count) \in Nat
      <4>1. f.size + count \in Nat
        BY <1>4
      <4> QED BY <1>21, <1>4, <4>1, BlocksForGrows, BlocksForIsNat
    <3>2. Len(p.chain[h]) \in Nat
      BY <1>2, <1>5, ChainIsSeq
    <3> QED BY <1>2, <3>1, <3>2 DEF Holds
  <2> QED BY <1>21, <1>6, <1>18, <2>1 DEF OnItsChain
<1>20. Good(e, dir, p.chain)
  BY <1>21, <1>3, <1>6, <1>19 DEF Good
<1>23. Sound'
  BY <1>1, <1>2, <1>9, <1>11, <1>16 DEF Sound
<1>24. Good(fcbArray'[fd], dir', chain')
  BY <1>1, <1>7, <1>20
<1>25. h = p.first /\ chain' = p.chain
  BY <1>1, <1>2
<1> QED BY <1>1, <1>2, <1>5, <1>6, <1>7, <1>21, <1>23, <1>24, <1>25, <1>22

-----------------------------------------------------------------------------
(* What the descriptor of a file with a chain counts.                      *)
LEMMA ChainFacts ==
  ASSUME Apart(free, chain), NEW f \in Fcb, Good(f, dir, chain), f.newFile = 1
  PROVE  /\ f \in Fcb /\ Good(f, dir, chain) /\ OnItsChain(f, dir, chain)
         /\ f.size \in Nat /\ f.size \in 0 .. MaxSize
         /\ f.filePosition \in Nat /\ f.filePosition <= f.size
         /\ f.buf \in Block /\ f.buflen \in 0 .. B /\ f.buflen \in Nat /\ f.index \in Nat
         /\ f.isBufferDirty \in {0, 1} /\ f.done \in Nat
         /\ f.relativeFileBlockPs \in Nat /\ f.relativeFileBlockPs <= f.size \div B
         /\ \A rel \in Nat : rel <= f.size \div B =>
              /\ HasBlock(chain, f.DEptr.first, rel)
              /\ chain[f.DEptr.first][rel + 1] \in Clusters
<1>1. f \in Fcb /\ Good(f, dir, chain) /\ OnItsChain(f, dir, chain)
  BY DEF Good
<1>2. /\ f.size \in 0 .. MaxSize /\ f.filePosition \in Nat /\ f.filePosition <= f.size
      /\ f.buf \in Block /\ f.buflen \in 0 .. B /\ f.index \in Nat
      /\ f.isBufferDirty \in {0, 1} /\ f.done \in Nat
      /\ f.relativeFileBlockPs \in Nat /\ f.relativeFileBlockPs <= f.size \div B
  BY <1>1 DEF Fcb, OnItsChain
<1>3. f.size \in Nat /\ f.buflen \in Nat
  BY <1>2, MaxIsNat, BlockIsNat
<1>4. Holds(chain, f.DEptr.first, f.size) /\ Apart(free, chain)
  BY <1>1 DEF OnItsChain
<1>5. f.DEptr.first \in DOMAIN chain /\ f.DEptr.first # Root
  BY <1>4 DEF Holds
<1>6. chain[f.DEptr.first] \in Seq(Clusters) /\ Len(chain[f.DEptr.first]) \in Nat
  BY <1>4, <1>5, ChainIsSeq
<1>7. ASSUME NEW rel \in Nat, rel <= f.size \div B
      PROVE  /\ HasBlock(chain, f.DEptr.first, rel)
             /\ chain[f.DEptr.first][rel + 1] \in Clusters
  <2>1. HasBlock(chain, f.DEptr.first, rel)
    BY <1>3, <1>4, <1>6, <1>7, HoldsBlock
  <2>2. rel + 1 \in 1 .. Len(chain[f.DEptr.first])
    BY <1>6, <2>1 DEF HasBlock
  <2> QED BY <1>6, <2>1, <2>2
<1> QED BY <1>1, <1>2, <1>3, <1>7

(* The calls that leave the chains and the directory as they are.          *)
LEMMA FcbIsSet ==
  ASSUME Sound, NEW fd \in Fds, NEW g \in Fcb,
         fcbArray' = [fcbArray EXCEPT ![fd] = g],
         UNCHANGED <<alloced, dir, content>>, stray' = FALSE,
         blocks' \in [Clusters -> Block]
  PROVE  /\ Sound' /\ OpenFds' = OpenFds \cup {fd} /\ fcbArray'[fd] = g
         /\ \A fe \in Fds \ {fd} : fcbArray'[fe] = fcbArray[fe]
<1>1. fcbArray \in [Fds -> Fcb \cup {NULL, CLOSED}]
  BY DEF Sound, TypeOK
<1>2. /\ fcbArray' \in [Fds -> Fcb \cup {NULL, CLOSED}]
      /\ OpenFds' = OpenFds \cup {fd} /\ fcbArray'[fd] = g
      /\ \A fe \in Fds \ {fd} : fcbArray'[fe] = fcbArray[fe]
  BY <1>1, NowOpen
<1>3. free' = free /\ chain' = chain /\ dir' = dir /\ content' = content
  BY DEF alloced
<1>4. TypeOK'
  BY <1>2, <1>3 DEF Sound, TypeOK, Clusters
<1> QED BY <1>2, <1>3, <1>4 DEF Sound

(* A descriptor that was read through still fits its entry.                *)
LEMMA ReadsKeepsGood ==
  ASSUME NEW f \in Fcb, Good(f, dir, chain), f.mode = "read",
         NEW g \in Fcb, g.newFile = 1, g.isBufferDirty = 1, g.mode = f.mode,
         g.parentDir = f.parentDir, g.DEptr = f.DEptr, g.indexDE = f.indexDE,
         g.size = f.size, g.filePosition <= f.size, g.buflen <= f.size,
         g.relativeFileBlockPs <= f.size \div B,
         g.index <= g.buflen => g.filePosition + g.buflen - g.index <= f.size
  PROVE  Good(g, dir, chain)
<1>1. OnItsChain(f, dir, chain) /\ f.parentDir = dir /\ f.DEptr.name \in Files
  BY DEF Good, ReadsInFile
<1>2. OnItsChain(g, dir, chain)
  BY <1>1 DEF OnItsChain, HasEntry, NoEntryYet
<1>3. ReadsInFile(g)
  BY DEF ReadsInFile
<1> QED BY <1>1, <1>2, <1>3 DEF Good

(* b_read finds every block it asks for, and moves only its descriptor.    *)
LEMMA ReadFits ==
  ASSUME Sound, NEW fd \in Fds, fcbArray[fd] \in Fcb, Good(fcbArray[fd], dir, chain),
         NEW count \in Nat \ {0}, count < B,
         fcbArray[fd].mode = "read", b_read(fd, count)
  PROVE  /\ Sound' /\ OpenFds' = OpenFds \cup {fd}
         /\ \A fe \in Fds \ {fd} : fcbArray'[fe] = fcbArray[fe]
         /\ fcbArray'[fd] \in Fcb /\ Good(fcbArray'[fd], dir', chain')
         /\ fcbArray'[fd].newFile = 1 /\ fcbArray'[fd].mode = "read"
         /\ fcbArray'[fd].DEptr = fcbArray[fd].DEptr
         /\ UNCHANGED <<alloced, blocks, dir, content>>
<1> DEFINE f == fcbArray[fd]
<1>1. f \in Fcb /\ Good(f, dir, chain) /\ ReadsInFile(f)
  BY DEF Good
<1>2. f.newFile = 1 /\ f.isBufferDirty = 1 /\ f.buflen <= f.size
      /\ (f.index <= f.buflen => f.filePosition + f.buflen - f.index <= f.size)
  BY <1>1 DEF ReadsInFile
<1>9. f = fcbArray[fd]
  OBVIOUS
<1> HIDE DEF f
<1>3. /\ f.size \in Nat /\ f.filePosition \in Nat /\ f.filePosition <= f.size
      /\ f.buf \in Block /\ f.buflen \in Nat /\ f.buflen <= B /\ f.index \in Nat
      /\ f.relativeFileBlockPs \in Nat /\ f.relativeFileBlockPs <= f.size \div B
      /\ f.done \in Nat
      /\ \A rel \in Nat : rel <= f.size \div B =>
           /\ HasBlock(chain, f.DEptr.first, rel)
           /\ chain[f.DEptr.first][rel + 1] \in Clusters
  <2>1. f.buflen \in 0 .. B
    BY <1>1 DEF Fcb
  <2>2. Apart(free, chain)
    BY DEF Sound
  <2> QED BY <1>1, <1>2, <2>1, <2>2, ChainFacts
<1>4. count \in Nat \ {0} /\ count < B /\ B \in Nat \ {0, 1}
  BY BlockIsNat
<1>5. f.buf \in Seq(Byte) /\ Len(f.buf) = B
  BY <1>3, <1>4 DEF Block
<1>6. /\ blocks \in [Clusters -> Block] /\ stray = FALSE
  BY DEF Sound, TypeOK, Clusters
<1>7. CASE ReadBuffer(fd, count)
  <2> DEFINE d == IF count = InBuffer(f) THEN f.isBufferDirty ELSE 1
             bytes == SubSeq(f.buf, f.index + 1, f.index + count)
             h == [f EXCEPT !.index = @ + count, !.isBufferDirty = d]
             g == [h EXCEPT !.filePosition = @ + Len(bytes),
                            !.relativeFileBlockPs = (h.filePosition + Len(bytes)) \div B,
                            !.done = @ + Len(bytes)]
  <2>1. /\ count <= InBuffer(f) /\ fcbArray' = [fcbArray EXCEPT ![fd] = g]
        /\ UNCHANGED <<alloced, blocks, dir, content, stray>>
    <3>1. Read(fd, count, h, bytes) /\ UNCHANGED stray /\ count <= InBuffer(f)
      BY <1>7 DEF ReadBuffer, f
    <3> HIDE DEF bytes, h
    <3> QED BY <3>1 DEF Read
  <2>2. f.index + count <= f.buflen
    <3> DEFINE i == f.index
               len == f.buflen
    <3>1. i \in Nat /\ len \in Nat /\ count \in Nat \ {0}
          /\ count <= IF i < len THEN len - i ELSE 0
      BY <1>3, <1>4, <2>1 DEF InBuffer
    <3> HIDE DEF i, len
    <3>2. i + count <= len
      BY <3>1
    <3> QED BY <3>2 DEF i, len
  <2>3. Len(bytes) = count
    <3> DEFINE buf == f.buf
               i == f.index
               j == i + count
    <3>1. /\ i \in Nat /\ j \in Nat /\ j = i + count /\ j <= B /\ count \in Nat
          /\ buf \in Seq(Byte) /\ Len(buf) = B /\ B \in Nat
      BY <1>3, <1>4, <1>5, <2>2
    <3> HIDE DEF buf, i, j
    <3>2. Len(SubSeq(buf, i + 1, j)) = count
      BY <3>1
    <3> QED BY <3>2 DEF buf, i, j
  <2> HIDE DEF bytes
  <2>4. d = 1
    BY <1>2
  <2> HIDE DEF d
  <2>5. f.filePosition + count \in Nat /\ f.filePosition + count <= f.size
    BY <1>2, <1>3, <1>4, <2>2
  <2>6. /\ (f.filePosition + count) \div B <= f.size \div B
        /\ (f.filePosition + count) \div B \in Nat
    BY <1>3, <2>5, BlocksForGrows, BlocksForIsNat
  <2>7. g = [f EXCEPT !.index = f.index + count, !.isBufferDirty = 1,
                      !.filePosition = f.filePosition + count,
                      !.relativeFileBlockPs = (f.filePosition + count) \div B,
                      !.done = f.done + count]
    BY <1>1, <2>3, <2>4 DEF Fcb
  <2> HIDE DEF g
  <2>8. f.index + count \in Nat /\ f.done + count \in Nat
    BY <1>3, <1>4
  <2>9. g \in Fcb
    BY <1>1, <2>5, <2>6, <2>7, <2>8 DEF Fcb
  <2>10. /\ g.newFile = 1 /\ g.isBufferDirty = 1 /\ g.mode = f.mode
         /\ g.parentDir = f.parentDir /\ g.DEptr = f.DEptr /\ g.indexDE = f.indexDE
         /\ g.size = f.size /\ g.filePosition = f.filePosition + count
         /\ g.buflen = f.buflen /\ g.index = f.index + count
         /\ g.relativeFileBlockPs = (f.filePosition + count) \div B
    BY <1>1, <1>2, <2>7 DEF Fcb
  <2>11. g.filePosition + g.buflen - g.index <= f.size
    BY <1>2, <1>3, <1>4, <2>2, <2>10
  <2>12. Good(g, dir, chain)
    BY <1>1, <1>2, <2>5, <2>6, <2>9, <2>10, <2>11, ReadsKeepsGood DEF f
  <2>13. /\ Sound' /\ OpenFds' = OpenFds \cup {fd} /\ fcbArray'[fd] = g
         /\ \A fe \in Fds \ {fd} : fcbArray'[fe] = fcbArray[fe]
    BY <1>6, <2>1, <2>9, FcbIsSet
  <2>14. dir' = dir /\ chain' = chain
    BY <2>1 DEF alloced
  <2> QED BY <1>9, <2>1, <2>9, <2>10, <2>12, <2>13, <2>14
<1>8. CASE ReadOn(fd, count)
  <2> DEFINE k0 == InBuffer(f)
             head == SubSeq(f.buf, f.index + 1, f.index + k0)
             p == f.filePosition + Len(head)
             wanted == count - Len(head)
             left == IF p <= f.size THEN f.size - p ELSE 0
             n == Lesser(left, (wanted \div B) * B)
             more == wanted - n
             buflen == Lesser(B, left - n)
             take == Lesser(more, buflen)
             rel(k) == IF k = 0 /\ head = <<>> THEN f.relativeFileBlockPs
                                               ELSE (p + k) \div B
             reads == {k \in 0 .. n - 1 : k % B = 0} \cup
                        (IF more > 0 THEN {n} ELSE {})
             block(k) == GetBlock(f.DEptr.first, rel(k))
             lastBlock == block(Max(reads))
             part2 == [k \in 1 .. n |-> block(((k - 1) \div B) * B)[((k - 1) % B) + 1]]
             part3 == IF more > 0 THEN SubSeq(lastBlock, 1, take) ELSE <<>>
             bytes == head \o part2 \o part3
             h == [f EXCEPT !.buf = lastBlock, !.isBufferDirty = 1,
                            !.buflen = IF more > 0 THEN buflen ELSE @,
                            !.index = IF more > 0 THEN take ELSE 0]
  <2>1. /\ count > k0 /\ Read(fd, count, h, bytes)
        /\ stray' = (p > f.size \/
             \E k \in reads : ~HasBlock(chain, f.DEptr.first, rel(k)))
    BY Zenon, <1>8 DEF ReadOn, f
  <2>2. /\ k0 \in Nat /\ f.index + k0 \in Nat
        /\ k0 > 0 => f.index + k0 = f.buflen
        /\ f.filePosition + k0 <= f.size
    BY <1>2, <1>3 DEF InBuffer
  <2>3. Len(head) = k0 /\ head \in Seq(Byte)
    <3> HIDE DEF k0
    <3>1. CASE k0 = 0
      <4>1. f.index + k0 = f.index /\ head = SubSeq(f.buf, f.index + 1, f.index)
        BY <1>3, <3>1
      <4>2. head = <<>>
        BY <1>3, <1>5, <4>1, EmptyCut
      <4> HIDE DEF head
      <4> QED BY <3>1, <4>2
    <3>2. CASE k0 > 0
      <4>1. f.index + k0 <= B /\ f.index + k0 \in Nat
        BY <1>3, <1>4, <2>2, <3>2
      <4> DEFINE buf == f.buf
                 i == f.index
                 j == i + k0
      <4>2. /\ i \in Nat /\ j \in Nat /\ j = i + k0 /\ j <= Len(buf) /\ k0 \in Nat
            /\ buf \in Seq(Byte)
        BY <1>3, <1>5, <2>2, <4>1
      <4> HIDE DEF buf, i, j
      <4>3. SubSeq(buf, i + 1, j) \in Seq(Byte) /\ Len(SubSeq(buf, i + 1, j)) = k0
        BY <4>2
      <4> QED BY <4>3 DEF buf, i, j
    <3> QED BY <2>2, <3>1, <3>2
  <2> HIDE DEF k0, head
  <2>4. p \in Nat /\ p = f.filePosition + k0 /\ p <= f.size /\ left = f.size - p
        /\ left \in Nat
    BY <1>3, <2>2, <2>3
  <2> HIDE DEF p, left
  <2>5. wanted \in Nat /\ wanted > 0 /\ wanted < B /\ wanted = count - k0
    BY <1>4, <2>1, <2>2, <2>3
  <2> HIDE DEF wanted
  <2>6. n = 0 /\ more = wanted /\ more > 0
    <3>1. wanted \div B = 0
      BY <1>4, <2>5
    <3>2. 0 * B = 0
      BY <1>4
    <3> QED BY <2>4, <2>5, <3>1, <3>2 DEF Lesser
  <2> HIDE DEF n
  <2>7. buflen \in Nat /\ buflen <= B /\ buflen <= left /\ p + buflen <= f.size
    BY <1>3, <1>4, <2>4, <2>6 DEF Lesser
  <2> HIDE DEF buflen
  <2>8. take \in Nat /\ take <= buflen
    BY <2>5, <2>6, <2>7 DEF Lesser
  <2>19. reads = {0} /\ Max(reads) = 0
    <3>1. reads = {0}
      BY <2>6
    <3>2. Max({0}) = 0
      BY DEF Max
    <3> QED BY <3>1, <3>2
  <2> HIDE DEF take, more, reads
  <2>10. rel(0) \in Nat /\ rel(0) <= f.size \div B
    <3>1. p \div B \in Nat /\ p \div B <= f.size \div B /\ p + 0 = p
      BY <1>3, <2>4, BlocksForGrows, BlocksForIsNat
    <3> QED BY <1>3, <3>1
  <2>11. lastBlock \in Block
    <3>1. block(0) = blocks[chain[f.DEptr.first][rel(0) + 1]]
      <4> HIDE DEF rel
      <4> QED BY <1>3, <2>10 DEF GetBlock
    <3>2. chain[f.DEptr.first][rel(0) + 1] \in Clusters
      <4> HIDE DEF rel
      <4> QED BY <1>3, <2>10
    <3> HIDE DEF rel, block
    <3> QED BY <1>6, <2>19, <3>1, <3>2
  <2>12. stray' = FALSE
    <3>1. HasBlock(chain, f.DEptr.first, rel(0))
      <4> HIDE DEF rel
      <4> QED BY <1>3, <2>10
    <3>2. ~(p > f.size)
      BY <1>3, <2>4
    <3> HIDE DEF rel
    <3> QED BY <2>1, <2>19, <3>1, <3>2
  <2>13. Len(bytes) = k0 + take
    <3>1. part2 = <<>>
      BY <2>6
    <3> HIDE DEF lastBlock, part2
    <3>2. part3 \in Seq(Byte) /\ Len(part3) = take
      <4>1. lastBlock \in Seq(Byte) /\ Len(lastBlock) = B
        BY <1>4, <2>11 DEF Block
      <4>2. take <= B /\ take \in Nat
        BY <1>4, <2>7, <2>8
      <4>3. SubSeq(lastBlock, 1, take) \in Seq(Byte)
            /\ Len(SubSeq(lastBlock, 1, take)) = take
        BY <1>4, <4>1, <4>2
      <4> QED BY <2>6, <4>3
    <3> HIDE DEF part3
    <3> QED BY <2>2, <2>3, <2>8, <3>1, <3>2
  <2> HIDE DEF lastBlock, bytes
  <2> DEFINE q == f.filePosition + (k0 + take)
             g == [f EXCEPT !.buf = lastBlock, !.isBufferDirty = 1, !.buflen = buflen,
                            !.index = take, !.filePosition = q,
                            !.relativeFileBlockPs = q \div B,
                            !.done = f.done + (k0 + take)]
  <2>14. q \in Nat /\ q <= f.size /\ q + buflen - take <= f.size
         /\ f.done + (k0 + take) \in Nat
    BY <1>3, <2>2, <2>4, <2>7, <2>8
  <2>15. fcbArray' = [fcbArray EXCEPT ![fd] = g]
         /\ UNCHANGED <<alloced, blocks, dir, content>>
    <3>1. [h EXCEPT !.filePosition = @ + Len(bytes),
                    !.relativeFileBlockPs = (h.filePosition + Len(bytes)) \div B,
                    !.done = @ + Len(bytes)] = g
      BY <1>1, <2>6, <2>13 DEF Fcb
    <3> HIDE DEF h, g
    <3> QED BY <2>1, <3>1 DEF Read
  <2> HIDE DEF q
  <2>16. q \div B \in Nat /\ q \div B <= f.size \div B
    BY <1>3, <2>14, BlocksForGrows, BlocksForIsNat
  <2>17. /\ g \in Fcb /\ g.newFile = 1 /\ g.isBufferDirty = 1 /\ g.mode = f.mode
         /\ g.parentDir = f.parentDir /\ g.DEptr = f.DEptr /\ g.indexDE = f.indexDE
         /\ g.size = f.size /\ g.filePosition = q
         /\ g.buflen = buflen /\ g.index = take
         /\ g.relativeFileBlockPs = q \div B
    <3>1. buflen \in 0 .. B
      BY <1>4, <2>7
    <3> QED BY <1>1, <1>2, <2>8, <2>11, <2>14, <2>16, <3>1 DEF Fcb
  <2> HIDE DEF g
  <2>20. g.buflen <= f.size
    BY <1>3, <2>4, <2>7, <2>17
  <2>18. Good(g, dir, chain)
    BY <1>1, <1>9, <2>14, <2>16, <2>17, <2>20, ReadsKeepsGood
  <2>21. blocks' \in [Clusters -> Block]
    BY <1>6, <2>15
  <2>22. /\ Sound' /\ OpenFds' = OpenFds \cup {fd} /\ fcbArray'[fd] = g
         /\ \A fe \in Fds \ {fd} : fcbArray'[fe] = fcbArray[fe]
    BY <2>12, <2>15, <2>17, <2>21, FcbIsSet
  <2>23. dir' = dir /\ chain' = chain
    BY <2>15 DEF alloced
  <2> QED BY <1>9, <2>15, <2>17, <2>18, <2>22, <2>23
<1> QED BY <1>7, <1>8 DEF b_read

(* b_close sets the entry of the file, and no other.                       *)
LEMMA CloseFits ==
  ASSUME Sound, NEW fd \in Fds, NEW f, f = fcbArray[fd], f \in Fcb,
         Good(f, dir, chain), f.newFile = 1, b_close(fd)
  PROVE  /\ Sound' /\ OpenFds' = OpenFds \ {fd}
         /\ \A fe \in Fds \ {fd} : fcbArray'[fe] = fcbArray[fe]
         /\ f.indexDE \in Slots /\ f.DEptr.name \in Files
         /\ dir'[f.indexDE] = [f.DEptr EXCEPT !.size = f.size]
         /\ \A s \in Slots \ {f.indexDE} : dir'[s] = dir[s]
         /\ Used(dir') = Used(dir) \cup {f.indexDE}
         /\ dir[f.indexDE] = Unused \/ dir[f.indexDE].first = f.DEptr.first
         /\ \A s \in Used(dir) \ {f.indexDE} : dir[s].first # f.DEptr.first
         /\ Firsts(dir') = Firsts(dir) \cup {f.DEptr.first}
         /\ content' = [content EXCEPT ![f.DEptr.name] = f.expect]
         /\ UNCHANGED alloced
         /\ f.isBufferDirty = 1 => blocks' = blocks
<1> DEFINE e == [f.DEptr EXCEPT !.size = f.size]
           i == f.indexDE
           first == f.DEptr.first
<1>1. f.newFile = 1 /\ b_close(fd)
  OBVIOUS
<1>2. f = fcbArray[fd]
  OBVIOUS
<1>3. /\ f \in Fcb /\ Good(f, dir, chain) /\ OnItsChain(f, dir, chain)
      /\ f.parentDir = dir /\ f.DEptr.name \in Files
  BY DEF Good
<1>4. /\ f.size \in 0 .. MaxSize /\ f.buf \in Block /\ f.relativeFileBlockPs \in Nat
      /\ f.relativeFileBlockPs <= f.size \div B
      /\ \A rel \in Nat : rel <= f.size \div B => HasBlock(chain, first, rel)
  <2>1. Apart(free, chain)
    BY DEF Sound
  <2> QED BY <2>1, ChainFacts
<1>5. i \in Slots /\ f.DEptr \in Entry /\ f.expect \in Seq(Byte)
  BY <1>3 DEF Fcb
<1>6. /\ dir \in [Slots -> Entry] /\ content \in [Files -> Seq(Byte)]
      /\ blocks \in [Clusters -> Block] /\ fcbArray \in [Fds -> Fcb \cup {NULL, CLOSED}]
      /\ Tidy(dir, chain) 
  BY DEF Sound, TypeOK, Clusters
<1>7. /\ dir' = [dir EXCEPT ![i] = e] /\ fcbArray' = [fcbArray EXCEPT ![fd] = CLOSED]
      /\ content' = [content EXCEPT ![f.DEptr.name] = f.expect]
      /\ free' = free /\ chain' = chain
  BY <1>1, <1>2, <1>3 DEF b_close, commitDE, alloced
<1>8. e \in Entry /\ e.name = f.DEptr.name /\ e.first = first /\ e.size = f.size
      /\ e # Unused
  <2>1. e \in Entry /\ e.name = f.DEptr.name /\ e.first = first /\ e.size = f.size
    BY <1>4, <1>5 DEF Entry
  <2>2. f.DEptr.name # NoName
    BY <1>3, FileAssumption
  <2> QED BY <2>1, <2>2, UnusedIsEntry
<1> HIDE DEF e, i, first
<1>9. stray' = FALSE /\ blocks' \in [Clusters -> Block]
  <2>1. HasBlock(chain, first, f.relativeFileBlockPs)
    BY <1>4
  <2>2. PutBlock(blocks, chain, first, f.relativeFileBlockPs, f.buf) \in [Clusters -> Block]
    BY <1>4, <1>6, PutIsBlocks
  <2> QED BY <1>1, <1>2, <1>6, <2>1, <2>2 DEF b_close, first
<1>10. /\ fcbArray' \in [Fds -> Fcb \cup {NULL, CLOSED}]
       /\ OpenFds' = OpenFds \ {fd}
       /\ \A fe \in Fds \ {fd} : fcbArray'[fe] = fcbArray[fe]
  BY <1>6, <1>7, NowClosed
<1>11. TypeOK'
  BY <1>3, <1>5, <1>6, <1>7, <1>8, <1>9, <1>10 DEF TypeOK, Clusters
<1>12. /\ dir'[i] = e /\ \A s \in Slots \ {i} : dir'[s] = dir[s]
       /\ Used(dir') = Used(dir) \cup {i}
  BY <1>5, <1>6, <1>7, <1>8 DEF Used
<1>13. dir[i] = Unused \/ dir[i].first = first
  BY <1>3 DEF OnItsChain, HasEntry, NoEntryYet, i, first
<1>14. \A s \in Used(dir) \ {i} : dir[s].first # first
  <2>1. CASE HasEntry(f, dir)
    <3>1. i \in Used(dir) /\ dir[i].first = first
      BY <1>5, <2>1 DEF HasEntry, Used, i, first
    <3> QED BY <1>6, <3>1 DEF Tidy
  <2>2. CASE NoEntryYet(f, dir)
    BY <2>2 DEF NoEntryYet, first
  <2> QED BY <1>3, <2>1, <2>2 DEF OnItsChain
<1>15. Tidy(dir', chain)
  <2>1. ASSUME NEW s \in Used(dir')
        PROVE  dir'[s].name \in Files /\ Holds(chain, dir'[s].first, dir'[s].size)
    <3>1. CASE s = i
      BY <1>3, <1>8, <1>12, <3>1 DEF OnItsChain, first
    <3>2. CASE s # i
      <4>1. s \in Used(dir) /\ dir'[s] = dir[s]
        BY <1>12, <3>2 DEF Used
      <4> QED BY <1>6, <4>1 DEF Tidy
    <3> QED BY <3>1, <3>2
  <2>2. ASSUME NEW s \in Used(dir'), NEW t \in Used(dir'), dir'[s].first = dir'[t].first
        PROVE  s = t
    <3>1. \A x \in Used(dir') \ {i} : x \in Used(dir) /\ dir'[x] = dir[x]
                                      /\ dir'[x].first # first
      BY <1>12, <1>14 DEF Used
    <3>2. CASE s = i \/ t = i
      BY <1>8, <1>12, <2>2, <3>1, <3>2
    <3>3. CASE s # i /\ t # i
      <4>1. s \in Used(dir) /\ t \in Used(dir) /\ dir[s].first = dir[t].first
        BY <2>2, <3>1, <3>3
      <4> QED BY <1>6, <4>1 DEF Tidy
    <3> QED BY <3>2, <3>3
  <2> QED BY <2>1, <2>2 DEF Tidy
<1>16. Firsts(dir') = Firsts(dir) \cup {first}
  <2>1. Firsts(dir') \subseteq Firsts(dir) \cup {first}
    BY <1>8, <1>12 DEF Firsts, Used
  <2>2. first \in Firsts(dir')
    BY <1>8, <1>12 DEF Firsts
  <2>3. ASSUME NEW s \in Used(dir) PROVE dir[s].first \in Firsts(dir')
    <3>1. CASE s = i
      BY <1>13, <2>2, <2>3, <3>1 DEF Used
    <3>2. CASE s # i
      <4>1. s \in Used(dir') /\ dir'[s] = dir[s]
        BY <1>12, <3>2 DEF Used
      <4> QED BY <4>1 DEF Firsts
    <3> QED BY <3>1, <3>2
  <2> QED BY <2>1, <2>2, <2>3 DEF Firsts
<1>18. f.isBufferDirty = 1 => blocks' = blocks
  BY <1>1, <1>2 DEF b_close
<1>19. Sound'
  BY <1>7, <1>9, <1>11, <1>15 DEF Sound
<1>20. f.DEptr.name \in Files /\ UNCHANGED alloced
  BY <1>3, <1>7 DEF alloced
<1> QED BY <1>5, <1>7, <1>10, <1>12, <1>13, <1>14, <1>16, <1>18, <1>19, <1>20
          DEF e, i, first

(* fs_delete takes one entry and its chain away.                           *)
LEMMA DeleteFits ==
  ASSUME Sound, NEW n \in Files, fs_delete(n), NEW s, s = Least(SlotsOf(n))
  PROVE  /\ Sound' /\ fcbArray' = fcbArray
         /\ s \in Used(dir) /\ dir[s].name = n /\ dir'[s] = Unused
         /\ \A t \in Slots \ {s} : dir'[t] = dir[t]
         /\ Used(dir') = Used(dir) \ {s}
         /\ dir[s].first \in DOMAIN chain /\ dir[s].first # Root
         /\ \A t \in Used(dir) \ {s} : dir[t].first # dir[s].first
         /\ Firsts(dir') = Firsts(dir) \ {dir[s].first}
         /\ DOMAIN chain' = DOMAIN chain \ {dir[s].first}
         /\ \A h \in DOMAIN chain \ {dir[s].first} : chain'[h] = chain[h]
         /\ free' = chain[dir[s].first] \o free
         /\ blocks' = [c \in DOMAIN blocks |->
                         IF Contains(chain[dir[s].first], c) THEN Junk ELSE blocks[c]]
         /\ content' = [content EXCEPT ![n] = <<>>] /\ given' = NoRead
<1> DEFINE first == dir[s].first
<1>2. SlotsOf(n) # {} /\ fs_delete(n)
  BY DEF fs_delete, Exists
<1>3. s \in Slots /\ dir[s].name = n
  BY <1>2, SlotIsThere
<1>4. /\ dir \in [Slots -> Entry] /\ content \in [Files -> Seq(Byte)]
      /\ blocks \in [Clusters -> Block] /\ fcbArray \in [Fds -> Fcb \cup {NULL, CLOSED}]
      /\ Tidy(dir, chain) /\ Apart(free, chain) /\ NoLonger(chain, BlocksFor(MaxSize))
      /\ stray = FALSE
  BY DEF Sound, TypeOK, Clusters
<1>5. /\ free' = chain[first] \o free /\ chain' = Store!Without(chain, first)
      /\ blocks' = [c \in DOMAIN blocks |->
                      IF Contains(chain[first], c) THEN Junk ELSE blocks[c]]
      /\ dir' = [dir EXCEPT ![s] = Unused] /\ content' = [content EXCEPT ![n] = <<>>]
      /\ fcbArray' = fcbArray /\ stray' = stray /\ given' = NoRead
  BY <1>2 DEF fs_delete, Release
<1>6. s \in Used(dir)
  BY <1>3, FileAssumption, UnusedIsEntry DEF Used
<1>7. first \in DOMAIN chain /\ first # Root
  BY <1>4, <1>6 DEF Tidy, Holds
<1> HIDE DEF first
<1>8. Apart(free', chain')
  BY <1>4, <1>5, <1>7, GiveKeepsApart
<1>9. DOMAIN chain' = DOMAIN chain \ {first}
      /\ \A h \in DOMAIN chain \ {first} : chain'[h] = chain[h]
  BY <1>5 DEF Store!Without, Store!Restrict
<1>10. NoLonger(chain', BlocksFor(MaxSize))
  BY <1>4, <1>9 DEF NoLonger
<1>11. /\ dir'[s] = Unused /\ \A t \in Slots \ {s} : dir'[t] = dir[t]
       /\ Used(dir') = Used(dir) \ {s}
  BY <1>3, <1>4, <1>5 DEF Used
<1>12. \A t \in Used(dir) \ {s} : dir[t].first # first
  BY <1>4, <1>6 DEF Tidy, first
<1>13. Tidy(dir', chain')
  <2>1. \A t \in Used(dir') : t \in Used(dir) /\ dir'[t] = dir[t] /\ dir[t].first # first
    BY <1>11, <1>12 DEF Used
  <2>2. ASSUME NEW t \in Used(dir')
        PROVE  dir'[t].name \in Files /\ Holds(chain', dir'[t].first, dir'[t].size)
    BY <1>4, <1>9, <2>1 DEF Tidy, Holds
  <2>3. \A t, u \in Used(dir') : dir'[t].first = dir'[u].first => t = u
    BY <1>4, <2>1 DEF Tidy
  <2> QED BY <2>2, <2>3 DEF Tidy
<1>15. Firsts(dir') = Firsts(dir) \ {first}
  <2>1. \A t \in Used(dir') : t \in Used(dir) /\ dir'[t] = dir[t] /\ dir[t].first # first
    BY <1>11, <1>12 DEF Used
  <2>2. \A t \in Used(dir) \ {s} : t \in Used(dir') /\ dir'[t] = dir[t]
    BY <1>11 DEF Used
  <2>3. Firsts(dir') \subseteq Firsts(dir) \ {first}
    BY <2>1 DEF Firsts
  <2>4. Firsts(dir) \ {first} \subseteq Firsts(dir')
    BY <2>2 DEF Firsts, first
  <2> QED BY <2>3, <2>4
<1>17. TypeOK'
  <2>1. Junk \in Block /\ <<>> \in Seq(Byte) /\ Unused \in Entry
    BY UnusedIsEntry DEF Junk, Block, Byte
  <2>2. dir' \in [Slots -> Entry] /\ content' \in [Files -> Seq(Byte)]
    BY <1>4, <1>5, <2>1
  <2>3. blocks' \in [Clusters -> Block]
    <3>1. DOMAIN blocks = Clusters /\ \A c \in Clusters : blocks[c] \in Block
      BY <1>4
    <3> QED BY <1>5, <2>1, <3>1
  <2> QED BY <1>4, <1>5, <2>2, <2>3 DEF TypeOK, Clusters
<1>18. Sound'
  BY <1>4, <1>5, <1>8, <1>10, <1>13, <1>17 DEF Sound
<1> QED BY <1>3, <1>5, <1>6, <1>7, <1>9, <1>11, <1>12, <1>15, <1>18 DEF first

-----------------------------------------------------------------------------
(* What is stored and what is read.                                        *)
\* what the entry e stores, on the chains ch and in the blocks bl
Kept(e, ch, bl) ==
  [k \in 1 .. e.size |-> bl[ch[e.first][(k - 1) \div B + 1]][((k - 1) % B) + 1]]

\* the buffer of a file that is read is what follows in the file, up to the
\* file's end or the end of a block
ReadsBytes(f, d, co) ==
  /\ HasEntry(f, d)
  /\ f.expect = co[f.DEptr.name] /\ f.size = Len(f.expect)
  /\ f.done = f.filePosition /\ f.relativeFileBlockPs = f.filePosition \div B
  /\ f.index <= f.buflen
  /\ \/ f.filePosition + (f.buflen - f.index) = f.size
     \/ \E q \in Nat : f.filePosition + (f.buflen - f.index) = q * B
  /\ \A k \in 1 .. f.buflen - f.index :
       f.buf[f.index + k] = f.expect[f.filePosition + k]

\* the chain of a file that is written has its bytes, and the buffer those of
\* the last block
WritesBytes(f, d, ch, bl) ==
  /\ \A s \in Used(d) : d[s].name # f.DEptr.name
  /\ f.newFile = 0 => f.expect = <<>>
  /\ f.newFile = 1 =>
       /\ f.isBufferDirty = 1 /\ f.filePosition = f.size
       /\ Keeps(ch, bl, f.DEptr.first, f.size, f.expect)
       /\ \E q \in Nat : Ends(f.buflen, q, f.expect) /\ Fits(f.buf, q, f.expect)

EntriesKept == \A s \in Used(dir) : Stored(dir[s]) = content[dir[s].name]

NamesOnce == \A s, t \in Used(dir) : dir[s].name = dir[t].name => s = t

-----------------------------------------------------------------------------
(* b_open of a file that exists: its descriptor is in order, and reads     *)
(* what the entry stores.                                                  *)
LEMMA ExistingFits ==
  ASSUME Sound, NEW n \in Files, NEW m \in {"read", "write", "append"}, OpenExisting(n, m),
         NEW s, s = Least(SlotsOf(n)), NEW fd, fd = b_getFCB
  PROVE  /\ fd \in Fds /\ fcbArray[fd] = NULL /\ s \in Used(dir) /\ dir[s].name = n
         /\ Sound' /\ OpenFds' = OpenFds \cup {fd}
         /\ \A fe \in Fds \ {fd} : fcbArray'[fe] = fcbArray[fe]
         /\ fcbArray'[fd] = NewFcb(m, dir[s], s, OpenAt(dir[s], m),
                                   IF m = "append" THEN 0 ELSE 1, 1,
                                   IF m = "write" THEN <<>> ELSE content[n])
         /\ fcbArray'[fd] \in Fcb /\ Good(fcbArray'[fd], dir', chain')
         /\ UNCHANGED <<alloced, blocks, dir, content>> /\ given' = NoRead
<1> DEFINE pos == OpenAt(dir[s], m)
           dirty == IF m = "append" THEN 0 ELSE 1
           old == IF m = "write" THEN <<>> ELSE content[n]
           g == NewFcb(m, dir[s], s, pos, dirty, 1, old)
<1>1. /\ dir \in [Slots -> Entry] /\ content \in [Files -> Seq(Byte)]
      /\ blocks \in [Clusters -> Block] /\ stray = FALSE
      /\ Tidy(dir, chain) /\ NoName \notin Files
  BY FileAssumption DEF Sound, TypeOK, Clusters
<1>2. Junk \in Block /\ <<>> \in Seq(Byte)
  BY DEF Junk, Block, Byte
<1>3. /\ fd \in {b_getFCB} \ {-1} /\ Exists(n) /\ fcbArray' = [fcbArray EXCEPT ![fd] = g]
      /\ UNCHANGED <<alloced, blocks, dir, stray, content>> /\ given' = NoRead
  BY DEF OpenExisting
<1>4. fd \in Fds /\ fcbArray[fd] = NULL
  BY <1>3, DescriptorIsThere
<1>5. s \in Slots /\ dir[s].name = n
  BY <1>3, SlotIsThere DEF Exists
<1>6. s \in Used(dir) /\ Holds(chain, dir[s].first, dir[s].size)
  <2>1. s \in Used(dir)
    BY <1>1, <1>5, UnusedIsEntry DEF Used
  <2> QED BY <1>1, <2>1 DEF Tidy
<1>7. dir[s] \in Entry /\ dir[s].size \in Nat /\ dir[s].size \in 0 .. MaxSize
  BY <1>1, <1>5, MaxIsNat DEF Entry
<1>8. /\ pos \in Nat /\ pos <= dir[s].size /\ dirty \in {0, 1} /\ old \in Seq(Byte)
      /\ m = "read" => dirty = 1
  BY <1>1, <1>2, <1>7 DEF OpenAt
<1>9. pos \div B \in Nat /\ pos \div B <= dir[s].size \div B
  BY <1>7, <1>8, BlocksForIsNat, BlocksForGrows
<1> HIDE DEF pos, dirty, old
<1>10. g \in Fcb
  BY <1>1, <1>2, <1>5, <1>7, <1>8, <1>9, BlockIsNat DEF NewFcb, Fcb
<1>11. Good(g, dir, chain)
  <2>1. /\ g.parentDir = dir /\ g.DEptr = dir[s] /\ g.newFile = 1 /\ g.indexDE = s
        /\ g.size = dir[s].size /\ g.filePosition = pos /\ g.buflen = 0 /\ g.index = 0
        /\ g.relativeFileBlockPs = pos \div B /\ g.isBufferDirty = dirty /\ g.mode = m
    BY DEF NewFcb
  <2> HIDE DEF g
  <2>2. OnItsChain(g, dir, chain)
    BY <1>6, <1>7, <1>8, <1>9, <2>1 DEF OnItsChain, HasEntry, Used
  <2>3. m = "read" => ReadsInFile(g)
    BY <1>7, <1>8, <2>1 DEF ReadsInFile
  <2> QED BY <1>5, <2>1, <2>2, <2>3 DEF Good
<1> HIDE DEF g
<1>12. /\ Sound' /\ OpenFds' = OpenFds \cup {fd} /\ fcbArray'[fd] = g
       /\ \A fe \in Fds \ {fd} : fcbArray'[fe] = fcbArray[fe]
  <2>1. stray' = FALSE /\ blocks' \in [Clusters -> Block]
    BY <1>1, <1>3
  <2> QED BY <1>3, <1>4, <1>10, <2>1, FcbIsSet
<1>13. dir' = dir /\ chain' = chain
  BY <1>3 DEF alloced
<1> QED BY <1>3, <1>4, <1>5, <1>6, <1>10, <1>11, <1>12, <1>13 DEF g, pos, dirty, old

(* b_open of a file that does not exist yet.                               *)
LEMMA NewFits ==
  ASSUME Sound, NEW n \in Files, OpenNew(n), NEW fd, fd = b_getFCB
  PROVE  /\ fd \in Fds /\ fcbArray[fd] = NULL /\ ~Exists(n)
         /\ Sound' /\ OpenFds' = OpenFds \cup {fd}
         /\ \A fe \in Fds \ {fd} : fcbArray'[fe] = fcbArray[fe]
         /\ fcbArray'[fd] \in Fcb /\ Good(fcbArray'[fd], dir', chain')
         /\ fcbArray'[fd].newFile = 0 /\ fcbArray'[fd].mode = "write"
         /\ fcbArray'[fd].DEptr.name = n /\ fcbArray'[fd].expect = <<>>
         /\ WritesBytes(fcbArray'[fd], dir', chain', blocks')
         /\ UNCHANGED <<alloced, blocks, dir, content>> /\ given' = NoRead
<1> DEFINE s == Least(SlotsOf(NoName))
           new == [Unused EXCEPT !.name = n]
           g == NewFcb("write", new, s, 0, 0, 0, <<>>)
<1>1. /\ dir \in [Slots -> Entry] /\ blocks \in [Clusters -> Block] /\ stray = FALSE
      /\ Tidy(dir, chain) /\ NoName \notin Files
  BY FileAssumption DEF Sound, TypeOK, Clusters
<1>2. Junk \in Block /\ <<>> \in Seq(Byte) /\ 0 \div B = 0
  BY BlockIsNat DEF Junk, Block, Byte
<1>3. /\ fd \in {b_getFCB} \ {-1} /\ ~Exists(n) /\ SlotsOf(NoName) # {}
      /\ fcbArray' = [fcbArray EXCEPT ![fd] = g]
      /\ UNCHANGED <<alloced, blocks, dir, stray, content>> /\ given' = NoRead
  BY DEF OpenNew
<1>4. fd \in Fds /\ fcbArray[fd] = NULL
  BY <1>3, DescriptorIsThere
<1>5. s \in Slots /\ dir[s].name = NoName
  BY <1>3, SlotIsThere
<1>6. dir[s] = Unused
  BY <1>1, <1>5 DEF Tidy, Used
<1>7. new \in Entry /\ new.name = n /\ new.size = 0
  BY MaxIsNat DEF Unused, Entry, EOF_FLAG
<1> HIDE DEF s, new
<1>8. g \in Fcb
  BY <1>1, <1>2, <1>5, <1>7, BlockIsNat, MaxIsNat DEF NewFcb, Fcb
<1>9. /\ g.parentDir = dir /\ g.DEptr.name = n /\ g.newFile = 0 /\ g.indexDE = s
      /\ g.size = 0 /\ g.filePosition = 0 /\ g.buflen = 0 /\ g.mode = "write"
      /\ g.expect = <<>>
  BY <1>7 DEF NewFcb
<1> HIDE DEF g
<1>10. Good(g, dir, chain)
  BY <1>6, <1>9 DEF Good, Fresh
<1>11. WritesBytes(g, dir, chain, blocks)
  <2>1. \A t \in Used(dir) : dir[t].name # n
    BY <1>3 DEF Exists, SlotsOf, Used
  <2> QED BY <1>9, <2>1 DEF WritesBytes
<1>12. /\ Sound' /\ OpenFds' = OpenFds \cup {fd} /\ fcbArray'[fd] = g
       /\ \A fe \in Fds \ {fd} : fcbArray'[fe] = fcbArray[fe]
  <2>1. stray' = FALSE /\ blocks' \in [Clusters -> Block]
    BY <1>1, <1>3
  <2> QED BY <1>3, <1>4, <1>8, <2>1, FcbIsSet
<1>13. dir' = dir /\ chain' = chain /\ blocks' = blocks
  BY <1>3 DEF alloced
<1> QED BY <1>3, <1>4, <1>8, <1>9, <1>10, <1>11, <1>12, <1>13

(* b_open that fails leaves a closed descriptor.                           *)
LEMMA FailsFits ==
  ASSUME Sound, NEW n, NEW m, OpenFails(n, m), NEW fd, fd = b_getFCB
  PROVE  /\ fd \in Fds /\ fcbArray[fd] = NULL /\ ~Exists(n)
         /\ Sound' /\ OpenFds' = OpenFds /\ fcbArray'[fd] = CLOSED
         /\ \A fe \in Fds \ {fd} : fcbArray'[fe] = fcbArray[fe]
         /\ UNCHANGED <<alloced, blocks, dir, content>> /\ given' = NoRead
<1>1. /\ fd \in {b_getFCB} \ {-1} /\ ~Exists(n)
      /\ fcbArray' = [fcbArray EXCEPT ![fd] = CLOSED]
      /\ UNCHANGED <<alloced, blocks, dir, stray, content>> /\ given' = NoRead
  BY DEF OpenFails
<1>2. fd \in Fds /\ fcbArray[fd] = NULL
  BY <1>1, DescriptorIsThere
<1>3. fcbArray \in [Fds -> Fcb \cup {NULL, CLOSED}]
  BY DEF Sound, TypeOK
<1>4. /\ fcbArray' \in [Fds -> Fcb \cup {NULL, CLOSED}]
      /\ OpenFds' = OpenFds \ {fd} /\ fcbArray'[fd] = CLOSED
      /\ \A fe \in Fds \ {fd} : fcbArray'[fe] = fcbArray[fe]
  BY <1>1, <1>2, <1>3, NowClosed
<1>5. fd \notin OpenFds
  BY <1>2 DEF OpenFds, IsOpen
<1>6. free' = free /\ chain' = chain /\ dir' = dir /\ content' = content
      /\ blocks' = blocks /\ stray' = stray
  BY <1>1 DEF alloced
<1>7. TypeOK'
  BY <1>4, <1>6 DEF Sound, TypeOK
<1>8. Sound'
  BY <1>6, <1>7 DEF Sound
<1> QED BY <1>1, <1>2, <1>4, <1>5, <1>8

-----------------------------------------------------------------------------
(* What is stored on a chain that stays, in clusters that stay, stays.     *)
LEMMA StoredStays ==
  ASSUME Sound, NEW s \in Used(dir), dir'[s] = dir[s], chain'[dir[s].first] = chain[dir[s].first],
         \A c \in Range(chain[dir[s].first]) : blocks'[c] = blocks[c]
  PROVE  Stored(dir[s])' = Stored(dir[s])
<1> DEFINE e == dir[s]
           ch == chain[e.first]
<1>1. Holds(chain, e.first, e.size) /\ e.size \in Nat
  <2>1. dir[s] \in Entry
    BY DEF Used, Sound, TypeOK
  <2> QED BY <2>1, MaxIsNat DEF Sound, Tidy, Entry
<1>2. ch \in Seq(Clusters) /\ Len(ch) \in Nat
  <2>1. e.first \in DOMAIN chain /\ e.first # Root /\ Apart(free, chain)
    BY <1>1 DEF Holds, Sound
  <2> QED BY <2>1, ChainIsSeq
<1>3. ASSUME NEW k \in 1 .. e.size
      PROVE  blocks'[ch[(k - 1) \div B + 1]] = blocks[ch[(k - 1) \div B + 1]]
  <2>1. k - 1 \in Nat /\ k - 1 <= e.size
    BY <1>1
  <2>2. (k - 1) \div B \in Nat /\ (k - 1) \div B <= e.size \div B /\ e.size \div B \in Nat
    BY <1>1, <2>1, BlocksForGrows, BlocksForIsNat
  <2>3. (k - 1) \div B + 1 \in DOMAIN ch
    BY <1>1, <1>2, <2>2 DEF Holds, BlocksFor
  <2> QED BY <2>3 DEF Range
<1> QED BY <1>3 DEF Stored

(* The chain of a file that is not being written is another one.           *)
LEMMA OtherChain ==
  ASSUME Tidy(dir, chain), NEW f \in Fcb, OnItsChain(f, dir, chain),
         NEW s \in Used(dir), dir[s].name # f.DEptr.name
  PROVE  /\ dir[s].first \in DOMAIN chain /\ dir[s].first # Root
         /\ dir[s].first # f.DEptr.first
<1>1. f.indexDE \in Slots
  BY DEF Fcb
<1>4. dir[s].first \in DOMAIN chain /\ dir[s].first # Root
  BY DEF Tidy, Holds
<1>5. dir[s].first # f.DEptr.first
  <2>1. CASE HasEntry(f, dir)
    <3>1. f.indexDE \in Used(dir) /\ f.indexDE # s
      BY <1>1, <2>1 DEF HasEntry, Used
    <3> QED BY <2>1, <3>1 DEF HasEntry, Tidy
  <2>2. CASE NoEntryYet(f, dir)
    BY <2>2 DEF NoEntryYet
  <2> QED BY <2>1, <2>2 DEF OnItsChain
<1> QED BY <1>4, <1>5

(* A b_write leaves the bytes of all other files as they are               *)
(* (b_io.c:946-969).                                                       *)
LEMMA WroteSpares ==
  ASSUME Sound, NEW fd \in Fds, NEW f \in Fcb, f = fcbArray[fd], Good(f, dir, chain),
         NEW bytes, Len(bytes) \in Nat,
         NEW p, NEW h, NEW puts, NEW g, WroteAs(fd, bytes, p, h, puts, g),
         NEW s \in Used(dir), dir[s].name # f.DEptr.name
  PROVE  Stored(dir[s])' = Stored(dir[s])
<1> DEFINE count == Len(bytes)
           n == (f.size + count) \div B
<1>1. /\ dir[s].first \in DOMAIN chain /\ dir[s].first # Root
      /\ Apart(free, chain) /\ blocks \in [Clusters -> Block] /\ Tidy(dir, chain)
  BY DEF Sound, TypeOK, Tidy, Holds, Clusters
<1>2. /\ chain' = p.chain /\ blocks' = PutBlocks(blocks, p.chain, h, puts)
      /\ Apart(p.free, p.chain) /\ h \in DOMAIN p.chain /\ h # Root
      /\ DOMAIN p.chain = DOMAIN chain \cup {h}
      /\ \A c \in DOMAIN chain \ {h} : p.chain[c] = chain[c]
      /\ puts \in Seq(Puts(n)) /\ dir'[s] = dir[s]
  BY DEF WroteAs, Wrote, Grown, Holds
<1>3. dir[s].first # h
  <2>1. (f.newFile = 1 /\ h = f.DEptr.first) \/ h \in Clusters \ DOMAIN chain
    BY DEF WroteAs
  <2>2. f.newFile = 1 => OnItsChain(f, dir, chain)
    BY DEF Good
  <2> QED BY <1>1, <2>1, <2>2, OtherChain
<1>4. n \in Nat
  <2>1. f.size + count \in Nat
    <3>1. f.size \in 0 .. MaxSize
      BY DEF Fcb
    <3> QED BY <3>1, MaxIsNat
  <2> QED BY <2>1, BlocksForIsNat
<1>5. PutsOf(puts)
  <2> HIDE DEF n
  <2> QED BY <1>2, <1>4, PutsInSeq
<1>6. p.chain[dir[s].first] = chain[dir[s].first] /\ dir[s].first \in DOMAIN p.chain
  BY <1>1, <1>2, <1>3
<1>7. \A c \in Range(p.chain[dir[s].first]) : blocks'[c] = blocks[c]
  <2> DEFINE ch == p.chain
             k == dir[s].first
             fr == p.free
  <2>1. /\ Apart(fr, ch) /\ h \in DOMAIN ch /\ h # Root
        /\ k \in DOMAIN ch /\ k # Root /\ k # h
        /\ blocks' = PutBlocks(blocks, ch, h, puts)
    BY <1>1, <1>2, <1>3, <1>6
  <2> HIDE DEF ch, k, fr
  <2>2. \A c \in Range(ch[k]) : PutBlocks(blocks, ch, h, puts)[c] = blocks[c]
    BY <1>1, <1>5, <2>1, PutsSpareOthers
  <2> QED BY <2>1, <2>2 DEF ch, k
<1> QED BY <1>2, <1>6, <1>7, StoredStays

(* fs_delete leaves the bytes of all other files as they are.              *)
LEMMA DeleteSpares ==
  ASSUME Sound, NEW n \in Files, fs_delete(n), NEW s \in Used(dir), s # Least(SlotsOf(n))
  PROVE  Stored(dir[s])' = Stored(dir[s])
<1> DEFINE t == Least(SlotsOf(n))
           first == dir[t].first
<1>1. /\ dir[s].first \in DOMAIN chain /\ dir[s].first # Root
      /\ Apart(free, chain) /\ blocks \in [Clusters -> Block]
  BY DEF Sound, TypeOK, Tidy, Holds, Clusters
<1>2. t = Least(SlotsOf(n))
  OBVIOUS
<1> HIDE DEF t
<1>3. /\ first \in DOMAIN chain /\ first # Root /\ dir[s].first # first
      /\ dir'[s] = dir[s] /\ chain'[dir[s].first] = chain[dir[s].first]
      /\ blocks' = [c \in DOMAIN blocks |->
                      IF Contains(chain[first], c) THEN Junk ELSE blocks[c]]
  <2>1. s \in Slots
    BY DEF Used
  <2>2. /\ t \in Used(dir) /\ \A u \in Slots \ {t} : dir'[u] = dir[u]
        /\ first \in DOMAIN chain /\ first # Root
        /\ \A u \in Used(dir) \ {t} : dir[u].first # first
    BY <1>2, DeleteFits
  <2>3. s # t
    BY <1>2
  <2>4. /\ chain' = Store!Without(chain, first)
        /\ blocks' = [c \in DOMAIN blocks |->
                       IF Contains(chain[first], c) THEN Junk ELSE blocks[c]]
    BY <1>2 DEF fs_delete, Release
  <2> HIDE DEF first
  <2> QED BY <1>1, <2>1, <2>2, <2>3, <2>4 DEF Store!Without, Store!Restrict
<1> HIDE DEF first
<1>4. ASSUME NEW c \in Range(chain[dir[s].first]) PROVE blocks'[c] = blocks[c]
  <2>1. /\ chain[first] \in Seq(Clusters) /\ chain[dir[s].first] \in Seq(Clusters)
        /\ Range(chain[dir[s].first]) \cap Range(chain[first]) = {}
    BY <1>1, <1>3 DEF Apart
  <2>2. c \in Clusters
    BY <2>1 DEF Range
  <2>3. ~Contains(chain[first], c)
    <3>1. c \notin Range(chain[first])
      BY <2>1
    <3>2. DOMAIN chain[first] = 1 .. Len(chain[first])
      BY <2>1
    <3> QED BY <3>1, <3>2 DEF Contains, Range
  <2> QED BY <1>1, <1>3, <2>2, <2>3
<1> QED BY <1>3, <1>4, StoredStays

-----------------------------------------------------------------------------
(* The block of a byte and its place there.                                *)
LEMMA ByteIs ==
  ASSUME NEW r \in Nat, NEW i \in Nat, i < B
  PROVE  (r * B + i) \div B = r /\ (r * B + i) % B = i
<1> DEFINE x == r * B + i
           rb == r * B
<1>1. B \in Nat \ {0, 1} /\ rb \in Nat /\ x \in Nat /\ x = rb + i
  BY BlockIsNat, TimesGrows
<1>2. x \div B = r
  BY <1>1
<1> HIDE DEF x
<1>3. x % B \in Nat /\ x = (x \div B) * B + (x % B)
  BY <1>1, Split
<1>4. x = rb + (x % B)
  BY <1>2, <1>3
<1> HIDE DEF rb
<1>5. x % B = i
  BY <1>1, <1>3, <1>4
<1> QED BY <1>2, <1>5 DEF x

(* Byte by byte and block by block are the same.                           *)
LEMMA KeptIsKept ==
  ASSUME NEW e, e.size \in Nat, NEW ch, NEW bl, NEW data \in Seq(Byte)
  PROVE  Kept(e, ch, bl) = data <=> Keeps(ch, bl, e.first, e.size, data)
<1> DEFINE n == e.size
           c == ch[e.first]
           kept == Kept(e, ch, bl)
<1>1. /\ DOMAIN kept = 1 .. n
      /\ \A k \in 1 .. n : kept[k] = bl[c[(k - 1) \div B + 1]][((k - 1) % B) + 1]
      /\ n \in Nat /\ B \in Nat \ {0, 1}
      /\ kept = [k \in 1 .. n |-> kept[k]]
  BY BlockIsNat DEF Kept
<1>2. /\ DOMAIN data = 1 .. Len(data) /\ Len(data) \in Nat
      /\ data = [k \in 1 .. Len(data) |-> data[k]]
  OBVIOUS
<1> HIDE DEF n, c, kept
<1>3. ASSUME kept = data PROVE Keeps(ch, bl, e.first, n, data)
  <2>1. n = Len(data)
    <3>1. 1 .. n = 1 .. Len(data)
      BY <1>1, <1>2, <1>3
    <3> QED BY <1>1, <1>2, <3>1
  <2>2. ASSUME NEW r \in Nat, r * B < n, NEW j \in 1 .. B, r * B + j <= Len(data)
        PROVE  bl[c[r + 1]][j] = data[r * B + j]
    <3> DEFINE x == r * B + j
               rb == r * B
    <3>1. rb \in Nat
      BY <1>1, TimesGrows
    <3>2. x \in 1 .. n /\ x - 1 = rb + (j - 1) /\ j - 1 \in Nat /\ j - 1 < B
      <4> HIDE DEF rb
      <4>1. /\ x = rb + j /\ x <= n /\ n \in Nat /\ rb \in Nat /\ B \in Nat
            /\ j \in Nat /\ 1 <= j /\ j <= B
        BY <1>1, <2>1, <2>2, <3>1 DEF rb
      <4> HIDE DEF rb, x
      <4> QED BY <4>1
    <3>3. (r * B + (j - 1)) \div B = r /\ (r * B + (j - 1)) % B = j - 1
      <4> DEFINE i == j - 1
      <4>1. i \in Nat /\ i < B
        BY <3>2
      <4> HIDE DEF i
      <4>2. (r * B + i) \div B = r /\ (r * B + i) % B = i
        BY <4>1, ByteIs
      <4> QED BY <4>2 DEF i
    <3>4. (x - 1) \div B = r /\ ((x - 1) % B) + 1 = j
      <4> HIDE DEF x
      <4> QED BY <1>1, <3>2, <3>3
    <3> HIDE DEF x
    <3>5. kept[x] = bl[c[r + 1]][j]
      BY <1>1, <3>2, <3>4
    <3> QED BY <1>3, <3>5 DEF x
  <2> QED BY <2>1, <2>2 DEF Keeps, Fits, c
<1>4. ASSUME Keeps(ch, bl, e.first, n, data) PROVE kept = data
  <2>1. n = Len(data)
    BY <1>4 DEF Keeps
  <2>2. ASSUME NEW k \in 1 .. n PROVE kept[k] = data[k]
    <3> DEFINE x == k - 1
               q == x \div B
               t == x % B
    <3>1. x \in Nat /\ x < n
      BY <1>1
    <3>2. q \in Nat /\ t \in Nat /\ t < B /\ x = q * B + t
      <4> HIDE DEF x
      <4> QED BY <3>1, Split
    <3>3. kept[k] = bl[c[q + 1]][t + 1]
      BY <1>1
    <3> HIDE DEF q, t
    <3> DEFINE qb == q * B
    <3>4. qb \in Nat
      BY <1>1, <3>2, TimesGrows
    <3>9. x = qb + t
      BY <3>2
    <3>10. n \in Nat /\ B \in Nat /\ x \in Nat /\ x < n /\ t \in Nat /\ t < B
      BY <1>1, <3>1, <3>2
    <3> HIDE DEF qb, x
    <3>5. qb < n /\ qb + (t + 1) = x + 1 /\ t + 1 \in 1 .. B /\ qb + (t + 1) <= Len(data)
      BY <2>1, <3>4, <3>9, <3>10
    <3>6. Fits(bl[c[q + 1]], q, data)
      BY <1>4, <3>2, <3>5 DEF Keeps, c, qb
    <3>7. bl[c[q + 1]][t + 1] = data[qb + (t + 1)]
      BY <3>5, <3>6 DEF Fits, qb
    <3>8. x + 1 = k
      BY DEF x
    <3> QED BY <3>3, <3>5, <3>7, <3>8
  <2> QED BY <1>1, <1>2, <2>1, <2>2
<1> QED BY <1>3, <1>4 DEF n, kept

(* What an open file has: its chain, and as many bytes as it counts.       *)
LEMMA FileIsKept ==
  ASSUME Sound, EntriesKept, NamesOnce, NEW f \in Fcb, Good(f, dir, chain), f.newFile = 1,
         IF f.mode = "read" THEN ReadsBytes(f, dir, content)
                            ELSE WritesBytes(f, dir, chain, blocks)
  PROVE  /\ Keeps(chain, blocks, f.DEptr.first, f.size, f.expect)
         /\ f.isBufferDirty = 1 /\ f.expect \in Seq(Byte) /\ f.size \in Nat
         /\ \A s \in Used(dir) \ {f.indexDE} : dir[s].name # f.DEptr.name
         /\ f.mode = "read" => f.expect = content[f.DEptr.name] /\ f.indexDE \in Used(dir)
<1>1. /\ f \in Fcb /\ Good(f, dir, chain) /\ f.expect \in Seq(Byte) /\ f.size \in Nat
      /\ f.indexDE \in Slots
  BY MaxIsNat DEF Fcb
<1>2. CASE f.mode = "read"
  <2> DEFINE e == dir[f.indexDE]
  <2>1. ReadsBytes(f, dir, content) /\ ReadsInFile(f)
    BY <1>1, <1>2 DEF Good
  <2>2. /\ f.indexDE \in Used(dir) /\ e.name = f.DEptr.name /\ e.first = f.DEptr.first
        /\ f.expect = content[e.name] /\ f.size = Len(f.expect)
    BY <1>1, <2>1 DEF ReadsBytes, HasEntry, Used
  <2>3. Stored(e) = f.expect /\ e.size \in Nat
    <3>1. e \in Entry
      BY SMTT(30), <1>1 DEF Sound, TypeOK
    <3> QED BY <2>2, <3>1, MaxIsNat DEF EntriesKept, Entry
  <2>4. Kept(e, chain, blocks) = f.expect
    BY Zenon, <2>3 DEF Stored, Kept
  <2> HIDE DEF e
  <2>5. Keeps(chain, blocks, e.first, e.size, f.expect)
    BY <1>1, <2>3, <2>4, KeptIsKept
  <2>6. e.size = Len(f.expect)
    BY <2>5 DEF Keeps
  <2>7. Keeps(chain, blocks, f.DEptr.first, f.size, f.expect)
    BY <2>2, <2>5, <2>6
  <2>8. \A s \in Used(dir) \ {f.indexDE} : dir[s].name # f.DEptr.name
    BY <2>2 DEF NamesOnce, e
  <2> QED BY <1>1, <2>1, <2>2, <2>7, <2>8 DEF ReadsInFile, e
<1>3. CASE f.mode # "read"
  BY SMTT(30), <1>1, <1>3 DEF WritesBytes
<1> QED BY <1>2, <1>3

(* A descriptor that was just opened to read is at the file's beginning.   *)
LEMMA OpenReads ==
  ASSUME Sound, EntriesKept, NEW s \in Used(dir), NEW n, n = dir[s].name,
         NEW g, g = NewFcb("read", dir[s], s, OpenAt(dir[s], "read"), 1, 1, content[n])
  PROVE  ReadsBytes(g, dir, content) /\ g.filePosition = 0
<1> DEFINE old == content[n]
<1>1. /\ s \in Slots /\ dir \in [Slots -> Entry] /\ content \in [Files -> Seq(Byte)]
      /\ dir[s].name \in Files
  BY DEF Sound, TypeOK, Used, Tidy
<1>2. B \in Nat \ {0, 1} /\ 0 \div B = 0
  BY BlockIsNat
<1>3. dir[s].size \in Nat
  <2>1. dir[s] \in Entry
    BY <1>1
  <2> QED BY <2>1, MaxIsNat DEF Entry
<1>4. Len(old) = dir[s].size
  <2>1. Kept(dir[s], chain, blocks) = old /\ old \in Seq(Byte)
    BY <1>1 DEF EntriesKept, Stored, Kept
  <2> HIDE DEF old
  <2>2. Keeps(chain, blocks, dir[s].first, dir[s].size, old)
    BY <1>3, <2>1, KeptIsKept
  <2> QED BY <2>2 DEF Keeps
<1> HIDE DEF old
<1>5. /\ g.DEptr = dir[s] /\ g.indexDE = s /\ g.mode = "read" /\ g.expect = old
      /\ g.size = dir[s].size /\ g.filePosition = 0 /\ g.done = 0 /\ g.buflen = 0
      /\ g.index = 0 /\ g.relativeFileBlockPs = 0
  BY <1>2 DEF NewFcb, OpenAt, old
<1>6. HasEntry(g, dir)
  BY <1>3, <1>5 DEF HasEntry, Used
<1>7. 0 * B = 0
  BY <1>2
<1>8. /\ g.done = g.filePosition /\ g.index <= g.buflen /\ g.buflen - g.index = 0
      /\ g.filePosition + (g.buflen - g.index) = 0
  BY <1>5
<1>9. g.relativeFileBlockPs = g.filePosition \div B
  BY <1>2, <1>5
<1>10. 1 .. 0 = {} /\ 0 \in Nat
  OBVIOUS
<1>11. g.expect = content[g.DEptr.name] /\ g.size = Len(g.expect)
  BY <1>4, <1>5 DEF old
<1> QED BY ZenonT(30), <1>5, <1>6, <1>7, <1>8, <1>9, <1>10, <1>11 DEF ReadsBytes

(* Entries that stay, and stay stored, are kept.                           *)
LEMMA StayKept ==
  ASSUME EntriesKept, NamesOnce, UNCHANGED <<dir, content>>,
         \A s \in Used(dir) : Stored(dir[s])' = Stored(dir[s])
  PROVE  EntriesKept' /\ NamesOnce'
<1>1. EntriesKept'
  <2>1. \A s \in Used(dir) : Stored(dir[s])' = content[dir[s].name]
    BY DEF EntriesKept
  <2> QED BY <2>1 DEF EntriesKept, Used
<1>2. NamesOnce'
  BY DEF NamesOnce, Used
<1> QED BY <1>1, <1>2

(* b_close keeps what the file was handed under its name.                  *)
LEMMA CloseKept ==
  ASSUME Sound, EntriesKept, NamesOnce, NEW fd \in Fds, NEW f, f = fcbArray[fd], f \in Fcb,
         Good(f, dir, chain), f.newFile = 1, b_close(fd),
         Keeps(chain, blocks, f.DEptr.first, f.size, f.expect), f.isBufferDirty = 1,
         \A s \in Used(dir) \ {f.indexDE} : dir[s].name # f.DEptr.name
  PROVE  /\ EntriesKept' /\ NamesOnce' /\ blocks' = blocks
         /\ Stored(dir[f.indexDE])' = f.expect
         /\ \A s \in Used(dir) \ {f.indexDE} : Stored(dir[s])' = Stored(dir[s])
<1> DEFINE i == f.indexDE
           e == [f.DEptr EXCEPT !.size = f.size]
<1>1. /\ dir'[i] = e /\ (\A s \in Slots \ {i} : dir'[s] = dir[s])
      /\ i \in Slots /\ f.DEptr.name \in Files
      /\ content' = [content EXCEPT ![f.DEptr.name] = f.expect]
      /\ UNCHANGED alloced /\ blocks' = blocks
  BY CloseFits
<1>2. /\ content \in [Files -> Seq(Byte)] /\ f.expect \in Seq(Byte) /\ f.size \in Nat
      /\ f.DEptr \in Entry /\ \A s \in Used(dir) : dir[s].name \in Files
  BY MaxIsNat DEF Sound, TypeOK, Tidy, Fcb
<1>3. e.name = f.DEptr.name /\ e.first = f.DEptr.first /\ e.size = f.size
  BY <1>2 DEF Entry
<1> HIDE DEF e, i
<1>4. /\ content'[e.name] = f.expect
      /\ \A n \in Files \ {e.name} : content'[n] = content[n]
  BY <1>1, <1>2, <1>3
<1>5. \A s \in Used(dir') \ {i} : /\ s \in Used(dir) /\ dir'[s] = dir[s]
                                   /\ dir[s].name \in Files \ {e.name}
  BY <1>1, <1>2, <1>3 DEF Used, i
<1>6. NamesOnce'
  BY <1>1, <1>5 DEF NamesOnce
<1>7. Kept(e, chain, blocks) = f.expect
  <2>1. Keeps(chain, blocks, e.first, e.size, f.expect)
    BY <1>3
  <2> QED BY <1>2, <1>3, <2>1, KeptIsKept
<1>8. chain' = chain
  BY <1>1 DEF alloced
<1>9. Stored(dir[i])' = f.expect
  <2>1. Stored(dir[i])' = Kept(e, chain, blocks)
    BY <1>1, <1>8 DEF Stored, Kept
  <2> QED BY <1>7, <2>1
<1>10. \A s \in Used(dir) \ {i} : Stored(dir[s])' = Stored(dir[s])
  BY <1>1, <1>8 DEF Stored, Used
<1>11. EntriesKept'
  <2> SUFFICES ASSUME NEW s \in Used(dir') PROVE Stored(dir[s])' = content'[dir'[s].name]
    BY DEF EntriesKept
  <2>1. CASE s = i
    BY <1>1, <1>4, <1>9, <2>1
  <2>2. CASE s # i
    BY <1>4, <1>5, <1>10, <2>2 DEF EntriesKept
  <2> QED BY <2>1, <2>2
<1> QED BY <1>1, <1>6, <1>9, <1>10, <1>11 DEF i

(* fs_delete keeps the others.                                             *)
LEMMA DeleteKept ==
  ASSUME Sound, EntriesKept, NamesOnce, NEW n \in Files, fs_delete(n)
  PROVE  EntriesKept' /\ NamesOnce'
<1> DEFINE t == Least(SlotsOf(n))
<1>1. t = Least(SlotsOf(n))
  OBVIOUS
<1> HIDE DEF t
<1>2. /\ t \in Used(dir) /\ dir[t].name = n /\ dir'[t] = Unused
      /\ (\A s \in Slots \ {t} : dir'[s] = dir[s])
      /\ content' = [content EXCEPT ![n] = <<>>]
  BY <1>1, DeleteFits
<1>3. \A s \in Used(dir) \ {t} : Stored(dir[s])' = Stored(dir[s])
  BY <1>1, DeleteSpares
<1>4. \A s \in Used(dir') : /\ s \in Used(dir) /\ dir'[s] = dir[s] /\ s # t
                            /\ dir[s].name \in Files
  <2>1. \A s \in Used(dir) : dir[s].name \in Files
    BY DEF Sound, Tidy
  <2> QED BY <1>2, <2>1 DEF Used
<1>5. \A s \in Used(dir') : content'[dir'[s].name] = content[dir[s].name]
  <2>1. content \in [Files -> Seq(Byte)]
    BY DEF Sound, TypeOK
  <2> QED BY <1>2, <1>4, <2>1 DEF NamesOnce
<1>6. EntriesKept'
  BY <1>3, <1>4, <1>5 DEF EntriesKept
<1>7. NamesOnce'
  BY <1>4 DEF NamesOnce
<1> QED BY <1>6, <1>7

-----------------------------------------------------------------------------
(* What the blocks hold of a file is on the longer chain that it moves to. *)
LEMMA KeepsOnGrown ==
  ASSUME NEW p, NEW h, NEW size \in Nat, Grown(p, h, size), Apart(free, chain),
         NEW data, NEW old \in Nat, old <= size,
         Holds(chain, h, old), Keeps(chain, blocks, h, old, data)
  PROVE  Keeps(p.chain, blocks, h, old, data)
<1>1. /\ h \in DOMAIN chain /\ Holds(p.chain, h, size) /\ Apart(p.free, p.chain)
      /\ \A k \in 1 .. Len(chain[h]) : k <= Len(p.chain[h]) => p.chain[h][k] = chain[h][k]
  BY DEF Holds, Grown
<1>2. Len(chain[h]) \in Nat /\ Len(p.chain[h]) \in Nat
  BY <1>1, ChainIsSeq DEF Holds
<1>3. SUFFICES ASSUME NEW r \in Nat, r * B < old
               PROVE  p.chain[h][r + 1] = chain[h][r + 1]
  BY DEF Keeps
<1>4. /\ r <= old \div B /\ BlocksFor(old) = old \div B + 1 /\ old \div B \in Nat
      /\ BlocksFor(old) <= BlocksFor(size) /\ BlocksFor(size) \in Nat
  BY <1>3, BlockWithin, BlocksForIsNat, BlocksForGrows
<1>5. r + 1 \in 1 .. Len(chain[h]) /\ r + 1 <= Len(p.chain[h])
  <2>1. BlocksFor(old) <= Len(chain[h]) /\ BlocksFor(size) <= Len(p.chain[h])
    BY <1>1 DEF Holds
  <2> QED BY <1>2, <1>4, <2>1
<1> QED BY <1>1, <1>5

(* b_write at the end of a file leaves on disk and in the buffer what it   *)
(* was handed.                                                             *)
LEMMA WroteBytes ==
  ASSUME Sound, NEW fd \in Fds, NEW f \in Fcb, f = fcbArray[fd], Good(f, dir, chain),
         NEW bytes \in Seq(Byte), Len(bytes) # B,
         f.newFile = 0 => Len(bytes) < B, f.newFile = 1 => Len(bytes) + f.buflen # 0,
         WritesBytes(f, dir, chain, blocks),
         NEW p, NEW h, NEW puts, NEW g, WroteAs(fd, bytes, p, h, puts, g),
         Leaves(f, bytes, puts, g)
  PROVE  /\ WritesBytes(fcbArray'[fd], dir', chain', blocks')
         /\ fcbArray'[fd].expect = f.expect \o bytes
         /\ fcbArray'[fd].size = f.size + Len(bytes)
         /\ fcbArray'[fd].buflen = g.buflen
<1> DEFINE count == Len(bytes)
           data == f.expect
           d2 == data \o bytes
<1>1. /\ f.newFile \in {0, 1} /\ fcbArray \in [Fds -> Fcb \cup {NULL, CLOSED}]
      /\ f.newFile = 1 => OnItsChain(f, dir, chain)
  BY DEF Fcb, Sound, TypeOK, Good
<1>2. WroteAs(fd, bytes, p, h, puts, g) /\ Leaves(f, bytes, puts, g)
  OBVIOUS
<1>3. /\ count \in Nat /\ bytes \in Seq(Byte) /\ Len(bytes) = count
      /\ data \in Seq(Byte) /\ f.size \in Nat /\ Len(data) \in Nat
  <2>1. f.size \in Nat /\ data \in Seq(Byte)
    BY MaxIsNat DEF Fcb
  <2> QED BY <2>1
<1>4. WritesBytes(f, dir, chain, blocks)
  OBVIOUS
<1>6. Appends(f, count) /\ f.size = Len(data)
  <2>1. CASE f.newFile = 0
    <3>1. data = <<>> /\ f.size = 0 /\ f.filePosition = 0
      BY <1>1, <1>4, <2>1 DEF WritesBytes, Good, Fresh
    <3> QED BY <2>1, <3>1 DEF Appends
  <2>2. CASE f.newFile = 1
    <3>1. f.size = Len(data) /\ f.filePosition = f.size
          /\ \E q \in Nat : Ends(f.buflen, q, data) /\ Fits(f.buf, q, data)
      BY <1>4, <2>2 DEF WritesBytes, Keeps
    <3> QED BY <2>2, <3>1 DEF Appends
  <2> QED BY <1>1, <2>1, <2>2
<1>7. /\ Grown(p, h, f.size + count) /\ puts \in Seq(Puts((f.size + count) \div B))
      /\ WentOn(f, g, count) /\ Wrote(fd, bytes, p, puts, g)
      /\ f.newFile = 1 => h = f.DEptr.first
  BY <1>2 DEF WroteAs
<1>8. /\ RightAfter(puts, g.buf, g.buflen, data, bytes)
      /\ g.size = Len(data) + Len(bytes) /\ g.filePosition = g.size
      /\ g.isBufferDirty = 1 /\ g.expect = data
  BY <1>2, <1>3, <1>6 DEF Leaves
<1>9. /\ d2 \in Seq(Byte) /\ Len(d2) = g.size /\ g.size = f.size + count /\ g.size \in Nat
      /\ f.size <= g.size
  <2>1. d2 \in Seq(Byte) /\ Len(d2) = Len(data) + Len(bytes)
    BY <1>3, JoinedAt
  <2> HIDE DEF d2, data
  <2> QED BY <1>3, <1>6, <1>8, <2>1
<1>10. /\ p.first = h /\ Apart(p.free, p.chain) /\ Holds(p.chain, h, g.size)
  BY <1>7, <1>9 DEF Grown
<1>11. Keeps(p.chain, blocks, h, Len(data), data)
  <2>1. CASE f.newFile = 0
    <3>1. Len(data) = 0
      BY <1>4, <2>1 DEF WritesBytes
    <3>2. \A r \in Nat : ~(r * B < 0)
      BY BlockIsNat, TimesGrows
    <3> QED BY <3>1, <3>2 DEF Keeps
  <2>2. CASE f.newFile = 1
    <3>1. Keeps(chain, blocks, h, f.size, data) /\ Holds(chain, h, f.size)
      BY <1>1, <1>4, <1>7, <2>2 DEF WritesBytes, Good, OnItsChain
    <3>2. Grown(p, h, g.size) /\ Apart(free, chain)
      BY <1>7, <1>9 DEF Sound
    <3> HIDE DEF data
    <3>3. Keeps(p.chain, blocks, h, f.size, data)
      BY <1>3, <1>9, <3>1, <3>2, KeepsOnGrown
    <3> QED BY <1>6, <3>3
  <2> QED BY <1>1, <2>1, <2>2
<1>12. PutsOf(puts) /\ PutsRight(puts, data, bytes) /\ blocks \in [Clusters -> Block]
  <2>1. (f.size + count) \div B \in Nat
    <3>1. f.size + count \in Nat
      BY <1>3
    <3> QED BY <3>1, BlocksForIsNat
  <2>2. PutsOf(puts)
    BY <1>7, <2>1, PutsInSeq
  <2> QED BY <1>8, <2>2 DEF RightAfter, Sound, TypeOK, Clusters
<1>13. Keeps(p.chain, PutBlocks(blocks, p.chain, h, puts), h, g.size, d2)
  <2> DEFINE ch == p.chain
             fr == p.free
             size == g.size
  <2>1. /\ Apart(fr, ch) /\ Holds(ch, h, size) /\ Keeps(ch, blocks, h, Len(data), data)
        /\ size = Len(data \o bytes)
    BY <1>9, <1>10, <1>11
  <2> HIDE DEF ch, fr, size, data
  <2>2. Keeps(ch, PutBlocks(blocks, ch, h, puts), h, size, data \o bytes)
    BY <1>3, <1>12, <2>1, PutsKeep
  <2> QED BY <2>2 DEF ch, size
<1> DEFINE e == [g EXCEPT !.DEptr.first = p.first, !.done = @ + Len(bytes),
                          !.expect = @ \o bytes]
<1>14. /\ chain' = p.chain /\ blocks' = PutBlocks(blocks, p.chain, h, puts)
       /\ fcbArray' = [fcbArray EXCEPT ![fd] = e] /\ dir' = dir
  BY <1>7, <1>10 DEF Wrote
<1>15. /\ g \in Fcb /\ g.newFile = 1 /\ g.mode # "read" /\ g.DEptr = f.DEptr
  BY <1>7 DEF WentOn
<1>16. /\ e \in Fcb /\ e.mode = g.mode /\ e.newFile = 1 /\ e.isBufferDirty = 1
       /\ e.filePosition = e.size /\ e.size = g.size /\ e.buf = g.buf /\ e.buflen = g.buflen
       /\ e.expect = d2 /\ e.DEptr.first = h /\ e.DEptr.name = f.DEptr.name
  <2>1. h \in Nat
    <3>1. h \in DOMAIN p.chain \ {Root}
      BY <1>10 DEF Holds
    <3> QED BY <1>10, <3>1, HeadIsCluster
  <2>2. g.done + Len(bytes) \in Nat /\ g.DEptr \in Entry
    BY SMTT(30), <1>3, <1>15 DEF Fcb
  <2>3. [g.DEptr EXCEPT !.first = h] \in Entry
    BY <2>1, <2>2 DEF Entry
  <2> HIDE DEF d2
  <2>4. e = [g EXCEPT !.DEptr = [g.DEptr EXCEPT !.first = h], !.done = g.done + Len(bytes),
                      !.expect = d2]
    BY <1>8, <1>10, <1>15 DEF Fcb, d2
  <2> HIDE DEF e, data
  <2>5. /\ [g.DEptr EXCEPT !.first = h].first = h
        /\ [g.DEptr EXCEPT !.first = h].name = f.DEptr.name
    BY <1>15, <2>2 DEF Entry
  <2> QED BY <1>8, <1>9, <1>15, <2>2, <2>3, <2>4, <2>5 DEF Fcb
<1> HIDE DEF e
<1>17. fcbArray'[fd] = e
  BY <1>1, <1>14
<1>18. \E q \in Nat : Ends(e.buflen, q, d2) /\ Fits(e.buf, q, d2)
  BY <1>8, <1>16 DEF RightAfter
<1>19. WritesBytes(e, dir', chain', blocks')
  BY <1>4, <1>13, <1>14, <1>16, <1>18 DEF WritesBytes
<1> QED BY <1>9, <1>16, <1>17, <1>19
-----------------------------------------------------------------------------
(* What b_read gives.                                                      *)
(* A sequence of bytes that are those of another from a place on.          *)
LEMMA CutIs ==
  ASSUME NEW x \in Seq(Byte), NEW s, NEW a \in Nat, PartOf(s, a, x), NEW n \in Nat, n = Len(s)
  PROVE  s = SubSeq(x, a + 1, a + n)
<1>1. /\ s \in Seq(Byte) /\ a \in Nat /\ a + n <= Len(x)
      /\ \A k \in 1 .. n : s[k] = x[a + k]
  BY DEF PartOf
<1>4. n \in Nat /\ Len(x) \in Nat /\ s = [k \in 1 .. n |-> s[k]]
  BY <1>1
<1>2. CASE n = 0
  <2>1. a + n = a /\ s = <<>>
    BY <1>1, <1>2, <1>4
  <2>2. SubSeq(x, a + 1, a) = <<>>
    BY <1>1, EmptyCut
  <2> QED BY <2>1, <2>2
<1>3. CASE n > 0
  <2>1. SubSeq(x, a + 1, a + n) = [k \in 1 .. n |-> x[a + k]]
    <3> DEFINE e == a + n
    <3>1. e \in Nat /\ e = a + n /\ e <= Len(x) /\ n \in Nat /\ Len(x) \in Nat
      BY <1>1, <1>4
    <3> HIDE DEF e
    <3>2. SubSeq(x, a + 1, e) \in Seq(Byte) /\ Len(SubSeq(x, a + 1, e)) = n
      BY <3>1
    <3>3. \A k \in 1 .. n : SubSeq(x, a + 1, e)[k] = x[a + k]
      BY <3>1
    <3> DEFINE cut == SubSeq(x, a + 1, e)
    <3> HIDE DEF cut
    <3>4. cut = [k \in 1 .. n |-> x[a + k]]
      BY <3>2, <3>3 DEF cut
    <3> QED BY <3>4 DEF e, cut
  <2>2. s = [k \in 1 .. n |-> x[a + k]]
    BY <1>1, <1>4
  <2> QED BY <2>1, <2>2
<1> QED BY <1>2, <1>3, <1>4

\* what a b_read of count bytes from the given position of x gives
Gives(bytes, x, from, count) ==
  bytes = SubSeq(x, from + 1, Lesser(from + count, Len(x)))

\* n bytes are as many as were asked for, or as many as there are
AsAsked(n, x, from, count) == from + n = Lesser(from + count, Len(x))

(* Bytes of a file, as many as asked for, are what a read is to give.      *)
LEMMA PartGives ==
  ASSUME NEW x \in Seq(Byte), NEW bytes, NEW from, PartOf(bytes, from, x), NEW count,
         AsAsked(Len(bytes), x, from, count)
  PROVE  Gives(bytes, x, from, count)
<1> DEFINE n == Len(bytes)
<1>1. from \in Nat /\ n \in Nat
  BY DEF PartOf
<1> HIDE DEF n
<1>2. bytes = SubSeq(x, from + 1, from + n)
  BY <1>1, CutIs DEF n
<1> QED BY <1>2 DEF Gives, AsAsked, n

\* a descriptor that a file is read through
Reading(fd, f) ==
  /\ fd \in Fds /\ f = fcbArray[fd] /\ f \in Fcb /\ f.mode = "read"
  /\ Good(f, dir, chain) /\ ReadsBytes(f, dir, content)
  /\ Keeps(chain, blocks, f.DEptr.first, f.size, f.expect)

\* a b_read that gave the bytes that follow in the file, as many as were
\* asked for or as there are, and whose buffer is what follows them
HasRead(fd, f, count, bytes) ==
  /\ PartOf(bytes, f.filePosition, f.expect)
  /\ AsAsked(Len(bytes), f.expect, f.filePosition, count)
  /\ given' = [name |-> f.DEptr.name, from |-> f.filePosition,
               count |-> count, bytes |-> bytes]
  /\ ReadsBytes(fcbArray'[fd], dir', content')
  /\ fcbArray'[fd].expect = f.expect /\ fcbArray'[fd].DEptr = f.DEptr
  /\ fcbArray'[fd].filePosition = f.filePosition + Len(bytes)

(* A descriptor that was read through, whose buffer is still what follows. *)
LEMMA HasReadOn ==
  ASSUME Sound, NEW fd, NEW f, Reading(fd, f),
         NEW g, g.DEptr = f.DEptr, g.expect = f.expect, ReadsBytes(g, dir, content),
         NEW bytes, NEW count, PartOf(bytes, f.filePosition, f.expect),
         AsAsked(Len(bytes), f.expect, f.filePosition, count),
         g.filePosition = f.filePosition + Len(bytes),
         fcbArray' = [fcbArray EXCEPT ![fd] = g], UNCHANGED <<dir, content>>,
         given' = [name |-> g.DEptr.name, from |-> f.done,
                   count |-> count, bytes |-> bytes]
  PROVE  HasRead(fd, f, count, bytes)
<1>1. fcbArray'[fd] = g
  BY SMTT(30) DEF Sound, TypeOK, Reading
<1>2. f.done = f.filePosition
  BY DEF Reading, ReadsBytes
<1> QED BY <1>1, <1>2 DEF HasRead

\* the first n of the bytes s are those of x behind the first from ones
Follows(s, n, x, from) == \A k \in 1 .. n : s[k] = x[from + k]

\* from the position p on blk, the file's block q, is what follows in x
BlockAt(blk, q, x, p) == p = Len(x) \/ (p = q * B /\ Fits(blk, q, x))

\* e is where x ends or a block does
Stops(e, x) == e = Len(x) \/ \E t \in Nat : e = t * B

\* the bytes that a block from position p of x has of it
Has(len, x, p) == len = Lesser(B, Len(x) - p)

(* The block that a read goes on with is what follows in the file, up to   *)
(* the file's end or the block's.                                          *)
LEMMA BlockFollows ==
  ASSUME NEW x \in Seq(Byte), NEW p \in Nat, p <= Len(x), NEW q \in Nat, NEW blk,
         BlockAt(blk, q, x, p),
         NEW len, Has(len, x, p)
  PROVE  /\ len \in Nat /\ len <= B /\ p + len <= Len(x)
         /\ Follows(blk, len, x, p)
         /\ Stops(p + len, x)
<1> DEFINE lx == Len(x)
           qb == q * B
<1>1. /\ lx \in Nat /\ B \in Nat \ {0, 1} /\ p <= lx /\ qb \in Nat /\ (q + 1) * B = qb + B
      /\ len = IF B <= lx - p THEN B ELSE lx - p
  BY BlockIsNat, TimesGrows DEF Lesser, Has
<1>2. /\ len \in Nat /\ len <= B /\ p + len <= lx
      /\ len = B \/ p + len = lx
      /\ p = lx => len = 0 /\ p + len = lx
  <2> HIDE DEF lx, qb
  <2> QED BY <1>1
<1>3. ASSUME NEW j \in 1 .. len PROVE blk[j] = x[p + j]
  <2>1. j \in 1 .. B /\ p + j <= lx /\ p # lx
    <3> HIDE DEF lx, qb
    <3> QED BY <1>1, <1>2
  <2>2. p = q * B /\ Fits(blk, q, x)
    BY <2>1 DEF BlockAt
  <2> QED BY <2>1, <2>2 DEF Fits
<1>4. p + len = lx \/ \E t \in Nat : p + len = t * B
  <2>1. CASE p + len = lx
    BY <2>1
  <2>2. CASE p + len # lx
    <3>1. p = qb /\ len = B
      BY <1>2, <2>2 DEF BlockAt
    <3>2. p + len = (q + 1) * B /\ q + 1 \in Nat
      <4> HIDE DEF qb
      <4> QED BY <1>1, <3>1
    <3> QED BY <3>2
  <2> QED BY <2>1, <2>2
<1> QED BY <1>2, <1>3, <1>4 DEF Follows, Stops

\* what is taken of the next block: what is still needed, or what it has
Takes(take, len, need, end, lx) ==
  /\ lx \in Nat /\ end \in Nat /\ end <= lx /\ need \in Nat /\ need < B
  /\ len = Lesser(B, lx - end) /\ take = Lesser(need, len)

(* It is what is needed or all there is.                                   *)
LEMMA TakesAsked ==
  ASSUME NEW lx, NEW end, NEW need, NEW len, NEW take, Takes(take, len, need, end, lx)
  PROVE  /\ take \in Nat /\ len \in Nat /\ take <= len /\ take <= B /\ end + take <= lx
         /\ end + take = Lesser(end + need, lx)
<1>1. /\ B \in Nat /\ lx \in Nat /\ end \in Nat /\ end <= lx /\ need \in Nat /\ need < B
      /\ len = Lesser(B, lx - end) /\ take = Lesser(need, len)
  BY BlockIsNat DEF Takes
<1>2. len \in Nat /\ len <= B /\ end + len <= lx /\ (len = B \/ end + len = lx)
  BY <1>1 DEF Lesser
<1>3. CASE need <= len
  <2>1. take = need
    BY <1>1, <1>3 DEF Lesser
  <2>2. end + take <= lx
    BY <1>1, <1>2, <1>3, <2>1
  <2>3. take <= B
    BY <1>1, <1>2, <1>3, <2>1
  <2> QED BY <1>1, <1>2, <1>3, <2>1, <2>2, <2>3 DEF Lesser
<1>4. CASE ~(need <= len)
  <2>1. take = len
    BY <1>1, <1>4 DEF Lesser
  <2>2. end + len = lx /\ ~(end + need <= lx)
    BY <1>1, <1>2, <1>4
  <2>3. Lesser(end + need, lx) = lx
    BY <2>2 DEF Lesser
  <2> QED BY <1>1, <1>2, <1>4, <2>1, <2>2, <2>3
<1> QED BY <1>3, <1>4

(* What is left in the buffer and what is taken of the next block are what *)
(* was asked for, or all that the file has.                                *)
LEMMA JoinedGives ==
  ASSUME NEW x \in Seq(Byte), NEW from \in Nat, NEW head \in Seq(Byte), NEW count \in Nat,
         Follows(head, Len(head), x, from),
         from + Len(head) <= Len(x), Len(head) < count, count < B,
         NEW blk \in Block, NEW len \in Nat, len = Lesser(B, Len(x) - (from + Len(head))),
         Follows(blk, len, x, from + Len(head)),
         NEW take, take = Lesser(count - Len(head), len)
  PROVE  /\ take \in Nat /\ take <= len
         /\ Len(head \o SubSeq(blk, 1, take)) = Len(head) + take
         /\ PartOf(head \o SubSeq(blk, 1, take), from, x)
         /\ AsAsked(Len(head) + take, x, from, count)
<1> DEFINE k0 == Len(head)
           lx == Len(x)
           cut == SubSeq(blk, 1, take)
           bytes == head \o cut
<1>1. /\ lx \in Nat /\ k0 \in Nat /\ B \in Nat \ {0, 1}
      /\ from + k0 <= lx /\ k0 < count /\ count < B
      /\ blk \in Seq(Byte) /\ Len(blk) = B /\ count \in Nat /\ from \in Nat
  BY BlockIsNat DEF Block
<1> DEFINE need == count - k0
           end == from + k0
<1>2. /\ take \in Nat /\ take <= len /\ take <= B /\ from + (k0 + take) <= lx
      /\ from + (k0 + take) = Lesser(from + count, lx)
  <2>1. need \in Nat /\ need < B /\ end \in Nat /\ end <= lx /\ from + count = end + need
    <3> HIDE DEF k0, lx
    <3> QED BY <1>1
  <2>2. len = Lesser(B, lx - end) /\ take = Lesser(need, len) /\ lx \in Nat
    BY <1>1
  <2>3. from \in Nat /\ k0 \in Nat /\ end = from + k0
    BY <1>1
  <2>4. Takes(take, len, need, end, lx)
    <3> HIDE DEF need, end
    <3> QED BY <1>1, <2>1, <2>2 DEF Takes
  <2> HIDE DEF k0, lx, need, end
  <2>5. /\ take \in Nat /\ take <= len /\ take <= B /\ end + take <= lx
        /\ end + take = Lesser(end + need, lx)
    BY <2>4, TakesAsked
  <2>6. from + (k0 + take) = end + take
    BY <2>3, <2>5
  <2> QED BY <2>1, <2>5, <2>6
<1>3. cut \in Seq(Byte) /\ Len(cut) = take /\ \A j \in 1 .. take : cut[j] = blk[j]
  <2>1. blk \in Seq(Byte) /\ Len(blk) = B /\ B \in Nat /\ take \in Nat /\ take <= B
    BY <1>1, <1>2
  <2> HIDE DEF need, end, bytes
  <2>2. SubSeq(blk, 1, take) \in Seq(Byte) /\ Len(SubSeq(blk, 1, take)) = take
    BY <2>1
  <2>3. \A j \in 1 .. take : SubSeq(blk, 1, take)[j] = blk[j]
    BY <2>1
  <2> QED BY <2>2, <2>3
<1> HIDE DEF cut
<1>4. /\ bytes \in Seq(Byte) /\ Len(bytes) = k0 + take
      /\ \A k \in 1 .. k0 : bytes[k] = head[k]
      /\ \A k \in 1 .. take : bytes[k0 + k] = cut[k]
  <2>1. /\ head \o cut \in Seq(Byte) /\ Len(head \o cut) = Len(head) + Len(cut)
        /\ \A k \in 1 .. Len(head) : (head \o cut)[k] = head[k]
        /\ \A k \in 1 .. Len(cut) : (head \o cut)[Len(head) + k] = cut[k]
    BY <1>3, JoinedAt
  <2> HIDE DEF k0
  <2> QED BY <1>3, <2>1 DEF k0
<1> HIDE DEF bytes
<1>5. ASSUME NEW k \in 1 .. k0 + take PROVE bytes[k] = x[from + k]
  <2>1. CASE k <= k0
    <3>1. k \in 1 .. k0
      BY <1>1, <1>2, <2>1
    <3>2. head[k] = x[from + k]
      BY <3>1 DEF Follows
    <3> QED BY <1>4, <3>1, <3>2
  <2>2. CASE k > k0
    <3> DEFINE j == k - k0
    <3>1. j \in 1 .. take /\ j \in 1 .. len /\ k0 + j = k /\ (from + k0) + j = from + k
      <4>1. from \in Nat /\ k0 \in Nat /\ take \in Nat /\ take <= len /\ len \in Nat
        BY <1>1, <1>2
      <4> HIDE DEF k0
      <4>2. k \in Nat /\ j \in Nat /\ j <= take /\ j > 0
        BY <2>2, <4>1
      <4> QED BY <4>1, <4>2
    <3> HIDE DEF j
    <3>2. bytes[k0 + j] = blk[j]
      BY <1>3, <1>4, <3>1
    <3>3. blk[j] = x[(from + k0) + j]
      BY <3>1 DEF Follows
    <3> QED BY <3>1, <3>2, <3>3
  <2> QED BY <1>1, <1>2, <2>1, <2>2
<1>6. PartOf(bytes, from, x)
  BY <1>2, <1>4, <1>5 DEF PartOf
<1>7. AsAsked(Len(bytes), x, from, count)
  BY <1>2, <1>4 DEF AsAsked
<1> QED BY <1>2, <1>4, <1>6, <1>7 DEF bytes, cut

(* A file that is read has a block after the one that the buffer is from.  *)
LEMMA NextIsRead ==
  ASSUME Sound, NEW fd, NEW f, Reading(fd, f)
  PROVE  /\ f \in Fcb /\ f.mode = "read" /\ Good(f, dir, chain) /\ ReadsBytes(f, dir, content) /\ f.newFile = 1
         /\ f.isBufferDirty = 1 /\ f.expect \in Seq(Byte) /\ f.size = Len(f.expect)
         /\ f.size \in Nat /\ f.filePosition \in Nat /\ f.done = f.filePosition
         /\ f.index \in Nat /\ f.buflen \in Nat /\ f.buflen <= B /\ f.index <= f.buflen
         /\ f.filePosition + (f.buflen - f.index) <= f.size
         /\ f.relativeFileBlockPs = f.filePosition \div B
         /\ f.buf \in Seq(Byte) /\ Len(f.buf) = B
         /\ Keeps(chain, blocks, f.DEptr.first, f.size, f.expect)
<1>1. /\ f \in Fcb /\ Good(f, dir, chain) /\ f.mode = "read" /\ ReadsInFile(f)
  BY DEF Reading, Good
<1>2. f.newFile = 1 /\ ReadsBytes(f, dir, content)
  BY <1>1 DEF ReadsInFile, Reading
<1>3. /\ f.size \in Nat /\ f.filePosition \in Nat /\ f.buf \in Block
      /\ f.buflen \in 0 .. B /\ f.index \in Nat
  BY <1>1, <1>2, ChainFacts DEF Sound
<1>4. f.buflen \in Nat /\ f.buflen <= B /\ f.buf \in Seq(Byte) /\ Len(f.buf) = B
  BY <1>3, BlockIsNat DEF Block
<1>5. f.expect \in Seq(Byte) /\ Keeps(chain, blocks, f.DEptr.first, f.size, f.expect)
  BY <1>1 DEF Reading, Fcb
<1>6. /\ f.size = Len(f.expect) /\ f.done = f.filePosition /\ f.index <= f.buflen
      /\ f.relativeFileBlockPs = f.filePosition \div B
  BY <1>2 DEF ReadsBytes
<1>7. f.isBufferDirty = 1 /\ f.filePosition + f.buflen - f.index <= f.size
  BY <1>1, <1>6 DEF ReadsInFile
<1>8. f.filePosition + (f.buflen - f.index) <= f.size
  BY <1>3, <1>4, <1>7
<1> QED BY <1>1, <1>2, <1>3, <1>4, <1>5, <1>6, <1>7, <1>8

(* A b_read that the buffer has enough for.                                *)
LEMMA ReadBufferGives ==
  ASSUME Sound, NEW fd, NEW f, Reading(fd, f), NEW count \in Nat \ {0}, count < B,
         ReadBuffer(fd, count)
  PROVE  \E bytes : HasRead(fd, f, count, bytes)
<1> DEFINE x == f.expect
           d == IF count = InBuffer(f) THEN f.isBufferDirty ELSE 1
           bytes == SubSeq(f.buf, f.index + 1, f.index + count)
           h == [f EXCEPT !.index = @ + count, !.isBufferDirty = d]
           h2 == [h EXCEPT !.filePosition = @ + Len(bytes),
                           !.relativeFileBlockPs = (h.filePosition + Len(bytes)) \div B,
                           !.done = @ + Len(bytes)]
           p == f.filePosition + count
           g == [f EXCEPT !.index = f.index + count, !.isBufferDirty = 1,
                          !.filePosition = p, !.relativeFileBlockPs = p \div B, !.done = p]
<1>1. /\ f \in Fcb /\ f.mode = "read" /\ Good(f, dir, chain) /\ ReadsBytes(f, dir, content) /\ f.newFile = 1
      /\ f.isBufferDirty = 1 /\ f.expect \in Seq(Byte) /\ f.size = Len(f.expect)
      /\ f.size \in Nat /\ f.filePosition \in Nat /\ f.done = f.filePosition
      /\ f.index \in Nat /\ f.buflen \in Nat /\ f.buflen <= B /\ f.index <= f.buflen
      /\ f.filePosition + (f.buflen - f.index) <= f.size
      /\ f.buf \in Seq(Byte) /\ Len(f.buf) = B
  BY NextIsRead
<1>2. count \in Nat \ {0} /\ count < B /\ B \in Nat \ {0, 1}
  BY BlockIsNat
<1>3. /\ count <= InBuffer(f) /\ fcbArray' = [fcbArray EXCEPT ![fd] = h2]
      /\ given' = [name |-> h.DEptr.name, from |-> h.done, count |-> count, bytes |-> bytes]
      /\ UNCHANGED <<dir, content>>
  <2>1. Read(fd, count, h, bytes) /\ count <= InBuffer(f)
    BY DEF ReadBuffer, Reading
  <2> HIDE DEF bytes, h
  <2> QED BY <2>1 DEF Read
<1>4. /\ f.index + count <= f.buflen /\ f.index + count \in Nat
      /\ p \in Nat /\ p <= f.size /\ p + (f.buflen - (f.index + count)) =
           f.filePosition + (f.buflen - f.index)
  <2>1. count <= f.buflen - f.index
    BY <1>1, <1>2, <1>3 DEF InBuffer
  <2> DEFINE i == f.index
             len == f.buflen
             from == f.filePosition
             size == f.size
  <2>2. /\ i \in Nat /\ len \in Nat /\ from \in Nat /\ size \in Nat /\ count \in Nat
        /\ from + (len - i) <= size /\ count <= len - i
    BY <1>1, <1>2, <2>1
  <2> HIDE DEF i, len, from, size
  <2>3. /\ i + count <= len /\ i + count \in Nat /\ from + count \in Nat
        /\ from + count <= size /\ (from + count) + (len - (i + count)) = from + (len - i)
    BY <2>2
  <2> QED BY <2>3 DEF i, len, from, size
<1>5. /\ bytes \in Seq(Byte) /\ Len(bytes) = count
      /\ \A k \in 1 .. count : bytes[k] = f.buf[f.index + k]
  <2> DEFINE buf == f.buf
             i == f.index
             j == f.index + count
  <2>1. /\ i \in Nat /\ j \in Nat /\ j = i + count /\ j <= B /\ count \in Nat
        /\ buf \in Seq(Byte) /\ Len(buf) = B /\ B \in Nat
    BY <1>1, <1>2, <1>4
  <2> HIDE DEF buf, i, j
  <2>2. /\ SubSeq(buf, i + 1, j) \in Seq(Byte) /\ Len(SubSeq(buf, i + 1, j)) = count
    BY <2>1
  <2>3. \A k \in 1 .. count : SubSeq(buf, i + 1, j)[k] = buf[i + k]
    BY <2>1
  <2> QED BY <2>2, <2>3 DEF buf, i, j
<1> HIDE DEF bytes
<1>6. PartOf(bytes, f.filePosition, x) /\ AsAsked(Len(bytes), x, f.filePosition, count)
  <2> DEFINE from == f.filePosition
  <2>1. ASSUME NEW k \in 1 .. count PROVE bytes[k] = x[from + k]
    <3>1. k \in 1 .. f.buflen - f.index
      <4> HIDE DEF x
      <4> QED BY <1>1, <1>2, <1>4
    <3>2. f.buf[f.index + k] = x[from + k]
      BY <1>1, <3>1 DEF ReadsBytes
    <3> QED BY <1>5, <3>2
  <2>2. /\ from \in Nat /\ from + count <= Len(x) /\ x \in Seq(Byte) /\ count \in Nat
        /\ Len(bytes) = count /\ PartOf(bytes, from, x)
    BY <1>1, <1>2, <1>4, <1>5, <2>1 DEF PartOf
  <2> HIDE DEF x, from
  <2>3. AsAsked(Len(bytes), x, from, count)
    BY <2>2 DEF Lesser, AsAsked
  <2> QED BY <2>2, <2>3 DEF from
<1>7. h2 = g /\ h.DEptr = f.DEptr /\ h.done = f.done
  <2>1. d = 1
    BY <1>1
  <2> HIDE DEF d
  <2> QED BY <1>1, <1>5, <2>1 DEF Fcb
<1> HIDE DEF h, h2
<1>8. p \div B \in Nat
  BY <1>4, BlocksForIsNat
<1>9. /\ g \in Fcb /\ g.mode = "read" /\ g.DEptr = f.DEptr /\ g.indexDE = f.indexDE
      /\ g.size = f.size /\ g.expect = x /\ g.index = f.index + count
      /\ g.filePosition = p /\ g.done = p /\ g.relativeFileBlockPs = p \div B
      /\ g.buf = f.buf /\ g.buflen = f.buflen
  <2> HIDE DEF p
  <2> QED BY <1>1, <1>4, <1>8 DEF Fcb
<1> HIDE DEF g
<1>10. ReadsBytes(g, dir, content)
  <2>1. HasEntry(g, dir) /\ g.expect = content[g.DEptr.name] /\ g.size = Len(g.expect)
    BY <1>1, <1>9 DEF ReadsBytes, HasEntry
  <2>2. g.filePosition + (g.buflen - g.index) = f.filePosition + (f.buflen - f.index)
    BY <1>4, <1>9
  <2>3. \/ g.filePosition + (g.buflen - g.index) = g.size
        \/ \E q \in Nat : g.filePosition + (g.buflen - g.index) = q * B
    BY <1>1, <1>9, <2>2 DEF ReadsBytes
  <2>4. ASSUME NEW k \in 1 .. g.buflen - g.index
        PROVE  g.buf[g.index + k] = g.expect[g.filePosition + k]
    <3> DEFINE j == count + k
    <3>1. /\ j \in 1 .. f.buflen - f.index /\ f.index + j = g.index + k
          /\ f.filePosition + j = g.filePosition + k
      <4>1. /\ k \in 1 .. f.buflen - (f.index + count) /\ g.index = f.index + count
            /\ g.filePosition = f.filePosition + count
        BY <1>9
      <4> DEFINE i == f.index
                 len == f.buflen
                 from == f.filePosition
      <4>2. /\ i \in Nat /\ len \in Nat /\ from \in Nat /\ count \in Nat
            /\ k \in 1 .. len - (i + count) /\ j = count + k
        BY <1>1, <1>2, <4>1
      <4> HIDE DEF i, len, from, j
      <4>3. j \in 1 .. len - i /\ i + j = (i + count) + k /\ from + j = (from + count) + k
        BY <4>2
      <4> QED BY <4>1, <4>3 DEF i, len, from
    <3> HIDE DEF j
    <3>2. f.buf[f.index + j] = f.expect[f.filePosition + j]
      BY <1>1, <3>1 DEF ReadsBytes
    <3> QED BY <1>9, <3>1, <3>2
  <2>5. g.index <= g.buflen /\ g.done = g.filePosition
        /\ g.relativeFileBlockPs = g.filePosition \div B
    BY <1>4, <1>9
  <2> QED BY <2>1, <2>3, <2>4, <2>5 DEF ReadsBytes
<1>11. given' = [name |-> g.DEptr.name, from |-> f.done, count |-> count, bytes |-> bytes]
  BY <1>3, <1>7, <1>9
<1>12. g.expect = f.expect /\ g.filePosition = f.filePosition + Len(bytes)
  BY <1>5, <1>9
<1>13. fcbArray' = [fcbArray EXCEPT ![fd] = g]
  BY <1>3, <1>7
<1> QED BY <1>3, <1>6, <1>9, <1>10, <1>11, <1>12, <1>13, HasReadOn

(* A b_read that goes on with the next block.                              *)
LEMMA ReadOnGives ==
  ASSUME Sound, NEW fd, Reading(fd, fcbArray[fd]), NEW count \in Nat \ {0}, count < B,
         ReadOn(fd, count)
  PROVE  \E bytes : HasRead(fd, fcbArray[fd], count, bytes)
<1> DEFINE f == fcbArray[fd]
           x == f.expect
           k0 == InBuffer(f)
           head == SubSeq(f.buf, f.index + 1, f.index + k0)
           p == f.filePosition + Len(head)
           wanted == count - Len(head)
           left == IF p <= f.size THEN f.size - p ELSE 0
           n == Lesser(left, (wanted \div B) * B)
           more == wanted - n
           len == Lesser(B, left - n)
           take == Lesser(more, len)
           rel(k) == IF k = 0 /\ head = <<>> THEN f.relativeFileBlockPs
                                             ELSE (p + k) \div B
           reads == {k \in 0 .. n - 1 : k % B = 0} \cup (IF more > 0 THEN {n} ELSE {})
           block(k) == GetBlock(f.DEptr.first, rel(k))
           lastBlock == block(Max(reads))
           part2 == [k \in 1 .. n |-> block(((k - 1) \div B) * B)[((k - 1) % B) + 1]]
           part3 == IF more > 0 THEN SubSeq(lastBlock, 1, take) ELSE <<>>
           bytes == head \o part2 \o part3
           h == [f EXCEPT !.buf = lastBlock, !.isBufferDirty = 1,
                          !.buflen = IF more > 0 THEN len ELSE @,
                          !.index = IF more > 0 THEN take ELSE 0]
           h2 == [h EXCEPT !.filePosition = @ + Len(bytes),
                           !.relativeFileBlockPs = (h.filePosition + Len(bytes)) \div B,
                           !.done = @ + Len(bytes)]
<1>1. /\ f \in Fcb /\ f.mode = "read" /\ Good(f, dir, chain) /\ ReadsBytes(f, dir, content) /\ f.newFile = 1
      /\ f.isBufferDirty = 1 /\ x \in Seq(Byte) /\ f.size = Len(x)
      /\ f.size \in Nat /\ f.filePosition \in Nat /\ f.done = f.filePosition
      /\ f.index \in Nat /\ f.buflen \in Nat /\ f.buflen <= B /\ f.index <= f.buflen
      /\ f.filePosition + (f.buflen - f.index) <= f.size
      /\ f.relativeFileBlockPs = f.filePosition \div B
      /\ f.buf \in Seq(Byte) /\ Len(f.buf) = B
      /\ Keeps(chain, blocks, f.DEptr.first, f.size, x)
  BY Zenon, NextIsRead
<1>2. count \in Nat \ {0} /\ count < B /\ B \in Nat \ {0, 1}
  BY BlockIsNat
<1>3. count > k0 /\ Read(fd, count, h, bytes)
  BY Zenon DEF ReadOn
<1>4. k0 \in Nat /\ k0 = f.buflen - f.index
  <2> HIDE DEF f
  <2> QED BY <1>1 DEF InBuffer
<1>5. /\ Len(head) = k0 /\ head \in Seq(Byte)
      /\ \A k \in 1 .. k0 : head[k] = f.buf[f.index + k]
  <2> DEFINE buf == f.buf
             i == f.index
             j == i + k0
  <2>1. /\ i \in Nat /\ j \in Nat /\ j = i + k0 /\ j <= B /\ k0 \in Nat
        /\ buf \in Seq(Byte) /\ Len(buf) = B /\ B \in Nat /\ head = SubSeq(buf, i + 1, j)
    <3> DEFINE fill == f.buflen
    <3>1. /\ i \in Nat /\ fill \in Nat /\ fill <= B /\ i <= fill /\ k0 = fill - i /\ k0 \in Nat
          /\ B \in Nat
      BY <1>1, <1>2, <1>4
    <3> HIDE DEF fill, k0, i
    <3>2. j \in Nat /\ j <= B
      BY <3>1
    <3>3. buf \in Seq(Byte) /\ Len(buf) = B /\ head = SubSeq(buf, i + 1, j)
      BY <1>1 DEF i
    <3> QED BY <3>1, <3>2, <3>3
  <2> HIDE DEF buf, i, j, k0, head
  <2>2. /\ SubSeq(buf, i + 1, j) \in Seq(Byte) /\ Len(SubSeq(buf, i + 1, j)) = k0
    BY <2>1
  <2>3. \A k \in 1 .. k0 : SubSeq(buf, i + 1, j)[k] = buf[i + k]
    BY <2>1
  <2> QED BY <2>1, <2>2, <2>3 DEF buf, i
<1>6. Follows(head, Len(head), x, f.filePosition)
  BY <1>1, <1>4, <1>5 DEF ReadsBytes, Follows
<1> HIDE DEF head, k0
<1>7. /\ p \in Nat /\ p = f.filePosition + k0 /\ p <= f.size /\ left = f.size - p
      /\ p = f.filePosition + (f.buflen - f.index) /\ left \in Nat
  <2> DEFINE at == f.filePosition
             size == f.size
             rest == f.buflen - f.index
             given0 == Len(head)
  <2>1. /\ at \in Nat /\ size \in Nat /\ at + rest <= size /\ rest = k0
        /\ given0 = k0 /\ k0 \in Nat
    <3> HIDE DEF f
    <3> QED BY <1>1, <1>4, <1>5
  <2>2. p = at + given0 /\ left = IF p <= size THEN size - p ELSE 0
    OBVIOUS
  <2> HIDE DEF at, size, rest, given0, f, p, left
  <2>3. p \in Nat /\ p = at + k0 /\ p <= size /\ left = size - p /\ p = at + rest /\ left \in Nat
    BY <2>1, <2>2
  <2> QED BY <2>3 DEF at, size, rest
<1>8. wanted \in Nat /\ wanted > 0 /\ wanted < B /\ wanted = count - Len(head)
  <2>1. Len(head) = k0 /\ k0 \in Nat /\ count > k0
    BY Zenon, <1>3, <1>4, <1>5
  <2> QED BY SMTT(30), <1>2, <2>1
<1> HIDE DEF left, wanted
<1>9. n = 0 /\ more = wanted /\ more > 0
  <2>1. wanted \div B = 0
    BY <1>2, <1>8
  <2>2. 0 * B = 0
    BY <1>2
  <2> QED BY <1>7, <1>8, <2>1, <2>2 DEF Lesser
<1>10. len = Lesser(B, Len(x) - (f.filePosition + Len(head)))
       /\ take = Lesser(count - Len(head), len)
  <2>1. left - n = Len(x) - (f.filePosition + Len(head)) /\ more = count - Len(head)
    BY <1>1, <1>7, <1>8, <1>9
  <2> HIDE DEF left, n, more
  <2> QED BY <2>1
<1> HIDE DEF n, more
<1>11. reads = {0} /\ Max(reads) = 0
  <2>1. reads = {0}
    BY <1>9
  <2>2. Max({0}) = 0
    BY DEF Max
  <2> HIDE DEF reads
  <2> QED BY <2>1, <2>2
<1>12. part2 = <<>> /\ part3 = SubSeq(lastBlock, 1, take)
  <2> HIDE DEF take, block, lastBlock
  <2>1. part2 = <<>>
    BY <1>9
  <2> HIDE DEF part2
  <2> QED BY <1>9, <2>1
<1> HIDE DEF take, len, reads, part2, part3
<1>13. PICK q \in Nat : q = p \div B /\ q <= f.size \div B /\ rel(0) = q
  <2>1. p \div B \in Nat /\ p \div B <= f.size \div B
    BY <1>1, <1>7, BlocksForGrows, BlocksForIsNat
  <2>2. rel(0) = p \div B
    <3>1. CASE head = <<>>
      <4>1. p = f.filePosition
        BY <1>1, <3>1
      <4> QED BY <1>1, <3>1, <4>1
    <3>2. CASE head # <<>>
      <4>1. p + 0 = p
        BY <1>7
      <4> HIDE DEF p
      <4> QED BY <3>2, <4>1
    <3> QED BY <3>1, <3>2
  <2> QED BY <2>1, <2>2
<1>14. lastBlock = blocks[chain[f.DEptr.first][q + 1]] /\ lastBlock \in Block
  <2>1. HasBlock(chain, f.DEptr.first, q) /\ chain[f.DEptr.first][q + 1] \in Clusters
    BY <1>1, <1>13, ChainFacts DEF Sound
  <2>2. lastBlock = GetBlock(f.DEptr.first, q)
    <3> HIDE DEF rel
    <3> QED BY <1>11, <1>13
  <2> HIDE DEF lastBlock
  <2>3. lastBlock = blocks[chain[f.DEptr.first][q + 1]]
    BY <2>1, <2>2 DEF GetBlock
  <2> QED BY <2>1, <2>3 DEF Sound, TypeOK, Clusters
<1> HIDE DEF lastBlock, rel
<1>15. BlockAt(lastBlock, q, x, p)
  <2>1. SUFFICES ASSUME p # Len(x) PROVE p = q * B /\ Fits(lastBlock, q, x)
    BY DEF BlockAt
  <2>2. PICK t \in Nat : p = t * B
    BY <1>1, <1>7, <2>1 DEF ReadsBytes
  <2>3. t = q
    <3> DEFINE zero == 0
    <3>1. zero \in Nat /\ zero < B
      BY <1>2
    <3> HIDE DEF zero
    <3>2. (t * B + zero) \div B = t
      BY <3>1, ByteIs
    <3>3. t * B + zero = t * B
      BY <1>2, TimesGrows DEF zero
    <3> HIDE DEF p
    <3> QED BY <1>13, <2>2, <3>2, <3>3
  <2>4. q * B < f.size
    <3>1. q * B \in Nat /\ p = q * B
      BY <2>2, <2>3, TimesGrows, <1>2
    <3> DEFINE qb == q * B
    <3>2. qb \in Nat /\ p = qb /\ p # f.size
      BY <1>1, <2>1, <3>1
    <3> HIDE DEF qb, p
    <3> QED BY <1>1, <1>7, <3>2 DEF qb
  <2>5. Fits(blocks[chain[f.DEptr.first][q + 1]], q, x)
    BY <1>1, <2>4 DEF Keeps
  <2> QED BY <1>14, <2>2, <2>3, <2>5
<1>16. /\ len \in Nat /\ len <= B /\ p + len <= Len(x) /\ Follows(lastBlock, len, x, p)
       /\ Stops(p + len, x)
  <2>1. /\ p <= Len(x) /\ Has(len, x, p) /\ p \in Nat /\ x \in Seq(Byte)
        /\ BlockAt(lastBlock, q, x, p)
    BY <1>1, <1>7, <1>10, <1>15 DEF Has
  <2> HIDE DEF p, x
  <2> QED BY <2>1, BlockFollows
<1> DEFINE cut == SubSeq(lastBlock, 1, take)
           got == Len(head) + take
<1>17. /\ take \in Nat /\ take <= len /\ Len(head \o cut) = got
       /\ PartOf(head \o cut, f.filePosition, x) /\ AsAsked(got, x, f.filePosition, count)
  <2> DEFINE from == f.filePosition
  <2>1. /\ from \in Nat /\ from + Len(head) <= Len(x) /\ Len(head) < count
        /\ len = Lesser(B, Len(x) - (from + Len(head)))
        /\ Follows(lastBlock, len, x, from + Len(head))
        /\ Follows(head, Len(head), x, from) /\ x \in Seq(Byte) /\ head \in Seq(Byte)
        /\ count \in Nat /\ count < B /\ lastBlock \in Block /\ len \in Nat
        /\ take = Lesser(count - Len(head), len)
    BY Zenon, <1>1, <1>2, <1>3, <1>5, <1>6, <1>7, <1>10, <1>14, <1>16
  <2> HIDE DEF x, from
  <2>2. /\ take \in Nat /\ take <= len /\ Len(head \o SubSeq(lastBlock, 1, take)) = got
        /\ PartOf(head \o SubSeq(lastBlock, 1, take), from, x) /\ AsAsked(got, x, from, count)
    BY <2>1, JoinedGives
  <2> QED BY SMTT(30), <2>2 DEF from
<1>18. bytes = head \o cut
  <2>1. head \o <<>> = head
    BY <1>5
  <2> QED BY <1>12, <2>1
<1> HIDE DEF bytes, cut
<1> DEFINE e == f.filePosition + got
           g == [f EXCEPT !.buf = lastBlock, !.isBufferDirty = 1, !.buflen = len,
                          !.index = take, !.filePosition = e,
                          !.relativeFileBlockPs = e \div B, !.done = e]
<1>19. Len(bytes) = got
  BY <1>17, <1>18
<1>20. h2 = g /\ h.DEptr = f.DEptr /\ h.done = f.done
  BY <1>1, <1>9, <1>19 DEF Fcb
<1>21. /\ fcbArray' = [fcbArray EXCEPT ![fd] = g] /\ UNCHANGED <<dir, content>>
       /\ given' = [name |-> f.DEptr.name, from |-> f.done, count |-> count, bytes |-> bytes]
  <2> HIDE DEF g, h
  <2> QED BY <1>3, <1>20 DEF Read
<1> HIDE DEF h, h2
<1>22. e \in Nat /\ e \div B \in Nat /\ len \in 0 .. B /\ e + (len - take) = p + len
       /\ e = p + take
  <2>1. /\ Len(head) \in Nat /\ f.filePosition \in Nat /\ B \in Nat /\ len \in Nat /\ len <= B
        /\ take \in Nat
    BY <1>1, <1>2, <1>4, <1>5, <1>16, <1>17
  <2>2. e \in Nat /\ len \in 0 .. B /\ e = p + take
    <3> HIDE DEF f
    <3> QED BY <2>1
  <2> HIDE DEF e, p
  <2>3. e + (len - take) = p + len
    BY SMTT(30), <1>7, <1>16, <1>17, <2>2
  <2> QED BY <2>2, <2>3, BlocksForIsNat
<1> HIDE DEF e
<1>23. /\ g \in Fcb /\ g.mode = "read" /\ g.DEptr = f.DEptr /\ g.indexDE = f.indexDE
       /\ g.size = f.size /\ g.expect = x /\ g.index = take
       /\ g.filePosition = e /\ g.done = e /\ g.relativeFileBlockPs = e \div B
       /\ g.buf = lastBlock /\ g.buflen = len
  <2>1. /\ f \in Fcb /\ f.mode = "read" /\ lastBlock \in Block /\ len \in 0 .. B
        /\ take \in Nat /\ e \in Nat /\ e \div B \in Nat
    BY <1>1, <1>14, <1>17, <1>22
  <2> DEFINE blk == e \div B
  <2> HIDE DEF f, x, blk
  <2> QED BY <2>1 DEF Fcb, blk, x
<1> HIDE DEF g
<1>24. ReadsBytes(g, dir, content)
  <2>1. HasEntry(g, dir) /\ g.expect = content[g.DEptr.name] /\ g.size = Len(g.expect)
    BY <1>1, <1>23 DEF ReadsBytes, HasEntry
  <2>2. \/ g.filePosition + (g.buflen - g.index) = g.size
        \/ \E t \in Nat : g.filePosition + (g.buflen - g.index) = t * B
    BY <1>1, <1>16, <1>22, <1>23 DEF Stops
  <2>3. ASSUME NEW k \in 1 .. g.buflen - g.index
        PROVE  g.buf[g.index + k] = g.expect[g.filePosition + k]
    <3> DEFINE j == take + k
    <3>1. j \in 1 .. len /\ p + j = e + k /\ g.index + k = j
      <4>1. k \in 1 .. len - take /\ e = p + take
        BY <1>22, <1>23
      <4> HIDE DEF p
      <4> QED BY <1>7, <1>16, <1>17, <1>23, <4>1
    <3> HIDE DEF j
    <3>2. lastBlock[j] = x[p + j]
      BY <1>16, <3>1 DEF Follows
    <3> QED BY <1>23, <3>1, <3>2
  <2>4. g.index <= g.buflen /\ g.done = g.filePosition
        /\ g.relativeFileBlockPs = g.filePosition \div B
    BY <1>17, <1>23
  <2> QED BY SMTT(30), <2>1, <2>2, <2>3, <2>4 DEF ReadsBytes
<1>25. given' = [name |-> g.DEptr.name, from |-> f.done, count |-> count, bytes |-> bytes]
  BY <1>21, <1>23
<1>26. /\ g.expect = f.expect /\ g.filePosition = f.filePosition + Len(bytes)
       /\ PartOf(bytes, f.filePosition, f.expect)
       /\ AsAsked(Len(bytes), f.expect, f.filePosition, count)
  BY <1>17, <1>18, <1>19, <1>23 DEF e
<1> QED BY <1>21, <1>23, <1>24, <1>25, <1>26, HasReadOn

(* b_read gives the bytes that follow.                                     *)
LEMMA ReadGives ==
  ASSUME Sound, NEW fd, NEW f, Reading(fd, f), NEW count \in Nat \ {0}, count < B,
         b_read(fd, count)
  PROVE  HasRead(fd, f, count, given'.bytes)
<1>3. f = fcbArray[fd]
  BY DEF Reading
<1>1. \E bytes : HasRead(fd, f, count, bytes)
  BY <1>3, ReadBufferGives, ReadOnGives DEF b_read
<1>2. \A bytes : HasRead(fd, f, count, bytes) => given'.bytes = bytes
  BY DEF HasRead
<1> QED BY <1>1, <1>2

(* A formatted volume is in order, and has no files.                       *)
LEMMA InitIsSound ==
  ASSUME Init
  PROVE  Sound /\ OpenFds = {} /\ Used(dir) = {} /\ Firsts(dir) = {} /\ DOMAIN chain = {Root}
<1>1. OpenFds = {}
  BY DEF Init, OpenFds, IsOpen
<1>2. fcbArray \in [Fds -> Fcb \cup {NULL, CLOSED}]
  BY DEF Init
<1>3. Used(dir) = {} /\ Firsts(dir) = {} /\ dir \in [Slots -> Entry]
  BY UnusedIsEntry DEF Init, Used, Firsts
<1>4. {InitFree[k] : k \in DOMAIN InitFree} = Clusters
  BY DEF Clusters, Range
<1>5. Junk \in Block
  BY DEF Junk, Block, Byte
<1>6. blocks \in [Range(InitFree) -> Block]
  BY <1>4, <1>5 DEF Init, Clusters
<1>7. <<>> \in Seq(Byte)
  OBVIOUS
<1>8. content \in [Files -> Seq(Byte)]
  BY <1>7 DEF Init
<1>9. free = InitFree /\ DOMAIN chain = {Root}
  BY DEF Init, Store!Init
<1>10. InitFree \in Seq(Clusters)
  <2>1. \A k \in 1 .. Len(InitFree) : InitFree[k] \in Clusters
    BY FileAssumption DEF Clusters, Range
  <2>2. InitFree = [k \in 1 .. Len(InitFree) |-> InitFree[k]] /\ Len(InitFree) \in Nat
    BY FileAssumption
  <2> QED BY <2>1, <2>2
<1>11. Apart(free, chain)
  BY <1>9, <1>10, FileAssumption DEF Apart, Clusters
<1>12. NoLonger(chain, BlocksFor(MaxSize))
  BY <1>9 DEF NoLonger
<1>13. Tidy(dir, chain)
  BY <1>3 DEF Tidy
<1> QED BY <1>1, <1>2, <1>3, <1>6, <1>8, <1>9, <1>11, <1>12, <1>13 DEF Init, Sound, TypeOK
=============================================================================
