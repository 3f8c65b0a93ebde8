---------------------------- MODULE CodecProofs ----------------------------
(***************************************************************************)
(* What the numbers of a volume have room for: the sizes for which initVCB *)
(* and fatInit agree on the table and the clusters, and the first clusters *)
(* that a directory entry keeps, which are those of one signed byte.       *)
(***************************************************************************)
EXTENDS EntryCodec, TLAPS

(* A table rounded up to whole blocks and two blocks taken off still holds *)
(* the entries fatInit links while the volume has at most 6482 blocks.     *)
LEMMA TableLeft ==
  ASSUME NEW n \in Nat, 345 <= n, n <= 6482
  PROVE  LastLinked(n) < EntriesOf(FATSz32(n))
BY DEF LastLinked, NotData, EntriesOf, FATSz32, SecPerClus, NumFATs, RsvdSecCnt

(* fatInit leaves out 338 blocks, whatever the size of the tables: enough  *)
(* while the volume has at most 20027 blocks.                              *)
LEMMA BlocksLeft ==
  ASSUME NEW n \in Nat, 345 <= n, n <= 20027
  PROVE  DataStart(FATSz32(n)) + LastLinked(n) < n
BY DEF LastLinked, NotData, DataStart, FATSz32, SecPerClus, NumFATs, RsvdSecCnt

(* On every volume of 345 to 6482 blocks the table in memory has each      *)
(* entry that fatInit writes (VCB.c:54, fat.c:51).                         *)
THEOREM TableLargeEnough ==
  ASSUME \A n \in Sizes : n \in Nat /\ 345 <= n /\ n <= 6482
  PROVE  Spec => []TableHoldsLinks
<1>1. Init => TableHoldsLinks
  BY DEF Init, TableHoldsLinks
<1>2. TableHoldsLinks /\ [Next]_volume => TableHoldsLinks'
  <2> SUFFICES ASSUME TableHoldsLinks, [Next]_volume
               PROVE  TableHoldsLinks'
    OBVIOUS
  <2>1. ASSUME NEW n \in Sizes, Format(n)
        PROVE  TableHoldsLinks'
    <3>1. LastLinked(n) < EntriesOf(FATSz32(n))
      BY TableLeft
    <3> QED BY <2>1, <3>1 DEF Format, TableHoldsLinks
  <2>2. CASE UNCHANGED volume
    BY <2>2 DEF TableHoldsLinks
  <2> QED BY <2>1, <2>2 DEF Next
<1> QED BY <1>1, <1>2, PTL DEF Spec

(* On every volume of 345 to 20027 blocks each cluster that fatInit links  *)
(* is a block of the volume (fat.c:51-58, fsInit.c:96).                    *)
THEOREM ClustersOnVolume ==
  ASSUME \A n \in Sizes : n \in Nat /\ 345 <= n /\ n <= 20027
  PROVE  Spec => []ClustersAreDataBlocks
<1>1. Init => ClustersAreDataBlocks
  BY DEF Init, ClustersAreDataBlocks
<1>2. ClustersAreDataBlocks /\ [Next]_volume => ClustersAreDataBlocks'
  <2> SUFFICES ASSUME ClustersAreDataBlocks, [Next]_volume
               PROVE  ClustersAreDataBlocks'
    OBVIOUS
  <2>1. ASSUME NEW n \in Sizes, Format(n)
        PROVE  ClustersAreDataBlocks'
    <3>1. DataStart(FATSz32(n)) + LastLinked(n) < n
      BY BlocksLeft
    <3> QED BY <2>1, <3>1 DEF Format, ClustersAreDataBlocks
  <2>2. CASE UNCHANGED volume
    BY <2>2 DEF ClustersAreDataBlocks
  <2> QED BY <2>1, <2>2 DEF Next
<1> QED BY <1>1, <1>2, PTL DEF Spec

(* Beyond 22866 blocks no table is large enough, and beyond 20027 the last *)
(* cluster is not on the volume: the bounds above are those of the code.   *)
THEOREM LargerVolumesDoNotFit ==
  ASSUME NEW n \in Nat
  PROVE  /\ n > 22866 => ~(LastLinked(n) < EntriesOf(FATSz32(n)))
         /\ n > 20027 => ~(DataStart(FATSz32(n)) + LastLinked(n) < n)
BY DEF LastLinked, NotData, EntriesOf, DataStart, FATSz32, SecPerClus,
       NumFATs, RsvdSecCnt

-----------------------------------------------------------------------------
(* A number that fits a signed byte comes back from the four bytes that    *)
(* memset fills (b_io.c:410-415, 948).                                     *)
LEMMA OneByteIsKept ==
  ASSUME NEW n \in -1 .. 127
  PROVE  Location(SetLocation(n)) = n
BY DEF Location, SetLocation, LowByte, LowWord, HighWord, AsChar

(* The second memset, from the bytes of the first, changes nothing         *)
(* (directory.c:567-570): the copy reads like the original.                *)
LEMMA CopyReadsTheSame ==
  ASSUME NEW n \in -1 .. 127
  PROVE  CopyEntry(SetLocation(n)) = SetLocation(n)
BY DEF CopyEntry, SetLocation, LowByte, LowWord, HighWord, AsChar

(* While alloc gives clusters below 128, or -1, each entry names the chain *)
(* it was made for.                                                        *)
THEOREM KeptBelow128 ==
  ASSUME Locations \subseteq -1 .. 127
  PROVE  CodecSpec => []LocationKept
<1>1. CodecInit => LocationKept
  BY DEF CodecInit, LocationKept, Nothing, Location, AsChar, EOF_FLAG
<1>2. LocationKept /\ [CodecNext]_codecVars => LocationKept'
  <2> SUFFICES ASSUME LocationKept, [CodecNext]_codecVars
               PROVE  LocationKept'
    OBVIOUS
  <2>1. ASSUME NEW n \in Locations, Set(n)
        PROVE  LocationKept'
    <3>1. n \in -1 .. 127
      OBVIOUS
    <3>2. Location(SetLocation(n)) = n /\ CopyEntry(SetLocation(n)) = SetLocation(n)
      BY <3>1, OneByteIsKept, CopyReadsTheSame
    <3>3. location' = n /\ entry' = SetLocation(n)
          /\ parentEntry' = CopyEntry(SetLocation(n))
      BY <2>1 DEF Set
    <3>4. Location(entry') = location' /\ Location(parentEntry') = location'
      BY <3>2, <3>3
    <3> QED BY <3>4 DEF LocationKept, Location, AsChar
  <2>2. CASE UNCHANGED <<location, entry, parentEntry>>
    BY <2>2 DEF LocationKept, Location, AsChar
  <2> QED BY <2>1, <2>2 DEF CodecNext, codecVars
<1> QED BY <1>1, <1>2, PTL DEF CodecSpec

(* No cluster from 128 to 65535 is kept: the byte is read as negative, or  *)
(* what lies above the byte is lost (b_io.c:414, 948).                     *)
THEOREM LostFrom128 ==
  ASSUME NEW n \in Nat, 128 <= n, n <= 65535
  PROVE  Location(SetLocation(n)) # n
<1>1. HighWord(n) = 0 /\ LowWord(n) = n
  BY DEF HighWord, LowWord
<1>2. SetLocation(n) = [HI |-> 0, LO |-> n % 256]
  BY <1>1 DEF SetLocation, LowByte
<1>3. n % 256 \in 0 .. 255
  OBVIOUS
<1>4. CASE n % 256 < 128
  BY <1>2, <1>3, <1>4 DEF Location, AsChar
<1>5. CASE n % 256 >= 128
  BY <1>2, <1>3, <1>5 DEF Location, AsChar
<1> QED BY <1>3, <1>4, <1>5
=============================================================================
