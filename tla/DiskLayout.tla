----------------------------- MODULE DiskLayout -----------------------------
(***************************************************************************)
(* Where initVCB (VCB.c) puts the parts of a volume of a given number of   *)
(* blocks, and which entries of the table fatInit (fat.c) links.  The two  *)
(* compute with different constants; a volume is sound when they agree.    *)
(***************************************************************************)
EXTENDS Integers

CONSTANT Sizes         \* numberOfBlocks of the volumes that are formatted

ASSUME SizesAssumption == Sizes \subseteq Nat

VARIABLE volume        \* the volume as formatted, or NotFormatted

NotFormatted == [blocks |-> 0, fatSize |-> 0, dataStart |-> 0, lastFreeCluster |-> 0]

RsvdSecCnt == 32
NumFATs    == 2
SecPerClus == 1

\* BPB_FATSz32: the blocks of one table, rounded up, and two taken off
FATSz32(n) ==
  LET per == (256 * SecPerClus + NumFATs) \div 2
  IN  ((n - RsvdSecCnt + (per - 1)) \div per) - 2

DataStart(fatSize) == RsvdSecCnt + fatSize * NumFATs

\* 512 bytes of a block hold 128 entries of the table
EntriesOf(fatSize) == 128 * fatSize

\* lastFreeCluster: the entries 2 to numberOfBlocks - 339 are linked
NotData == 338
LastLinkedAll(n) == n - 1
LastLinked(n) == n - NotData - 1

Format(n) ==
  /\ volume = NotFormatted
  /\ volume' = [blocks |-> n, fatSize |-> FATSz32(n),
                dataStart |-> DataStart(FATSz32(n)),
                lastFreeCluster |-> LastLinked(n)]

Init == volume = NotFormatted
Next == \E n \in Sizes : Format(n)
Spec == Init /\ [][Next]_volume
-----------------------------------------------------------------------------
(* The table that initFileSystem mallocs from BPB_FATSz32 has every entry  *)
(* that fatInit writes from its own 338 (fsInit.c:110, fat.c:51): "a       *)
(* number large enough to represent the whole volume" (VCB.c:46).          *)
TableHoldsLinks ==
  volume # NotFormatted => volume.lastFreeCluster < EntriesOf(volume.fatSize)

(* The last cluster that is linked is a block of the volume (fat.c:49-58,  *)
(* fsInit.c:96): the blocks that fatInit does not represent are those      *)
(* before dataStart, or more.                                              *)
ClustersAreDataBlocks ==
  volume # NotFormatted =>
    volume.dataStart + volume.lastFreeCluster < volume.blocks
=============================================================================
