----------------------------- MODULE EntryCodec -----------------------------
(***************************************************************************)
(* How a directory entry keeps the number of its first cluster: two bytes  *)
(* for the high word and two for the low one (DIR_FstClusHI and LO), set   *)
(* by memset, which repeats one byte, and read back through a pointer to   *)
(* one signed char.  The clusters are those of a volume of DiskLayout.     *)
(***************************************************************************)
EXTENDS DiskLayout

CONSTANT Locations     \* what alloc has answered: clusters, or -1

ASSUME LocationAssumption == Locations \subseteq Int

VARIABLES
  location,      \* the first cluster of the file or directory made last
  entry,         \* its own entry
  parentEntry    \* the entry of a directory in its parent

codecVars == <<volume, location, entry, parentEntry>>

EOF_FLAG == -1

\* the low byte of a word, as memset stores it in each of its bytes
LowByte(w) == w % 256
LowWord(n) == n % 65536
HighWord(n) == (n \div 65536) % 65536

SetLocationSwapped(n) == [HI |-> LowByte(LowWord(n)), LO |-> LowByte(HighWord(n))]
SetLocation(n) == [HI |-> LowByte(HighWord(n)), LO |-> LowByte(LowWord(n))]

\* a byte read through char *, which is signed on the target
AsChar(b) == IF b < 128 THEN b ELSE b - 256

(* *(HI) << 16 | *(LO): the bits of a negative low byte cover the high     *)
(* word; over a low byte that is not negative, | adds.                     *)
Location(e) ==
  IF AsChar(e.LO) < 0 THEN AsChar(e.LO) ELSE AsChar(e.HI) * 65536 + AsChar(e.LO)

\* fs_mkdir: the parent's entry is set from the bytes of the "." entry
CopyEntry(e) == [HI |-> LowByte(AsChar(e.HI) % 65536),
                 LO |-> LowByte(AsChar(e.LO) % 65536)]

Nothing == [HI |-> 255, LO |-> 255]

CodecInit ==
  /\ Init
  /\ location = EOF_FLAG
  /\ entry = Nothing /\ parentEntry = Nothing

\* b_write, initDirectory: the entry of a new file or the "." of a directory
Set(n) ==
  /\ volume # NotFormatted
  /\ n = EOF_FLAG \/ n \in 2 .. volume.lastFreeCluster
  /\ location' = n
  /\ entry' = SetLocation(n)
  /\ parentEntry' = CopyEntry(SetLocation(n))
  /\ UNCHANGED volume

CodecNext ==
  \/ Next /\ UNCHANGED <<location, entry, parentEntry>>
  \/ \E n \in Locations : Set(n)

CodecSpec == CodecInit /\ [][CodecNext]_codecVars
-----------------------------------------------------------------------------
(* The entry names the chain that alloc gave: what is read back through    *)
(* DIR_FstClusHI and DIR_FstClusLO, from the file's own entry or from the  *)
(* copy fs_mkdir makes of it, is the location that was stored, -1 included *)
(* (b_io.c:410-415, 948; directory.c:567-570; fs_struct.h:85-88).          *)
LocationKept ==
  /\ Location(entry) = location
  /\ Location(parentEntry) = location
=============================================================================
