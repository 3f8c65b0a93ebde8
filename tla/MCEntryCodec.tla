---------------------------- MODULE MCEntryCodec ----------------------------
(* Volumes up to 245 kB, around 3.3 MB, and the 10 MB of the Makefile; the *)
(* first clusters of each, -1 for a refused alloc.                         *)
EXTENDS EntryCodec

SoundSizes    == 345 .. 480 \cup 6450 .. 6482 \cup {19531}
FirstClusters == {EOF_FLAG} \cup 2 .. 127
=============================================================================
