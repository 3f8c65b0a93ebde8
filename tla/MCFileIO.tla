------------------------------ MODULE MCFileIO ------------------------------
(***************************************************************************)
(* Small instances of FileUse: two names, blocks of a few bytes, and a      *)
(* volume of which the root directory has the first cluster.               *)
(***************************************************************************)
EXTENDS FileUse

CONSTANT LastCluster

Names == Permutations(Files)

(* What the calls depend on: not what was written or given, which is       *)
(* recorded for ReadsContent and StoredIsContent only.                     *)
Visible ==
  <<alloced, blocks, dir, stray,
    [fd \in Fds |-> IF IsOpen(fd) THEN [fcbArray[fd] EXCEPT !.expect = <<>>]
                                  ELSE fcbArray[fd]]>>

MCRoot      == 2
MCRootChain == <<2>>
MCInitFree  == [k \in 1 .. LastCluster - 2 |-> k + 2]
=============================================================================
