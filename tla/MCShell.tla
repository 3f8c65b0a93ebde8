------------------------------ MODULE MCShell ------------------------------
(* The shell over a volume of which the root has the first cluster. *)
EXTENDS Shell

CONSTANT LastCluster

MCRoot      == 2
MCRootChain == <<2>>
MCInitFree  == [k \in 1 .. LastCluster - 2 |-> k + 2]
=============================================================================
