-------------------------- MODULE MCDirectoryCrash --------------------------
(* The volumes and paths of MCDirectory. *)
EXTENDS DirectoryCrash, MCDirectory
=============================================================================
