----------------------------- MODULE MCFatCrash -----------------------------
(* The allocator's callers and crashes on a small table. *)
EXTENDS FatCrash
=============================================================================
