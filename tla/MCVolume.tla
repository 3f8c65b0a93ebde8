----------------------------- MODULE MCVolume -----------------------------
(* A volume of 61 clusters, formatted and mounted again and again. *)
EXTENDS Volume
=============================================================================
