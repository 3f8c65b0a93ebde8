----------------------------- MODULE FileStore -----------------------------
(***************************************************************************)
(* What the shell's commands promise of files: a name has all the bytes of *)
(* the file it was copied from, from the moment it appears, whatever else  *)
(* is in progress, and stays as it is until it is removed.                 *)
(***************************************************************************)
EXTENDS Functions

VARIABLES
  store,    \* the bytes of each name in use
  host      \* the files outside of the volume, which others change

Init == DOMAIN store = {}

Bind(n, s) ==
  /\ n \notin DOMAIN store
  /\ store' = [m \in DOMAIN store \cup {n} |-> IF m = n THEN s ELSE store[m]]

Import(h, n) == Bind(n, host[h])

Copy(m, n) == m \in DOMAIN store /\ Bind(n, store[m])

Remove(n) == store' = Restrict(store, DOMAIN store \ {n})
=============================================================================
