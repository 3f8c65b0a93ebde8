----------------------------- MODULE ChainStore -----------------------------
(***************************************************************************)
(* What the allocator promises its callers, without links: the free        *)
(* clusters are a sequence, every chain is a sequence named by its first   *)
(* cluster, a chain is taken from the front of the free sequence and given *)
(* back to its front in the same order.  So a chain that is given back and *)
(* taken again longer begins with its old clusters, in their old order.    *)
(***************************************************************************)
EXTENDS Naturals, Sequences, Functions

CONSTANTS Root, InitFree, RootChain    \* the formatted volume

VARIABLES free, chain

vars == <<free, chain>>

Init ==
  /\ free = InitFree
  /\ chain = [h \in {Root} |-> RootChain]

\* at least one cluster stays free
Grants(f, n) == n <= Len(f) - 1

\* the chains once the first n clusters of f are one of them
Taken(f, ch, n) ==
  [h \in DOMAIN ch \cup {f[1]} |->
     IF h = f[1] THEN SubSeq(f, 1, n) ELSE ch[h]]

Rest(f, n) == SubSeq(f, n + 1, Len(f))

Without(ch, h) == Restrict(ch, DOMAIN ch \ {h})

Take(n) ==
  /\ n >= 1 /\ Grants(free, n)
  /\ chain' = Taken(free, chain, n)
  /\ free' = Rest(free, n)

Give(h) ==
  /\ h \in DOMAIN chain \ {Root}
  /\ free' = chain[h] \o free
  /\ chain' = Without(chain, h)

Next ==
  \/ \E n \in 1 .. Len(free) : Take(n)
  \/ \E h \in DOMAIN chain : Give(h)

Spec == Init /\ [][Next]_vars
=============================================================================
