------------------------------ MODULE NameTree ------------------------------
(***************************************************************************)
(* What a user sees of directories: a tree of names.  A directory or a     *)
(* file is added under a directory that exists, under a name that is not   *)
(* in use there; a file, or a directory with nothing in it, is removed.    *)
(***************************************************************************)
EXTENDS Sequences, SequencesExt

CONSTANT Name

VARIABLE tree    \* a set of [path |-> names from the root, kind |-> "dir" or "file"]

Init == tree = {[path |-> <<>>, kind |-> "dir"]}

Above(x, y) == x.path # <<>> /\ y.path = Front(x.path)

\* u is the tree t with one more name in it
Added(t, u) ==
  \E x \in u \ t :
    /\ u = t \cup {x}
    /\ x.path # <<>> /\ Last(x.path) \in Name
    /\ \E y \in t : Above(x, y) /\ y.kind = "dir"
    /\ \A y \in t : y.path # x.path

\* u is t without one name, under which there is nothing
Removed(t, u) ==
  \E x \in t \ u :
    /\ u = t \ {x}
    /\ x.path # <<>>
    /\ \A y \in u : ~Above(y, x)

Next == Added(tree, tree') \/ Removed(tree, tree')

Spec == Init /\ [][Next]_tree
=============================================================================
