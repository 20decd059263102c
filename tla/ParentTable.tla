----------------------------- MODULE ParentTable ----------------------------
(***************************************************************************)
(* The abstract specification of parent_lookup.c: a table of parents that  *)
(* changes by one addition, removal or replacement at a time.              *)
(***************************************************************************)
EXTENDS ParentList

CONSTANTS Inodes, Parents

VARIABLE parents

Init == parents = [i \in Inodes |-> NoParents(Parents)]

(* The parents of an inode after one operation.                            *)
Changed(r) ==
  {AddParent(r, p) : p \in Parents} \cup {DeleteParent(r, p) : p \in Parents}
    \cup {ReplaceParent(r, p, q) : p \in Parents, q \in Parents}

Next ==
  \E i \in Inodes :
    /\ \A j \in Inodes \ {i} : parents'[j] = parents[j]
    /\ parents'[i] \in Changed(parents[i])

Spec == Init /\ [][Next]_parents
=============================================================================
