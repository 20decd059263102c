----------------------------- MODULE ParentList -----------------------------
(***************************************************************************)
(* What parent_lookup.c promises: for every inode a primary parent slot    *)
(* (pathlookup_data, 0 = empty) and how often each directory is among its  *)
(* other parents.  The pages that hold the others are in ParentLookup.     *)
(***************************************************************************)
EXTENDS Integers

NoParents(Dirs) == [prim |-> 0, oth |-> [p \in Dirs |-> 0]]

AddParent(r, p) ==
  IF r.prim = 0 THEN [r EXCEPT !.prim = p] ELSE [r EXCEPT !.oth[p] = @ + 1]

DeleteParent(r, p) ==
  IF r.prim = p THEN [r EXCEPT !.prim = 0]
  ELSE IF r.oth[p] > 0 THEN [r EXCEPT !.oth[p] = @ - 1] ELSE r

ReplaceParent(r, p, q) ==
  IF r.prim = p THEN [r EXCEPT !.prim = q]
  ELSE IF r.oth[p] > 0 THEN [r EXCEPT !.oth[p] = @ - 1, !.oth[q] = @ + 1]
  ELSE r

(* How often fetch_all_parents returns p.                                  *)
Times(r, p) == (IF r.prim = p THEN 1 ELSE 0) + r.oth[p]
=============================================================================
