---------------------------- MODULE ParentLookup ----------------------------
(***************************************************************************)
(* parent_lookup.c: the parents of an inode beyond the first are kept in   *)
(* pages of plookup2.  The first pages of the inodes with one hash value   *)
(* are chained by nextlookup, the pages of one inode by nextpage, the      *)
(* unused pages by gc_next.  Every operation runs under                    *)
(* pathlookup_data_lock.  The pages implement ParentTable.                 *)
(***************************************************************************)
EXTENDS ParentList, Sequences, SequencesExt, FiniteSets

CONSTANTS
  Inodes,                    \* inodes whose parents are recorded
  Parents,                   \* directories
  PLOOKUP_HASH_NUM_ENTRIES,
  MAX_PARENTS_PER_PAGE,
  MaxPages                   \* bound: pages in plookup2

ASSUME ParentLookupAssumption ==
  /\ Inodes \subseteq Nat \ {0} /\ Parents \subseteq Nat \ {0}
  /\ {PLOOKUP_HASH_NUM_ENTRIES, MAX_PARENTS_PER_PAGE, MaxPages} \subseteq Nat \ {0}

VARIABLE pl   \* prim and have (pathlookup_data), head and gc (the header of
              \* plookup2), page (its pages; 0 is the null position)

Hashes == 0..(PLOOKUP_HASH_NUM_ENTRIES - 1)
Hash(i) == i % PLOOKUP_HASH_NUM_ENTRIES
Pos == 1..MaxPages

NewPage(i, p) == [ino |-> i, par |-> <<p>>, nextlookup |-> 0, nextpage |-> 0, gc |-> 0]
FreedPage(g) == [ino |-> 0, par |-> <<>>, nextlookup |-> 0, nextpage |-> 0, gc |-> g]

(* The positions from start on, along next (which takes 0 to 0).           *)
Follow(start, next) ==
  LET f[k \in Pos] == IF k = 1 THEN start ELSE next[f[k - 1]]
  IN SelectSeq([k \in Pos |-> f[k]], LAMBDA x : x # 0)

Links(s, fld) ==
  [x \in 0..Len(s.page) |-> IF x = 0 THEN 0 ELSE s.page[x][fld]]
HashChain(s, h) == Follow(s.head[h], Links(s, "nextlookup"))

(* The first page of i, 0 if there is none, and all its pages.             *)
FirstPage(s, i) ==
  LET c == SelectSeq(HashChain(s, Hash(i)), LAMBDA x : s.page[x].ino = i)
  IN IF c = <<>> THEN 0 ELSE Head(c)
PagesOf(s, i) == Follow(FirstPage(s, i), Links(s, "nextpage"))
UnusedPages(s) == Follow(s.gc, Links(s, "gc"))

fetch_all_parents(s, i) ==
  [prim |-> s.prim[i],
   oth |-> LET pages == IF s.have[i] THEN Range(PagesOf(s, i)) ELSE {} IN
           [p \in Parents |->
              Cardinality({e \in pages \X (1..MAX_PARENTS_PER_PAGE) :
                /\ e[2] <= Len(s.page[e[1]].par) /\ s.page[e[1]].par[e[2]] = p})]]

-----------------------------------------------------------------------------
(* A page from the gc list or at the end of the file, holding p for i.     *)
alloc_new_page(s, i, p) ==
  IF s.gc # 0
  THEN [pos |-> s.gc,
        s |-> [s EXCEPT !.gc = s.page[s.gc].gc, !.page[s.gc] = NewPage(i, p)]]
  ELSE [pos |-> Len(s.page) + 1, s |-> [s EXCEPT !.page = Append(@, NewPage(i, p))]]

add_to_head(s, i, p) ==
  LET a == alloc_new_page(s, i, p) IN [a.s EXCEPT !.head[Hash(i)] = a.pos]

add_to_tail(s, i, p, prev) ==
  LET a == alloc_new_page(s, i, p) IN [a.s EXCEPT !.page[prev].nextlookup = a.pos]

add_new_page(s, i, p, prev) ==
  LET a == alloc_new_page(s, i, p) IN [a.s EXCEPT !.page[prev].nextpage = a.pos]

(* Variant for testing TypeOK: a full page takes one more parent.          *)
HasRoom_full(s, x) == Len(s.page[x].par) <= MAX_PARENTS_PER_PAGE

HasRoom(s, x) == Len(s.page[x].par) < MAX_PARENTS_PER_PAGE

(* The first page of the inode with room takes the parent.                 *)
lookup_add_parent(i, p) ==
  /\ pl.gc # 0 \/ Len(pl.page) < MaxPages
  /\ LET s == [pl EXCEPT !.have[i] = TRUE]
         chain == HashChain(s, Hash(i))
         pages == PagesOf(s, i)
         room == SelectSeq(pages, LAMBDA x : HasRoom(s, x))
     IN pl' = IF pl.prim[i] = 0 THEN [pl EXCEPT !.prim[i] = p]
              ELSE IF chain = <<>> THEN add_to_head(s, i, p)
              ELSE IF pages = <<>> THEN add_to_tail(s, i, p, Last(chain))
              ELSE IF room # <<>> THEN [s EXCEPT !.page[Head(room)].par = Append(@, p)]
              ELSE add_new_page(s, i, p, Last(pages))

-----------------------------------------------------------------------------
Before(chain, x) ==
  LET k == SelectInSeq(chain, LAMBDA y : y = x) IN IF k <= 1 THEN 0 ELSE chain[k - 1]

(* Variant for testing LookupRefines: the page that becomes the first of   *)
(* its inode does not take over the link to the other inodes.              *)
Unchain_forgets(s, i, x) ==
  LET pg == s.page[x]
      prevpage == Before(PagesOf(s, i), x)
      prevll == Before(HashChain(s, Hash(i)), x)
      Relink(r, y) == IF prevll = 0 THEN [r EXCEPT !.head[Hash(i)] = y]
                      ELSE [r EXCEPT !.page[prevll].nextlookup = y]
  IN CASE prevpage # 0 -> [s EXCEPT !.page[prevpage].nextpage = pg.nextpage]
       [] prevpage = 0 /\ pg.nextpage # 0 -> Relink(s, pg.nextpage)
       [] prevpage = 0 /\ pg.nextpage = 0 -> Relink([s EXCEPT !.have[i] = FALSE], pg.nextlookup)

(* The page x of i has become empty: it leaves the chains it is in ...     *)
Unchain(s, i, x) ==
  LET pg == s.page[x]
      prevpage == Before(PagesOf(s, i), x)
      prevll == Before(HashChain(s, Hash(i)), x)
      Relink(r, y) == IF prevll = 0 THEN [r EXCEPT !.head[Hash(i)] = y]
                      ELSE [r EXCEPT !.page[prevll].nextlookup = y]
  IN CASE prevpage # 0 -> [s EXCEPT !.page[prevpage].nextpage = pg.nextpage]
       [] prevpage = 0 /\ pg.nextpage # 0 ->
            Relink([s EXCEPT !.page[pg.nextpage].nextlookup = pg.nextlookup], pg.nextpage)
       [] prevpage = 0 /\ pg.nextpage = 0 ->
            Relink([s EXCEPT !.have[i] = FALSE], pg.nextlookup)

(* ... and goes to the head of the gc list.                                *)
Recycle(s, x) == [s EXCEPT !.page[x] = FreedPage(s.gc), !.gc = x]

DeleteOther(s, i, p) ==
  LET pages == PagesOf(s, i)
      with == SelectSeq(pages, LAMBDA x : Contains(s.page[x].par, p))
  IN IF pages = <<>> THEN [s EXCEPT !.have[i] = FALSE]
     ELSE IF with = <<>> THEN s
     ELSE LET x == Head(with) IN
          IF Len(s.page[x].par) > 1 THEN [s EXCEPT !.page[x].par = RemoveFirst(@, p)]
          ELSE Recycle(Unchain(s, i, x), x)

lookup_delete_parent(i, p) ==
  pl' = IF pl.prim[i] = p THEN [pl EXCEPT !.prim[i] = 0]
        ELSE IF ~pl.have[i] THEN pl
        ELSE DeleteOther(pl, i, p)

lookup_replace_parent(i, p, q) ==
  LET with == SelectSeq(PagesOf(pl, i), LAMBDA x : Contains(pl.page[x].par, p))
  IN pl' = IF pl.prim[i] = p THEN [pl EXCEPT !.prim[i] = q]
           ELSE IF ~pl.have[i] \/ with = <<>> THEN pl
           ELSE LET x == Head(with)
                    k == SelectInSeq(pl.page[x].par, LAMBDA y : y = p)
                IN [pl EXCEPT !.page[x].par[k] = q]

PLInit ==
  pl = [prim |-> [i \in Inodes |-> 0], have |-> [i \in Inodes |-> FALSE],
        head |-> [h \in Hashes |-> 0], gc |-> 0, page |-> <<>>]

PLNext ==
  \E i \in Inodes, p \in Parents :
    \/ lookup_add_parent(i, p)
    \/ lookup_delete_parent(i, p)
    \/ \E q \in Parents : lookup_replace_parent(i, p, q)

PLSpec == PLInit /\ [][PLNext]_pl

-----------------------------------------------------------------------------
PLTypeOK ==
  /\ pl.prim \in [Inodes -> Parents \cup {0}]
  /\ pl.have \in [Inodes -> BOOLEAN]
  /\ pl.head \in [Hashes -> 0..Len(pl.page)] /\ pl.gc \in 0..Len(pl.page)
  /\ \A x \in 1..Len(pl.page) :
       /\ pl.page[x].par \in Seq(Parents) /\ Len(pl.page[x].par) <= MAX_PARENTS_PER_PAGE
       /\ {pl.page[x].nextlookup, pl.page[x].nextpage, pl.page[x].gc}
            \subseteq 0..Len(pl.page)

(* The pages implement the abstract table.                                 *)
Abstract == INSTANCE ParentTable WITH
              parents <- [i \in Inodes |-> fetch_all_parents(pl, i)]

(* Whatever was added and deleted, every page of the file is reachable     *)
(* once: as a page of the inode written in it, or in the gc list.  A page  *)
(* in two chains would give an inode the parents of another, one in none   *)
(* would never be used again.                                              *)
PagesConserved ==
  \A x \in 1..Len(pl.page) :
    Cardinality({i \in Inodes : Contains(PagesOf(pl, i), x)})
      + (IF Contains(UnusedPages(pl), x) THEN 1 ELSE 0) = 1

(* lookup_add_parent, lookup_delete_parent, lookup_replace_parent: every   *)
(* operation on the pages adds, removes or replaces one parent of one      *)
(* inode and changes nothing for the others.                               *)
Implements == Abstract!Spec
=============================================================================
