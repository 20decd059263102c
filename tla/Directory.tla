------------------------------ MODULE Directory ------------------------------
(***************************************************************************)
(* The entries of one directory: the B-tree in its meta file               *)
(* (dir_entry_btree.c, dir_add_entry and dir_remove_entry of metaops.c)    *)
(* and its listing through open handles (filetables.c, hfuse_ll_readdir),  *)
(* which go on reading a snapshot of the meta file once the directory is   *)
(* changed.  Every operation holds the directory's meta cache entry.  Names *)
(* are numbers in their order; a page that is a leaf has no children.      *)
(***************************************************************************)
EXTENDS Naturals, Sequences, SequencesExt, FiniteSets

CONSTANTS MAX_DIR_ENTRIES_PER_PAGE, MIN_DIR_ENTRIES_PER_PAGE,
          FileNames,     \* names that may be added or removed freely
          DirCases,      \* [hist, ops, opens]: additions (n, TRUE) and removals
                         \* (n, FALSE) that come first, and the bounds of what follows
          DirHandles,
          MaxListed      \* bound: entries that fit into the buffer of a request

(* meta.h asks for MIN < MAX / 2 only; with MAX / 2 = MIN + 1 the pages    *)
(* pooled by rebalance_btree may need rebalancing again, without end.      *)
ASSUME DirectoryAssumption ==
  /\ MIN_DIR_ENTRIES_PER_PAGE \in Nat \ {0} /\ MAX_DIR_ENTRIES_PER_PAGE \in Nat
  /\ MAX_DIR_ENTRIES_PER_PAGE \div 2 >= MIN_DIR_ENTRIES_PER_PAGE + 2

VARIABLE dt  \* t (the tree: page, root, walk, gc), hist, ops, opens, nonsnap
             \* (have_nonsnap_dir), h (handles), hung (a reader waits for ever with
             \* the directory locked); histories: names, stale (a link of the walk
             \* list was written back), ub (a page position never set was used)

Page(ent, ch) == [ent |-> ent, ch |-> ch, next |-> 0, prev |-> 0, gc |-> 0]
IsLeaf(t, x) == t.page[x].ch = <<>>

(* dentry_binary_search: where n is, or where it would be inserted.        *)
dentry_binary_search(ent, n) == Cardinality({i \in 1..Len(ent) : ent[i] < n}) + 1
Found(ent, n) == Contains(ent, n)

RECURSIVE search_dir_entry_btree(_, _, _)
search_dir_entry_btree(t, x, n) ==
  LET pg == t.page[x] IN
  IF Found(pg.ent, n) THEN x
  ELSE IF IsLeaf(t, x) THEN 0
  ELSE search_dir_entry_btree(t, pg.ch[dentry_binary_search(pg.ent, n)], n)

(* A page from the gc list or at the end of the file, at the head of the   *)
(* walk list.                                                              *)
NewPos(t) == IF t.gc # 0 THEN t.gc ELSE Len(t.page) + 1
AddPage(t, pg) ==
  LET x == NewPos(t)
      new == [pg EXCEPT !.next = t.walk]
      s == IF t.gc # 0 THEN [t EXCEPT !.gc = t.page[x].gc, !.page[x] = new]
           ELSE [t EXCEPT !.page = Append(@, new)]
  IN [s EXCEPT !.page[t.walk].prev = x, !.walk = x]

Lower(s, k) == SubSeq(s, 1, IF s = <<>> THEN 0 ELSE k)
Upper(s, k) == SubSeq(s, k + 1, Len(s))

(* Page x, with one entry too many, keeps the lower half.                  *)
Split(t, x, ent, ch) ==
  LET m == (MAX_DIR_ENTRIES_PER_PAGE + 1) \div 2
      s == [t EXCEPT !.page[x].ent = Lower(ent, m), !.page[x].ch = Lower(ch, m + 1)]
  IN [t |-> AddPage(s, Page(Upper(ent, m + 1), Upper(ch, m + 1))),
      over |-> TRUE, med |-> ent[m + 1], new |-> NewPos(t), ub |-> FALSE]

Done(t) == [t |-> t, over |-> FALSE, med |-> 0, new |-> 0, ub |-> FALSE]

(* The split of an inner page: when the overflow came from its first child *)
(* the position of that child is not copied to temp_child_page_pos.        *)
RECURSIVE insert_dir_entry_btree(_, _, _)
insert_dir_entry_btree(t, x, n) ==
  LET pg == t.page[x]
      k == dentry_binary_search(pg.ent, n)
      full == Len(pg.ent) = MAX_DIR_ENTRIES_PER_PAGE
  IN IF IsLeaf(t, x)
     THEN LET ent == InsertAt(pg.ent, k, n) IN
          IF full THEN Split(t, x, ent, <<>>) ELSE Done([t EXCEPT !.page[x].ent = ent])
     ELSE LET o == insert_dir_entry_btree(t, pg.ch[k], n)
              ent == InsertAt(pg.ent, k, o.med)
              ch == InsertAt(pg.ch, k + 1, o.new)
          IN IF ~o.over THEN o
             ELSE IF ~full
                  THEN [Done([o.t EXCEPT !.page[x].ent = ent, !.page[x].ch = ch]) EXCEPT !.ub = o.ub]
             ELSE [Split(o.t, x, ent, ch) EXCEPT !.ub = o.ub \/ k = 1]

(* Whether the leaf where n goes must be split (the one place where        *)
(* NO_META_SPACE is looked at, before anything is written).                *)
RECURSIVE LeafFull(_, _, _)
LeafFull(t, x, n) ==
  LET pg == t.page[x] IN
  IF IsLeaf(t, x) THEN Len(pg.ent) = MAX_DIR_ENTRIES_PER_PAGE
  ELSE LeafFull(t, pg.ch[dentry_binary_search(pg.ent, n)], n)

-----------------------------------------------------------------------------
(* Variant for testing DirectorySound: the head of the walk list stays.    *)
DropPage_head(t, p) ==
  LET pg == t.page[p]
      v == IF pg.next = 0 THEN t ELSE [t EXCEPT !.page[pg.next].prev = pg.prev]
      w == IF pg.prev = 0 THEN v ELSE [v EXCEPT !.page[pg.prev].next = pg.next]
  IN [w EXCEPT !.page[p] = [Page(<<>>, <<>>) EXCEPT !.gc = t.gc], !.gc = p]

(* Page p leaves the walk list and becomes the head of the gc list.        *)
DropPage(t, p) ==
  LET pg == t.page[p]
      u == [t EXCEPT !.walk = IF @ = p THEN pg.next ELSE @]
      v == IF pg.next = 0 THEN u ELSE [u EXCEPT !.page[pg.next].prev = pg.prev]
      w == IF pg.prev = 0 THEN v ELSE [v EXCEPT !.page[pg.prev].next = pg.next]
  IN [w EXCEPT !.page[p] = [Page(<<>>, <<>>) EXCEPT !.gc = t.gc], !.gc = p]

(* The entries and the children of children l and l + 1 of page x, with   *)
(* the entry between them.                                                 *)
Pooled(t, x, l) ==
  LET pg == t.page[x]
      L == t.page[pg.ch[l]]
      R == t.page[pg.ch[l + 1]]
  IN [ent |-> L.ent \o <<pg.ent[l]>> \o R.ent, ch |-> L.ch \o R.ch]

(* All goes to the left page; a page that loses its only entry is dropped  *)
(* as well, and the left page becomes the root.                            *)
MergeChildren(t, x, l) ==
  LET pg == t.page[x]
      p == Pooled(t, x, l)
      L == pg.ch[l]
      merged == DropPage([t EXCEPT !.page[L].ent = p.ent, !.page[L].ch = p.ch], pg.ch[l + 1])
  IN IF Len(pg.ent) = 1
     THEN [t |-> [DropPage(merged, x) EXCEPT !.root = L], res |-> 2]
     ELSE [t |-> [merged EXCEPT !.page[x].ent = RemoveAt(@, l),
                                !.page[x].ch = RemoveAt(@, l + 1)], res |-> 1]

PoolChildren(t, x, l) ==
  LET p == Pooled(t, x, l)
      L == t.page[x].ch[l]
      R == t.page[x].ch[l + 1]
      m == Len(p.ent) \div 2
  IN [t |-> [t EXCEPT !.page[L].ent = Lower(p.ent, m), !.page[L].ch = Lower(p.ch, m + 1),
                      !.page[R].ent = Upper(p.ent, m + 1), !.page[R].ch = Upper(p.ch, m + 1),
                      !.page[x].ent[l] = p.ent[m + 1]], res |-> 1]

(* Child k of page x, when it is small, is merged or pooled with a sibling. *)
rebalance_btree(t, x, k) ==
  LET pg == t.page[x]
      l == IF k = Len(pg.ent) + 1 THEN k - 1 ELSE k
      Size(i) == Len(t.page[pg.ch[i]].ent)
      sibling == IF k = l THEN l + 1 ELSE l
  IN IF Size(k) > MIN_DIR_ENTRIES_PER_PAGE THEN [t |-> t, res |-> 0]
     ELSE IF Size(sibling) < MAX_DIR_ENTRIES_PER_PAGE \div 2 THEN MergeChildren(t, x, l)
     ELSE PoolChildren(t, x, l)

RECURSIVE extract_largest_child(_, _)
extract_largest_child(t, x) ==
  LET pg == t.page[x]
      b == rebalance_btree(t, x, Len(pg.ent) + 1)
  IN IF IsLeaf(t, x)
     THEN [t |-> [t EXCEPT !.page[x].ent = Front(@)], max |-> Last(pg.ent)]
     ELSE CASE b.res = 2 -> extract_largest_child(b.t, b.t.root)
            [] b.res = 1 -> extract_largest_child(b.t, x)
            [] b.res = 0 -> extract_largest_child(t, Last(pg.ch))

(* The entry of an inner page is replaced by the largest one below it, and *)
(* the page, read before that one was extracted, is written.               *)
Replace(t, x, k) ==
  LET pg == t.page[x]
      e == extract_largest_child(t, pg.ch[k])
      now == e.t.page[x]
  IN [t |-> [e.t EXCEPT !.page[x] = [pg EXCEPT !.ent[k] = e.max]],
      stale |-> <<now.next, now.prev>> # <<pg.next, pg.prev>>]

RECURSIVE delete_dir_entry_btree(_, _, _)
delete_dir_entry_btree(t, x, n) ==
  LET pg == t.page[x]
      k == dentry_binary_search(pg.ent, n)
      b == rebalance_btree(t, x, k)
  IN IF IsLeaf(t, x)
     THEN [t |-> [t EXCEPT !.page[x].ent = RemoveAt(@, k)], stale |-> FALSE]
     ELSE CASE b.res = 2 -> delete_dir_entry_btree(b.t, b.t.root, n)
            [] b.res = 1 -> delete_dir_entry_btree(b.t, x, n)
            [] b.res = 0 /\ Found(pg.ent, n) -> Replace(t, x, k)
            [] b.res = 0 /\ ~Found(pg.ent, n) -> delete_dir_entry_btree(t, pg.ch[k], n)

-----------------------------------------------------------------------------
(* Handles.  A listing: from (the entries when it began), got (what it was *)
(* given), at (the page and the entry where it goes on).                   *)
NoSnapshot == [page |-> <<>>, walk |-> 0]
NewHandle(mine) ==
  [open |-> TRUE, mine |-> mine, snap |-> NoSnapshot, ref |-> 0,
   from |-> {}, got |-> <<>>, at |-> <<0, 0>>, begun |-> FALSE, ended |-> FALSE]
Closed == [NewHandle(TRUE) EXCEPT !.open = FALSE]
HasSnap(h) == dt.h[h].snap # NoSnapshot

open_fh(h, mine) ==
  /\ ~dt.h[h].open /\ dt.opens > 0
  /\ dt' = [dt EXCEPT !.h[h] = NewHandle(mine), !.nonsnap = TRUE, !.opens = @ - 1]

close_fh(h) == dt.h[h].open /\ dt' = [dt EXCEPT !.h[h] = Closed]

(* Before the directory changes, its open handles get a snapshot.          *)
handle_dirmeta_snapshot(r) ==
  LET plain == {h \in DirHandles : r.h[h].open /\ r.h[h].snap = NoSnapshot}
      mine == {h \in plain : r.h[h].mine}
      snap == [page |-> r.t.page, walk |-> r.t.walk]
  IN IF ~r.nonsnap THEN r
     ELSE [r EXCEPT !.h = [h \in DirHandles |->
                             IF h \in mine THEN [@[h] EXCEPT !.snap = snap, !.ref = 0]
                             ELSE @[h]],
                    !.nonsnap = (plain # mine)]

(* The root was split: a new one above its halves.                         *)
NewRoot(o) == [AddPage(o.t, Page(<<o.med>>, <<o.t.root, o.new>>)) EXCEPT !.root = NewPos(o.t)]

dir_add_entry(r, n) ==
  LET s == handle_dirmeta_snapshot(r)
      o == insert_dir_entry_btree(s.t, s.t.root, n)
  IN [s EXCEPT !.t = IF o.over THEN NewRoot(o) ELSE o.t,
               !.names = @ \cup {n}, !.ub = o.ub]

dir_remove_entry(r, n) ==
  LET s == handle_dirmeta_snapshot(r)
      d == delete_dir_entry_btree(s.t, s.t.root, n)
  IN [s EXCEPT !.t = d.t, !.names = @ \ {n}, !.stale = d.stale]

(* The history, then additions and removals as names are there or not.     *)
TreeChange(r, n, add) == IF add THEN dir_add_entry(r, n) ELSE dir_remove_entry(r, n)
Replay ==
  /\ dt.hist # <<>>
  /\ dt' = [TreeChange(dt, Head(dt.hist)[1], Head(dt.hist)[2]) EXCEPT !.hist = Tail(@)]
Update(n) ==
  /\ dt.hist = <<>> /\ dt.ops > 0
  /\ \/ dt' = [TreeChange(dt, n, n \notin dt.names) EXCEPT !.ops = @ - 1]
     \/ (* NO_META_SPACE: only the snapshots are taken                     *)
        /\ n \notin dt.names /\ dt.t.gc = 0 /\ LeafFull(dt.t, dt.t.root, n)
        /\ dt' = [handle_dirmeta_snapshot(dt) EXCEPT !.ops = @ - 1]

(* The entries from one place on, along the walk list, with where to go on *)
(* after each.                                                             *)
RECURSIVE EntriesFrom(_, _, _)
EntriesFrom(page, x, k) ==
  IF x = 0 THEN <<>>
  ELSE [i \in 1..(Len(page[x].ent) - k) |-> [name |-> page[x].ent[k + i], at |-> <<x, k + i>>]]
       \o EntriesFrom(page, page[x].next, 0)

(* A request for the entries at the beginning (offset 0) or from where the *)
(* last one ended, with room for size entries.  One that fills its buffer  *)
(* returns without giving back its reference on the snapshot.              *)
hfuse_ll_readdir(h, begin, size) ==
  LET d == dt.h[h]
      use_snap == HasSnap(h) /\ ~begin
      source == IF use_snap THEN d.snap ELSE [page |-> dt.t.page, walk |-> dt.t.walk]
      start == IF begin THEN <<source.walk, 0>> ELSE d.at
      rest == EntriesFrom(source.page, start[1], start[2])
      n == IF size < Len(rest) THEN size ELSE Len(rest)
      g == IF begin
           THEN [d EXCEPT !.snap = NoSnapshot, !.from = dt.names, !.got = <<>>, !.begun = TRUE]
           ELSE d
  IN /\ d.open /\ d.mine /\ dt.hist = <<>>
     /\ begin \/ (d.begun /\ ~d.ended)
     /\ IF begin /\ HasSnap(h) /\ d.ref > 0
        THEN dt' = [dt EXCEPT !.hung = TRUE]
        ELSE dt' = [dt EXCEPT
               !.nonsnap = @ \/ (begin /\ HasSnap(h)),
               !.h[h] = [g EXCEPT
                  !.got = @ \o [i \in 1..n |-> rest[i].name],
                  !.at = IF n = 0 THEN start ELSE rest[n].at,
                  !.ended = (n = 0),
                  !.ref = IF use_snap /\ n < Len(rest) THEN @ + 1 ELSE @]]

DTInit ==
  \E b \in DirCases :
    dt = [t |-> [page |-> <<Page(<<>>, <<>>)>>, root |-> 1, walk |-> 1, gc |-> 0],
          hist |-> b.hist, ops |-> b.ops, opens |-> b.opens, nonsnap |-> FALSE,
          h |-> [h \in DirHandles |-> Closed], hung |-> FALSE, names |-> {},
          stale |-> FALSE, ub |-> FALSE]

DTNext ==
  /\ ~dt.ub /\ ~dt.stale /\ ~dt.hung
  /\ \/ Replay
     \/ \E n \in FileNames : Update(n)
     \/ \E h \in DirHandles :
          \/ dt.hist = <<>> /\ \E mine \in BOOLEAN : open_fh(h, mine)
          \/ close_fh(h)
          \/ \E begin \in BOOLEAN, size \in 1..MaxListed : hfuse_ll_readdir(h, begin, size)

-----------------------------------------------------------------------------
DTTypeOK ==
  /\ dt.t.root \in 1..Len(dt.t.page)
  /\ {dt.t.walk, dt.t.gc} \subseteq 0..Len(dt.t.page)
  /\ \A h \in DirHandles : dt.h[h].open \/ dt.h[h] = Closed

RECURSIVE InOrder(_, _)
InOrder(t, x) ==
  LET pg == t.page[x] IN
  IF IsLeaf(t, x) THEN pg.ent
  ELSE FlattenSeq([i \in 1..(2 * Len(pg.ent) + 1) |->
         IF i % 2 = 1 THEN InOrder(t, pg.ch[(i + 1) \div 2]) ELSE <<pg.ent[i \div 2]>>])

RECURSIVE PagesBelow(_, _)
PagesBelow(t, x) == {x} \cup UNION {PagesBelow(t, c) : c \in ToSet(t.page[x].ch)}

RECURSIVE Depths(_, _)
Depths(t, x) ==
  IF IsLeaf(t, x) THEN {1} ELSE {d + 1 : d \in UNION {Depths(t, c) : c \in ToSet(t.page[x].ch)}}

RECURSIVE Along(_, _, _, _)
Along(t, x, link, n) ==
  IF x = 0 \/ n = 0 THEN <<>> ELSE <<x>> \o Along(t, t.page[x][link], link, n - 1)
PageChain(t, x, link) == Along(t, x, link, Len(t.page) + 1)

(* The tree holds exactly the names added and not removed, in order, all   *)
(* leaves at one depth, and the search finds each.                         *)
TreeExact ==
  /\ LET s == InOrder(dt.t, dt.t.root)
     IN ToSet(s) = dt.names /\ \A i \in 2..Len(s) : s[i - 1] < s[i]
  /\ Cardinality(Depths(dt.t, dt.t.root)) = 1
  /\ \A n \in dt.names : search_dir_entry_btree(dt.t, dt.t.root, n) # 0

(* "Tree walk pointers are also updated" (rebalance_btree): the walk list  *)
(* that every listing follows holds each page of the tree once, the gc     *)
(* list the others.                                                        *)
WalkExact ==
  LET walk == PageChain(dt.t, dt.t.walk, "next")
      free == PageChain(dt.t, dt.t.gc, "gc")
  IN /\ ToSet(walk) = PagesBelow(dt.t, dt.t.root) /\ IsInjective(walk)
     /\ \A i \in 1..Len(walk) : dt.t.page[walk[i]].prev = IF i = 1 THEN 0 ELSE walk[i - 1]
     /\ ToSet(free) = (1..Len(dt.t.page)) \ ToSet(walk) /\ IsInjective(free)

(* A listing read to its end gave every entry the directory had when it    *)
(* began, once, whatever was added and removed meanwhile.                  *)
ListingExact ==
  \A h \in DirHandles : dt.h[h].ended => IsInjective(dt.h[h].got) /\ ToSet(dt.h[h].got) = dt.h[h].from

(* What holds of a directory in which none of the three known defects was  *)
(* met (a position never set, a link written back, a reference kept).      *)
DirectorySound == (~dt.ub => TreeExact /\ (~dt.stale => WalkExact)) /\ ListingExact
=============================================================================
