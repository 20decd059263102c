------------------------------ MODULE PageTree ------------------------------
(***************************************************************************)
(* The tree of block pages of a file's metadata (metaops.c) and its twin   *)
(* in the progress file of an upload (atomic_tocloud.c): one direct page,  *)
(* then one to four levels of pointer pages.  A page is appended at the    *)
(* end of the file and then linked from a page read earlier.  Metadata is  *)
(* written with the inode locked.  Calls on the progress file flock() one  *)
(* descriptor that all threads share, which keeps none of them out.        *)
(***************************************************************************)
EXTENDS Integers, Sequences, SequencesExt, FiniteSets, FiniteSetsExt

CONSTANTS POINTERS_PER_PAGE, MAX_BLOCK_ENTRIES_PER_PAGE,
          TreeBlocks,         \* block numbers that are written
          TreeThreads,
          MaxTreeOps, MaxTreeFails, MaxTreeCrashes    \* bounds: calls, failed writes, crashes

ASSUME PageTreeAssumption ==
  POINTERS_PER_PAGE \in Nat \ {0} /\ MAX_BLOCK_ENTRIES_PER_PAGE \in Nat \ {0} /\ TreeBlocks \subseteq Nat

VARIABLE pt  \* meta, prog (trees), back (metadata in the cloud), act (of the progress
             \* file), th, bounds; what was stored: status, cloud, want (flags);
             \* known cases: overlap (two calls at once), torn (one end of file used twice)

-----------------------------------------------------------------------------
(* Places.                                                                 *)
longpow(base, power) == base ^ power
PageOf(b) == b \div MAX_BLOCK_ENTRIES_PER_PAGE
EntryOf(b) == (b % MAX_BLOCK_ENTRIES_PER_PAGE) + 1
BelowLevel == [l \in 0..5 |-> FoldLeft(LAMBDA n, i : n + longpow(POINTERS_PER_PAGE, i - 1), 0, [i \in 1..l |-> i])]

(* Variant for testing TreesExact: the last page of a level counted twice. *)
check_page_level_last(p) == Min({l \in 0..4 : p <= BelowLevel[l + 1]})

check_page_level(p) == Min({l \in 0..4 : p < BelowLevel[l + 1]})
Digit(p, count) ==
  (((p - BelowLevel[check_page_level(p)]) \div longpow(POINTERS_PER_PAGE, count)) % POINTERS_PER_PAGE) + 1

-----------------------------------------------------------------------------
(* A file: the five positions of its header, and its pages; 0 is no page.  *)
NewFile == [root |-> [l \in 0..4 |-> 0], pages |-> <<>>]
Empty(count) == IF count = 0 THEN [kind |-> "data", v |-> [e \in 1..MAX_BLOCK_ENTRIES_PER_PAGE |-> {}]]
                ELSE [kind |-> "ptr", v |-> [s \in 1..POINTERS_PER_PAGE |-> 0]]
_load_indirect(f, p, level) ==
  FoldLeft(LAMBDA pos, count : IF pos = 0 THEN 0 ELSE f.pages[pos].v[Digit(p, count)],
           f.root[level], [k \in 1..level |-> level - k])
seek_page(p) == _load_indirect(pt.meta, p, check_page_level(p))
seek_page2(f, p) == _load_indirect(f, p, check_page_level(p))
query_status_page(b) == _load_indirect(pt.prog, PageOf(b), check_page_level(PageOf(b)))
EntryAt(f, b) == LET pos == seek_page2(f, PageOf(b)) IN IF pos = 0 THEN {} ELSE f.pages[pos].v[EntryOf(b)]
get_progress_info(b) == LET pos == query_status_page(b)
                        IN IF pos = 0 THEN {} ELSE pt.prog.pages[pos].v[EntryOf(b)]

-----------------------------------------------------------------------------
(* create_page and create_status_page, from the header down.               *)
IdleTree == [pc |-> "idle", op |-> "write", b |-> 0, flag |-> "", at |-> 0, count |-> 0, copy |-> NewFile.root,
             new |-> 0, todo |-> <<>>]
FileOf(t) == IF pt.th[t].op = "write" THEN pt.meta ELSE pt.prog
Stored(r, t, f) == IF r.th[t].op = "write" THEN [r EXCEPT !.meta = f] ELSE [r EXCEPT !.prog = f]
TreeAt(t, pc) == pt.th[t].pc = pc /\ ~pt.torn
Slot(t) == IF pt.th[t].at = 0 THEN pt.th[t].count ELSE Digit(PageOf(pt.th[t].b), pt.th[t].count)
Node(t) == IF pt.th[t].at = 0 THEN FileOf(t).root ELSE FileOf(t).pages[pt.th[t].at].v
Begin(rec, op, b, flag) == [IdleTree EXCEPT !.pc = "walk", !.op = op, !.b = b, !.flag = flag,
                                            !.count = check_page_level(PageOf(b)), !.todo = rec]
Descend(rec, pos) == IF rec.count = 0 THEN [rec EXCEPT !.pc = "read", !.at = pos]
                     ELSE [rec EXCEPT !.pc = "walk", !.at = pos, !.count = @ - 1]

WalkDown(t) ==
  LET pos == Node(t)[Slot(t)]
  IN /\ TreeAt(t, "walk")
     /\ pt' = [pt EXCEPT !.th[t] = IF pos # 0 THEN Descend(@, pos) ELSE [@ EXCEPT !.pc = "append", !.copy = Node(t)]]

FindEnd(t) ==
  /\ TreeAt(t, "append")
  /\ pt' = [pt EXCEPT !.th[t].pc = "fill", !.th[t].new = Len(FileOf(t).pages) + 1]

(* NO_META_SPACE, or a write that fails: the call ends with what is linked. *)
NoTreeSpace(t) ==
  /\ TreeAt(t, "append") /\ pt.fails > 0
  /\ pt' = [pt EXCEPT !.th[t] = IdleTree, !.fails = @ - 1]

AppendPage(t) ==
  LET f == FileOf(t)
      new == pt.th[t].new
      page == Empty(pt.th[t].count)
  IN /\ TreeAt(t, "fill")
     /\ pt' = IF new > Len(f.pages)
              THEN [Stored(pt, t, [f EXCEPT !.pages = Append(@, page)]) EXCEPT !.th[t].pc = "link"]
              ELSE [pt EXCEPT !.torn = TRUE]

LinkPage(t) ==
  LET f == FileOf(t)
      node == [pt.th[t].copy EXCEPT ![Slot(t)] = pt.th[t].new]
      g == IF pt.th[t].at = 0 THEN [f EXCEPT !.root = node] ELSE [f EXCEPT !.pages[pt.th[t].at].v = node]
  IN /\ TreeAt(t, "link")
     /\ pt' = [Stored(pt, t, g) EXCEPT !.th[t] = Descend(@, pt.th[t].new)]

_create_indirect(t) == WalkDown(t) \/ FindEnd(t) \/ NoTreeSpace(t) \/ AppendPage(t) \/ LinkPage(t)

-----------------------------------------------------------------------------
(* Blocks of the file: a write, and a truncation.                          *)
NoMetaUser == \A t \in TreeThreads : pt.th[t].pc = "idle" \/ pt.th[t].op # "write"
create_page(t, b) ==
  /\ TreeAt(t, "idle") /\ NoMetaUser /\ pt.ops > 0
  /\ pt' = [pt EXCEPT !.ops = @ - 1, !.th[t] = Begin(<<>>, "write", b, "ST_LDISK")]
TruncateBlock(b) ==
  LET pos == seek_page(PageOf(b))
  IN /\ NoMetaUser /\ pt.ops > 0 /\ pos # 0
     /\ pt' = [pt EXCEPT !.ops = @ - 1, !.meta.pages[pos].v[EntryOf(b)] = {}, !.status[b] = {}]

(* The upload's progress file: filled from the metadata in the cloud, then *)
(* updated by the threads of the upload, then removed.                     *)
create_progress_file ==
  /\ pt.act = "none" /\ pt.ops > 0
  /\ pt' = [pt EXCEPT !.ops = @ - 1, !.act = "PREPARING", !.prog = NewFile]
CloudPages == SelectSeq(SetToSortSeq({PageOf(b) : b \in TreeBlocks}, <),
                LAMBDA p : LET pos == seek_page2(pt.back, p)
                           IN pos # 0 /\ \E e \in DOMAIN pt.back.pages[pos].v : pt.back.pages[pos].v[e] # {})
NowUploading(r) == [r EXCEPT !.act = "NOW_UPLOADING", !.want = [b \in TreeBlocks |-> IF r.cloud[b] = {} THEN {} ELSE {"cloud"}]]
init_progress_info(t) ==
  LET todo == CloudPages
  IN /\ pt.act = "PREPARING" /\ TreeAt(t, "idle")
     /\ pt' = IF todo = <<>> THEN NowUploading(pt)
              ELSE [pt EXCEPT !.act = "INIT",
                      !.th[t] = Begin(Tail(todo), "init", Head(todo) * MAX_BLOCK_ENTRIES_PER_PAGE, "")]
set_progress_info(t, b, flag) ==
  /\ pt.act = "NOW_UPLOADING" /\ TreeAt(t, "idle") /\ pt.ops > 0
  /\ pt' = [pt EXCEPT !.ops = @ - 1, !.th[t] = Begin(<<>>, "set", b, flag),
              !.overlap = @ \/ \E u \in TreeThreads : pt.th[u].pc # "idle" /\ pt.th[u].op = "set"]
ProgressIdle == \A t \in TreeThreads : pt.th[t].pc = "idle" \/ pt.th[t].op = "write"
del_progress_file ==
  /\ pt.act = "NOW_UPLOADING" /\ ProgressIdle /\ NoMetaUser /\ ~pt.torn
  /\ pt' = [pt EXCEPT !.act = "none", !.back = pt.meta, !.cloud = pt.status, !.overlap = FALSE]

(* The page as read, and written back with the entry changed.              *)
ReadEntry(t) ==
  /\ TreeAt(t, "read")
  /\ pt' = [pt EXCEPT !.th[t].pc = "put", !.th[t].copy = FileOf(t).pages[pt.th[t].at].v]
CloudFlags(p) == [e \in 1..MAX_BLOCK_ENTRIES_PER_PAGE |->
                   IF pt.back.pages[seek_page2(pt.back, p)].v[e] = {} THEN {} ELSE {"cloud"}]
PutEntry(t) ==
  LET w == pt.th[t]
      f == FileOf(t)
      page == CASE w.op = "init" -> CloudFlags(PageOf(w.b))
                [] w.op = "write" -> [w.copy EXCEPT ![EntryOf(w.b)] = {w.flag}]
                [] OTHER -> [w.copy EXCEPT ![EntryOf(w.b)] = @ \cup {w.flag}]
      r == [Stored(pt, t, [f EXCEPT !.pages[w.at].v = page]) EXCEPT !.th[t] = IdleTree]
  IN /\ TreeAt(t, "put")
     /\ pt' = CASE w.op = "write" -> [r EXCEPT !.status[w.b] = {w.flag}]
                [] w.op = "set" -> [r EXCEPT !.want[w.b] = @ \cup {w.flag}]
                [] OTHER -> IF w.todo = <<>> THEN NowUploading(r)
                            ELSE [r EXCEPT !.th[t] = Begin(Tail(w.todo), "init",
                                                           Head(w.todo) * MAX_BLOCK_ENTRIES_PER_PAGE, "")]

(* A restart: an upload still preparing is forgotten, another continues.   *)
TreeCrash ==
  /\ pt.crashes > 0 /\ ~pt.torn
  /\ pt' = [pt EXCEPT !.crashes = @ - 1, !.th = [t \in TreeThreads |-> IdleTree],
              !.act = IF @ \in {"PREPARING", "INIT"} THEN "none" ELSE @]

PTInit ==
  pt = [meta |-> NewFile, prog |-> NewFile, back |-> NewFile, act |-> "none", th |-> [t \in TreeThreads |-> IdleTree],
        ops |-> MaxTreeOps, fails |-> MaxTreeFails, crashes |-> MaxTreeCrashes,
        status |-> [b \in TreeBlocks |-> {}], cloud |-> [b \in TreeBlocks |-> {}],
        want |-> [b \in TreeBlocks |-> {}], overlap |-> FALSE, torn |-> FALSE]

PTNext ==
  \/ create_progress_file \/ del_progress_file \/ TreeCrash
  \/ \E b \in TreeBlocks : TruncateBlock(b)
  \/ \E t \in TreeThreads :
       \/ _create_indirect(t) \/ ReadEntry(t) \/ PutEntry(t) \/ init_progress_info(t)
       \/ \E b \in TreeBlocks : \/ create_page(t, b)
                                \/ \E flag \in {"toupload", "finish"} : set_progress_info(t, b, flag)

PTTypeOK ==
  /\ \A f \in {"meta", "prog", "back"} : pt[f].root \in [0..4 -> 0..Len(pt[f].pages)]
  /\ pt.act \in {"none", "PREPARING", "INIT", "NOW_UPLOADING"} /\ pt.ops \in 0..MaxTreeOps
  /\ \A t \in TreeThreads : pt.th[t].pc \in {"idle", "walk", "append", "fill", "link", "read", "put"}

-----------------------------------------------------------------------------
PageLinks(f) == {<<0, l>> : l \in {l \in 0..4 : f.root[l] # 0}}
            \cup {<<p, s>> \in (DOMAIN f.pages) \X (1..POINTERS_PER_PAGE) :
                    f.pages[p].kind = "ptr" /\ f.pages[p].v[s] # 0}
To(f, k) == IF k[1] = 0 THEN f.root[k[2]] ELSE f.pages[k[1]].v[k[2]]
Forest(f) == /\ \A k, j \in PageLinks(f) : k # j => To(f, k) # To(f, j)
             /\ \A k \in PageLinks(f) : k[1] < To(f, k) /\ To(f, k) \in DOMAIN f.pages
             /\ \A b \in TreeBlocks : LET pos == seek_page2(f, PageOf(b))
                                      IN pos # 0 => f.pages[pos].kind = "data"

(* Every block finds in the trees what was stored for it and nothing of    *)
(* another block, at every step of a write that is appending and linking   *)
(* pages, after a write that failed half-way and after a crash: no page is *)
(* linked twice, and a data page stands at the depth its number asks for.  *)
(* The progress file says the same of an upload unless two of its threads  *)
(* were in set_progress_info at once (the flock at atomic_tocloud.c:474    *)
(* keeps neither out).                                                     *)
TreesExact ==
  /\ Forest(pt.meta) /\ Forest(pt.back)
  /\ \A b \in TreeBlocks : EntryAt(pt.meta, b) = pt.status[b] /\ EntryAt(pt.back, b) = pt.cloud[b]
  /\ pt.torn => pt.overlap
  /\ pt.act # "none" /\ ~pt.torn => Forest(pt.prog)
  /\ pt.act = "NOW_UPLOADING" /\ ~pt.overlap => \A b \in TreeBlocks : get_progress_info(b) = pt.want[b]
=============================================================================
