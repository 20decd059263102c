--------------------------- MODULE ComponentProofs ---------------------------
(***************************************************************************)
(* Proofs about components that Components runs: the table of cached       *)
(* metadata entries (MetaCache), the directory pages an entry keeps        *)
(* (DirPageCache) and the deletion of inodes from the cloud (CloudDelete), *)
(* for any number of threads, inodes, buckets, pages, blocks, failures and *)
(* restarts.                                                               *)
(***************************************************************************)
EXTENDS MetaCache, DirPageCache, CloudDelete, LinkedListProofs, FiniteSetTheorems,
        WellFoundedInduction

-----------------------------------------------------------------------------
(***************************************************************************)
(* Directory pages.                                                        *)
(***************************************************************************)
PageRec == [pos : DirPages, val : Contents, dirty : BOOLEAN]
DirCacheRec == [slot : Seq(PageRec), file : [DirPages -> Contents],
                last : [DirPages -> Contents], lost : SUBSET DirPages]

Holding(r, p) == {k \in DOMAIN r.slot : r.slot[k].pos = p}

(* A lookup of page p finds v.                                             *)
Finds(r, p, v) ==
  IF Holding(r, p) = {} THEN r.file[p] = v
  ELSE \A k \in Holding(r, p) : r.slot[k].val = v

(* The pages are sound, and a lookup of a page of P finds its last         *)
(* content.                                                                *)
Coherent(r, P) ==
  /\ r \in DirCacheRec /\ Len(r.slot) <= 2
  /\ \A j, k \in DOMAIN r.slot : r.slot[j].pos = r.slot[k].pos => j = k
  /\ \A k \in DOMAIN r.slot : r.slot[k].dirty \/ r.slot[k].val = r.file[r.slot[k].pos]
  /\ \A p \in P : Finds(r, p, r.last[p])

(* What the type says of the cached pages.                                 *)
LEMMA SlotTypes ==
  ASSUME NEW r \in DirCacheRec
  PROVE  /\ r.slot \in Seq(PageRec) /\ DOMAIN r.slot = 1..Len(r.slot) /\ Len(r.slot) \in Nat
         /\ \A k \in DOMAIN r.slot :
              r.slot[k] \in PageRec /\ r.slot[k].pos \in DirPages /\ r.slot[k].val \in Contents
<1>1. r.slot \in Seq(PageRec)
  BY DEF DirCacheRec
<1>2. \A k \in DOMAIN r.slot : r.slot[k] \in PageRec
  BY <1>1
<1>3. \A x \in PageRec : x.pos \in DirPages /\ x.val \in Contents
  BY DEF PageRec
<1> QED
  BY <1>1, <1>2, <1>3

(* A page that is not cached comes in, the oldest one goes out: the others *)
(* are found as before.                                                    *)
LEMMA PushCoherent ==
  ASSUME NEW r, NEW P \in SUBSET DirPages, Coherent(r, P),
         NEW page \in PageRec, Holding(r, page.pos) = {},
         page.dirty \/ page.val = r.file[page.pos]
  PROVE  LET n == meta_cache_push_dir_page(r, page) IN
         /\ Coherent(n, P \ {page.pos})
         /\ n.last = r.last /\ n.lost = r.lost
         /\ Finds(n, page.pos, page.val)
         /\ Len(n.slot) >= 1 /\ n.slot[1] = page
<1> DEFINE q == IF Len(r.slot) = 2 /\ r.slot[2].dirty THEN meta_cache_flush_dir_cache(r, 2) ELSE r
           n == meta_cache_push_dir_page(r, page)
<1>1. r \in DirCacheRec /\ Len(r.slot) \in {0, 1, 2} /\ r.slot \in Seq(PageRec) /\ DOMAIN r.slot = 1..Len(r.slot)
  <2>1. r \in DirCacheRec /\ Len(r.slot) <= 2
    BY DEF Coherent
  <2>2. Len(r.slot) \in Nat
    BY <2>1, SlotTypes
  <2>a. \A x \in Nat : x <= 2 => x \in {0, 1, 2}
    OBVIOUS
  <2>3. Len(r.slot) \in {0, 1, 2}
    BY <2>1, <2>2, <2>a
  <2>4. r.slot \in Seq(PageRec) /\ DOMAIN r.slot = 1..Len(r.slot)
    BY <2>1, SlotTypes
  <2> QED
    BY <2>1, <2>3, <2>4
<1>2. \A k \in DOMAIN r.slot : r.slot[k] \in PageRec /\ r.slot[k].pos \in DirPages /\ r.slot[k].pos # page.pos
  BY <1>1, SlotTypes DEF Holding
<1>3. /\ q \in DirCacheRec /\ q.slot = r.slot /\ q.last = r.last /\ q.lost = r.lost
      /\ \A p \in DirPages : (Len(r.slot) # 2 \/ p # r.slot[2].pos) => q.file[p] = r.file[p]
      /\ Len(r.slot) = 2 => q.file[r.slot[2].pos] = r.slot[2].val
  <2>1. CASE Len(r.slot) = 2 /\ r.slot[2].dirty
    <3>1. r.slot[2] \in PageRec
      BY <1>1, <1>2, <2>1
    <3>2. q = [r EXCEPT !.file[r.slot[2].pos] = r.slot[2].val]
      BY <2>1 DEF meta_cache_flush_dir_cache
    <3> QED
      BY <1>1, <2>1, <3>1, <3>2 DEF DirCacheRec, PageRec
  <2>2. CASE ~(Len(r.slot) = 2 /\ r.slot[2].dirty)
    <3>1. q = r
      BY <2>2
    <3> QED
      BY <1>1, <2>2, <3>1 DEF Coherent
  <2> QED
    BY <2>1, <2>2
<1>4. n = [q EXCEPT !.slot = IF r.slot = <<>> THEN <<page>> ELSE <<page, r.slot[1]>>]
  BY <1>3 DEF meta_cache_push_dir_page, _push_page_entry
<1> HIDE DEF q, n
<1>5. /\ n.file = q.file /\ n.last = r.last /\ n.lost = r.lost
      /\ n.slot = IF r.slot = <<>> THEN <<page>> ELSE <<page, r.slot[1]>>
  BY <1>3, <1>4 DEF DirCacheRec
<1>6. CASE Len(r.slot) = 0
  <2>1. n.slot = <<page>> /\ DOMAIN r.slot = {} /\ r.slot = <<>>
    BY <1>1, <1>5, <1>6
  <2>2. n.slot \in Seq(PageRec) /\ DOMAIN n.slot = {1} /\ Len(n.slot) = 1 /\ n.slot[1] = page
    BY <2>1
  <2>3. n \in DirCacheRec
    BY <1>3, <1>4, <2>1, <2>2 DEF DirCacheRec
  <2>4. \A p \in DirPages : q.file[p] = r.file[p]
    BY <1>3, <1>6
  <2>5. Finds(n, page.pos, page.val)
    BY <2>2 DEF Finds, Holding
  <2>6. \A p \in P \ {page.pos} : Finds(n, p, n.last[p])
    BY <1>5, <2>1, <2>2, <2>4 DEF Finds, Holding, Coherent
  <2> QED
    BY <1>5, <2>2, <2>3, <2>4, <2>5, <2>6 DEF Coherent, PageRec, n
<1>7. CASE Len(r.slot) \in {1, 2}
  <2>1. n.slot = <<page, r.slot[1]>> /\ 1 \in DOMAIN r.slot /\ r.slot[1] \in PageRec
    BY <1>1, <1>2, <1>5, <1>7
  <2>2. /\ n.slot \in Seq(PageRec) /\ DOMAIN n.slot = {1, 2} /\ Len(n.slot) = 2
        /\ n.slot[1] = page /\ n.slot[2] = r.slot[1]
    BY <2>1
  <2>3. n \in DirCacheRec
    BY <1>3, <1>4, <1>5, <2>1, <2>2 DEF DirCacheRec
  <2>4. q.file[page.pos] = r.file[page.pos] /\ q.file[r.slot[1].pos] = r.file[r.slot[1].pos]
    BY <1>1, <1>2, <1>3, <1>7, <2>1 DEF Coherent, PageRec
  <2>5. page.pos # r.slot[1].pos
    BY <1>2, <2>1
  <2>6. Finds(n, page.pos, page.val)
    BY <2>2, <2>5 DEF Finds, Holding
  <2>7. ASSUME NEW p \in P \ {page.pos} PROVE Finds(n, p, r.last[p])
    <3>1. CASE p = r.slot[1].pos
      BY <2>1, <2>2, <2>5, <3>1 DEF Finds, Holding, Coherent
    <3>2. CASE p # r.slot[1].pos /\ Len(r.slot) = 2 /\ p = r.slot[2].pos
      <4>1. Holding(n, p) = {} /\ 2 \in Holding(r, p)
        BY <1>1, <2>2, <3>2 DEF Holding
      <4>2. r.slot[2].val = r.last[p]
        BY <4>1 DEF Coherent, Finds
      <4>3. n.file[p] = r.slot[2].val
        BY <1>3, <1>5, <3>2
      <4> QED
        BY <4>1, <4>2, <4>3 DEF Finds
    <3>3. CASE p # r.slot[1].pos /\ (Len(r.slot) # 2 \/ p # r.slot[2].pos)
      <4>1. Holding(n, p) = {} /\ Holding(r, p) = {}
        BY <1>1, <1>7, <2>2, <3>3 DEF Holding
      <4>2. n.file[p] = r.file[p]
        BY <1>3, <1>5, <3>3
      <4> QED
        BY <4>1, <4>2 DEF Finds, Coherent
    <3> QED
      BY <3>1, <3>2, <3>3
  <2>8. \A k \in DOMAIN n.slot : n.slot[k].dirty \/ n.slot[k].val = n.file[n.slot[k].pos]
    BY <1>5, <2>1, <2>2, <2>4 DEF Coherent
  <2>9. \A j, k \in DOMAIN n.slot : n.slot[j].pos = n.slot[k].pos => j = k
    BY <2>2, <2>5
  <2>10. Coherent(n, P \ {page.pos})
    BY <1>5, <2>2, <2>3, <2>7, <2>8, <2>9 DEF Coherent
  <2> QED
    BY <1>5, <2>2, <2>6, <2>10 DEF n
<1> QED
  BY <1>1, <1>6, <1>7

(* Writing a dirty page to the file changes what no lookup finds.          *)
LEMMA SyncCoherent ==
  ASSUME NEW r, NEW P \in SUBSET DirPages, Coherent(r, P), NEW k \in {1, 2}
  PROVE  /\ Coherent(_cache_sync(r, k), P)
         /\ _cache_sync(r, k).last = r.last /\ _cache_sync(r, k).lost = r.lost
<1>1. CASE k \notin DOMAIN r.slot \/ ~r.slot[k].dirty
  BY <1>1 DEF _cache_sync
<1>2. CASE k \in DOMAIN r.slot /\ r.slot[k].dirty
  <2> DEFINE n == _cache_sync(r, k)
  <2>1. r \in DirCacheRec /\ r.slot[k] \in PageRec /\ DOMAIN r.slot = 1..Len(r.slot)
    BY <1>2 DEF Coherent, DirCacheRec
  <2>2. n = [r EXCEPT !.file[r.slot[k].pos] = r.slot[k].val, !.slot[k].dirty = FALSE]
    BY <1>2 DEF _cache_sync
  <2> HIDE DEF n
  <2>3. /\ n.last = r.last /\ n.lost = r.lost
        /\ n.file = [r.file EXCEPT ![r.slot[k].pos] = r.slot[k].val]
        /\ n.slot = [r.slot EXCEPT ![k] = [r.slot[k] EXCEPT !.dirty = FALSE]]
    BY <2>1, <2>2 DEF DirCacheRec
  <2>4. /\ n.slot \in Seq(PageRec) /\ DOMAIN n.slot = DOMAIN r.slot /\ Len(n.slot) = Len(r.slot)
        /\ \A j \in DOMAIN r.slot : n.slot[j].pos = r.slot[j].pos /\ n.slot[j].val = r.slot[j].val
        /\ \A j \in DOMAIN r.slot \ {k} : n.slot[j] = r.slot[j]
    <3>1. [r.slot[k] EXCEPT !.dirty = FALSE] \in PageRec
      BY <2>1 DEF PageRec
    <3>2. r.slot \in Seq(PageRec)
      BY <2>1 DEF DirCacheRec
    <3> QED
      BY <1>2, <2>1, <2>3, <3>1, <3>2 DEF PageRec
  <2>5. r.slot[k].pos \in DirPages /\ r.slot[k].val \in Contents
    BY <2>1 DEF PageRec
  <2>6. n \in DirCacheRec
    BY <2>1, <2>2, <2>3, <2>4, <2>5 DEF DirCacheRec
  <2>7. \A p \in DirPages : n.file[p] = IF p = r.slot[k].pos THEN r.slot[k].val ELSE r.file[p]
    BY <2>1, <2>3 DEF DirCacheRec
  <2>8. \A j \in DOMAIN n.slot : n.slot[j].dirty \/ n.slot[j].val = n.file[n.slot[j].pos]
    <3> SUFFICES ASSUME NEW j \in DOMAIN n.slot PROVE n.slot[j].dirty \/ n.slot[j].val = n.file[n.slot[j].pos]
      OBVIOUS
    <3>0. r.slot[j].pos \in DirPages
      BY <2>1, <2>4, SlotTypes
    <3>1. CASE j = k
      BY <2>4, <2>5, <2>7, <3>1
    <3>2. CASE j # k
      BY <1>2, <2>4, <2>7, <3>0, <3>2 DEF Coherent
    <3> QED
      BY <3>1, <3>2
  <2>9. ASSUME NEW p \in P PROVE Finds(n, p, r.last[p])
    <3>1. Holding(n, p) = Holding(r, p)
      BY <2>4 DEF Holding
    <3>2. CASE Holding(r, p) = {}
      <4>1. p # r.slot[k].pos
        BY <1>2, <3>2 DEF Holding
      <4> QED
        BY <2>7, <3>1, <3>2, <4>1 DEF Finds, Coherent
    <3>3. CASE Holding(r, p) # {}
      <4>1. \A j \in Holding(r, p) : n.slot[j].val = r.slot[j].val
        BY <2>4 DEF Holding
      <4> QED
        BY <3>1, <3>3, <4>1 DEF Finds, Coherent
    <3> QED
      BY <3>2, <3>3
  <2>10. \A i, j \in DOMAIN n.slot : n.slot[i].pos = n.slot[j].pos => i = j
    BY <2>4 DEF Coherent
  <2>11. Coherent(n, P)
    BY <2>3, <2>4, <2>6, <2>8, <2>9, <2>10 DEF Coherent
  <2> QED
    BY <2>3, <2>11 DEF n
<1> QED
  BY <1>1, <1>2

(* The write of one dirty page when the pages are dropped.                 *)
WrittenPage(r, k, fails) ==
  IF k \in DOMAIN r.slot /\ r.slot[k].dirty /\ ~fails THEN meta_cache_flush_dir_cache(r, k) ELSE r

(* Writing a cached page that is dirty changes the file and nothing else.  *)
LEMMA WrittenFields ==
  ASSUME NEW r \in DirCacheRec, NEW k \in {1, 2}, NEW b \in BOOLEAN
  PROVE  LET n == WrittenPage(r, k, b) IN
         /\ n \in DirCacheRec /\ n.slot = r.slot /\ n.last = r.last /\ n.lost = r.lost
         /\ \A p \in DirPages :
              n.file[p] = IF k \in DOMAIN r.slot /\ r.slot[k].dirty /\ ~b /\ p = r.slot[k].pos
                          THEN r.slot[k].val ELSE r.file[p]
<1> DEFINE n == WrittenPage(r, k, b)
<1>1. CASE k \in DOMAIN r.slot /\ r.slot[k].dirty /\ ~b
  <2>1. r.slot[k].pos \in DirPages /\ r.slot[k].val \in Contents
    BY <1>1, SlotTypes
  <2>2. n = [r EXCEPT !.file[r.slot[k].pos] = r.slot[k].val]
    BY <1>1 DEF WrittenPage, meta_cache_flush_dir_cache
  <2> HIDE DEF n
  <2>3. /\ n \in DirCacheRec /\ n.slot = r.slot /\ n.last = r.last /\ n.lost = r.lost
        /\ n.file = [r.file EXCEPT ![r.slot[k].pos] = r.slot[k].val]
    BY <2>1, <2>2 DEF DirCacheRec
  <2>4. r.file \in [DirPages -> Contents]
    BY DEF DirCacheRec
  <2> QED
    BY <1>1, <2>3, <2>4 DEF n
<1>2. CASE ~(k \in DOMAIN r.slot /\ r.slot[k].dirty /\ ~b)
  BY <1>2 DEF WrittenPage
<1> QED
  BY <1>1, <1>2

(* After a drop the file holds the last content of every page that was not *)
(* lost.                                                                   *)
LEMMA DropCoherent ==
  ASSUME Coherent(dc, DirPages \ dc.lost), NEW b \in BOOLEAN
  PROVE  LET n == meta_cache_drop_pages(b) IN
         /\ Coherent(n, DirPages \ n.lost)
         /\ n.slot = <<>> /\ n.last = dc.last
<1> DEFINE n == meta_cache_drop_pages(b)
           w == WrittenPage(dc, 1, b)
           v == WrittenPage(w, 2, b)
           L == {dc.slot[k].pos : k \in {j \in DOMAIN dc.slot : b /\ dc.slot[j].dirty}}
<1>1. dc \in DirCacheRec /\ Len(dc.slot) <= 2
  BY DEF Coherent
<1>2. /\ w \in DirCacheRec /\ w.slot = dc.slot /\ w.last = dc.last /\ w.lost = dc.lost
      /\ \A p \in DirPages : w.file[p] = IF 1 \in DOMAIN dc.slot /\ dc.slot[1].dirty /\ ~b /\ p = dc.slot[1].pos
                                         THEN dc.slot[1].val ELSE dc.file[p]
  BY <1>1, WrittenFields
<1>3. /\ v \in DirCacheRec /\ v.slot = w.slot /\ v.last = w.last /\ v.lost = w.lost
      /\ \A p \in DirPages : v.file[p] = IF 2 \in DOMAIN w.slot /\ w.slot[2].dirty /\ ~b /\ p = w.slot[2].pos
                                         THEN w.slot[2].val ELSE w.file[p]
  BY <1>2, WrittenFields
<1>4. n = [v EXCEPT !.slot = <<>>, !.lost = @ \cup L]
  BY DEF meta_cache_drop_pages, WrittenPage
<1>5. L \subseteq DirPages
  BY <1>1, SlotTypes
<1> HIDE DEF n, v, w, L
<1>6. /\ n \in DirCacheRec /\ n.slot = <<>> /\ n.last = dc.last /\ n.lost = dc.lost \cup L
      /\ n.file = v.file
  <2>1. v.lost = dc.lost /\ v.last = dc.last /\ v \in DirCacheRec
    BY <1>2, <1>3
  <2>2. PICK M : M = dc.lost \cup L
    OBVIOUS
  <2>3. n = [v EXCEPT !.slot = <<>>, !.lost = M]
    BY <1>4, <2>1, <2>2
  <2>4. M \in SUBSET DirPages /\ <<>> \in Seq(PageRec)
    BY <1>1, <1>5, <2>2 DEF DirCacheRec
  <2> QED
    BY <2>1, <2>2, <2>3, <2>4 DEF DirCacheRec
<1>7. ASSUME NEW p \in DirPages \ (dc.lost \cup L) PROVE n.file[p] = dc.last[p]
  <2>0. Finds(dc, p, dc.last[p])
    BY <1>7 DEF Coherent
  <2>1. CASE Holding(dc, p) = {}
    <3>1. dc.file[p] = dc.last[p]
      BY <2>0, <2>1 DEF Finds
    <3>2. \A k \in DOMAIN dc.slot : dc.slot[k].pos # p
      BY <2>1 DEF Holding
    <3> QED
      BY <1>2, <1>3, <1>6, <3>1, <3>2
  <2>2. CASE Holding(dc, p) # {}
    <3>1. PICK k \in DOMAIN dc.slot : dc.slot[k].pos = p
      BY <2>2 DEF Holding
    <3>2. dc.slot[k].val = dc.last[p]
      BY <2>0, <3>1 DEF Finds, Holding
    <3>3. k \in {1, 2}
      BY <1>1, <3>1, SlotTypes
    <3>4. \A j \in DOMAIN dc.slot : dc.slot[j].pos = p => j = k
      BY <3>1 DEF Coherent
    <3>5. CASE dc.slot[k].dirty
      <4>1. ~b
        BY <1>7, <3>1, <3>5 DEF L
      <4> QED
        BY <1>2, <1>3, <1>6, <3>1, <3>2, <3>3, <3>4, <3>5, <4>1
    <3>6. CASE ~dc.slot[k].dirty
      <4>1. dc.file[p] = dc.last[p]
        BY <3>1, <3>2, <3>6 DEF Coherent
      <4> QED
        BY <1>2, <1>3, <1>6, <3>1, <3>2, <3>3, <3>4, <3>6, <4>1
    <3> QED
      BY <3>5, <3>6
  <2> QED
    BY <2>1, <2>2
<1>8. Len(n.slot) = 0 /\ DOMAIN n.slot = {}
  BY <1>6
<1>9. \A p \in DirPages \ n.lost : Finds(n, p, n.last[p])
  BY <1>6, <1>7, <1>8 DEF Finds, Holding
<1>10. Coherent(n, DirPages \ n.lost)
  BY <1>6, <1>8, <1>9 DEF Coherent
<1> QED
  BY <1>6, <1>10 DEF n

(* The page p is given content v, in its slot or in a new one.             *)
LEMMA SetCoherent ==
  ASSUME Coherent(dc, DirPages \ dc.lost), NEW p \in DirPages, NEW v \in Contents
  PROVE  Coherent(SetPage(p, v), DirPages \ SetPage(p, v).lost)
<1> DEFINE page == CachedPage(p, v, TRUE)
           q == IF InCache(p) THEN [dc EXCEPT !.slot[Index(p)] = page] ELSE meta_cache_push_dir_page(dc, page)
           n == [q EXCEPT !.last[p] = v, !.lost = @ \ {p}]
<1>1. dc \in DirCacheRec /\ Len(dc.slot) <= 2
  BY DEF Coherent
<1>2. page \in PageRec /\ page.pos = p /\ page.val = v /\ page.dirty
  BY DEF CachedPage, PageRec
<1> HIDE DEF page
<1>3. /\ Coherent(q, (DirPages \ dc.lost) \ {p}) /\ Finds(q, p, v)
      /\ q.last = dc.last /\ q.lost = dc.lost
  <2>1. CASE ~InCache(p)
    <3>1. Holding(dc, page.pos) = {}
      BY <1>2, <2>1 DEF InCache, Holding
    <3>2. q = meta_cache_push_dir_page(dc, page)
      BY <2>1
    <3> HIDE DEF q
    <3> QED
      BY <1>2, <3>1, <3>2, PushCoherent
  <2>2. CASE InCache(p)
    <3>1. PICK k \in DOMAIN dc.slot : k = Index(p) /\ dc.slot[k].pos = p
      BY <2>2 DEF InCache, Index
    <3>2. q = [dc EXCEPT !.slot[k] = page]
      BY <2>2, <3>1
    <3> HIDE DEF q
    <3>3. /\ q.last = dc.last /\ q.lost = dc.lost /\ q.file = dc.file
          /\ q.slot = [dc.slot EXCEPT ![k] = page]
      BY <1>1, <3>2 DEF DirCacheRec
    <3>4. /\ q.slot \in Seq(PageRec) /\ DOMAIN q.slot = DOMAIN dc.slot /\ Len(q.slot) = Len(dc.slot)
          /\ q.slot[k] = page /\ \A j \in DOMAIN dc.slot \ {k} : q.slot[j] = dc.slot[j]
      BY <1>1, <1>2, <3>1, <3>3, SlotTypes
    <3>5. q \in DirCacheRec
      BY <1>1, <3>2, <3>3, <3>4 DEF DirCacheRec
    <3>6. \A j \in DOMAIN dc.slot \ {k} : dc.slot[j].pos # p
      BY <3>1 DEF Coherent
    <3>7. \A j \in DOMAIN q.slot : q.slot[j].pos = dc.slot[j].pos
      BY <1>2, <3>1, <3>4
    <3>8. Finds(q, p, v)
      BY <1>2, <3>1, <3>4, <3>6 DEF Finds, Holding
    <3>9. ASSUME NEW o \in (DirPages \ dc.lost) \ {p} PROVE Finds(q, o, dc.last[o])
      <4>1. Holding(q, o) = Holding(dc, o) /\ k \notin Holding(dc, o)
        BY <3>1, <3>4, <3>7 DEF Holding
      <4>2. \A j \in Holding(dc, o) : q.slot[j] = dc.slot[j]
        BY <3>4, <4>1 DEF Holding
      <4> QED
        BY <3>3, <4>1, <4>2 DEF Finds, Coherent
    <3>10. \A i, j \in DOMAIN q.slot : q.slot[i].pos = q.slot[j].pos => i = j
      BY <3>4, <3>7 DEF Coherent
    <3>11. \A j \in DOMAIN q.slot : q.slot[j].dirty \/ q.slot[j].val = q.file[q.slot[j].pos]
      BY <1>2, <3>3, <3>4 DEF Coherent
    <3>12. Coherent(q, (DirPages \ dc.lost) \ {p})
      BY <1>1, <3>3, <3>4, <3>5, <3>9, <3>10, <3>11 DEF Coherent
    <3> QED
      BY <3>3, <3>8, <3>12
  <2> QED
    BY <2>1, <2>2
<1>4. n = SetPage(p, v)
  BY DEF SetPage, page
<1> HIDE DEF q
<1>5. q \in DirCacheRec
  BY <1>3 DEF Coherent
<1>6. /\ n \in DirCacheRec /\ n.slot = q.slot /\ n.file = q.file
      /\ n.last = [dc.last EXCEPT ![p] = v] /\ n.lost = dc.lost \ {p}
  BY <1>3, <1>5 DEF DirCacheRec
<1>7. dc.last \in [DirPages -> Contents]
  BY <1>1 DEF DirCacheRec
<1> HIDE DEF n
<1>8. ASSUME NEW o \in DirPages \ n.lost PROVE Finds(n, o, n.last[o])
  <2>1. CASE o = p
    BY <1>3, <1>6, <1>7, <2>1 DEF Finds, Holding
  <2>2. CASE o # p
    <3>1. Finds(q, o, dc.last[o])
      BY <1>3, <1>6, <2>2 DEF Coherent
    <3> QED
      BY <1>6, <1>7, <2>2, <3>1 DEF Finds, Holding
  <2> QED
    BY <2>1, <2>2
<1> QED
  BY <1>3, <1>4, <1>6, <1>8 DEF Coherent

(* Every step keeps the cached pages and the file coherent.                *)
LEMMA PagesStep ==
  ASSUME Coherent(dc, DirPages \ dc.lost), [DCNext]_dc
  PROVE  Coherent(dc, DirPages \ dc.lost)'
<1>0. dc \in DirCacheRec
  BY DEF Coherent
<1>1. ASSUME NEW p \in DirPages, ~InCache(p), NEW d \in BOOLEAN,
             dc' = meta_cache_push_dir_page(dc, CachedPage(p, dc.file[p], d))
      PROVE  Coherent(dc, DirPages \ dc.lost)'
  <2> DEFINE page == CachedPage(p, dc.file[p], d)
  <2>1. page \in PageRec /\ page.pos = p /\ page.val = dc.file[p]
    BY <1>0 DEF CachedPage, PageRec, DirCacheRec
  <2>2. Holding(dc, page.pos) = {}
    BY <1>1, <2>1 DEF InCache, Holding
  <2>3. dc' = meta_cache_push_dir_page(dc, page)
    BY <1>1
  <2> HIDE DEF page
  <2>4. /\ Coherent(dc', (DirPages \ dc.lost) \ {p}) /\ dc'.last = dc.last /\ dc'.lost = dc.lost
        /\ Finds(dc', p, dc.file[p])
    BY <2>1, <2>2, <2>3, PushCoherent
  <2>5. p \in DirPages \ dc.lost => dc.file[p] = dc.last[p]
    BY <2>1, <2>2 DEF Coherent, Finds
  <2>6. \A o \in DirPages \ dc'.lost : Finds(dc', o, dc'.last[o])
    BY <2>4, <2>5 DEF Coherent
  <2> QED
    BY <2>4, <2>6 DEF Coherent
<1>2. ASSUME NEW p \in DirPages, meta_cache_lookup_dir_data(p) PROVE Coherent(dc, DirPages \ dc.lost)'
  <2>1. PICK d : d = IF dc.slot = <<>> THEN FALSE ELSE dc.slot[1].dirty
    OBVIOUS
  <2>2. d \in BOOLEAN
    <3>1. dc.slot # <<>> => dc.slot[1] \in PageRec
      BY <1>0, SlotTypes
    <3> QED
      BY <2>1, <3>1 DEF PageRec
  <2>3. ~InCache(p) /\ dc' = meta_cache_push_dir_page(dc, CachedPage(p, dc.file[p], d))
    BY <1>2, <2>1 DEF meta_cache_lookup_dir_data, _lookup_dir_load_page
  <2> QED
    BY <1>1, <2>2, <2>3
<1>3. ASSUME NEW p \in DirPages, meta_cache_seek_dir_entry(p) PROVE Coherent(dc, DirPages \ dc.lost)'
  BY <1>1, <1>3 DEF meta_cache_seek_dir_entry
<1>4. ASSUME NEW p \in DirPages, NEW v \in Contents, meta_cache_update_dir_data(p, v)
      PROVE  Coherent(dc, DirPages \ dc.lost)'
  <2>1. PICK r : r = SetPage(p, v)
    OBVIOUS
  <2>2. Coherent(r, DirPages \ r.lost) /\ DirPages \ r.lost \in SUBSET DirPages
    BY <2>1, SetCoherent
  <2>3. PICK s : s = _cache_sync(r, 1)
    OBVIOUS
  <2>4. Coherent(s, DirPages \ r.lost) /\ s.lost = r.lost
    BY <2>2, <2>3, SyncCoherent
  <2>5. Coherent(_cache_sync(s, 2), DirPages \ r.lost) /\ _cache_sync(s, 2).lost = r.lost
    BY <2>2, <2>4, SyncCoherent
  <2>6. dc' \in {_cache_sync(s, 2), s, r}
    BY <1>4, <2>1, <2>3 DEF meta_cache_update_dir_data, flush_single_entry
  <2> QED
    BY <2>2, <2>4, <2>5, <2>6
<1>5. ASSUME NEW p \in DirPages, NEW q \in DirPages, NEW v \in Contents, dpc_dir_add_entry(p, q, v)
      PROVE  Coherent(dc, DirPages \ dc.lost)'
  <2>1. PICK b \in BOOLEAN :
          dc' = [meta_cache_drop_pages(b) EXCEPT
                   !.file[p] = v, !.file[q] = v, !.last[p] = v, !.last[q] = v, !.lost = @ \ {p, q}]
    BY <1>5 DEF dpc_dir_add_entry
  <2>2. PICK n : n = meta_cache_drop_pages(b)
    OBVIOUS
  <2>3. Coherent(n, DirPages \ n.lost) /\ n.slot = <<>>
    BY <2>2, DropCoherent
  <2>4. n \in DirCacheRec
    BY <2>3 DEF Coherent
  <2>5. dc' = [n EXCEPT !.file[p] = v, !.file[q] = v, !.last[p] = v, !.last[q] = v, !.lost = @ \ {p, q}]
    BY <2>1, <2>2
  <2>6. /\ dc'.slot = <<>> /\ dc'.lost = n.lost \ {p, q}
        /\ dc'.file = [n.file EXCEPT ![p] = v, ![q] = v] /\ dc'.last = [n.last EXCEPT ![p] = v, ![q] = v]
        /\ dc' \in DirCacheRec
    BY <2>3, <2>4, <2>5 DEF DirCacheRec
  <2>7. n.file \in [DirPages -> Contents] /\ n.last \in [DirPages -> Contents]
    BY <2>4 DEF DirCacheRec
  <2>8. \A o \in DirPages \ n.lost : n.file[o] = n.last[o]
    BY <2>3 DEF Coherent, Finds, Holding
  <2>9. \A o \in DirPages \ dc'.lost : dc'.file[o] = dc'.last[o]
    BY <2>6, <2>7, <2>8
  <2> QED
    BY <2>6, <2>9 DEF Coherent, Finds, Holding
<1>6. CASE Drop
  BY <1>6, DropCoherent DEF Drop
<1>7. CASE UNCHANGED dc
  BY <1>7
<1> QED
  BY <1>2, <1>3, <1>4, <1>5, <1>6, <1>7 DEF DCNext

(* meta_cache_lookup_dir_data, meta_cache_seek_dir_entry,                  *)
(* meta_cache_update_dir_data, meta_cache_drop_pages: the pages an entry   *)
(* caches agree with the file and with what was last written, whichever    *)
(* pages are pushed in and out and whichever writes fail.                  *)
THEOREM DirPagesCoherent == DCSpec => [](DCTypeOK /\ PagesCoherent)
<1>1. DCInit => Coherent(dc, DirPages \ dc.lost)
  <2> SUFFICES ASSUME NEW f \in [DirPages -> Contents],
                      dc = [slot |-> <<>>, file |-> f, last |-> f, lost |-> {}]
               PROVE  Coherent(dc, DirPages \ dc.lost)
    BY DEF DCInit
  <2>1. dc \in DirCacheRec
    BY DEF DirCacheRec
  <2> QED
    BY <2>1 DEF Coherent, Finds, Holding
<1>2. Coherent(dc, DirPages \ dc.lost) /\ [DCNext]_dc => Coherent(dc, DirPages \ dc.lost)'
  BY PagesStep
<1>3. Coherent(dc, DirPages \ dc.lost) => DCTypeOK /\ PagesCoherent
  <2> SUFFICES ASSUME Coherent(dc, DirPages \ dc.lost) PROVE DCTypeOK /\ PagesCoherent
    OBVIOUS
  <2>1. DCTypeOK
    BY DEF DCTypeOK, Coherent, DirCacheRec
  <2>2. ASSUME NEW p \in DirPages \ dc.lost
        PROVE  dc.last[p] = IF InCache(p) THEN dc.slot[Index(p)].val ELSE dc.file[p]
    <3>1. Finds(dc, p, dc.last[p])
      BY DEF Coherent
    <3>2. CASE InCache(p)
      <4>1. Index(p) \in DOMAIN dc.slot /\ dc.slot[Index(p)].pos = p
        BY <3>2 DEF InCache, Index
      <4> QED
        BY <3>1, <3>2, <4>1 DEF Finds, Holding
    <3>3. CASE ~InCache(p)
      BY <3>1, <3>3 DEF InCache, Finds, Holding
    <3> QED
      BY <3>2, <3>3
  <2> QED
    BY <2>1, <2>2 DEF PagesCoherent, Coherent
<1> QED
  BY <1>1, <1>2, <1>3, PTL DEF DCSpec

-----------------------------------------------------------------------------
(***************************************************************************)
(* The table of entries.  The header of a bucket protects its list: a      *)
(* thread that inserts an entry, waits for one or removes one holds it, so *)
(* nobody else changes the list meanwhile.                                 *)
(***************************************************************************)
Holder == CacheThreads \cup {Nobody}
CallerPCs == {"idle", "header", "insert", "access", "expire", "remove"}
CallerRec == [pc : CallerPCs, ino : CachedInodes \cup {0}, held : SUBSET CachedInodes, at : MetaBuckets]
TableRec == [list : [MetaBuckets -> Seq(CachedInodes)], header : [MetaBuckets -> Holder],
             sem : [CachedInodes -> Holder], count : Nat, info : SUBSET CachedInodes,
             th : [CacheThreads -> CallerRec], freed : BOOLEAN]

In(L, i) == i \in ToSet(L[B(i)])
EntriesOf(L) == {i \in CachedInodes : In(L, i)}
Inserting(m) == {t \in CacheThreads : m.th[t].pc = "insert"}

(* An inode is in its own bucket only, and once.                           *)
BucketsOK(L) == \A b \in MetaBuckets : IsInjective(L[b]) /\ \A i \in ToSet(L[b]) : B(i) = b

(* What a thread relies on: the header of the bucket it works on, and the  *)
(* entry it waits for or holds.                                            *)
CallerOK(m, t) ==
  /\ m.th[t].pc # "idle" => m.th[t].ino \in CachedInodes
  /\ m.th[t].pc \in {"insert", "access", "remove"} => m.header[B(m.th[t].ino)] = t
  /\ m.th[t].pc = "insert" => ~In(m.list, m.th[t].ino)
  /\ m.th[t].pc \in {"access", "remove"} => In(m.list, m.th[t].ino)
  /\ \A i \in m.th[t].held : m.sem[i] = t /\ In(m.list, i)

(* The counter; a thread that found room may add one entry more.           *)
CountOK(m) ==
  /\ m.count = Cardinality(EntriesOf(m.list))
  /\ m.count + Cardinality(Inserting(m)) <= MAX_META_MEM_CACHE_ENTRIES + Cardinality(CacheThreads)
  /\ m.info \subseteq EntriesOf(m.list) /\ ~m.freed

TableInv(m) ==
  m \in TableRec /\ BucketsOK(m.list) /\ CountOK(m) /\ \A t \in CacheThreads : CallerOK(m, t)

(* Buckets and the identity of nobody.                                     *)
LEMMA TableConstants ==
  /\ Nobody \notin CacheThreads /\ \A i \in CachedInodes : B(i) \in MetaBuckets
  /\ 0 \in MetaBuckets
<1>1. \A i \in CachedInodes : B(i) \in MetaBuckets
  BY MetaCacheAssumption DEF B, hash_inode_to_meta_cache, MetaBuckets
<1> QED
  BY <1>1, MetaCacheAssumption DEF Nobody, MetaBuckets

(* The sets that are counted are finite.                                   *)
LEMMA TableFinite ==
  ASSUME NEW L, NEW m
  PROVE  /\ IsFiniteSet(EntriesOf(L)) /\ Cardinality(EntriesOf(L)) \in Nat
         /\ IsFiniteSet(Inserting(m)) /\ Cardinality(Inserting(m)) \in Nat
         /\ Cardinality(Inserting(m)) <= Cardinality(CacheThreads) /\ Cardinality(CacheThreads) \in Nat
<1>1. EntriesOf(L) \subseteq CachedInodes /\ Inserting(m) \subseteq CacheThreads
  BY DEF EntriesOf, Inserting
<1>2. IsFiniteSet(CachedInodes) /\ IsFiniteSet(CacheThreads)
  BY MetaCacheAssumption
<1> QED
  BY <1>1, <1>2, FS_Subset, FS_CardinalityType

(* Thread t takes a step to n: the others keep what they rely on when t    *)
(* leaves their semaphores alone and changes a list only where it may.     *)
LEMMA OtherCallers ==
  ASSUME NEW m, TableInv(m), NEW n \in TableRec, NEW t \in CacheThreads,
         \A u \in CacheThreads \ {t} : n.th[u] = m.th[u],
         \A b \in MetaBuckets : m.header[b] \notin {t, Nobody} => n.header[b] = m.header[b],
         \A i \in CachedInodes : m.sem[i] \notin {t, Nobody} => n.sem[i] = m.sem[i],
         \A i \in CachedInodes : m.header[B(i)] \notin {t, Nobody} => (In(n.list, i) <=> In(m.list, i)),
         \A i \in CachedInodes : m.sem[i] \notin {t, Nobody} /\ In(m.list, i) => In(n.list, i)
  PROVE  \A u \in CacheThreads \ {t} : CallerOK(n, u)
<1> SUFFICES ASSUME NEW u \in CacheThreads \ {t} PROVE CallerOK(n, u)
  OBVIOUS
<1>1. CallerOK(m, u) /\ m.th[u].held \subseteq CachedInodes /\ n.th[u] = m.th[u] /\ u \notin {t, Nobody}
  BY TableConstants DEF TableInv, TableRec, CallerRec
<1>2. \A i \in CachedInodes : B(i) \in MetaBuckets
  BY TableConstants
<1>3. m.th[u].pc # "idle" => m.th[u].ino \in CachedInodes
  BY <1>1 DEF CallerOK
<1>4. m.th[u].pc \in {"insert", "access", "remove"} =>
         /\ n.header[B(m.th[u].ino)] = u
         /\ In(n.list, m.th[u].ino) <=> In(m.list, m.th[u].ino)
  BY <1>1, <1>2, <1>3 DEF CallerOK
<1>5. \A i \in m.th[u].held : n.sem[i] = u /\ In(n.list, i)
  BY <1>1 DEF CallerOK
<1> QED
  BY <1>1, <1>3, <1>4, <1>5 DEF CallerOK

(* A step that changes no list.                                            *)
LEMMA ListsKept ==
  ASSUME NEW m, TableInv(m), NEW n \in TableRec, NEW t \in CacheThreads,
         \A u \in CacheThreads \ {t} : n.th[u] = m.th[u],
         \A b \in MetaBuckets : m.header[b] \notin {t, Nobody} => n.header[b] = m.header[b],
         \A i \in CachedInodes : m.sem[i] \notin {t, Nobody} => n.sem[i] = m.sem[i],
         n.list = m.list, n.count = m.count, n.info \subseteq EntriesOf(m.list), ~n.freed,
         n.th[t].pc = "insert" => m.th[t].pc = "insert" \/ m.count <= MAX_META_MEM_CACHE_ENTRIES,
         CallerOK(n, t)
  PROVE  TableInv(n)
<1>1. \A u \in CacheThreads : CallerOK(n, u)
  BY OtherCallers
<1>2. n.count + Cardinality(Inserting(n)) <= MAX_META_MEM_CACHE_ENTRIES + Cardinality(CacheThreads)
  <2>0. /\ m.count \in Nat /\ MAX_META_MEM_CACHE_ENTRIES \in Nat
        /\ m.count + Cardinality(Inserting(m)) <= MAX_META_MEM_CACHE_ENTRIES + Cardinality(CacheThreads)
    BY MetaCacheAssumption DEF TableInv, TableRec, CountOK
  <2>1. CASE Inserting(n) \subseteq Inserting(m)
    <3>1. Cardinality(Inserting(n)) <= Cardinality(Inserting(m))
      BY <2>1, TableFinite, FS_Subset
    <3>2. /\ Cardinality(Inserting(n)) \in Nat /\ Cardinality(Inserting(m)) \in Nat
          /\ Cardinality(CacheThreads) \in Nat
      BY TableFinite
    <3> QED
      BY <2>0, <3>1, <3>2
  <2>2. CASE ~(Inserting(n) \subseteq Inserting(m))
    <3>1. m.count <= MAX_META_MEM_CACHE_ENTRIES
      BY <2>2 DEF Inserting
    <3>2. /\ Cardinality(Inserting(n)) \in Nat /\ Cardinality(CacheThreads) \in Nat
          /\ Cardinality(Inserting(n)) <= Cardinality(CacheThreads)
      BY TableFinite
    <3> QED
      BY <2>0, <3>1, <3>2
  <2> QED
    BY <2>1, <2>2
<1>3. CountOK(n)
  BY <1>2 DEF CountOK, TableInv
<1> QED
  BY <1>1, <1>3 DEF TableInv

(* What the type and the invariant say of the thread that takes a step.    *)
LEMMA CallerTypes ==
  ASSUME NEW m, TableInv(m), NEW t \in CacheThreads
  PROVE  /\ m \in TableRec /\ m.th \in [CacheThreads -> CallerRec] /\ m.th[t] \in CallerRec
         /\ m.th[t].ino \in CachedInodes \cup {0} /\ m.th[t].held \in SUBSET CachedInodes
         /\ m.th[t].at \in MetaBuckets /\ CallerOK(m, t)
         /\ m.info \subseteq EntriesOf(m.list) /\ ~m.freed
         /\ t # Nobody /\ m.header \in [MetaBuckets -> Holder] /\ m.sem \in [CachedInodes -> Holder]
<1>1. m \in TableRec
  BY DEF TableInv
<1>2. m.th \in [CacheThreads -> CallerRec] /\ m.header \in [MetaBuckets -> Holder] /\ m.sem \in [CachedInodes -> Holder]
  BY <1>1 DEF TableRec
<1>3. m.th[t] \in CallerRec
  BY <1>2
<1>4. m.th[t].ino \in CachedInodes \cup {0} /\ m.th[t].held \in SUBSET CachedInodes /\ m.th[t].at \in MetaBuckets
  BY <1>3 DEF CallerRec
<1> QED
  BY <1>1, <1>2, <1>3, <1>4, TableConstants DEF TableInv, CountOK

(* A call of meta_cache_lock_entry begins.                                 *)
LEMMA LockEntryStep ==
  ASSUME TableInv(mc), NEW t \in CacheThreads, NEW i \in CachedInodes, meta_cache_lock_entry(t, i)
  PROVE  TableInv(mc')
<1>0. /\ mc \in TableRec /\ mc.th[t] \in CallerRec /\ CallerOK(mc, t) /\ mc.info \subseteq EntriesOf(mc.list)
      /\ mc.header \in [MetaBuckets -> Holder] /\ mc.sem \in [CachedInodes -> Holder]
      /\ mc.th \in [CacheThreads -> CallerRec] /\ ~mc.freed
  BY CallerTypes
<1>1. mc.th[t].pc = "idle" /\ mc' = [mc EXCEPT !.th[t].pc = "header", !.th[t].ino = i]
  BY DEF meta_cache_lock_entry
<1>2. PICK r : r = [mc.th[t] EXCEPT !.pc = "header", !.ino = i]
  OBVIOUS
<1>3. r \in CallerRec /\ r.pc = "header" /\ r.ino = i /\ r.held = mc.th[t].held
  <2>1. "header" \in CallerPCs /\ i \in CachedInodes \cup {0}
    BY DEF CallerPCs
  <2> QED
    BY <1>0, <1>2, <2>1 DEF CallerRec
<1>T. PICK T : T = [mc.th EXCEPT ![t] = r]
  OBVIOUS
<1>U. T \in [CacheThreads -> CallerRec] /\ T[t] = r /\ \A u \in CacheThreads \ {t} : T[u] = mc.th[u]
  BY <1>0, <1>3, <1>T
<1>4. mc' = [mc EXCEPT !.th = T]
  BY <1>0, <1>1, <1>2, <1>T DEF TableRec
<1>5. /\ mc' \in TableRec /\ mc'.list = mc.list /\ mc'.header = mc.header /\ mc'.sem = mc.sem
      /\ mc'.count = mc.count /\ mc'.info = mc.info /\ mc'.freed = mc.freed /\ mc'.th[t] = r
      /\ \A u \in CacheThreads \ {t} : mc'.th[u] = mc.th[u]
  <2>1. mc \in TableRec
    BY <1>0
  <2>2. /\ mc' \in TableRec /\ mc'.list = mc.list /\ mc'.header = mc.header /\ mc'.sem = mc.sem
        /\ mc'.count = mc.count /\ mc'.info = mc.info /\ mc'.freed = mc.freed /\ mc'.th = T
    BY <1>U, <1>4, <2>1 DEF TableRec
  <2> QED
    BY <1>U, <2>2
<1>6. CallerOK(mc', t)
  BY <1>0, <1>3, <1>5 DEF CallerOK
<1> QED
  BY <1>0, <1>3, <1>5, <1>6, ListsKept

(* A thread takes the header of a bucket.                                  *)
LEMMA HeaderTaken ==
  ASSUME TableInv(mc), NEW t \in CacheThreads, NEW i \in CachedInodes, NEW c \in {"access", "insert", "remove"},
         mc.header[B(i)] = Nobody, mc' = [mc EXCEPT !.header[B(i)] = t, !.th[t].pc = c, !.th[t].ino = i],
         In(mc.list, i) <=> c # "insert", c = "insert" => mc.count <= MAX_META_MEM_CACHE_ENTRIES
  PROVE  TableInv(mc')
<1>0. /\ mc \in TableRec /\ mc.th[t] \in CallerRec /\ CallerOK(mc, t) /\ mc.info \subseteq EntriesOf(mc.list)
      /\ mc.header \in [MetaBuckets -> Holder] /\ mc.sem \in [CachedInodes -> Holder]
      /\ mc.th \in [CacheThreads -> CallerRec] /\ ~mc.freed
  BY CallerTypes
<1>1. PICK r : r = [mc.th[t] EXCEPT !.pc = c, !.ino = i]
  OBVIOUS
<1>2. r \in CallerRec /\ r.pc = c /\ r.ino = i /\ r.held = mc.th[t].held
  <2>1. c \in CallerPCs /\ i \in CachedInodes \cup {0}
    BY DEF CallerPCs
  <2> QED
    BY <1>0, <1>1, <2>1 DEF CallerRec
<1>3. PICK h : h = [mc.header EXCEPT ![B(i)] = t]
  OBVIOUS
<1>4. h \in [MetaBuckets -> Holder] /\ h[B(i)] = t /\ \A b \in MetaBuckets \ {B(i)} : h[b] = mc.header[b]
  BY <1>0, <1>3, TableConstants DEF Holder
<1>T. PICK T : T = [mc.th EXCEPT ![t] = r]
  OBVIOUS
<1>U. T \in [CacheThreads -> CallerRec] /\ T[t] = r /\ \A u \in CacheThreads \ {t} : T[u] = mc.th[u]
  BY <1>0, <1>2, <1>T
<1>5. mc' = [mc EXCEPT !.header = h, !.th = T]
  BY <1>0, <1>1, <1>3, <1>T DEF TableRec
<1>6. /\ mc' \in TableRec /\ mc'.list = mc.list /\ mc'.header = h /\ mc'.sem = mc.sem
      /\ mc'.count = mc.count /\ mc'.info = mc.info /\ mc'.freed = mc.freed /\ mc'.th[t] = r
      /\ \A u \in CacheThreads \ {t} : mc'.th[u] = mc.th[u]
  <2>1. mc \in TableRec
    BY <1>0
  <2>2. /\ mc' \in TableRec /\ mc'.list = mc.list /\ mc'.header = h /\ mc'.sem = mc.sem
        /\ mc'.count = mc.count /\ mc'.info = mc.info /\ mc'.freed = mc.freed /\ mc'.th = T
    BY <1>U, <1>4, <1>5, <2>1 DEF TableRec
  <2> QED
    BY <1>U, <2>2
<1>7. CallerOK(mc', t)
  BY <1>0, <1>2, <1>4, <1>6 DEF CallerOK
<1>8. \A b \in MetaBuckets : mc.header[b] \notin {t, Nobody} => mc'.header[b] = mc.header[b]
  BY <1>4, <1>6
<1>9. mc'.th[t].pc = "insert" => mc.count <= MAX_META_MEM_CACHE_ENTRIES
  BY <1>2, <1>6
<1>10. \A j \in CachedInodes : mc.sem[j] \notin {t, Nobody} => mc'.sem[j] = mc.sem[j]
  BY <1>6
<1>11. mc'.info \subseteq EntriesOf(mc.list) /\ ~mc'.freed
  BY <1>0, <1>6
<1>12. mc' \in TableRec /\ mc'.list = mc.list /\ mc'.count = mc.count
  BY <1>6
<1>13. \A u \in CacheThreads \ {t} : mc'.th[u] = mc.th[u]
  BY <1>6
<1> QED
  BY <1>7, <1>8, <1>9, <1>10, <1>11, <1>12, <1>13, ListsKept, ZenonT(60)

(* A thread goes on to look for an entry to expire, or to another bucket.  *)
LEMMA ThreadMoves ==
  ASSUME TableInv(mc), NEW t \in CacheThreads, mc.th[t].pc \in {"header", "expire"}, NEW b \in MetaBuckets,
         mc' = [mc EXCEPT !.th[t].pc = "expire", !.th[t].at = b]
  PROVE  TableInv(mc')
<1>0. /\ mc \in TableRec /\ mc.th[t] \in CallerRec /\ CallerOK(mc, t) /\ mc.info \subseteq EntriesOf(mc.list)
      /\ mc.header \in [MetaBuckets -> Holder] /\ mc.sem \in [CachedInodes -> Holder]
      /\ mc.th \in [CacheThreads -> CallerRec] /\ ~mc.freed
  BY CallerTypes
<1>1. PICK r : r = [mc.th[t] EXCEPT !.pc = "expire", !.at = b]
  OBVIOUS
<1>2. r \in CallerRec /\ r.pc = "expire" /\ r.ino = mc.th[t].ino /\ r.held = mc.th[t].held
  <2>1. "expire" \in CallerPCs
    BY DEF CallerPCs
  <2> QED
    BY <1>0, <1>1, <2>1 DEF CallerRec
<1>T. PICK T : T = [mc.th EXCEPT ![t] = r]
  OBVIOUS
<1>U. T \in [CacheThreads -> CallerRec] /\ T[t] = r /\ \A u \in CacheThreads \ {t} : T[u] = mc.th[u]
  BY <1>0, <1>2, <1>T
<1>3. mc' = [mc EXCEPT !.th = T]
  BY <1>0, <1>1, <1>T DEF TableRec
<1>4. /\ mc' \in TableRec /\ mc'.list = mc.list /\ mc'.header = mc.header /\ mc'.sem = mc.sem
      /\ mc'.count = mc.count /\ mc'.info = mc.info /\ mc'.freed = mc.freed /\ mc'.th[t] = r
      /\ \A u \in CacheThreads \ {t} : mc'.th[u] = mc.th[u]
  <2>1. mc \in TableRec
    BY <1>0
  <2>2. /\ mc' \in TableRec /\ mc'.list = mc.list /\ mc'.header = mc.header /\ mc'.sem = mc.sem
        /\ mc'.count = mc.count /\ mc'.info = mc.info /\ mc'.freed = mc.freed /\ mc'.th = T
    BY <1>U, <1>3, <2>1 DEF TableRec
  <2> QED
    BY <1>U, <2>2
<1>5. CallerOK(mc', t)
  BY <1>0, <1>2, <1>4 DEF CallerOK
<1> QED
  BY <1>0, <1>2, <1>4, <1>5, ListsKept

(* The bucket is searched: found, to be added, or room is to be made first. *)
LEMMA LockHeaderStep ==
  ASSUME TableInv(mc), NEW t \in CacheThreads, LockHeader(t)
  PROVE  TableInv(mc')
<1>1. PICK i : i = mc.th[t].ino
  OBVIOUS
<1>2. mc.th[t].pc = "header" /\ mc.header[B(i)] = Nobody /\ i \in CachedInodes
  BY <1>1, CallerTypes DEF LockHeader, CallerOK
<1>3. Cached(i) <=> In(mc.list, i)
  BY DEF Cached, In
<1>4. mc \in TableRec /\ mc.th[t] \in CallerRec /\ mc.th \in [CacheThreads -> CallerRec]
  BY CallerTypes
<1>5. ASSUME NEW c \in {"access", "insert"}, mc' = [mc EXCEPT !.header[B(i)] = t, !.th[t].pc = c]
      PROVE  mc' = [mc EXCEPT !.header[B(i)] = t, !.th[t].pc = c, !.th[t].ino = i]
  <2>1. [mc.th[t] EXCEPT !.pc = c] = [mc.th[t] EXCEPT !.pc = c, !.ino = i]
    BY <1>1, <1>4 DEF CallerRec
  <2> QED
    BY <1>4, <1>5, <2>1 DEF TableRec
<1>6. CASE Cached(i)
  <2>1. mc' = [mc EXCEPT !.header[B(i)] = t, !.th[t].pc = "access"]
    BY <1>1, <1>6 DEF LockHeader
  <2>2. mc' = [mc EXCEPT !.header[B(i)] = t, !.th[t].pc = "access", !.th[t].ino = i]
    BY <1>5, <2>1
  <2> QED
    BY <1>2, <1>3, <1>6, <2>2, HeaderTaken
<1>7. CASE ~Cached(i) /\ mc.count <= MAX_META_MEM_CACHE_ENTRIES
  <2>1. mc' = [mc EXCEPT !.header[B(i)] = t, !.th[t].pc = "insert"]
    BY <1>1, <1>7 DEF LockHeader
  <2>2. mc' = [mc EXCEPT !.header[B(i)] = t, !.th[t].pc = "insert", !.th[t].ino = i]
    BY <1>5, <2>1
  <2> QED
    BY <1>2, <1>3, <1>7, <2>2, HeaderTaken
<1>8. CASE ~Cached(i) /\ ~(mc.count <= MAX_META_MEM_CACHE_ENTRIES)
  <2>1. PICK b \in MetaBuckets : mc' = [mc EXCEPT !.th[t].pc = "expire", !.th[t].at = b]
    BY <1>1, <1>8 DEF LockHeader
  <2> QED
    BY <1>2, <2>1, ThreadMoves
<1> QED
  BY <1>6, <1>7, <1>8

(* meta_cache_remove takes the header of its bucket.                       *)
LEMMA RemoveStep ==
  ASSUME TableInv(mc), NEW t \in CacheThreads, NEW i \in CachedInodes, meta_cache_remove(t, i)
  PROVE  TableInv(mc')
<1>1. /\ mc.header[B(i)] = Nobody /\ In(mc.list, i)
      /\ mc' = [mc EXCEPT !.header[B(i)] = t, !.th[t].pc = "remove", !.th[t].ino = i]
  BY DEF meta_cache_remove, Cached, In
<1> QED
  BY <1>1, HeaderTaken

(* The entry's own semaphore is taken and the header given back.           *)
LEMMA LockAccessStep ==
  ASSUME TableInv(mc), NEW t \in CacheThreads, LockAccess(t)
  PROVE  TableInv(mc')
<1>0. /\ mc \in TableRec /\ mc.th[t] \in CallerRec /\ CallerOK(mc, t) /\ mc.info \subseteq EntriesOf(mc.list)
      /\ mc.header \in [MetaBuckets -> Holder] /\ mc.sem \in [CachedInodes -> Holder]
      /\ mc.th \in [CacheThreads -> CallerRec] /\ ~mc.freed
  BY CallerTypes
<1>1. PICK i : i = mc.th[t].ino
  OBVIOUS
<1>2. /\ mc.th[t].pc = "access" /\ mc.sem[i] = Nobody /\ i \in CachedInodes
      /\ mc.header[B(i)] = t /\ In(mc.list, i)
  BY <1>0, <1>1 DEF LockAccess, CallerOK
<1>3. mc' = [mc EXCEPT !.sem[i] = t, !.header[B(i)] = IF @ = t THEN Nobody ELSE @,
                       !.th[t].pc = "idle", !.th[t].ino = 0, !.th[t].held = @ \cup {i},
                       !.freed = @ \/ ~Cached(i)]
  BY <1>1 DEF LockAccess
<1>4. (mc.freed \/ ~Cached(i)) = mc.freed
  BY <1>0, <1>2 DEF Cached, In, TableRec
<1>5. PICK s, h, w : /\ s = [mc.sem EXCEPT ![i] = t] /\ h = [mc.header EXCEPT ![B(i)] = Nobody]
                     /\ w = mc.th[t].held \cup {i}
  OBVIOUS
<1>6. PICK r : r = [mc.th[t] EXCEPT !.pc = "idle", !.ino = 0, !.held = w]
  OBVIOUS
<1>7. /\ s \in [CachedInodes -> Holder] /\ s[i] = t /\ \A j \in CachedInodes \ {i} : s[j] = mc.sem[j]
      /\ h \in [MetaBuckets -> Holder] /\ \A b \in MetaBuckets \ {B(i)} : h[b] = mc.header[b]
  BY <1>0, <1>2, <1>5, TableConstants DEF Holder
<1>8. r \in CallerRec /\ r.pc = "idle" /\ r.held = mc.th[t].held \cup {i}
  <2>1. "idle" \in CallerPCs /\ w \in SUBSET CachedInodes
    BY <1>0, <1>2, <1>5 DEF CallerPCs, CallerRec
  <2> QED
    BY <1>0, <1>5, <1>6, <2>1 DEF CallerRec
<1>T. PICK T : T = [mc.th EXCEPT ![t] = r]
  OBVIOUS
<1>U. T \in [CacheThreads -> CallerRec] /\ T[t] = r /\ \A u \in CacheThreads \ {t} : T[u] = mc.th[u]
  BY <1>0, <1>8, <1>T
<1>9. mc' = [mc EXCEPT !.sem = s, !.header = h, !.th = T]
  <2>1. mc' = [mc EXCEPT !.sem = s, !.header = h, !.th = T, !.freed = mc.freed]
    <3>1. h = [mc.header EXCEPT ![B(i)] = IF @ = t THEN Nobody ELSE @]
      BY <1>2, <1>5
    <3>2. T = [mc.th EXCEPT ![t].pc = "idle", ![t].ino = 0, ![t].held = @ \cup {i}]
      BY <1>0, <1>5, <1>6, <1>T
    <3>3. mc \in TableRec /\ s = [mc.sem EXCEPT ![i] = t]
      BY <1>0, <1>5
    <3> QED
      BY <1>3, <1>4, <3>1, <3>2, <3>3, ZenonT(60) DEF TableRec
  <2>2. mc \in TableRec
    BY <1>0
  <2> QED
    BY <2>1, <2>2 DEF TableRec
<1>10. /\ mc' \in TableRec /\ mc'.list = mc.list /\ mc'.header = h /\ mc'.sem = s
      /\ mc'.count = mc.count /\ mc'.info = mc.info /\ mc'.freed = mc.freed /\ mc'.th[t] = r
      /\ \A u \in CacheThreads \ {t} : mc'.th[u] = mc.th[u]
  <2>1. mc \in TableRec
    BY <1>0
  <2>2. /\ mc' \in TableRec /\ mc'.list = mc.list /\ mc'.header = h /\ mc'.sem = s
        /\ mc'.count = mc.count /\ mc'.info = mc.info /\ mc'.freed = mc.freed /\ mc'.th = T
    BY <1>U, <1>7, <1>9, <2>1 DEF TableRec
  <2> QED
    BY <1>U, <2>2
<1>11. CallerOK(mc', t)
  BY <1>0, <1>2, <1>7, <1>8, <1>10 DEF CallerOK, CallerRec
<1>12. /\ \A b \in MetaBuckets : mc.header[b] \notin {t, Nobody} => mc'.header[b] = mc.header[b]
       /\ \A j \in CachedInodes : mc.sem[j] \notin {t, Nobody} => mc'.sem[j] = mc.sem[j]
  BY <1>2, <1>7, <1>10
<1> QED
  BY <1>0, <1>8, <1>10, <1>11, <1>12, ListsKept

(* meta_cache_unlock_entry gives the entry's semaphore back.               *)
LEMMA UnlockEntryStep ==
  ASSUME TableInv(mc), NEW t \in CacheThreads, NEW i \in CachedInodes, meta_cache_unlock_entry(t, i)
  PROVE  TableInv(mc')
<1>0. /\ mc \in TableRec /\ mc.th[t] \in CallerRec /\ CallerOK(mc, t) /\ mc.info \subseteq EntriesOf(mc.list)
      /\ mc.header \in [MetaBuckets -> Holder] /\ mc.sem \in [CachedInodes -> Holder]
      /\ mc.th \in [CacheThreads -> CallerRec] /\ ~mc.freed
  BY CallerTypes
<1>1. /\ mc.th[t].pc = "idle" /\ i \in mc.th[t].held /\ mc.sem[i] = t
      /\ mc' = [mc EXCEPT !.th[t].held = @ \ {i}, !.sem[i] = Nobody]
  BY <1>0 DEF meta_cache_unlock_entry, CallerOK
<1>2. PICK s, w : s = [mc.sem EXCEPT ![i] = Nobody] /\ w = mc.th[t].held \ {i}
  OBVIOUS
<1>3. s \in [CachedInodes -> Holder] /\ \A j \in CachedInodes \ {i} : s[j] = mc.sem[j]
  BY <1>0, <1>2 DEF Holder
<1>4. PICK r : r = [mc.th[t] EXCEPT !.held = w]
  OBVIOUS
<1>5. r \in CallerRec /\ r.pc = "idle" /\ r.held = mc.th[t].held \ {i}
  <2>1. w \in SUBSET CachedInodes
    BY <1>0, <1>2 DEF CallerRec
  <2>2. r \in CallerRec /\ r.pc = mc.th[t].pc /\ r.held = w
    BY <1>0, <1>4, <2>1 DEF CallerRec
  <2> QED
    BY <1>1, <1>2, <2>2
<1>T. PICK T : T = [mc.th EXCEPT ![t] = r]
  OBVIOUS
<1>U. T \in [CacheThreads -> CallerRec] /\ T[t] = r /\ \A u \in CacheThreads \ {t} : T[u] = mc.th[u]
  BY <1>0, <1>5, <1>T
<1>6. mc' = [mc EXCEPT !.sem = s, !.th = T]
  BY <1>0, <1>1, <1>2, <1>4, <1>T DEF TableRec
<1>7. /\ mc' \in TableRec /\ mc'.list = mc.list /\ mc'.header = mc.header /\ mc'.sem = s
      /\ mc'.count = mc.count /\ mc'.info = mc.info /\ mc'.freed = mc.freed /\ mc'.th[t] = r
      /\ \A u \in CacheThreads \ {t} : mc'.th[u] = mc.th[u]
  <2>1. mc \in TableRec
    BY <1>0
  <2>2. /\ mc' \in TableRec /\ mc'.list = mc.list /\ mc'.header = mc.header /\ mc'.sem = s
        /\ mc'.count = mc.count /\ mc'.info = mc.info /\ mc'.freed = mc.freed /\ mc'.th = T
    BY <1>U, <1>3, <1>6, <2>1 DEF TableRec
  <2> QED
    BY <1>U, <2>2
<1>8. CallerOK(mc', t)
  BY <1>0, <1>3, <1>5, <1>7 DEF CallerOK, CallerRec
<1>9. \A j \in CachedInodes : mc.sem[j] \notin {t, Nobody} => mc'.sem[j] = mc.sem[j]
  BY <1>1, <1>3, <1>7
<1> QED
  BY <1>0, <1>5, <1>7, <1>8, <1>9, ListsKept

(* The holder of an entry sets or removes the record of an upload.         *)
LEMMA UploadingInfoStep ==
  ASSUME TableInv(mc), NEW t \in CacheThreads, NEW i \in CachedInodes, NEW now \in BOOLEAN,
         meta_cache_set_uploading_info(t, i, now)
  PROVE  TableInv(mc')
<1> USE CallerTypes
<1>1. /\ mc.th[t].pc = "idle" /\ In(mc.list, i)
      /\ mc' = [mc EXCEPT !.info = IF now THEN @ \cup {i} ELSE @ \ {i}]
  BY DEF meta_cache_set_uploading_info, CallerOK
<1>2. PICK f : f = IF now THEN mc.info \cup {i} ELSE mc.info \ {i}
  OBVIOUS
<1>3. f \in SUBSET CachedInodes /\ f \subseteq EntriesOf(mc.list)
  BY <1>1, <1>2 DEF EntriesOf
<1>4. mc' = [mc EXCEPT !.info = f]
  BY <1>1, <1>2
<1>5. /\ mc' \in TableRec /\ mc'.th = mc.th /\ mc'.list = mc.list /\ mc'.header = mc.header
      /\ mc'.sem = mc.sem /\ mc'.count = mc.count /\ mc'.info = f /\ mc'.freed = mc.freed
  BY <1>3, <1>4 DEF TableRec
<1>6. CallerOK(mc', t)
  BY <1>5 DEF CallerOK
<1> QED
  BY <1>3, <1>5, <1>6, ListsKept

(* An entry leaves its bucket: exactly this one, and the counter says so.  *)
LEMMA EntryExpired ==
  ASSUME NEW m, TableInv(m), NEW i \in CachedInodes, In(m.list, i)
  PROVE  LET n == _expire_entry(m, i) IN
         /\ n \in TableRec /\ BucketsOK(n.list)
         /\ \A j \in CachedInodes : In(n.list, j) <=> (In(m.list, j) /\ j # i)
         /\ n.count = Cardinality(EntriesOf(n.list)) /\ n.count = m.count - 1
         /\ n.header = m.header /\ n.sem = m.sem /\ n.info = m.info /\ n.th = m.th /\ n.freed = m.freed
<1> DEFINE n == _expire_entry(m, i)
<1>1. m \in TableRec /\ BucketsOK(m.list) /\ m.count = Cardinality(EntriesOf(m.list))
  BY DEF TableInv, CountOK
<1>2. m.list \in [MetaBuckets -> Seq(CachedInodes)] /\ m.count \in Nat /\ B(i) \in MetaBuckets
  BY <1>1, TableConstants DEF TableRec
<1>3. PICK s, b : s = m.list[B(i)] /\ b = B(i)
  OBVIOUS
<1>4. s \in Seq(CachedInodes) /\ IsInjective(s) /\ i \in ToSet(s)
  BY <1>1, <1>2, <1>3 DEF BucketsOK, In
<1>5. PICK k : k = CHOOSE x \in DOMAIN s : s[x] = i
  OBVIOUS
<1>6. k \in DOMAIN s /\ s[k] = i
  BY <1>4, <1>5 DEF ToSet
<1>7. PICK z : z = RemoveAt(s, k)
  OBVIOUS
<1>8. z \in Seq(CachedInodes) /\ IsInjective(z) /\ ToSet(z) = ToSet(s) \ {i}
  BY <1>4, <1>6, <1>7, RemoveAtProperties
<1>9. PICK L : L = [m.list EXCEPT ![b] = z]
  OBVIOUS
<1>10. PICK c : c = m.count - 1
  OBVIOUS
<1>11. n = [m EXCEPT !.list = L, !.count = c]
  <2>1. n = [m EXCEPT !.list[b] = RemoveAt(@, k), !.count = @ - 1]
    BY <1>3, <1>5 DEF _expire_entry
  <2> QED
    BY <1>1, <1>2, <1>3, <1>7, <1>9, <1>10, <2>1 DEF TableRec
<1>12. /\ L \in [MetaBuckets -> Seq(CachedInodes)] /\ L[b] = z /\ b \in MetaBuckets
       /\ \A a \in MetaBuckets \ {b} : L[a] = m.list[a]
  BY <1>2, <1>3, <1>8, <1>9
<1>13. BucketsOK(L)
  BY <1>1, <1>3, <1>8, <1>12 DEF BucketsOK
<1>14. ASSUME NEW j \in CachedInodes PROVE In(L, j) <=> (In(m.list, j) /\ j # i)
  <2>1. CASE B(j) = b
    BY <1>3, <1>8, <1>12, <2>1 DEF In
  <2>2. CASE B(j) # b
    BY <1>3, <1>12, <2>2, TableConstants DEF In
  <2> QED
    BY <2>1, <2>2
<1>15. EntriesOf(L) = EntriesOf(m.list) \ {i} /\ i \in EntriesOf(m.list)
  BY <1>14 DEF EntriesOf
<1>16. IsFiniteSet(EntriesOf(m.list))
  BY TableFinite
<1>17. Cardinality(EntriesOf(L)) = Cardinality(EntriesOf(m.list)) - 1
  BY <1>15, <1>16, FS_RemoveElement
<1>18. c = Cardinality(EntriesOf(L)) /\ c \in Nat
  <2>1. Cardinality(EntriesOf(L)) \in Nat
    BY TableFinite
  <2> QED
    BY <1>1, <1>10, <1>17, <2>1
<1> HIDE DEF n
<1>19. /\ n \in TableRec /\ n.list = L /\ n.count = c /\ n.header = m.header /\ n.sem = m.sem
       /\ n.info = m.info /\ n.th = m.th /\ n.freed = m.freed
  BY <1>1, <1>11, <1>12, <1>18 DEF TableRec
<1> QED
  BY <1>10, <1>13, <1>14, <1>18, <1>19 DEF n

(* A thread whose step took the entry i out of the table.                  *)
LEMMA EntryGone ==
  ASSUME TableInv(mc), NEW t \in CacheThreads, NEW i \in CachedInodes, In(mc.list, i),
         mc.header[B(i)] \in {t, Nobody}, mc.sem[i] = Nobody,
         NEW n, n = _expire_entry(mc, i), mc' \in TableRec, mc'.list = n.list, mc'.count = n.count,
         \A u \in CacheThreads \ {t} : mc'.th[u] = mc.th[u],
         \A b \in MetaBuckets : mc.header[b] \notin {t, Nobody} => mc'.header[b] = mc.header[b],
         mc'.sem = mc.sem, mc'.info \subseteq mc.info \ {i}, mc'.freed = mc.freed,
         mc'.th[t].pc # "insert", CallerOK(mc', t)
  PROVE  TableInv(mc')
<1>1. /\ BucketsOK(n.list) /\ n.count = Cardinality(EntriesOf(n.list)) /\ n.count = mc.count - 1
      /\ \A j \in CachedInodes : In(n.list, j) <=> (In(mc.list, j) /\ j # i)
  BY EntryExpired
<1>2. \A j \in CachedInodes : B(j) \in MetaBuckets
  BY TableConstants
<1>3. /\ \A j \in CachedInodes : mc.header[B(j)] \notin {t, Nobody} => (In(mc'.list, j) <=> In(mc.list, j))
      /\ \A j \in CachedInodes : mc.sem[j] \notin {t, Nobody} /\ In(mc.list, j) => In(mc'.list, j)
  BY <1>1
<1>4. \A j \in CachedInodes : mc.sem[j] \notin {t, Nobody} => mc'.sem[j] = mc.sem[j]
  OBVIOUS
<1>5. \A u \in CacheThreads \ {t} : CallerOK(mc', u)
  BY <1>3, <1>4, OtherCallers
<1>6. mc'.count + Cardinality(Inserting(mc')) <= MAX_META_MEM_CACHE_ENTRIES + Cardinality(CacheThreads)
  <2>1. Inserting(mc') \subseteq Inserting(mc)
    BY DEF Inserting
  <2>2. Cardinality(Inserting(mc')) <= Cardinality(Inserting(mc))
    BY <2>1, TableFinite, FS_Subset
  <2>3. /\ Cardinality(Inserting(mc')) \in Nat /\ Cardinality(Inserting(mc)) \in Nat
        /\ Cardinality(CacheThreads) \in Nat /\ mc.count \in Nat /\ MAX_META_MEM_CACHE_ENTRIES \in Nat
        /\ mc.count + Cardinality(Inserting(mc)) <= MAX_META_MEM_CACHE_ENTRIES + Cardinality(CacheThreads)
    BY TableFinite, MetaCacheAssumption DEF TableInv, TableRec, CountOK
  <2>4. mc'.count = mc.count - 1
    BY <1>1
  <2> QED
    BY <2>2, <2>3, <2>4
<1>7. mc'.info \subseteq EntriesOf(mc'.list) /\ ~mc'.freed
  BY <1>1 DEF TableInv, CountOK, EntriesOf
<1>8. CountOK(mc')
  BY <1>1, <1>6, <1>7 DEF CountOK
<1> QED
  BY <1>1, <1>5, <1>8 DEF TableInv

(* One bucket is looked at for an entry that nobody holds.                 *)
LEMMA ExpireStep ==
  ASSUME TableInv(mc), NEW t \in CacheThreads, expire_meta_mem_cache_entry(t)
  PROVE  TableInv(mc')
<1>0. /\ mc \in TableRec /\ mc.th[t] \in CallerRec /\ CallerOK(mc, t) /\ mc.th[t].at \in MetaBuckets
      /\ mc.info \subseteq EntriesOf(mc.list) /\ mc.th \in [CacheThreads -> CallerRec] /\ t # Nobody
  BY CallerTypes
<1>1. PICK b : b = mc.th[t].at
  OBVIOUS
<1>2. mc.th[t].pc = "expire" /\ mc.header[b] = Nobody /\ b \in MetaBuckets
  BY <1>0, <1>1 DEF expire_meta_mem_cache_entry
<1>3. ASSUME NEW x \in MetaBuckets, mc' = [mc EXCEPT !.th[t].at = x] PROVE TableInv(mc')
  <2>1. [mc.th[t] EXCEPT !.at = x] = [mc.th[t] EXCEPT !.pc = "expire", !.at = x]
    BY <1>0, <1>2 DEF CallerRec
  <2>2. mc' = [mc EXCEPT !.th[t].pc = "expire", !.th[t].at = x]
    BY <1>0, <1>3, <2>1 DEF TableRec
  <2> QED
    BY <1>2, <2>2, ThreadMoves
<1>4. ASSUME NEW i \in ToSet(mc.list[b]), Expirable(i),
             mc' = [_expire_entry(mc, i) EXCEPT !.th[t].pc = "header", !.th[t].at = 0]
      PROVE  TableInv(mc')
  <2>1. i \in CachedInodes /\ B(i) = b /\ In(mc.list, i) /\ mc.sem[i] = Nobody /\ i \notin mc.info
    <3>1. mc.list[b] \in Seq(CachedInodes)
      BY <1>0, <1>2 DEF TableRec
    <3>2. i \in CachedInodes
      BY <1>4, <3>1 DEF ToSet
    <3>3. B(i) = b
      BY <1>2, <1>4 DEF TableInv, BucketsOK
    <3> QED
      BY <1>4, <3>2, <3>3 DEF In, Expirable
  <2>2. PICK n : n = _expire_entry(mc, i)
    OBVIOUS
  <2>3. /\ n \in TableRec /\ n.header = mc.header /\ n.sem = mc.sem /\ n.info = mc.info
        /\ n.th = mc.th /\ n.freed = mc.freed
        /\ \A j \in CachedInodes : In(n.list, j) <=> (In(mc.list, j) /\ j # i)
    BY <2>1, <2>2, EntryExpired
  <2>4. PICK r : r = [mc.th[t] EXCEPT !.pc = "header", !.at = 0]
    OBVIOUS
  <2>5. r \in CallerRec /\ r.pc = "header" /\ r.ino = mc.th[t].ino /\ r.held = mc.th[t].held
    <3>1. "header" \in CallerPCs /\ 0 \in MetaBuckets
      BY TableConstants DEF CallerPCs
    <3> QED
      BY <1>0, <2>4, <3>1 DEF CallerRec
  <2>6. PICK T : T = [mc.th EXCEPT ![t] = r]
    OBVIOUS
  <2>7. T \in [CacheThreads -> CallerRec] /\ T[t] = r /\ \A u \in CacheThreads \ {t} : T[u] = mc.th[u]
    BY <1>0, <2>5, <2>6
  <2>8. mc' = [n EXCEPT !.th = T]
    <3>1. mc' = [n EXCEPT !.th[t].pc = "header", !.th[t].at = 0]
      BY <1>4, <2>2
    <3> QED
      BY <2>3, <2>4, <2>6, <3>1 DEF TableRec
  <2>9. /\ mc' \in TableRec /\ mc'.list = n.list /\ mc'.count = n.count /\ mc'.header = mc.header
        /\ mc'.sem = mc.sem /\ mc'.info = mc.info /\ mc'.freed = mc.freed /\ mc'.th = T
    BY <2>3, <2>7, <2>8 DEF TableRec
  <2>10. mc'.th[t] = r /\ \A u \in CacheThreads \ {t} : mc'.th[u] = mc.th[u]
    BY <2>7, <2>9
  <2>11. CallerOK(mc', t)
    <3>1. i \notin mc.th[t].held /\ mc.th[t].held \subseteq CachedInodes
      BY <1>0, <2>1 DEF CallerOK, CallerRec
    <3> QED
      BY <1>0, <1>2, <2>3, <2>5, <2>9, <2>10, <3>1 DEF CallerOK
  <2>12. mc'.info \subseteq mc.info \ {i} /\ mc'.th[t].pc # "insert" /\ mc.header[B(i)] \in {t, Nobody}
    BY <1>2, <2>1, <2>5, <2>9, <2>10
  <2>13. \A a \in MetaBuckets : mc.header[a] \notin {t, Nobody} => mc'.header[a] = mc.header[a]
    BY <2>9
  <2> QED
    BY <2>1, <2>2, <2>9, <2>10, <2>11, <2>12, <2>13, EntryGone
<1> QED
  BY <1>1, <1>3, <1>4 DEF expire_meta_mem_cache_entry

(* meta_cache_remove frees the entry.                                      *)
LEMMA RemoveEntryStep ==
  ASSUME TableInv(mc), NEW t \in CacheThreads, RemoveEntry(t)
  PROVE  TableInv(mc')
<1>0. /\ mc \in TableRec /\ mc.th[t] \in CallerRec /\ CallerOK(mc, t)
      /\ mc.th \in [CacheThreads -> CallerRec] /\ t # Nobody
      /\ mc.header \in [MetaBuckets -> Holder] /\ mc.info \in SUBSET CachedInodes
  BY CallerTypes DEF TableRec
<1>1. PICK i : i = mc.th[t].ino
  OBVIOUS
<1>2. /\ mc.th[t].pc = "remove" /\ mc.sem[i] = Nobody /\ i \in CachedInodes
      /\ mc.header[B(i)] = t /\ In(mc.list, i) /\ B(i) \in MetaBuckets
  BY <1>0, <1>1, TableConstants DEF RemoveEntry, CallerOK
<1>3. PICK n : n = _expire_entry(mc, i)
  OBVIOUS
<1>4. /\ n \in TableRec /\ n.header = mc.header /\ n.sem = mc.sem /\ n.info = mc.info
      /\ n.th = mc.th /\ n.freed = mc.freed
      /\ \A j \in CachedInodes : In(n.list, j) <=> (In(mc.list, j) /\ j # i)
  BY <1>2, <1>3, EntryExpired
<1>5. PICK r, h, f : /\ r = [mc.th[t] EXCEPT !.pc = "idle", !.ino = 0]
                     /\ h = [mc.header EXCEPT ![B(i)] = Nobody] /\ f = mc.info \ {i}
  OBVIOUS
<1>6. r \in CallerRec /\ r.pc = "idle" /\ r.held = mc.th[t].held
  <2>1. "idle" \in CallerPCs
    BY DEF CallerPCs
  <2> QED
    BY <1>0, <1>5, <2>1 DEF CallerRec
<1>7. /\ h \in [MetaBuckets -> Holder] /\ f \in SUBSET CachedInodes
      /\ \A b \in MetaBuckets \ {B(i)} : h[b] = mc.header[b]
  BY <1>0, <1>2, <1>5 DEF Holder
<1>8. PICK T : T = [mc.th EXCEPT ![t] = r]
  OBVIOUS
<1>9. T \in [CacheThreads -> CallerRec] /\ T[t] = r /\ \A u \in CacheThreads \ {t} : T[u] = mc.th[u]
  BY <1>0, <1>6, <1>8
<1>10. mc' = [n EXCEPT !.header = h, !.info = f, !.th = T]
  <2>1. mc' = [n EXCEPT !.header[B(i)] = Nobody, !.info = @ \ {i}, !.th[t].pc = "idle", !.th[t].ino = 0]
    BY <1>1, <1>3 DEF RemoveEntry
  <2> QED
    BY <1>4, <1>5, <1>8, <2>1 DEF TableRec
<1>11. /\ mc' \in TableRec /\ mc'.list = n.list /\ mc'.count = n.count /\ mc'.header = h
       /\ mc'.sem = mc.sem /\ mc'.info = f /\ mc'.freed = mc.freed /\ mc'.th = T
  BY <1>4, <1>7, <1>9, <1>10 DEF TableRec
<1>12. mc'.th[t] = r /\ \A u \in CacheThreads \ {t} : mc'.th[u] = mc.th[u]
  BY <1>9, <1>11
<1>13. CallerOK(mc', t)
  <2>1. i \notin mc.th[t].held /\ mc.th[t].held \subseteq CachedInodes
    BY <1>0, <1>2 DEF CallerOK, CallerRec
  <2> QED
    BY <1>0, <1>4, <1>6, <1>11, <1>12, <2>1 DEF CallerOK
<1>14. mc'.info \subseteq mc.info \ {i} /\ mc'.th[t].pc # "insert" /\ mc.header[B(i)] \in {t, Nobody}
  BY <1>2, <1>5, <1>6, <1>11, <1>12
<1>15. \A b \in MetaBuckets : mc.header[b] \notin {t, Nobody} => mc'.header[b] = mc.header[b]
  BY <1>2, <1>7, <1>11
<1> QED
  BY <1>2, <1>3, <1>11, <1>12, <1>13, <1>14, <1>15, EntryGone

(* The new entry is put in front of its bucket.                            *)
LEMMA InsertStep ==
  ASSUME TableInv(mc), NEW t \in CacheThreads, Insert(t)
  PROVE  TableInv(mc')
<1>0. /\ mc \in TableRec /\ mc.th[t] \in CallerRec /\ CallerOK(mc, t) /\ mc.info \subseteq EntriesOf(mc.list)
      /\ mc.header \in [MetaBuckets -> Holder] /\ mc.sem \in [CachedInodes -> Holder]
      /\ mc.th \in [CacheThreads -> CallerRec] /\ ~mc.freed /\ t # Nobody
  BY CallerTypes
<1>1. PICK i : i = mc.th[t].ino
  OBVIOUS
<1>2. /\ mc.th[t].pc = "insert" /\ i \in CachedInodes /\ B(i) \in MetaBuckets
      /\ mc.header[B(i)] = t /\ ~In(mc.list, i)
  BY <1>0, <1>1, TableConstants DEF Insert, CallerOK
<1>3. CASE mc' = [mc EXCEPT !.header[B(i)] = Nobody, !.th[t].pc = "idle", !.th[t].ino = 0]
  <2>1. PICK r, h : /\ r = [mc.th[t] EXCEPT !.pc = "idle", !.ino = 0]
                    /\ h = [mc.header EXCEPT ![B(i)] = Nobody]
    OBVIOUS
  <2>2. r \in CallerRec /\ r.pc = "idle" /\ r.held = mc.th[t].held
    <3>1. "idle" \in CallerPCs
      BY DEF CallerPCs
    <3> QED
      BY <1>0, <2>1, <3>1 DEF CallerRec
  <2>3. h \in [MetaBuckets -> Holder] /\ \A b \in MetaBuckets \ {B(i)} : h[b] = mc.header[b]
    BY <1>0, <1>2, <2>1 DEF Holder
  <2>4. PICK T : T = [mc.th EXCEPT ![t] = r]
    OBVIOUS
  <2>5. T \in [CacheThreads -> CallerRec] /\ T[t] = r /\ \A u \in CacheThreads \ {t} : T[u] = mc.th[u]
    BY <1>0, <2>2, <2>4
  <2>6. mc' = [mc EXCEPT !.header = h, !.th = T]
    BY <1>0, <1>3, <2>1, <2>4 DEF TableRec
  <2>7. /\ mc' \in TableRec /\ mc'.list = mc.list /\ mc'.count = mc.count /\ mc'.header = h
        /\ mc'.sem = mc.sem /\ mc'.info = mc.info /\ mc'.freed = mc.freed /\ mc'.th = T
    BY <1>0, <2>3, <2>5, <2>6 DEF TableRec
  <2>8. mc'.th[t] = r /\ \A u \in CacheThreads \ {t} : mc'.th[u] = mc.th[u]
    BY <2>5, <2>7
  <2>9. CallerOK(mc', t)
    BY <1>0, <2>2, <2>7, <2>8 DEF CallerOK
  <2>10. \A b \in MetaBuckets : mc.header[b] \notin {t, Nobody} => mc'.header[b] = mc.header[b]
    BY <1>2, <2>3, <2>7
  <2>11. mc'.info \subseteq EntriesOf(mc.list) /\ ~mc'.freed /\ mc'.th[t].pc # "insert"
    BY <1>0, <2>2, <2>7, <2>8
  <2> QED
    BY <2>7, <2>8, <2>9, <2>10, <2>11, ListsKept
<1>4. CASE mc' = [mc EXCEPT !.list[B(i)] = <<i>> \o @, !.count = @ + 1, !.th[t].pc = "access"]
  <2>1. PICK r, s, b : r = [mc.th[t] EXCEPT !.pc = "access"] /\ s = mc.list[B(i)] /\ b = B(i)
    OBVIOUS
  <2>2. r \in CallerRec /\ r.pc = "access" /\ r.ino = i /\ r.held = mc.th[t].held
    <3>1. "access" \in CallerPCs
      BY DEF CallerPCs
    <3> QED
      BY <1>0, <1>1, <2>1, <3>1 DEF CallerRec
  <2>3. /\ mc.list \in [MetaBuckets -> Seq(CachedInodes)] /\ s \in Seq(CachedInodes) /\ IsInjective(s)
        /\ i \notin ToSet(s) /\ mc.count \in Nat
    BY <1>0, <1>2, <2>1 DEF TableRec, TableInv, BucketsOK, In
  <2>4. PICK z : z = <<i>> \o s
    OBVIOUS
  <2>5. z \in Seq(CachedInodes) /\ IsInjective(z) /\ ToSet(z) = ToSet(s) \cup {i}
    BY <1>2, <2>3, <2>4, ConsProperties
  <2>6. PICK L, T, c : L = [mc.list EXCEPT ![b] = z] /\ T = [mc.th EXCEPT ![t] = r] /\ c = mc.count + 1
    OBVIOUS
  <2>7. T \in [CacheThreads -> CallerRec] /\ T[t] = r /\ \A u \in CacheThreads \ {t} : T[u] = mc.th[u]
    BY <1>0, <2>2, <2>6
  <2>8. /\ L \in [MetaBuckets -> Seq(CachedInodes)] /\ L[b] = z /\ b \in MetaBuckets /\ c \in Nat
        /\ \A a \in MetaBuckets \ {b} : L[a] = mc.list[a]
    BY <1>2, <2>1, <2>3, <2>5, <2>6
  <2>9. mc' = [mc EXCEPT !.list = L, !.count = c, !.th = T]
    BY <1>0, <1>4, <2>1, <2>4, <2>6 DEF TableRec
  <2>10. /\ mc' \in TableRec /\ mc'.list = L /\ mc'.count = c /\ mc'.header = mc.header
         /\ mc'.sem = mc.sem /\ mc'.info = mc.info /\ mc'.freed = mc.freed /\ mc'.th = T
    BY <1>0, <2>7, <2>8, <2>9 DEF TableRec
  <2>11. mc'.th[t] = r /\ \A u \in CacheThreads \ {t} : mc'.th[u] = mc.th[u]
    BY <2>7, <2>10
  <2>12. ASSUME NEW j \in CachedInodes PROVE In(L, j) <=> (In(mc.list, j) \/ j = i)
    <3>1. CASE B(j) = b
      BY <2>1, <2>5, <2>8, <3>1 DEF In
    <3>2. CASE B(j) # b
      BY <2>1, <2>8, <3>2, TableConstants DEF In
    <3> QED
      BY <3>1, <3>2
  <2>13. BucketsOK(mc'.list)
    <3>1. BucketsOK(mc.list)
      BY DEF TableInv
    <3> QED
      BY <2>1, <2>5, <2>8, <2>10, <3>1 DEF BucketsOK
  <2>14. CallerOK(mc', t)
    <3>1. mc.th[t].held \subseteq CachedInodes
      BY <1>0 DEF CallerRec
    <3> QED
      BY <1>0, <1>2, <2>2, <2>10, <2>11, <2>12, <3>1 DEF CallerOK
  <2>15. \A j \in CachedInodes : mc.header[B(j)] \notin {t, Nobody} => (In(mc'.list, j) <=> In(mc.list, j))
    BY <1>2, <2>10, <2>12
  <2>16. /\ \A j \in CachedInodes : mc.sem[j] \notin {t, Nobody} /\ In(mc.list, j) => In(mc'.list, j)
         /\ \A j \in CachedInodes : mc.sem[j] \notin {t, Nobody} => mc'.sem[j] = mc.sem[j]
         /\ \A a \in MetaBuckets : mc.header[a] \notin {t, Nobody} => mc'.header[a] = mc.header[a]
    BY <2>10, <2>12
  <2>17. \A u \in CacheThreads \ {t} : CallerOK(mc', u)
    BY <2>10, <2>11, <2>15, <2>16, OtherCallers
  <2>18. mc'.count = Cardinality(EntriesOf(mc'.list))
    <3>1. EntriesOf(L) = EntriesOf(mc.list) \cup {i} /\ i \notin EntriesOf(mc.list)
      BY <1>2, <2>12 DEF EntriesOf
    <3>2. IsFiniteSet(EntriesOf(mc.list)) /\ mc.count = Cardinality(EntriesOf(mc.list))
      BY TableFinite DEF TableInv, CountOK
    <3>3. Cardinality(EntriesOf(L)) = Cardinality(EntriesOf(mc.list)) + 1
      BY <3>1, <3>2, FS_AddElement
    <3> QED
      BY <2>6, <2>10, <3>2, <3>3
  <2>19. mc'.count + Cardinality(Inserting(mc')) <= MAX_META_MEM_CACHE_ENTRIES + Cardinality(CacheThreads)
    <3>1. Inserting(mc') = Inserting(mc) \ {t} /\ t \in Inserting(mc)
      BY <1>2, <2>2, <2>11 DEF Inserting
    <3>2. IsFiniteSet(Inserting(mc))
      BY TableFinite
    <3>3. Cardinality(Inserting(mc')) = Cardinality(Inserting(mc)) - 1
      BY <3>1, <3>2, FS_RemoveElement
    <3>4. /\ Cardinality(Inserting(mc)) \in Nat /\ Cardinality(CacheThreads) \in Nat
          /\ MAX_META_MEM_CACHE_ENTRIES \in Nat
          /\ mc.count + Cardinality(Inserting(mc)) <= MAX_META_MEM_CACHE_ENTRIES + Cardinality(CacheThreads)
      BY TableFinite, MetaCacheAssumption DEF TableInv, CountOK
    <3> QED
      BY <2>3, <2>6, <2>10, <3>3, <3>4
  <2>20. mc'.info \subseteq EntriesOf(mc'.list) /\ ~mc'.freed
    BY <1>0, <2>10, <2>12 DEF EntriesOf
  <2>21. CountOK(mc')
    BY <2>18, <2>19, <2>20 DEF CountOK
  <2> QED
    BY <2>10, <2>13, <2>14, <2>17, <2>21 DEF TableInv
<1> QED
  BY <1>1, <1>3, <1>4 DEF Insert

(* meta_cache_lock_entry, meta_cache_remove, expire_meta_mem_cache_entry:  *)
(* for any number of threads, inodes and buckets, an entry a thread holds  *)
(* or waits for stays in the table, no inode has two entries, the counter  *)
(* is exact and bounded, and the record of an upload is not expired.       *)
THEOREM MetaCacheEntriesHeld == MCSpec => [](MCTypeOK /\ EntriesHeld)
<1>1. MCInit => TableInv(mc)
  <2> SUFFICES ASSUME MCInit PROVE TableInv(mc)
    OBVIOUS
  <2>1. Idle \in CallerRec /\ Idle.pc = "idle" /\ Idle.held = {}
    BY TableConstants DEF Idle, CallerRec, CallerPCs
  <2>2. /\ mc.list = [b \in MetaBuckets |-> <<>>] /\ mc.header = [b \in MetaBuckets |-> Nobody]
        /\ mc.sem = [i \in CachedInodes |-> Nobody] /\ mc.count = 0 /\ mc.info = {}
        /\ mc.th = [t \in CacheThreads |-> Idle] /\ mc.freed = FALSE
    BY DEF MCInit
  <2>3. mc \in TableRec
    <3>1. /\ [b \in MetaBuckets |-> <<>>] \in [MetaBuckets -> Seq(CachedInodes)]
          /\ [b \in MetaBuckets |-> Nobody] \in [MetaBuckets -> Holder]
          /\ [i \in CachedInodes |-> Nobody] \in [CachedInodes -> Holder]
          /\ [t \in CacheThreads |-> Idle] \in [CacheThreads -> CallerRec]
      BY <2>1 DEF Holder
    <3> QED
      BY <3>1 DEF MCInit, TableRec
  <2>4. \A b \in MetaBuckets : mc.list[b] = <<>>
    BY <2>2
  <2>5. BucketsOK(mc.list)
    BY <2>4 DEF BucketsOK, IsInjective, ToSet
  <2>6. EntriesOf(mc.list) = {} /\ Inserting(mc) = {}
    BY <2>1, <2>2, <2>4, TableConstants DEF EntriesOf, In, ToSet, Inserting
  <2>7. CountOK(mc)
    <3>1. Cardinality({}) = 0
      BY FS_EmptySet
    <3>2. Cardinality(CacheThreads) \in Nat /\ MAX_META_MEM_CACHE_ENTRIES \in Nat
      BY TableFinite, MetaCacheAssumption
    <3>3. mc.count = Cardinality(EntriesOf(mc.list)) /\ Cardinality(Inserting(mc)) = 0
      BY <2>2, <2>6, <3>1
    <3> QED
      BY <2>2, <3>2, <3>3 DEF CountOK
  <2>8. \A t \in CacheThreads : CallerOK(mc, t)
    BY <2>1, <2>2 DEF CallerOK
  <2> QED
    BY <2>3, <2>5, <2>7, <2>8 DEF TableInv
<1>2. TableInv(mc) /\ [MCNext]_mc => TableInv(mc)'
  <2> SUFFICES ASSUME TableInv(mc), [MCNext]_mc PROVE TableInv(mc')
    OBVIOUS
  <2>1. CASE UNCHANGED mc
    BY <2>1
  <2>2. ASSUME NEW t \in CacheThreads,
               \/ LockHeader(t) \/ Insert(t) \/ LockAccess(t)
               \/ expire_meta_mem_cache_entry(t) \/ RemoveEntry(t)
        PROVE  TableInv(mc')
    BY <2>2, LockHeaderStep, InsertStep, LockAccessStep, ExpireStep, RemoveEntryStep
  <2>3. ASSUME NEW t \in CacheThreads, NEW i \in CachedInodes,
               \/ meta_cache_lock_entry(t, i) \/ meta_cache_unlock_entry(t, i) \/ meta_cache_remove(t, i)
               \/ \E b \in BOOLEAN : meta_cache_set_uploading_info(t, i, b)
        PROVE  TableInv(mc')
    BY <2>3, LockEntryStep, UnlockEntryStep, RemoveStep, UploadingInfoStep
  <2> QED
    BY <2>1, <2>2, <2>3 DEF MCNext
<1>3. TableInv(mc) => MCTypeOK /\ EntriesHeld
  <2> SUFFICES ASSUME TableInv(mc) PROVE MCTypeOK /\ EntriesHeld
    OBVIOUS
  <2>1. /\ \A t \in CacheThreads : CallerOK(mc, t) /\ mc.th[t].held \subseteq CachedInodes
        /\ mc.header \in [MetaBuckets -> Holder] /\ mc.count \in Nat
    BY CallerTypes DEF TableInv, TableRec
  <2>2. MCTypeOK
    BY <2>1 DEF MCTypeOK, Holder
  <2>3. AllCached = EntriesOf(mc.list) /\ \A i : Cached(i) <=> In(mc.list, i)
    BY DEF AllCached, Cached, EntriesOf, In
  <2>4. mc.count <= MAX_META_MEM_CACHE_ENTRIES + Cardinality(CacheThreads)
    <3>1. /\ Cardinality(Inserting(mc)) \in Nat /\ Cardinality(CacheThreads) \in Nat
          /\ MAX_META_MEM_CACHE_ENTRIES \in Nat
          /\ mc.count + Cardinality(Inserting(mc)) <= MAX_META_MEM_CACHE_ENTRIES + Cardinality(CacheThreads)
      BY TableFinite, MetaCacheAssumption DEF TableInv, CountOK
    <3> QED
      BY <2>1, <3>1
  <2>5. \A t \in CacheThreads : /\ \A i \in mc.th[t].held : mc.sem[i] = t /\ Cached(i)
                                /\ mc.th[t].pc = "access" => Cached(mc.th[t].ino)
    BY <2>1, <2>3 DEF CallerOK
  <2>6. /\ ~mc.freed /\ mc.count = Cardinality(AllCached) /\ mc.info \subseteq AllCached
        /\ \A b \in MetaBuckets : IsInjective(mc.list[b])
    BY <2>3 DEF TableInv, CountOK, BucketsOK
  <2> QED
    BY <2>2, <2>4, <2>5, <2>6 DEF EntriesHeld
<1> QED
  BY <1>1, <1>2, <1>3, PTL DEF MCSpec

-----------------------------------------------------------------------------
(***************************************************************************)
(* Deletion from the cloud.                                                *)
(*                                                                         *)
(* DeletionInv is the inductive invariant.  All steps but the collector's  *)
(* and a restart work for one dsync thread and its inode, and DsyncStep    *)
(* keeps the invariant for everything else: what is left for each step is  *)
(* its own thread, the delete threads of its inode, and the inode.         *)
(***************************************************************************)
Objects == {"meta"} \cup UNION {CloudBlocks[i] : i \in Doomed}
Working == {"fetch", "blocks", "meta", "join", "stat", "free"}
DsyncPCs == Working \cup {"none", "finished"}
DsyncRec == [ino : Doomed \cup {0}, pc : DsyncPCs, todo : SUBSET Objects, err : BOOLEAN,
             again : BOOLEAN, slot : Deletes \cup {0}]
DeleteRec == [ino : Doomed \cup {0}, obj : Objects \cup {"none"}, ds : Dsyncs \cup {0},
              created : BOOLEAN, done : BOOLEAN, err : BOOLEAN]
DeletionRec ==
  [queue : Seq(Doomed), check : Doomed \cup {0}, retry : Seq(Doomed),
   ds : [Dsyncs -> DsyncRec], del : [Deletes -> DeleteRec], pause : BOOLEAN,
   objs : [Doomed -> SUBSET Objects], gone : SUBSET Doomed, fails : Nat, crashes : Nat,
   counted : [Doomed -> Nat], leaked : SUBSET Doomed, torn : SUBSET Doomed]

(* The dsync thread d: it works on a number of the queue, and the delete   *)
(* thread it is about to announce or to join is its own.                   *)
ThreadOK(r, d) ==
  /\ r.ds[d].ino = 0 <=> r.ds[d].pc = "none"
  /\ r.ds[d].pc \in Working => r.ds[d].ino \in ToSet(r.queue)
  /\ r.ds[d].pc = "join" => r.ds[d].slot # 0 /\ r.del[r.ds[d].slot].obj = "meta"
  /\ r.ds[d].slot # 0 =>
       /\ r.ds[d].pc \in {"blocks", "join"}
       /\ r.del[r.ds[d].slot].ino = r.ds[d].ino
       /\ r.ds[d].pc = "blocks" => r.del[r.ds[d].slot].obj # "meta" /\ ~r.del[r.ds[d].slot].created

(* The block o of d's inode is with a delete thread of d that has not      *)
(* deleted it.                                                             *)
Pending(r, d, o) ==
  \E l \in Deletes : /\ r.del[l].ds = d /\ r.del[l].ino = r.ds[d].ino /\ r.del[l].obj = o
                     /\ ~r.del[l].done \/ r.del[l].err

(* What is left in the cloud of the inode of thread d.                     *)
StageOK(r, d) ==
  LET i == r.ds[d].ino
      pc == r.ds[d].pc
  IN /\ pc = "blocks" /\ ~r.ds[d].err =>
          \A o \in r.objs[i] \ {"meta"} : o \in r.ds[d].todo \/ Pending(r, d, o)
     /\ pc = "blocks" => r.ds[d].todo \subseteq CloudBlocks[i]
     /\ pc \in {"meta", "join", "stat", "free"} /\ i \notin r.torn => r.objs[i] \subseteq {"meta"}
     /\ pc \in {"stat", "free"} /\ i \notin r.leaked => "meta" \notin r.objs[i]
     /\ pc \in {"blocks", "meta", "join", "stat"} /\ i \notin r.leaked => r.counted[i] = 0

(* The delete thread l: one for metadata works for a dsync thread that     *)
(* waits for it, one for a block may have been left behind by a walk that  *)
(* broke off; when it has ended without an error its object is gone.       *)
DeleteOK(r, l) ==
  LET t == r.del[l] IN
  /\ t.ino = 0 => t = FreeDelete
  /\ t.ino # 0 =>
       /\ t.ds \in Dsyncs
       /\ t.obj = "meta" => r.ds[t.ds].ino = t.ino /\ r.ds[t.ds].pc = "join" /\ r.ds[t.ds].slot = l
       /\ t.err => t.done
       /\ t.done /\ ~t.err => t.obj \notin r.objs[t.ino]
       /\ t.done /\ t.err /\ t.obj = "meta" => t.ino \in r.leaked

(* The inode i: DeletedClean for it, and it is counted when its metadata   *)
(* is gone.                                                                *)
InodeOK(r, i) ==
  /\ r.objs[i] \subseteq CloudBlocks[i] \cup {"meta"}
  /\ i \in r.gone /\ i \notin r.torn => r.objs[i] \subseteq (IF i \in r.leaked THEN {"meta"} ELSE {})
  /\ i \notin r.torn => "meta" \in r.objs[i] \/ r.objs[i] = {}
  /\ i \notin r.leaked => r.counted[i] <= 1 /\ (r.counted[i] >= 1 => "meta" \notin r.objs[i])
  /\ i \in r.gone \/ i \in ToSet(r.queue)

OneDsync(r) == \A d, e \in Dsyncs : r.ds[d].ino # 0 /\ r.ds[d].ino = r.ds[e].ino => d = e

DeletionInv(r) ==
  /\ r \in DeletionRec /\ IsInjective(r.queue) /\ OneDsync(r)
  /\ \A d \in Dsyncs : ThreadOK(r, d) /\ StageOK(r, d)
  /\ \A l \in Deletes : DeleteOK(r, l)
  /\ \A i \in Doomed : InodeOK(r, i)

-----------------------------------------------------------------------------
(* The constants: numbers of threads, and inode 0 is none.                 *)
LEMMA DeletionConstants ==
  /\ Dsyncs \subseteq Nat /\ 0 \notin Dsyncs /\ Deletes \subseteq Nat /\ 0 \notin Deletes
  /\ 0 \notin Doomed /\ \A i \in Doomed : "meta" \notin CloudBlocks[i]
  /\ \A i \in Doomed : CloudBlocks[i] \subseteq Objects
  BY CloudDeleteAssumption DEF Dsyncs, Deletes, Doomed, Objects

(* The metadata is an object, and no thread is a good beginning.           *)
LEMMA DeletionTypes ==
  /\ "meta" \in Objects /\ FreeDsync \in DsyncRec /\ FreeDelete \in DeleteRec
  /\ init_dsync_control \in [Dsyncs -> DsyncRec] /\ init_delete_control \in [Deletes -> DeleteRec]
<1>1. "meta" \in Objects
  <2> DEFINE U == UNION {CloudBlocks[i] : i \in Doomed}
  <2>1. Objects = {"meta"} \cup U
    BY DEF Objects
  <2> HIDE DEF U
  <2> QED
    BY <2>1
<1>2. FreeDsync \in DsyncRec /\ FreeDelete \in DeleteRec
  BY DEF FreeDsync, FreeDelete, DsyncRec, DeleteRec, DsyncPCs
<1> QED
  BY <1>1, <1>2 DEF init_dsync_control, init_delete_control

(* What the type says of the fields.                                       *)
LEMMA DeletionFields ==
  ASSUME NEW r \in DeletionRec
  PROVE  /\ r.queue \in Seq(Doomed) /\ r.check \in Doomed \cup {0} /\ r.retry \in Seq(Doomed)
         /\ r.ds \in [Dsyncs -> DsyncRec] /\ r.del \in [Deletes -> DeleteRec] /\ r.pause \in BOOLEAN
         /\ r.objs \in [Doomed -> SUBSET Objects] /\ r.gone \in SUBSET Doomed
         /\ r.fails \in Nat /\ r.crashes \in Nat
         /\ r.counted \in [Doomed -> Nat] /\ r.leaked \in SUBSET Doomed /\ r.torn \in SUBSET Doomed
         /\ \A d \in Dsyncs : r.ds[d] \in DsyncRec
         /\ \A l \in Deletes : r.del[l] \in DeleteRec
  BY DEF DeletionRec

(* What the types say of the threads.                                      *)
LEMMA ThreadFields ==
  /\ \A t \in DsyncRec : /\ t.ino \in Doomed \cup {0} /\ t.pc \in DsyncPCs /\ t.todo \in SUBSET Objects
                         /\ t.err \in BOOLEAN /\ t.again \in BOOLEAN /\ t.slot \in Deletes \cup {0}
  /\ \A t \in DeleteRec : /\ t.ino \in Doomed \cup {0} /\ t.obj \in Objects \cup {"none"}
                          /\ t.ds \in Dsyncs \cup {0} /\ t.created \in BOOLEAN
                          /\ t.done \in BOOLEAN /\ t.err \in BOOLEAN
  BY DEF DsyncRec, DeleteRec

(* A delete thread for the metadata of d's inode is the one d waits for.   *)
LEMMA OwnDelete ==
  ASSUME NEW r, DeletionInv(r), NEW d \in Dsyncs, NEW l \in Deletes,
         r.del[l].ino = r.ds[d].ino, r.ds[d].ino # 0, r.del[l].obj = "meta"
  PROVE  r.del[l].ds = d /\ r.ds[d].pc = "join" /\ r.ds[d].slot = l
<1>1. DeleteOK(r, l) /\ OneDsync(r)
  BY DEF DeletionInv
<1> QED
  BY <1>1 DEF DeleteOK, OneDsync

(* Another dsync thread does not notice the step.                          *)
LEMMA OtherDsync ==
  ASSUME NEW r \in DeletionRec, NEW q \in DeletionRec, NEW e \in Dsyncs,
         ThreadOK(r, e), StageOK(r, e), q.ds[e] = r.ds[e], r.leaked \subseteq q.leaked,
         r.torn \subseteq q.torn,
         r.ds[e].ino \in ToSet(r.queue) => r.ds[e].ino \in ToSet(q.queue),
         r.ds[e].ino # 0 => /\ q.objs[r.ds[e].ino] = r.objs[r.ds[e].ino]
                            /\ q.counted[r.ds[e].ino] = r.counted[r.ds[e].ino]
                            /\ \A l \in Deletes : r.del[l].ino = r.ds[e].ino => q.del[l] = r.del[l]
  PROVE  ThreadOK(q, e) /\ StageOK(q, e)
<1>1. r.ds[e].slot \in Deletes \cup {0}
  BY DeletionFields, ThreadFields
<1>2. r.ds[e].slot # 0 => r.ds[e].ino # 0
  BY DEF ThreadOK
<1>3. ThreadOK(q, e)
  BY <1>1, <1>2 DEF ThreadOK
<1>4. r.ds[e].pc \in Working => r.ds[e].ino # 0
  BY DEF ThreadOK, Working
<1>5. ASSUME r.ds[e].ino # 0, NEW o, Pending(r, e, o) PROVE Pending(q, e, o)
  BY <1>5 DEF Pending
<1>6. StageOK(q, e)
  BY <1>4, <1>5 DEF StageOK, Working
<1> QED
  BY <1>3, <1>6

(* A step for the dsync thread d and the inode i.                          *)
LEMMA DsyncStep ==
  ASSUME NEW r, DeletionInv(r), NEW q \in DeletionRec, NEW d \in Dsyncs, NEW i \in Doomed,
         \A e \in Dsyncs \ {d} : q.ds[e] = r.ds[e] /\ r.ds[e].ino # i,
         r.ds[d].ino \in {0, i}, q.ds[d].ino \in {0, i},
         \A l \in Deletes : r.del[l].ino \notin {0, i} => q.del[l] = r.del[l],
         \A l \in Deletes : q.del[l] = r.del[l] \/ q.del[l].ino = i \/ q.del[l] = FreeDelete,
         \A j \in Doomed \ {i} : /\ q.objs[j] = r.objs[j] /\ q.counted[j] = r.counted[j]
                                 /\ j \in ToSet(r.queue) => j \in ToSet(q.queue)
                                 /\ j \in q.gone <=> j \in r.gone
                                 /\ j \in q.leaked <=> j \in r.leaked
                                 /\ j \in q.torn <=> j \in r.torn,
         r.leaked \subseteq q.leaked, r.torn \subseteq q.torn, IsInjective(q.queue),
         ThreadOK(q, d), StageOK(q, d), InodeOK(q, i),
         \A l \in Deletes : q.del[l].ino = i => DeleteOK(q, l)
  PROVE  DeletionInv(q)
<1>0. /\ r \in DeletionRec /\ OneDsync(r) /\ \A e \in Dsyncs : ThreadOK(r, e) /\ StageOK(r, e)
      /\ \A l \in Deletes : DeleteOK(r, l)
      /\ \A j \in Doomed : InodeOK(r, j)
  BY DEF DeletionInv
<1>1. \A e \in Dsyncs : r.ds[e].ino \in Doomed \cup {0}
  BY <1>0, DeletionFields, ThreadFields
<1>2. OneDsync(q)
  BY <1>0 DEF OneDsync
<1>3. ASSUME NEW e \in Dsyncs \ {d} PROVE ThreadOK(q, e) /\ StageOK(q, e)
  <2>1. q.ds[e] = r.ds[e] /\ r.ds[e].ino # i /\ r.ds[e].ino \in Doomed \cup {0}
    BY <1>1, <1>3
  <2>2. r.ds[e].ino # 0 => /\ q.objs[r.ds[e].ino] = r.objs[r.ds[e].ino]
                           /\ q.counted[r.ds[e].ino] = r.counted[r.ds[e].ino]
                           /\ \A l \in Deletes : r.del[l].ino = r.ds[e].ino => q.del[l] = r.del[l]
    BY <2>1
  <2>3. r.ds[e].ino \in ToSet(r.queue) => r.ds[e].ino \in ToSet(q.queue)
    <3>1. r.ds[e].ino \in ToSet(r.queue) => r.ds[e].ino \in Doomed
      BY <1>0, DeletionFields DEF ToSet
    <3> QED
      BY <2>1, <3>1
  <2> QED
    BY <1>0, <1>3, <2>1, <2>2, <2>3, OtherDsync
<1>4. ASSUME NEW l \in Deletes PROVE DeleteOK(q, l)
  <2>1. CASE q.del[l] = FreeDelete
    BY <2>1 DEF DeleteOK, FreeDelete
  <2>2. CASE q.del[l] = r.del[l] /\ q.del[l].ino \notin {0, i}
    <3>1. DeleteOK(r, l) /\ r.del[l].ino \in Doomed
      BY <1>0, <2>2, DeletionFields, ThreadFields
    <3>2. r.del[l].obj = "meta" => r.del[l].ds \in Dsyncs \ {d}
      BY <3>1, <2>2, SMTT(60) DEF DeleteOK
    <3>3. /\ r.del[l].obj = "meta" => q.ds[r.del[l].ds] = r.ds[r.del[l].ds]
          /\ q.objs[r.del[l].ino] = r.objs[r.del[l].ino]
      BY <3>1, <3>2, <2>2
    <3>4. q.del[l] = r.del[l] /\ r.leaked \subseteq q.leaked
      BY <2>2
    <3> QED
      BY ONLY <3>1, <3>3, <3>4 DEF DeleteOK
  <2>3. q.del[l] = r.del[l] /\ r.del[l].ino = 0 => q.del[l] = FreeDelete
    BY <1>0 DEF DeleteOK
  <2> QED
    BY <2>1, <2>2, <2>3
<1>5. ASSUME NEW j \in Doomed \ {i} PROVE InodeOK(q, j)
  BY <1>0 DEF InodeOK
<1> QED
  BY <1>2, <1>3, <1>4, <1>5 DEF DeletionInv

(* The first of some threads exists.                                       *)
LEMMA FirstThread ==
  ASSUME NEW S \in SUBSET Dsyncs, S # {}
  PROVE  (CHOOSE x \in S : \A y \in S : x <= y) \in S
<1> DEFINE less == {ss \in Nat \X Nat : ss[1] < ss[2]}
<1>1. IsWellFoundedOn(less, Nat)
  BY NatLessThanWellFounded DEF OpToRel
<1>2. S \subseteq Nat
  BY DeletionConstants
<1> HIDE DEF less
<1>3. PICK n \in S : \A m \in S : ~(<<m, n>> \in less)
  BY <1>1, <1>2, WFMin
<1>4. \A m \in S : ~(m < n)
  BY <1>2, <1>3 DEF less
<1>5. \A m \in S : n <= m
  BY <1>2, <1>4
<1>6. QED
  BY <1>5

(* A listed number has a position.                                         *)
LEMMA QueuePosition ==
  ASSUME cd \in DeletionRec, NEW i \in ToSet(cd.queue)
  PROVE  /\ i \in Doomed /\ Position(i) \in DOMAIN cd.queue /\ cd.queue[Position(i)] = i
         /\ NextInQueue(i) \in Doomed \cup {0}
<1>1. PICK k \in DOMAIN cd.queue : cd.queue[k] = i
  BY DEF ToSet
<1>2. cd.queue \in Seq(Doomed) /\ DOMAIN cd.queue = 1..Len(cd.queue) /\ Len(cd.queue) \in Nat
  BY DeletionFields
<1>3. Position(i) \in DOMAIN cd.queue /\ cd.queue[Position(i)] = i
  BY <1>1 DEF Position
<1>4. NextInQueue(i) \in Doomed \cup {0}
  <2>1. CASE Position(i) < Len(cd.queue)
    <3>1. Position(i) + 1 \in 1..Len(cd.queue)
      BY <1>2, <1>3, <2>1
    <3>2. cd.queue[Position(i) + 1] \in Doomed
      BY <1>2, <3>1
    <3> QED
      BY <2>1, <3>2 DEF NextInQueue
  <2>2. CASE ~(Position(i) < Len(cd.queue))
    BY <2>2 DEF NextInQueue
  <2> QED
    BY <2>1, <2>2
<1> QED
  BY <1>1, <1>2, <1>3, <1>4

(* The number of a finished deletion leaves the queue.                     *)
LEMMA QueueDelete ==
  ASSUME DeletionInv(cd), NEW i \in ToSet(cd.queue)
  PROVE  LET n == IF i \in ToSet(cd.queue) THEN RemoveAt(cd.queue, Position(i)) ELSE cd.queue IN
         n \in Seq(Doomed) /\ IsInjective(n) /\ ToSet(n) = ToSet(cd.queue) \ {i}
<1>1. cd \in DeletionRec /\ IsInjective(cd.queue)
  BY DEF DeletionInv
<1>2. cd.queue \in Seq(Doomed) /\ Position(i) \in DOMAIN cd.queue /\ cd.queue[Position(i)] = i
  BY <1>1, DeletionFields, QueuePosition
<1> QED
  BY <1>1, <1>2, RemoveAtProperties

(* A step that leaves the threads, the objects and the numbers alone.      *)
LEMMA NothingDone ==
  ASSUME NEW r, DeletionInv(r), NEW q \in DeletionRec, q.queue = r.queue, q.ds = r.ds,
         q.del = r.del, q.objs = r.objs, q.gone = r.gone, q.counted = r.counted, q.leaked = r.leaked,
         q.torn = r.torn
  PROVE  DeletionInv(q)
<1>1. OneDsync(q)
  BY DEF DeletionInv, OneDsync
<1>2. ASSUME NEW d \in Dsyncs PROVE ThreadOK(q, d) /\ StageOK(q, d)
  <2>1. ThreadOK(r, d) /\ StageOK(r, d)
    BY DEF DeletionInv
  <2>2. /\ q.queue = r.queue /\ q.ds = r.ds /\ q.del = r.del /\ q.objs = r.objs
        /\ q.counted = r.counted /\ q.leaked = r.leaked /\ q.torn = r.torn
    OBVIOUS
  <2>3. ThreadOK(q, d)
    BY ONLY <2>1, <2>2 DEF ThreadOK
  <2>4. StageOK(q, d)
    BY ONLY <2>1, <2>2 DEF StageOK, Pending
  <2> QED
    BY <2>3, <2>4
<1>3. ASSUME NEW l \in Deletes PROVE DeleteOK(q, l)
  BY DEF DeletionInv, DeleteOK
<1>4. ASSUME NEW i \in Doomed PROVE InodeOK(q, i)
  BY DEF DeletionInv, InodeOK
<1> QED
  BY <1>1, <1>2, <1>3, <1>4 DEF DeletionInv

(* delete_loop gives a listed number that no thread has to a free thread.  *)
LEMMA LoopStep == ASSUME DeletionInv(cd), delete_loop PROVE DeletionInv(cd')
<1>0. cd \in DeletionRec /\ cd.queue \in Seq(Doomed) /\ cd.retry \in Seq(Doomed)
      /\ cd.ds \in [Dsyncs -> DsyncRec] /\ \A d \in Dsyncs : cd.ds[d] \in DsyncRec
  BY DeletionFields DEF DeletionInv
<1>1. PICK i : i = ToCheck
  OBVIOUS
<1>2. PICK rt \in Seq(Doomed), ck \in Doomed \cup {0} :
        /\ rt = (IF cd.retry = <<>> THEN cd.retry ELSE Tail(cd.retry))
        /\ ck = (IF i \in ToSet(cd.queue) THEN NextInQueue(i) ELSE 0)
  <2>1. (IF cd.retry = <<>> THEN cd.retry ELSE Tail(cd.retry)) \in Seq(Doomed)
    BY <1>0
  <2>2. (IF i \in ToSet(cd.queue) THEN NextInQueue(i) ELSE 0) \in Doomed \cup {0}
    BY <1>0, QueuePosition
  <2> QED
    BY <2>1, <2>2
<1>3. PICK r : r = [cd EXCEPT !.retry = rt, !.check = ck]
  OBVIOUS
<1>4. /\ r \in DeletionRec /\ r.queue = cd.queue /\ r.ds = cd.ds /\ r.del = cd.del
      /\ r.objs = cd.objs /\ r.gone = cd.gone /\ r.counted = cd.counted /\ r.leaked = cd.leaked
      /\ r.torn = cd.torn
  BY <1>0, <1>2, <1>3 DEF DeletionRec
<1>5. DeletionInv(r)
  BY <1>4, NothingDone
<1>6. CASE cd' = r
  BY <1>5, <1>6
<1>7. CASE /\ i \in ToSet(cd.queue) /\ ~\E d \in Active : cd.ds[d].ino = i
           /\ \E d \in Dsyncs \ Active : cd' = _dsync_use_thread(r, d, i)
  <2>1. PICK d \in Dsyncs : d \notin Active /\ cd' = _dsync_use_thread(r, d, i)
    BY <1>7
  <2>2. i \in Doomed /\ i # 0
    BY <1>0, <1>7, QueuePosition, DeletionConstants
  <2>13. PICK t : t = [cd.ds[d] EXCEPT !.ino = i, !.pc = "fetch"]
    OBVIOUS
  <2>3. /\ t \in DsyncRec /\ t = [cd.ds[d] EXCEPT !.ino = i, !.pc = "fetch"]
        /\ t.ino = i /\ t.pc = "fetch" /\ t.slot = cd.ds[d].slot
    <3>1. cd.ds[d] \in DsyncRec /\ i \in Doomed
      BY <1>0, <2>1, <2>2
    <3> QED
      BY ONLY <2>13, <3>1 DEF DsyncRec, DsyncPCs, Working
  <2>4. t.ino = i /\ t.pc = "fetch" /\ t.slot = 0
    <3>1. ThreadOK(cd, d) /\ cd.ds[d].ino = 0
      BY <2>1 DEF DeletionInv, Active
    <3> QED
      BY <2>3, <3>1 DEF ThreadOK
  <2>5. PICK D \in [Dsyncs -> DsyncRec] : D = [cd.ds EXCEPT ![d] = t]
    BY <1>0, <2>3
  <2>6. cd' = [r EXCEPT !.ds = D]
    BY <2>1, <2>3, <2>5, <1>4 DEF _dsync_use_thread
  <2>7. /\ cd' \in DeletionRec /\ cd'.queue = r.queue /\ cd'.ds = D /\ cd'.del = r.del
        /\ cd'.objs = r.objs /\ cd'.gone = r.gone /\ cd'.counted = r.counted /\ cd'.leaked = r.leaked
        /\ cd'.torn = r.torn
    BY <1>4, <2>6 DEF DeletionRec
  <2>8. cd'.ds[d] = t /\ \A e \in Dsyncs \ {d} : cd'.ds[e] = r.ds[e] /\ r.ds[e].ino # i
    BY <1>0, <1>4, <1>7, <2>2, <2>5, <2>7 DEF Active
  <2>9. r.ds[d].ino = 0 /\ InodeOK(r, i) /\ IsInjective(r.queue)
    BY <1>4, <1>5, <2>1, <2>2 DEF Active, DeletionInv
  <2>10. ThreadOK(cd', d) /\ StageOK(cd', d)
    BY <1>4, <1>7, <2>2, <2>4, <2>7, <2>8 DEF ThreadOK, StageOK, Working
  <2>11. InodeOK(cd', i)
    BY <2>7, <2>9 DEF InodeOK
  <2>12. ASSUME NEW l \in Deletes, cd'.del[l].ino = i PROVE DeleteOK(cd', l)
    <3>1. DeleteOK(r, l) /\ cd'.del[l] = r.del[l] /\ r.del[l].ino = i
      BY <1>5, <2>7, <2>12 DEF DeletionInv
    <3>2. r.del[l].obj # "meta"
      BY <2>2, <2>8, <2>9, <3>1 DEF DeleteOK
    <3> QED
      BY <2>2, <2>7, <3>1, <3>2 DEF DeleteOK
  <2> QED
    BY <1>5, <2>2, <2>4, <2>7, <2>8, <2>9, <2>10, <2>11, <2>12, DsyncStep
<1>8. CASE /\ i \in ToSet(cd.queue) /\ ~\E d \in Active : cd.ds[d].ino = i
           /\ cd' # r
  <2>1. Active # Dsyncs /\ Dsyncs \ Active \in SUBSET Dsyncs /\ Dsyncs \ Active # {}
    BY DEF delete_loop, Active
  <2>2. (CHOOSE x \in Dsyncs \ Active : \A y \in Dsyncs \ Active : x <= y) \in Dsyncs \ Active
    BY <2>1, FirstThread
  <2>3. cd' = _dsync_use_thread(r, CHOOSE x \in Dsyncs \ Active : \A y \in Dsyncs \ Active : x <= y, i)
    BY <1>1, <1>2, <1>3, <1>8 DEF delete_loop
  <2> QED
    BY <1>7, <1>8, <2>1, <2>2, <2>3
<1>9. cd' = r \/ (i \in ToSet(cd.queue) /\ ~\E d \in Active : cd.ds[d].ino = i)
  BY <1>1, <1>2, <1>3 DEF delete_loop
<1> QED
  BY <1>6, <1>8, <1>9

(* What the invariant says of the dsync thread that takes a step.          *)
LEMMA AtWork ==
  ASSUME DeletionInv(cd), NEW d \in Dsyncs, cd.ds[d].pc # "none"
  PROVE  /\ cd.ds[d].ino \in Doomed /\ cd.ds[d].ino # 0 /\ cd.ds[d] \in DsyncRec
         /\ \A e \in Dsyncs \ {d} : cd.ds[e].ino # cd.ds[d].ino
         /\ ThreadOK(cd, d) /\ StageOK(cd, d) /\ InodeOK(cd, cd.ds[d].ino)
         /\ cd \in DeletionRec /\ IsInjective(cd.queue)
<1>1. /\ cd \in DeletionRec /\ IsInjective(cd.queue) /\ OneDsync(cd)
      /\ ThreadOK(cd, d) /\ StageOK(cd, d)
  BY DEF DeletionInv
<1>2. cd.ds[d] \in DsyncRec /\ cd.ds[d].ino # 0
  BY <1>1, DeletionFields DEF ThreadOK
<1>3. cd.ds[d].ino \in Doomed
  BY <1>2, ThreadFields
<1>4. \A e \in Dsyncs \ {d} : cd.ds[e].ino # cd.ds[d].ino
  BY <1>1, <1>2 DEF OneDsync
<1> QED
  BY <1>1, <1>2, <1>3, <1>4 DEF DeletionInv

(* A step that changes the dsync thread d to t and nothing of its inode.   *)
LEMMA DsyncMoves ==
  ASSUME DeletionInv(cd), NEW d \in Dsyncs, cd.ds[d].pc # "none",
         NEW t \in DsyncRec, NEW q \in DeletionRec, t.ino \in {0, cd.ds[d].ino},
         q.queue = cd.queue, q.del = cd.del, q.objs = cd.objs, q.gone = cd.gone,
         q.counted = cd.counted, q.leaked = cd.leaked, q.ds = [cd.ds EXCEPT ![d] = t],
         cd.torn \subseteq q.torn, q.torn \subseteq cd.torn \cup {cd.ds[d].ino},
         cd.ds[d].pc # "join", ThreadOK(q, d), StageOK(q, d)
  PROVE  DeletionInv(q)
<1>1. PICK i : i = cd.ds[d].ino
  OBVIOUS
<1>2. /\ i \in Doomed /\ i # 0 /\ cd \in DeletionRec /\ IsInjective(cd.queue)
      /\ InodeOK(cd, i) /\ \A e \in Dsyncs \ {d} : cd.ds[e].ino # i
  BY <1>1, AtWork
<1>3. cd.ds \in [Dsyncs -> DsyncRec]
  BY <1>2, DeletionFields
<1>4. q.ds[d] = t /\ \A e \in Dsyncs \ {d} : q.ds[e] = cd.ds[e]
  BY <1>3
<1>5. InodeOK(q, i)
  BY <1>2 DEF InodeOK
<1>6. /\ \A e \in Dsyncs \ {d} : q.ds[e] = cd.ds[e] /\ cd.ds[e].ino # i
      /\ cd.ds[d].ino \in {0, i} /\ q.ds[d].ino \in {0, i}
      /\ \A l \in Deletes : cd.del[l].ino \notin {0, i} => q.del[l] = cd.del[l]
      /\ \A l \in Deletes : q.del[l] = cd.del[l] \/ q.del[l].ino = i \/ q.del[l] = FreeDelete
  BY <1>1, <1>2, <1>4
<1>10. ASSUME NEW l \in Deletes, q.del[l].ino = i PROVE DeleteOK(q, l)
  <2>1. cd.del[l].obj # "meta" /\ DeleteOK(cd, l) /\ q.del[l] = cd.del[l] /\ cd.del[l].ino = i
    BY <1>1, <1>2, <1>10, OwnDelete DEF DeletionInv
  <2> QED
    BY <1>2, <2>1 DEF DeleteOK
<1>11. \A l \in Deletes : q.del[l].ino = i => DeleteOK(q, l)
  BY <1>10
<1>7. \A j \in Doomed \ {i} : /\ q.objs[j] = cd.objs[j] /\ q.counted[j] = cd.counted[j]
                              /\ j \in ToSet(cd.queue) => j \in ToSet(q.queue)
                              /\ j \in q.gone <=> j \in cd.gone
                              /\ j \in q.leaked <=> j \in cd.leaked
                              /\ j \in q.torn <=> j \in cd.torn
  BY <1>1
<1>8. IsInjective(q.queue) /\ cd.leaked \subseteq q.leaked /\ cd.torn \subseteq q.torn
  BY <1>2
<1>9. /\ ThreadOK(q, d) /\ StageOK(q, d) /\ DeletionInv(cd) /\ q \in DeletionRec
      /\ d \in Dsyncs /\ i \in Doomed
  BY <1>2
<1> QED
  BY ONLY <1>5, <1>6, <1>7, <1>8, <1>9, <1>11, DsyncStep

(* The number is freed when no block of it is left and its metadata is     *)
(* gone, or was to be deleted and failed to; or its metadata is unreadable. *)
LEMMA NumberFreed ==
  ASSUME DeletionInv(cd), NEW d \in Dsyncs, cd.ds[d].pc \in {"fetch", "free"},
         NEW i, i = cd.ds[d].ino, NEW q \in DeletionRec,
         q.queue = IF i \in ToSet(cd.queue) THEN RemoveAt(cd.queue, Position(i)) ELSE cd.queue,
         q.gone = cd.gone \cup {i}, q.ds = [cd.ds EXCEPT ![d] = [@ EXCEPT !.pc = "finished"]],
         q.del = cd.del, q.objs = cd.objs, q.counted = cd.counted, q.leaked = cd.leaked,
         cd.torn \subseteq q.torn, q.torn \subseteq cd.torn \cup {i},
         i \in q.torn \/ cd.objs[i] \subseteq (IF i \in cd.leaked THEN {"meta"} ELSE {})
  PROVE  DeletionInv(q)
<1>2. /\ i \in Doomed /\ i # 0 /\ cd \in DeletionRec /\ IsInjective(cd.queue) /\ ThreadOK(cd, d)
      /\ InodeOK(cd, i) /\ cd.ds[d] \in DsyncRec /\ \A e \in Dsyncs \ {d} : cd.ds[e].ino # i
  BY AtWork
<1>3. i \in ToSet(cd.queue)
  BY <1>2 DEF ThreadOK, Working
<1>4. IsInjective(q.queue) /\ ToSet(q.queue) = ToSet(cd.queue) \ {i}
  BY <1>3, QueueDelete
<1>5. PICK t : t = [cd.ds[d] EXCEPT !.pc = "finished"]
  OBVIOUS
<1>6. t \in DsyncRec /\ t.pc = "finished" /\ t.ino = i /\ t.slot = 0
  <2>1. cd.ds[d].slot = 0
    BY <1>2 DEF ThreadOK
  <2> QED
    BY <1>2, <1>5, <2>1 DEF DsyncRec, DsyncPCs
<1>11. q.ds[d] = t /\ \A e \in Dsyncs \ {d} : q.ds[e] = cd.ds[e]
  BY <1>2, <1>5, DeletionFields
<1>12. ThreadOK(q, d) /\ StageOK(q, d)
  BY <1>2, <1>6, <1>11 DEF ThreadOK, StageOK, Working
<1>13. InodeOK(q, i)
  BY <1>2 DEF InodeOK
<1>14. ASSUME NEW l \in Deletes, q.del[l].ino = i PROVE DeleteOK(q, l)
  <2>1. cd.del[l].obj # "meta" /\ DeleteOK(cd, l) /\ q.del[l] = cd.del[l] /\ cd.del[l].ino = i
    BY <1>2, <1>14, OwnDelete DEF DeletionInv
  <2> QED
    BY <1>2, <2>1 DEF DeleteOK
<1>16. /\ \A e \in Dsyncs \ {d} : q.ds[e] = cd.ds[e] /\ cd.ds[e].ino # i
       /\ cd.ds[d].ino \in {0, i} /\ q.ds[d].ino \in {0, i}
       /\ \A l \in Deletes : cd.del[l].ino \notin {0, i} => q.del[l] = cd.del[l]
       /\ \A l \in Deletes : q.del[l] = cd.del[l] \/ q.del[l].ino = i \/ q.del[l] = FreeDelete
  BY <1>2, <1>6, <1>11
<1>17. \A j \in Doomed \ {i} : /\ q.objs[j] = cd.objs[j] /\ q.counted[j] = cd.counted[j]
                               /\ j \in ToSet(cd.queue) => j \in ToSet(q.queue)
                               /\ j \in q.gone <=> j \in cd.gone
                               /\ j \in q.leaked <=> j \in cd.leaked
                               /\ j \in q.torn <=> j \in cd.torn
  BY <1>4
<1>18. cd.leaked \subseteq q.leaked /\ cd.torn \subseteq q.torn /\ IsInjective(q.queue)
  BY <1>4
<1>19. \A l \in Deletes : q.del[l].ino = i => DeleteOK(q, l)
  BY <1>14
<1>20. DeletionInv(cd) /\ q \in DeletionRec /\ d \in Dsyncs /\ i \in Doomed
  BY <1>2
<1> QED
  BY ONLY <1>12, <1>13, <1>16, <1>17, <1>18, <1>19, <1>20, DsyncStep

(* What freeing the number of d's inode leaves.                            *)
LEMMA FreedFields ==
  ASSUME DeletionInv(cd), NEW d \in Dsyncs, cd.ds[d].pc \in {"fetch", "free"},
         NEW i, i = cd.ds[d].ino, NEW q, q = Finished(dsync_super_block_delete(cd, i), d)
  PROVE  /\ q \in DeletionRec
         /\ q.queue = IF i \in ToSet(cd.queue) THEN RemoveAt(cd.queue, Position(i)) ELSE cd.queue
         /\ q.gone = cd.gone \cup {i} /\ q.ds = [cd.ds EXCEPT ![d] = [@ EXCEPT !.pc = "finished"]]
         /\ q.del = cd.del /\ q.objs = cd.objs /\ q.counted = cd.counted /\ q.leaked = cd.leaked
         /\ q.torn = cd.torn /\ q.fails = cd.fails
<1>1. i \in Doomed /\ cd \in DeletionRec /\ ThreadOK(cd, d) /\ cd.ds[d] \in DsyncRec
  BY AtWork
<1>2. i \in ToSet(cd.queue)
  BY <1>1 DEF ThreadOK, Working
<1>3. PICK n \in Seq(Doomed) : n = (IF i \in ToSet(cd.queue) THEN RemoveAt(cd.queue, Position(i)) ELSE cd.queue)
  BY <1>2, QueueDelete
<1>4. PICK t \in DsyncRec : t = [cd.ds[d] EXCEPT !.pc = "finished"]
  BY <1>1 DEF DsyncRec, DsyncPCs
<1>5. PICK D \in [Dsyncs -> DsyncRec] : D = [cd.ds EXCEPT ![d] = t]
  BY <1>1, <1>4, DeletionFields
<1>6. PICK G \in SUBSET Doomed : G = cd.gone \cup {i}
  BY <1>1, DeletionFields
<1>7. q = [cd EXCEPT !.queue = n, !.gone = G, !.ds = D]
  BY <1>1, <1>3, <1>4, <1>5, <1>6 DEF Finished, dsync_super_block_delete, DeletionRec
<1>8. /\ q \in DeletionRec /\ q.queue = n /\ q.gone = G /\ q.ds = D /\ q.del = cd.del /\ q.objs = cd.objs
      /\ q.counted = cd.counted /\ q.leaked = cd.leaked /\ q.torn = cd.torn /\ q.fails = cd.fails
  BY <1>1, <1>7 DEF DeletionRec
<1> QED
  BY <1>3, <1>4, <1>5, <1>6, <1>8

(* The metadata is fetched, is not there, or cannot be fetched.            *)
LEMMA FetchStep == ASSUME DeletionInv(cd), NEW d \in Dsyncs, FetchMeta(d) PROVE DeletionInv(cd')
<1>1. PICK i : i = cd.ds[d].ino
  OBVIOUS
<1>2. /\ i \in Doomed /\ i # 0 /\ cd \in DeletionRec /\ ThreadOK(cd, d) /\ StageOK(cd, d)
      /\ InodeOK(cd, i) /\ cd.ds[d] \in DsyncRec /\ cd.ds[d].pc = "fetch"
  BY <1>1, AtWork DEF FetchMeta
<1>3. cd.ds[d].slot = 0 /\ i \in ToSet(cd.queue)
  BY <1>1, <1>2 DEF ThreadOK, Working
<1>5. cd.ds \in [Dsyncs -> DsyncRec] /\ cd.fails \in Nat /\ cd.counted[i] \in Nat
  BY <1>2, DeletionFields
<1>6. CASE "meta" \in cd.objs[i] /\ cd' = [cd EXCEPT !.ds[d].pc = "blocks", !.ds[d].todo = CloudBlocks[i]]
  <2>1. PICK t : t = [cd.ds[d] EXCEPT !.pc = "blocks", !.todo = CloudBlocks[i]]
    OBVIOUS
  <2>2. t \in DsyncRec /\ t.pc = "blocks" /\ t.ino = i /\ t.slot = 0 /\ t.todo = CloudBlocks[i]
    BY <1>1, <1>2, <1>3, <2>1, DeletionConstants DEF DsyncRec, DsyncPCs, Working
  <2>3. PICK D \in [Dsyncs -> DsyncRec] : D = [cd.ds EXCEPT ![d] = t]
    BY <1>5, <2>2
  <2>4. cd' = [cd EXCEPT !.ds = D]
    BY <1>2, <1>6, <2>1, <2>3 DEF DeletionRec
  <2>5. /\ cd' \in DeletionRec /\ cd'.queue = cd.queue /\ cd'.ds = D /\ cd'.del = cd.del
        /\ cd'.gone = cd.gone /\ cd'.objs = cd.objs /\ cd'.counted = cd.counted /\ cd'.leaked = cd.leaked /\ cd'.torn = cd.torn
    BY <1>2, <2>4 DEF DeletionRec
  <2>6. cd'.ds[d] = t
    BY <1>5, <2>3, <2>5
  <2>7. ThreadOK(cd', d)
    BY <1>2, <1>3, <2>2, <2>5, <2>6 DEF ThreadOK
  <2>8. i \notin cd.leaked => cd.counted[i] = 0
    BY <1>2, <1>5, <1>6 DEF InodeOK
  <2>9. StageOK(cd', d)
    BY <1>2, <2>2, <2>5, <2>6, <2>8 DEF StageOK, InodeOK
  <2> QED
    BY <1>1, <1>2, <2>2, <2>3, <2>5, <2>7, <2>9, DsyncMoves
<1>7. CASE "meta" \notin cd.objs[i] /\ cd' = Finished(dsync_super_block_delete(cd, i), d)
  <2>1. i \in cd.torn \/ cd.objs[i] \subseteq (IF i \in cd.leaked THEN {"meta"} ELSE {})
    BY <1>2, <1>7 DEF InodeOK
  <2>2. /\ cd' \in DeletionRec
        /\ cd'.queue = IF i \in ToSet(cd.queue) THEN RemoveAt(cd.queue, Position(i)) ELSE cd.queue
        /\ cd'.gone = cd.gone \cup {i} /\ cd'.ds = [cd.ds EXCEPT ![d] = [@ EXCEPT !.pc = "finished"]]
        /\ cd'.del = cd.del /\ cd'.objs = cd.objs /\ cd'.counted = cd.counted /\ cd'.leaked = cd.leaked
        /\ cd'.torn = cd.torn
    BY <1>1, <1>2, <1>7, FreedFields
  <2>3. DeletionInv(cd) /\ d \in Dsyncs /\ cd.ds[d].pc \in {"fetch", "free"} /\ i = cd.ds[d].ino
    BY <1>1, <1>2
  <2>4. /\ cd.torn \subseteq cd'.torn /\ cd'.torn \subseteq cd.torn \cup {i}
        /\ i \in cd'.torn \/ cd.objs[i] \subseteq (IF i \in cd.leaked THEN {"meta"} ELSE {})
    BY <2>1, <2>2
  <2> QED
    BY ONLY <2>2, <2>3, <2>4, NumberFreed
<1>8. CASE cd' = [Finished(cd, d) EXCEPT !.fails = @ + 1]
  <2>1. PICK t : t = [cd.ds[d] EXCEPT !.pc = "finished"]
    OBVIOUS
  <2>2. t \in DsyncRec /\ t.pc = "finished" /\ t.ino = i /\ t.slot = 0
    BY <1>1, <1>2, <1>3, <2>1 DEF DsyncRec, DsyncPCs
  <2>3. PICK D \in [Dsyncs -> DsyncRec] : D = [cd.ds EXCEPT ![d] = t]
    BY <1>5, <2>2
  <2>4. PICK f \in Nat : f = cd.fails + 1
    BY <1>5
  <2>5. cd' = [cd EXCEPT !.ds = D, !.fails = f]
    BY <1>2, <1>8, <2>1, <2>3, <2>4 DEF DeletionRec, Finished
  <2>6. /\ cd' \in DeletionRec /\ cd'.queue = cd.queue /\ cd'.ds = D /\ cd'.del = cd.del
        /\ cd'.gone = cd.gone /\ cd'.objs = cd.objs /\ cd'.counted = cd.counted /\ cd'.leaked = cd.leaked /\ cd'.torn = cd.torn
    BY <1>2, <2>5 DEF DeletionRec
  <2>7. cd'.ds[d] = t
    BY <1>5, <2>3, <2>6
  <2>8. ThreadOK(cd', d) /\ StageOK(cd', d)
    BY <1>2, <1>3, <2>2, <2>7 DEF ThreadOK, StageOK, Working
  <2> QED
    BY <1>1, <1>2, <2>2, <2>3, <2>6, <2>8, DsyncMoves
<1>9. CASE cd' = [Finished(dsync_super_block_delete(cd, i), d) EXCEPT !.fails = @ + 1, !.torn = @ \cup {i}]
  <2>1. PICK r : r = Finished(dsync_super_block_delete(cd, i), d)
    OBVIOUS
  <2>2. /\ r \in DeletionRec
        /\ r.queue = IF i \in ToSet(cd.queue) THEN RemoveAt(cd.queue, Position(i)) ELSE cd.queue
        /\ r.gone = cd.gone \cup {i} /\ r.ds = [cd.ds EXCEPT ![d] = [@ EXCEPT !.pc = "finished"]]
        /\ r.del = cd.del /\ r.objs = cd.objs /\ r.counted = cd.counted /\ r.leaked = cd.leaked
        /\ r.torn = cd.torn /\ r.fails = cd.fails
    BY <1>1, <1>2, <2>1, FreedFields
  <2>3. PICK f \in Nat, T \in SUBSET Doomed : f = r.fails + 1 /\ T = r.torn \cup {i}
    <3>1. r.fails + 1 \in Nat /\ r.torn \cup {i} \in SUBSET Doomed
      BY <1>2, <1>5, <2>2, DeletionFields
    <3> QED
      BY <3>1
  <2>4. cd' = [r EXCEPT !.fails = f, !.torn = T]
    BY <1>9, <2>1, <2>3
  <2>5. /\ cd' \in DeletionRec /\ cd'.queue = r.queue /\ cd'.gone = r.gone /\ cd'.ds = r.ds
        /\ cd'.del = r.del /\ cd'.objs = r.objs /\ cd'.counted = r.counted /\ cd'.leaked = r.leaked
        /\ cd'.torn = T
    BY <2>2, <2>4 DEF DeletionRec
  <2>6. /\ cd' \in DeletionRec
        /\ cd'.queue = IF i \in ToSet(cd.queue) THEN RemoveAt(cd.queue, Position(i)) ELSE cd.queue
        /\ cd'.gone = cd.gone \cup {i} /\ cd'.ds = [cd.ds EXCEPT ![d] = [@ EXCEPT !.pc = "finished"]]
        /\ cd'.del = cd.del /\ cd'.objs = cd.objs /\ cd'.counted = cd.counted /\ cd'.leaked = cd.leaked
        /\ cd.torn \subseteq cd'.torn /\ cd'.torn \subseteq cd.torn \cup {i} /\ i \in cd'.torn
    BY <2>2, <2>3, <2>5
  <2>7. DeletionInv(cd) /\ d \in Dsyncs /\ cd.ds[d].pc \in {"fetch", "free"} /\ i = cd.ds[d].ino
    BY <1>1, <1>2
  <2> QED
    BY ONLY <2>6, <2>7, NumberFreed
<1> QED
  BY <1>1, <1>6, <1>7, <1>8, <1>9 DEF FetchMeta

(* A step of the dsync thread d and the delete thread l, which is its own  *)
(* or free.                                                                *)
LEMMA PairMoves ==
  ASSUME DeletionInv(cd), NEW d \in Dsyncs, cd.ds[d].pc # "none",
         NEW i \in Doomed, i = cd.ds[d].ino, NEW l \in Deletes, cd.del[l].ino \in {0, i},
         NEW q \in DeletionRec, q.queue = cd.queue, q.gone = cd.gone, q.counted = cd.counted,
         \A e \in Dsyncs \ {d} : q.ds[e] = cd.ds[e], q.ds[d].ino = i,
         \A k \in Deletes \ {l} : q.del[k] = cd.del[k], q.del[l].ino = i \/ q.del[l] = FreeDelete,
         \A j \in Doomed \ {i} : q.objs[j] = cd.objs[j] /\ (j \in q.leaked <=> j \in cd.leaked),
         cd.leaked \subseteq q.leaked, q.torn = cd.torn,
         ThreadOK(q, d), StageOK(q, d), InodeOK(q, i),
         \A k \in Deletes : q.del[k].ino = i => DeleteOK(q, k)
  PROVE  DeletionInv(q)
<1>1. /\ i # 0 /\ cd \in DeletionRec /\ IsInjective(cd.queue)
      /\ \A e \in Dsyncs \ {d} : cd.ds[e].ino # i
  BY AtWork
<1>2. /\ \A e \in Dsyncs \ {d} : q.ds[e] = cd.ds[e] /\ cd.ds[e].ino # i
      /\ cd.ds[d].ino \in {0, i} /\ q.ds[d].ino \in {0, i}
  BY <1>1
<1>3. /\ \A k \in Deletes : cd.del[k].ino \notin {0, i} => q.del[k] = cd.del[k]
      /\ \A k \in Deletes : q.del[k] = cd.del[k] \/ q.del[k].ino = i \/ q.del[k] = FreeDelete
      /\ \A k \in Deletes : q.del[k].ino = i => DeleteOK(q, k)
  OBVIOUS
<1>4. \A j \in Doomed \ {i} : /\ q.objs[j] = cd.objs[j] /\ q.counted[j] = cd.counted[j]
                              /\ j \in ToSet(cd.queue) => j \in ToSet(q.queue)
                              /\ j \in q.gone <=> j \in cd.gone
                              /\ j \in q.leaked <=> j \in cd.leaked
                              /\ j \in q.torn <=> j \in cd.torn
  OBVIOUS
<1>5. IsInjective(q.queue) /\ cd.leaked \subseteq q.leaked /\ cd.torn \subseteq q.torn
  BY <1>1
<1>6. /\ ThreadOK(q, d) /\ StageOK(q, d) /\ InodeOK(q, i) /\ DeletionInv(cd)
      /\ q \in DeletionRec /\ d \in Dsyncs /\ i \in Doomed
  OBVIOUS
<1> QED
  BY ONLY <1>2, <1>3, <1>4, <1>5, <1>6, DsyncStep

(* A block is given to a delete thread.                                    *)
LEMMA BlockStep == ASSUME DeletionInv(cd), NEW d \in Dsyncs, DeleteBlock(d) PROVE DeletionInv(cd')
<1>1. PICK i : i = cd.ds[d].ino
  OBVIOUS
<1>2. /\ i \in Doomed /\ i # 0 /\ cd \in DeletionRec /\ ThreadOK(cd, d) /\ StageOK(cd, d)
      /\ InodeOK(cd, i) /\ cd.ds[d] \in DsyncRec /\ cd.ds[d].pc = "blocks"
      /\ cd.ds[d].slot = 0
  BY <1>1, AtWork DEF DeleteBlock
<1>3. cd.ds \in [Dsyncs -> DsyncRec] /\ cd.del \in [Deletes -> DeleteRec]
  BY <1>2, DeletionFields
<1>4. PICK b \in cd.ds[d].todo, l \in FreeSlots :
        cd' = [_use_delete_thread(cd, l, d, b) EXCEPT !.ds[d].todo = @ \ {b}]
  BY DEF DeleteBlock
<1>5. b \in Objects /\ b # "meta" /\ b \in CloudBlocks[i]
  BY <1>1, <1>2, <1>4, ThreadFields, DeletionConstants DEF StageOK
<1>6. l \in Deletes /\ l # 0 /\ cd.del[l].ino = 0 /\ cd.del[l] = FreeDelete
  BY DeletionConstants DEF FreeSlots, DeletionInv, DeleteOK
<1>7. PICK t : t = [cd.ds[d] EXCEPT !.slot = l, !.todo = @ \ {b}]
  OBVIOUS
<1>8. /\ t \in DsyncRec /\ t.ino = i /\ t.pc = "blocks" /\ t.slot = l /\ t.err = cd.ds[d].err
      /\ t.todo = cd.ds[d].todo \ {b}
  BY <1>1, <1>2, <1>6, <1>7 DEF DsyncRec
<1>9. PICK u : u = [FreeDelete EXCEPT !.ino = cd.ds[d].ino, !.obj = b, !.ds = d]
  OBVIOUS
<1>10. /\ u \in DeleteRec /\ u.ino = i /\ u.obj = b /\ u.ds = d
       /\ u.created = FALSE /\ u.done = FALSE /\ u.err = FALSE
  BY <1>1, <1>2, <1>5, <1>9 DEF DeleteRec, FreeDelete
<1>11. PICK D \in [Dsyncs -> DsyncRec], L \in [Deletes -> DeleteRec] :
         D = [cd.ds EXCEPT ![d] = t] /\ L = [cd.del EXCEPT ![l] = u]
  BY <1>3, <1>8, <1>10
<1>12. cd' = [cd EXCEPT !.ds = D, !.del = L]
  <2>1. PICK v : v = [cd.ds[d] EXCEPT !.slot = l]
    OBVIOUS
  <2>2. t = [v EXCEPT !.todo = @ \ {b}]
    BY <1>2, <1>7, <2>1 DEF DsyncRec
  <2>3. PICK E : E = [cd.ds EXCEPT ![d] = v]
    OBVIOUS
  <2>4. PICK r : r = [cd EXCEPT !.ds = E, !.del = L]
    OBVIOUS
  <2>5. _use_delete_thread(cd, l, d, b) = r
    BY <1>2, <1>9, <1>11, <2>1, <2>3, <2>4 DEF _use_delete_thread, DeletionRec
  <2>6. cd' = [r EXCEPT !.ds = [E EXCEPT ![d] = t]]
    <3>1. r.ds = E /\ E[d] = v
      BY <1>2, <1>3, <2>3, <2>4 DEF DeletionRec
    <3> QED
      BY <1>4, <2>2, <2>5, <3>1
  <2>7. [E EXCEPT ![d] = t] = D
    BY <1>3, <1>11, <2>3
  <2> QED
    BY <1>2, <2>4, <2>6, <2>7 DEF DeletionRec
<1>13. /\ cd' \in DeletionRec /\ cd'.queue = cd.queue /\ cd'.ds = D /\ cd'.del = L /\ cd'.gone = cd.gone
       /\ cd'.objs = cd.objs /\ cd'.counted = cd.counted /\ cd'.leaked = cd.leaked /\ cd'.torn = cd.torn
  BY <1>2, <1>12 DEF DeletionRec
<1>14. /\ cd'.ds[d] = t /\ cd'.del[l] = u
       /\ \A k \in Deletes \ {l} : cd'.del[k] = cd.del[k]
       /\ \A e \in Dsyncs \ {d} : cd'.ds[e] = cd.ds[e]
  BY <1>3, <1>6, <1>11, <1>13
<1>15. ThreadOK(cd', d)
  <2>1. i \in ToSet(cd'.queue)
    BY <1>1, <1>2, <1>13 DEF ThreadOK, Working
  <2>2. cd'.ds[d].ino = i /\ cd'.ds[d].pc = "blocks" /\ cd'.ds[d].slot = l
    BY <1>8, <1>14
  <2>3. cd'.del[l].ino = i /\ cd'.del[l].obj # "meta" /\ ~cd'.del[l].created
    BY <1>5, <1>10, <1>14
  <2> QED
    BY <1>2, <1>6, <2>1, <2>2, <2>3 DEF ThreadOK
<1>16. StageOK(cd', d)
  <2>1. ASSUME ~t.err, NEW o \in cd'.objs[i] \ {"meta"} PROVE o \in t.todo \/ Pending(cd', d, o)
    <3>1. o \in cd.ds[d].todo \/ Pending(cd, d, o)
      BY <1>1, <1>2, <1>8, <1>13, <2>1 DEF StageOK
    <3>2. CASE o = b
      BY <1>6, <1>8, <1>10, <1>14, <3>2 DEF Pending
    <3>3. CASE Pending(cd, d, o)
      BY <1>1, <1>2, <1>6, <1>8, <1>14, <3>3 DEF Pending
    <3> QED
      BY <1>8, <3>1, <3>2, <3>3
  <2> QED
    BY <1>1, <1>2, <1>8, <1>13, <1>14, <2>1 DEF StageOK
<1>17. InodeOK(cd', i)
  BY <1>2, <1>13 DEF InodeOK
<1>18. ASSUME NEW k \in Deletes, cd'.del[k].ino = i PROVE DeleteOK(cd', k)
  <2>1. CASE k = l
    BY <1>2, <1>5, <1>8, <1>10, <1>14, <2>1 DEF DeleteOK
  <2>2. CASE k # l
    <3>1. DeleteOK(cd, k) /\ cd'.del[k] = cd.del[k]
      BY <1>14, <2>2 DEF DeletionInv
    <3>2. cd.del[k].obj # "meta"
      BY <1>1, <1>2, <1>18, <3>1, OwnDelete
    <3> QED
      BY <1>8, <1>2, <1>13, <1>14, <1>18, <3>1, <3>2 DEF DeleteOK
  <2> QED
    BY <2>1, <2>2
<1> QED
  BY <1>1, <1>2, <1>6, <1>8, <1>10, <1>11, <1>13, <1>14, <1>15, <1>16, <1>17, <1>18, PairMoves

(* threads_created is set for the delete thread begun last.                *)
LEMMA CreatedStep == ASSUME DeletionInv(cd), NEW d \in Dsyncs, SetCreated(d) PROVE DeletionInv(cd')
<1>1. PICK i, l : i = cd.ds[d].ino /\ l = cd.ds[d].slot
  OBVIOUS
<1>2. /\ i \in Doomed /\ i # 0 /\ cd \in DeletionRec /\ ThreadOK(cd, d) /\ StageOK(cd, d)
      /\ InodeOK(cd, i) /\ cd.ds[d] \in DsyncRec /\ cd.ds[d].pc = "blocks" /\ l # 0
  BY <1>1, AtWork DEF SetCreated
<1>3. /\ cd.ds \in [Dsyncs -> DsyncRec] /\ cd.del \in [Deletes -> DeleteRec] /\ l \in Deletes
      /\ cd.del[l] \in DeleteRec /\ cd.del[l].ino = i /\ cd.del[l].obj # "meta"
  BY <1>1, <1>2, DeletionFields, ThreadFields DEF ThreadOK
<1>20. PICK td \in SUBSET Objects : td = IF cd.ds[d].err THEN {} ELSE cd.ds[d].todo
  BY <1>2, ThreadFields
<1>4. PICK t : t = [cd.ds[d] EXCEPT !.slot = 0, !.todo = td]
  OBVIOUS
<1>5. /\ t \in DsyncRec /\ t.ino = i /\ t.pc = "blocks" /\ t.slot = 0 /\ t.err = cd.ds[d].err
      /\ t.todo = td
  BY <1>1, <1>2, <1>4 DEF DsyncRec
<1>6. PICK u : u = [cd.del[l] EXCEPT !.created = TRUE]
  OBVIOUS
<1>7. /\ u \in DeleteRec /\ u.ino = i /\ u.obj = cd.del[l].obj /\ u.ds = cd.del[l].ds
      /\ u.done = cd.del[l].done /\ u.err = cd.del[l].err
  BY <1>3, <1>6 DEF DeleteRec
<1>8. PICK D \in [Dsyncs -> DsyncRec], L \in [Deletes -> DeleteRec] :
        D = [cd.ds EXCEPT ![d] = t] /\ L = [cd.del EXCEPT ![l] = u]
  BY <1>3, <1>5, <1>7
<1>9. cd' = [cd EXCEPT !.ds = D, !.del = L]
  BY <1>1, <1>2, <1>4, <1>6, <1>8, <1>20 DEF SetCreated, LeftToWalk, DeletionRec
<1>10. /\ cd' \in DeletionRec /\ cd'.queue = cd.queue /\ cd'.ds = D /\ cd'.del = L /\ cd'.gone = cd.gone
       /\ cd'.objs = cd.objs /\ cd'.counted = cd.counted /\ cd'.leaked = cd.leaked /\ cd'.torn = cd.torn
  BY <1>2, <1>9 DEF DeletionRec
<1>11. /\ cd'.ds[d] = t /\ cd'.del[l] = u
       /\ \A k \in Deletes \ {l} : cd'.del[k] = cd.del[k]
       /\ \A e \in Dsyncs \ {d} : cd'.ds[e] = cd.ds[e]
  BY <1>3, <1>8, <1>10
<1>12. ThreadOK(cd', d)
  BY <1>1, <1>2, <1>5, <1>10, <1>11 DEF ThreadOK
<1>13. StageOK(cd', d)
  <2>1. ASSUME NEW o, Pending(cd, d, o) PROVE Pending(cd', d, o)
    <3>1. PICK k \in Deletes : /\ cd.del[k].ds = d /\ cd.del[k].ino = i /\ cd.del[k].obj = o
                               /\ ~cd.del[k].done \/ cd.del[k].err
      BY <1>1, <2>1 DEF Pending
    <3>2. /\ cd'.del[k].ds = d /\ cd'.del[k].ino = i /\ cd'.del[k].obj = o
          /\ ~cd'.del[k].done \/ cd'.del[k].err
      BY <1>3, <1>7, <1>11, <3>1
    <3> QED
      BY <1>5, <1>11, <3>2 DEF Pending
  <2>2. /\ cd'.ds[d].ino = i /\ cd'.ds[d].pc = "blocks" /\ cd'.ds[d].err = cd.ds[d].err
        /\ cd'.ds[d].todo \subseteq cd.ds[d].todo /\ cd.ds[d].ino = i /\ cd.ds[d].pc = "blocks"
        /\ ~cd.ds[d].err => cd'.ds[d].todo = cd.ds[d].todo
    BY <1>1, <1>2, <1>5, <1>11, <1>20
  <2>3. /\ cd'.objs = cd.objs /\ cd'.counted = cd.counted /\ cd'.leaked = cd.leaked
        /\ cd'.torn = cd.torn /\ StageOK(cd, d)
    BY <1>2, <1>10
  <2> QED
    BY ONLY <2>1, <2>2, <2>3 DEF StageOK
<1>14. InodeOK(cd', i)
  BY <1>2, <1>10 DEF InodeOK
<1>15. ASSUME NEW k \in Deletes, cd'.del[k].ino = i PROVE DeleteOK(cd', k)
  <2>1. /\ DeleteOK(cd, k) /\ cd'.del[k].ino = cd.del[k].ino /\ cd'.del[k].obj = cd.del[k].obj
        /\ cd'.del[k].ds = cd.del[k].ds /\ cd'.del[k].done = cd.del[k].done /\ cd'.del[k].err = cd.del[k].err
    BY <1>3, <1>7, <1>11 DEF DeletionInv
  <2>2. cd.del[k].ino = cd.ds[d].ino /\ cd.ds[d].ino # 0 /\ cd.ds[d].pc = "blocks"
    BY <1>1, <1>2, <1>15, <2>1
  <2>3. cd.del[k].obj # "meta"
    BY <2>2, OwnDelete
  <2> QED
    BY <1>2, <1>5, <1>10, <1>11, <1>15, <2>1, <2>3 DEF DeleteOK
<1>16. /\ cd' \in DeletionRec /\ cd'.queue = cd.queue /\ cd'.gone = cd.gone
       /\ cd'.counted = cd.counted /\ cd.leaked \subseteq cd'.leaked /\ cd.ds[d].pc # "none"
       /\ cd'.torn = cd.torn
       /\ i = cd.ds[d].ino /\ cd.del[l].ino \in {0, i}
  BY <1>1, <1>2, <1>3, <1>10
<1>17. /\ \A e \in Dsyncs \ {d} : cd'.ds[e] = cd.ds[e]
       /\ cd'.ds[d].ino = i /\ (cd'.del[l].ino = i \/ cd'.del[l] = FreeDelete)
       /\ \A k \in Deletes \ {l} : cd'.del[k] = cd.del[k]
       /\ \A j \in Doomed \ {i} : cd'.objs[j] = cd.objs[j] /\ (j \in cd'.leaked <=> j \in cd.leaked)
  BY <1>5, <1>7, <1>10, <1>11
<1>18. \A k \in Deletes : cd'.del[k].ino = i => DeleteOK(cd', k)
  BY <1>15
<1>19. DeletionInv(cd) /\ d \in Dsyncs /\ i \in Doomed /\ l \in Deletes
  BY <1>2, <1>3
<1> QED
  BY ONLY <1>12, <1>13, <1>14, <1>16, <1>17, <1>18, <1>19, PairMoves

(* The wait for the blocks: when it ends without an error none is left.    *)
LEMMA WaitStep == ASSUME DeletionInv(cd), NEW d \in Dsyncs, WaitBlocks(d) PROVE DeletionInv(cd')
<1>1. PICK i : i = cd.ds[d].ino
  OBVIOUS
<1>2. /\ i \in Doomed /\ i # 0 /\ cd \in DeletionRec /\ ThreadOK(cd, d) /\ StageOK(cd, d)
      /\ InodeOK(cd, i) /\ cd.ds[d] \in DsyncRec /\ cd.ds[d].pc = "blocks" /\ cd.ds[d].slot = 0
  BY <1>1, AtWork DEF WaitBlocks
<1>3. \A l \in Deletes : cd.del[l].ino # i
  BY <1>1 DEF WaitBlocks
<1>4. cd.ds \in [Dsyncs -> DsyncRec] /\ cd.ds[d].err \in BOOLEAN
  BY <1>2, DeletionFields, ThreadFields
<1>5. PICK p \in {"meta", "finished"} :
        /\ p = (IF cd.ds[d].err THEN "finished" ELSE "meta") /\ cd' = [cd EXCEPT !.ds[d].pc = p]
  BY <1>4 DEF WaitBlocks, Walked, Finished
<1>6. PICK t : t = [cd.ds[d] EXCEPT !.pc = p]
  OBVIOUS
<1>7. t \in DsyncRec /\ t.pc = p /\ t.ino = i /\ t.slot = 0 /\ t.err = cd.ds[d].err
  BY <1>1, <1>2, <1>6 DEF DsyncRec, DsyncPCs, Working
<1>8. PICK D \in [Dsyncs -> DsyncRec] : D = [cd.ds EXCEPT ![d] = t]
  BY <1>4, <1>7
<1>9. cd' = [cd EXCEPT !.ds = D]
  BY <1>2, <1>5, <1>6, <1>8 DEF DeletionRec
<1>10. /\ cd' \in DeletionRec /\ cd'.queue = cd.queue /\ cd'.ds = D /\ cd'.del = cd.del
       /\ cd'.gone = cd.gone /\ cd'.objs = cd.objs /\ cd'.counted = cd.counted /\ cd'.leaked = cd.leaked /\ cd'.torn = cd.torn
  BY <1>2, <1>9 DEF DeletionRec
<1>11. cd'.ds[d] = t
  BY <1>4, <1>8, <1>10
<1>12. ThreadOK(cd', d)
  BY <1>1, <1>2, <1>5, <1>7, <1>10, <1>11 DEF ThreadOK, Working
<1>13. StageOK(cd', d)
  <2>1. ~cd.ds[d].err => cd.objs[i] \subseteq {"meta"}
    <3>1. cd.ds[d].todo = {}
      BY DEF WaitBlocks
    <3>2. \A o : ~Pending(cd, d, o)
      BY <1>1, <1>3 DEF Pending
    <3> QED
      BY <1>1, <1>2, <3>1, <3>2 DEF StageOK
  <2>2. i \notin cd.leaked => cd.counted[i] = 0
    BY <1>1, <1>2 DEF StageOK
  <2> QED
    BY <1>5, <1>7, <1>10, <1>11, <2>1, <2>2 DEF StageOK
<1> QED
  BY <1>1, <1>2, <1>7, <1>8, <1>10, <1>12, <1>13, DsyncMoves

(* The walk breaks off: the inode is torn, or the thread ends with the     *)
(* error handed to it.                                                     *)
LEMMA WalkStep == ASSUME DeletionInv(cd), NEW d \in Dsyncs, WalkFails(d) PROVE DeletionInv(cd')
<1>1. PICK i : i = cd.ds[d].ino
  OBVIOUS
<1>2. /\ i \in Doomed /\ i # 0 /\ cd \in DeletionRec /\ ThreadOK(cd, d) /\ StageOK(cd, d)
      /\ InodeOK(cd, i) /\ cd.ds[d] \in DsyncRec /\ cd.ds[d].pc = "blocks" /\ cd.ds[d].slot = 0
  BY <1>1, AtWork DEF WalkFails
<1>4. cd.ds \in [Dsyncs -> DsyncRec] /\ cd.ds[d].err \in BOOLEAN /\ cd.fails \in Nat /\ cd.torn \in SUBSET Doomed
  BY <1>2, DeletionFields, ThreadFields
<1>5. PICK p \in {"meta", "finished"} :
        p = (IF cd.ds[d].err THEN "finished" ELSE "meta") /\ Walked(cd, d) = [cd EXCEPT !.ds[d].pc = p]
  BY <1>4 DEF Walked, Finished
<1>6. PICK t : t = [cd.ds[d] EXCEPT !.pc = p]
  OBVIOUS
<1>7. t \in DsyncRec /\ t.pc = p /\ t.ino = i /\ t.slot = 0 /\ t.err = cd.ds[d].err
  BY <1>1, <1>2, <1>6 DEF DsyncRec, DsyncPCs, Working
<1>8. PICK D \in [Dsyncs -> DsyncRec] : D = [cd.ds EXCEPT ![d] = t]
  BY <1>4, <1>7
<1>9. PICK r : r = [cd EXCEPT !.ds = D]
  OBVIOUS
<1>10. r = Walked(cd, d) /\ r.fails = cd.fails /\ r.torn = cd.torn
  BY <1>2, <1>5, <1>6, <1>8, <1>9 DEF DeletionRec
<1>11. PICK f \in Nat, T \in SUBSET Doomed :
         f = cd.fails + 1 /\ T = (IF cd.ds[d].err THEN cd.torn ELSE cd.torn \cup {i})
  <2>1. cd.fails + 1 \in Nat
    BY <1>4
  <2>2. (IF cd.ds[d].err THEN cd.torn ELSE cd.torn \cup {i}) \in SUBSET Doomed
    BY <1>2, <1>4
  <2> QED
    BY <2>1, <2>2
<1>12. cd' = [r EXCEPT !.fails = f, !.torn = T]
  BY <1>1, <1>10, <1>11 DEF WalkFails
<1>13. /\ cd' \in DeletionRec /\ cd'.queue = cd.queue /\ cd'.ds = D /\ cd'.del = cd.del
       /\ cd'.gone = cd.gone /\ cd'.objs = cd.objs /\ cd'.counted = cd.counted
       /\ cd'.leaked = cd.leaked /\ cd'.torn = T
  BY <1>2, <1>9, <1>12 DEF DeletionRec
<1>14. cd'.ds[d] = t
  BY <1>4, <1>8, <1>13
<1>15. ThreadOK(cd', d)
  BY <1>1, <1>2, <1>5, <1>7, <1>13, <1>14 DEF ThreadOK, Working
<1>16. StageOK(cd', d)
  <2>1. i \notin cd.leaked => cd.counted[i] = 0
    BY <1>1, <1>2 DEF StageOK
  <2> QED
    BY <1>5, <1>7, <1>11, <1>13, <1>14, <2>1 DEF StageOK
<1>17. cd.torn \subseteq cd'.torn /\ cd'.torn \subseteq cd.torn \cup {cd.ds[d].ino}
  BY <1>1, <1>11, <1>13
<1> QED
  BY <1>1, <1>2, <1>7, <1>8, <1>13, <1>15, <1>16, <1>17, DsyncMoves

(* The metadata is given to a delete thread.                               *)
LEMMA MetaStep == ASSUME DeletionInv(cd), NEW d \in Dsyncs, DeleteMeta(d) PROVE DeletionInv(cd')
<1>1. PICK i : i = cd.ds[d].ino
  OBVIOUS
<1>2. /\ i \in Doomed /\ i # 0 /\ cd \in DeletionRec /\ ThreadOK(cd, d) /\ StageOK(cd, d)
      /\ InodeOK(cd, i) /\ cd.ds[d] \in DsyncRec /\ cd.ds[d].pc = "meta"
  BY <1>1, AtWork DEF DeleteMeta
<1>3. cd.ds \in [Dsyncs -> DsyncRec] /\ cd.del \in [Deletes -> DeleteRec]
  BY <1>2, DeletionFields
<1>4. PICK l \in FreeSlots : cd' = [_use_delete_thread(cd, l, d, "meta") EXCEPT
                                      !.del[l].created = TRUE, !.ds[d].pc = "join"]
  BY DEF DeleteMeta
<1>5. \A k \in Deletes : cd.del[k].ino = i => cd.del[k].obj # "meta"
  BY <1>1, <1>2, OwnDelete
<1>6. l \in Deletes /\ l # 0 /\ cd.del[l].ino = 0
  BY DeletionConstants DEF FreeSlots
<1>7. PICK v, t : v = [cd.ds[d] EXCEPT !.slot = l] /\ t = [v EXCEPT !.pc = "join"]
  OBVIOUS
<1>8. /\ t \in DsyncRec /\ t.ino = i /\ t.pc = "join" /\ t.slot = l /\ t.err = cd.ds[d].err
  BY <1>1, <1>2, <1>6, <1>7 DEF DsyncRec, DsyncPCs, Working
<1>9. PICK w, u : w = [FreeDelete EXCEPT !.ino = cd.ds[d].ino, !.obj = "meta", !.ds = d]
                  /\ u = [w EXCEPT !.created = TRUE]
  OBVIOUS
<1>10. /\ u \in DeleteRec /\ u.ino = i /\ u.obj = "meta" /\ u.ds = d
       /\ u.done = FALSE /\ u.err = FALSE
  <2>1. "meta" \in Objects \cup {"none"}
    BY DeletionTypes
  <2>2. w.ino = i /\ w.obj = "meta" /\ w.ds = d /\ w.done = FALSE /\ w.err = FALSE /\ w \in DeleteRec
    BY <1>1, <1>2, <1>9, <2>1 DEF DeleteRec, FreeDelete
  <2> QED
    BY <1>9, <2>2 DEF DeleteRec
<1>11. PICK D \in [Dsyncs -> DsyncRec], L \in [Deletes -> DeleteRec] :
         D = [cd.ds EXCEPT ![d] = t] /\ L = [cd.del EXCEPT ![l] = u]
  BY <1>3, <1>8, <1>10
<1>12. cd' = [cd EXCEPT !.ds = D, !.del = L]
  <2>1. PICK E, M : E = [cd.ds EXCEPT ![d] = v] /\ M = [cd.del EXCEPT ![l] = w]
    OBVIOUS
  <2>2. PICK r : r = [cd EXCEPT !.ds = E, !.del = M]
    OBVIOUS
  <2>3. _use_delete_thread(cd, l, d, "meta") = r
    BY <1>2, <1>7, <1>9, <2>1, <2>2 DEF _use_delete_thread, DeletionRec
  <2>4. r.ds = E /\ E[d] = v /\ r.del = M /\ M[l] = w
    BY <1>2, <1>3, <1>6, <2>1, <2>2 DEF DeletionRec
  <2>5. cd' = [r EXCEPT !.ds = [E EXCEPT ![d] = t], !.del = [M EXCEPT ![l] = u]]
    BY <1>2, <1>4, <1>7, <1>9, <2>2, <2>3, <2>4, ZenonT(60) DEF DeletionRec
  <2>6. [E EXCEPT ![d] = t] = D /\ [M EXCEPT ![l] = u] = L
    BY <1>3, <1>11, <2>1
  <2> QED
    BY <1>2, <2>2, <2>5, <2>6 DEF DeletionRec
<1>13. /\ cd' \in DeletionRec /\ cd'.queue = cd.queue /\ cd'.ds = D /\ cd'.del = L /\ cd'.gone = cd.gone
       /\ cd'.objs = cd.objs /\ cd'.counted = cd.counted /\ cd'.leaked = cd.leaked /\ cd'.torn = cd.torn
  BY <1>2, <1>12 DEF DeletionRec
<1>14. /\ cd'.ds[d] = t /\ cd'.del[l] = u
       /\ \A k \in Deletes \ {l} : cd'.del[k] = cd.del[k]
       /\ \A e \in Dsyncs \ {d} : cd'.ds[e] = cd.ds[e]
  BY <1>3, <1>6, <1>11, <1>13
<1>15. ThreadOK(cd', d)
  <2>1. i \in ToSet(cd'.queue)
    BY <1>1, <1>2, <1>13 DEF ThreadOK, Working
  <2>2. cd'.ds[d].ino = i /\ cd'.ds[d].pc = "join" /\ cd'.ds[d].slot = l /\ cd'.ds[d].err = cd.ds[d].err
    BY <1>8, <1>14
  <2>3. cd'.del[l].ino = i /\ cd'.del[l].obj = "meta"
    BY <1>10, <1>14
  <2> QED
    BY <1>2, <1>6, <2>1, <2>2, <2>3 DEF ThreadOK
<1>16. StageOK(cd', d)
  BY <1>1, <1>2, <1>8, <1>13, <1>14 DEF StageOK
<1>17. InodeOK(cd', i)
  BY <1>2, <1>13 DEF InodeOK
<1>18. ASSUME NEW k \in Deletes, cd'.del[k].ino = i PROVE DeleteOK(cd', k)
  <2>1. CASE k = l
    BY <1>2, <1>8, <1>10, <1>14, <2>1 DEF DeleteOK
  <2>2. CASE k # l
    <3>1. DeleteOK(cd, k) /\ cd'.del[k] = cd.del[k] /\ cd.del[k].ino = i /\ cd.del[k].obj # "meta"
      BY <1>5, <1>14, <1>18, <2>2 DEF DeletionInv
    <3> QED
      BY <1>2, <1>13, <3>1 DEF DeleteOK
  <2> QED
    BY <2>1, <2>2
<1> QED
  BY <1>1, <1>2, <1>6, <1>8, <1>10, <1>11, <1>13, <1>14, <1>15, <1>16, <1>17, <1>18, PairMoves

(* The end of the metadata's delete thread.                                *)
LEMMA JoinStep == ASSUME DeletionInv(cd), NEW d \in Dsyncs, JoinMeta(d) PROVE DeletionInv(cd')
<1>1. PICK i, l : i = cd.ds[d].ino /\ l = cd.ds[d].slot
  OBVIOUS
<1>2. /\ i \in Doomed /\ i # 0 /\ cd \in DeletionRec /\ ThreadOK(cd, d) /\ StageOK(cd, d)
      /\ InodeOK(cd, i) /\ cd.ds[d] \in DsyncRec /\ cd.ds[d].pc = "join"
  BY <1>1, AtWork DEF JoinMeta
<1>3. /\ cd.ds \in [Dsyncs -> DsyncRec] /\ cd.del \in [Deletes -> DeleteRec] /\ l \in Deletes
      /\ cd.del[l] \in DeleteRec /\ cd.del[l].ino = i /\ cd.del[l].obj = "meta"
  BY <1>1, <1>2, DeletionFields, ThreadFields DEF ThreadOK
<1>20. PICK p \in {"finished", "stat"} : p = IF cd.ds[d].err THEN "finished" ELSE "stat"
  OBVIOUS
<1>4. PICK t : t = [cd.ds[d] EXCEPT !.slot = 0, !.pc = p]
  OBVIOUS
<1>5. t \in DsyncRec /\ t.ino = i /\ t.pc = p /\ t.slot = 0
  BY <1>1, <1>2, <1>4 DEF DsyncRec, DsyncPCs, Working
<1>6. PICK D \in [Dsyncs -> DsyncRec], L \in [Deletes -> DeleteRec] :
        D = [cd.ds EXCEPT ![d] = t] /\ L = [cd.del EXCEPT ![l] = FreeDelete]
  BY <1>3, <1>5, DeletionTypes
<1>7. cd' = [cd EXCEPT !.ds = D, !.del = L]
  BY <1>1, <1>2, <1>3, <1>4, <1>6, <1>20, ZenonT(60) DEF JoinMeta, DeletionRec
<1>8. /\ cd' \in DeletionRec /\ cd'.queue = cd.queue /\ cd'.ds = D /\ cd'.del = L /\ cd'.gone = cd.gone
      /\ cd'.objs = cd.objs /\ cd'.counted = cd.counted /\ cd'.leaked = cd.leaked /\ cd'.torn = cd.torn
  BY <1>2, <1>7 DEF DeletionRec
<1>9. /\ cd'.ds[d] = t /\ cd'.del[l] = FreeDelete
      /\ \A k \in Deletes \ {l} : cd'.del[k] = cd.del[k]
      /\ \A e \in Dsyncs \ {d} : cd'.ds[e] = cd.ds[e]
  BY <1>3, <1>6, <1>8
<1>10. ASSUME NEW k \in Deletes, cd'.del[k].ino = i PROVE DeleteOK(cd', k)
  <2>1. k # l
    BY <1>2, <1>9, <1>10 DEF FreeDelete
  <2>2. DeleteOK(cd, k) /\ cd'.del[k] = cd.del[k] /\ cd.del[k].ino = i
    BY <1>9, <1>10, <2>1 DEF DeletionInv
  <2>3. cd.del[k].obj # "meta"
    BY <1>1, <1>2, <2>1, <2>2, OwnDelete
  <2> QED
    BY <1>2, <1>8, <2>2, <2>3 DEF DeleteOK
<1>11. ThreadOK(cd', d)
  BY <1>1, <1>2, <1>5, <1>8, <1>9 DEF ThreadOK, Working
<1>12. StageOK(cd', d)
  <2>1. /\ i \notin cd.torn => cd.objs[i] \subseteq {"meta"}
        /\ i \notin cd.leaked => cd.counted[i] = 0
    BY <1>1, <1>2 DEF StageOK
  <2>2. DeleteOK(cd, l) /\ cd.del[l].done
    BY <1>1, <1>3 DEF DeletionInv, JoinMeta
  <2>3. i \notin cd.leaked => "meta" \notin cd.objs[i]
    BY <1>2, <1>3, <2>2 DEF DeleteOK
  <2> QED
    BY <1>5, <1>8, <1>9, <2>1, <2>3 DEF StageOK
<1>13. InodeOK(cd', i)
  BY <1>2, <1>8 DEF InodeOK
<1>14. FreeDelete \in DeleteRec /\ \A k \in Deletes : cd'.del[k].ino = i => DeleteOK(cd', k)
  BY <1>10, DeletionTypes
<1>15. /\ cd.ds[d].pc # "none" /\ cd.del[l].ino \in {0, i} /\ cd.leaked \subseteq cd'.leaked
       /\ \A j \in Doomed \ {i} : cd'.objs[j] = cd.objs[j] /\ (j \in cd'.leaked <=> j \in cd.leaked)
  BY <1>2, <1>3, <1>8
<1> QED
  BY <1>1, <1>2, <1>3, <1>5, <1>6, <1>8, <1>9, <1>11, <1>12, <1>13, <1>14, <1>15, PairMoves

(* update_backend_stat takes the inode off the statistics.                 *)
LEMMA StatStep ==
  ASSUME DeletionInv(cd), NEW d \in Dsyncs, update_backend_stat(d) PROVE DeletionInv(cd')
<1>1. PICK i : i = cd.ds[d].ino
  OBVIOUS
<1>2. /\ i \in Doomed /\ i # 0 /\ cd \in DeletionRec /\ ThreadOK(cd, d) /\ StageOK(cd, d)
      /\ InodeOK(cd, i) /\ cd.ds[d] \in DsyncRec /\ cd.ds[d].pc = "stat" /\ IsInjective(cd.queue)
      /\ \A e \in Dsyncs \ {d} : cd.ds[e].ino # i
  BY <1>1, AtWork DEF update_backend_stat
<1>3. cd.ds \in [Dsyncs -> DsyncRec] /\ cd.counted \in [Doomed -> Nat] /\ cd.ds[d].slot = 0
  BY <1>2, DeletionFields DEF ThreadOK
<1>4. PICK t : t = [cd.ds[d] EXCEPT !.pc = "free"]
  OBVIOUS
<1>5. t \in DsyncRec /\ t.pc = "free" /\ t.ino = i /\ t.slot = 0
  BY <1>1, <1>2, <1>3, <1>4 DEF DsyncRec, DsyncPCs, Working
<1>6. PICK D \in [Dsyncs -> DsyncRec], C \in [Doomed -> Nat] :
        D = [cd.ds EXCEPT ![d] = t] /\ C = [cd.counted EXCEPT ![i] = @ + 1]
  <2>1. cd.counted[i] + 1 \in Nat
    BY <1>2, <1>3
  <2>2. [cd.counted EXCEPT ![i] = @ + 1] \in [Doomed -> Nat]
    BY <1>3, <2>1
  <2>3. [cd.ds EXCEPT ![d] = t] \in [Dsyncs -> DsyncRec]
    BY <1>3, <1>5
  <2> QED
    BY <2>2, <2>3
<1>7. cd' = [cd EXCEPT !.ds = D, !.counted = C]
  BY <1>1, <1>2, <1>4, <1>6 DEF update_backend_stat, DeletionRec
<1>8. /\ cd' \in DeletionRec /\ cd'.queue = cd.queue /\ cd'.ds = D /\ cd'.del = cd.del
      /\ cd'.gone = cd.gone /\ cd'.objs = cd.objs /\ cd'.counted = C /\ cd'.leaked = cd.leaked /\ cd'.torn = cd.torn
  BY <1>2, <1>7 DEF DeletionRec
<1>9. /\ cd'.ds[d] = t /\ \A e \in Dsyncs \ {d} : cd'.ds[e] = cd.ds[e] /\ cd.ds[e].ino # i
      /\ cd.ds[d].ino \in {0, i} /\ cd'.ds[d].ino \in {0, i}
  BY <1>1, <1>2, <1>3, <1>5, <1>6, <1>8
<1>10. C[i] = cd.counted[i] + 1 /\ \A j \in Doomed \ {i} : C[j] = cd.counted[j]
  BY <1>2, <1>3, <1>6
<1>11. i \notin cd.leaked => "meta" \notin cd.objs[i] /\ cd.counted[i] = 0
  BY <1>1, <1>2 DEF StageOK
<1>12. ThreadOK(cd', d)
  BY <1>1, <1>2, <1>5, <1>8, <1>9 DEF ThreadOK, Working
<1>13. StageOK(cd', d)
  BY <1>1, <1>2, <1>5, <1>8, <1>9, <1>11 DEF StageOK
<1>14. InodeOK(cd', i)
  BY <1>2, <1>8, <1>10, <1>11 DEF InodeOK
<1>15. ASSUME NEW l \in Deletes, cd'.del[l].ino = i PROVE DeleteOK(cd', l)
  <2>1. cd.del[l].obj # "meta" /\ DeleteOK(cd, l) /\ cd'.del[l] = cd.del[l] /\ cd.del[l].ino = i
    BY <1>1, <1>2, <1>8, <1>15, OwnDelete DEF DeletionInv
  <2> QED
    BY <1>2, <1>8, <2>1 DEF DeleteOK
<1>16. \A j \in Doomed \ {i} : /\ cd'.objs[j] = cd.objs[j] /\ cd'.counted[j] = cd.counted[j]
                               /\ j \in ToSet(cd.queue) => j \in ToSet(cd'.queue)
                               /\ j \in cd'.gone <=> j \in cd.gone
                               /\ j \in cd'.leaked <=> j \in cd.leaked
                               /\ j \in cd'.torn <=> j \in cd.torn
  BY <1>8, <1>10
<1> QED
  BY <1>2, <1>8, <1>9, <1>12, <1>13, <1>14, <1>15, <1>16, DsyncStep

(* The number is freed.                                                    *)
LEMMA FreeStep ==
  ASSUME DeletionInv(cd), NEW d \in Dsyncs, dsync_single_inode(d) PROVE DeletionInv(cd')
<1>1. cd.ds[d].pc = "free" /\ cd' = Finished(dsync_super_block_delete(cd, cd.ds[d].ino), d)
  BY DEF dsync_single_inode
<1>2. StageOK(cd, d)
  BY DEF DeletionInv
<1>3. PICK i : i = cd.ds[d].ino
  OBVIOUS
<1>4. i \in cd.torn \/ cd.objs[i] \subseteq (IF i \in cd.leaked THEN {"meta"} ELSE {})
  BY <1>1, <1>2, <1>3 DEF StageOK
<1>5. /\ cd' \in DeletionRec
      /\ cd'.queue = IF i \in ToSet(cd.queue) THEN RemoveAt(cd.queue, Position(i)) ELSE cd.queue
      /\ cd'.gone = cd.gone \cup {i} /\ cd'.ds = [cd.ds EXCEPT ![d] = [@ EXCEPT !.pc = "finished"]]
      /\ cd'.del = cd.del /\ cd'.objs = cd.objs /\ cd'.counted = cd.counted /\ cd'.leaked = cd.leaked
      /\ cd'.torn = cd.torn
  BY <1>1, <1>3, FreedFields
<1>6. DeletionInv(cd) /\ d \in Dsyncs /\ cd.ds[d].pc \in {"fetch", "free"} /\ i = cd.ds[d].ino
  BY <1>1, <1>3
<1>7. /\ cd.torn \subseteq cd'.torn /\ cd'.torn \subseteq cd.torn \cup {i}
      /\ i \in cd'.torn \/ cd.objs[i] \subseteq (IF i \in cd.leaked THEN {"meta"} ELSE {})
  BY <1>4, <1>5
<1> QED
  BY ONLY <1>5, <1>6, <1>7, NumberFreed

(* A finished dsync thread is taken back.                                  *)
LEMMA TerminateStep ==
  ASSUME DeletionInv(cd), NEW d \in Dsyncs, _dsync_terminate_thread(d) PROVE DeletionInv(cd')
<1>1. PICK i : i = cd.ds[d].ino
  OBVIOUS
<1>2. /\ i \in Doomed /\ i # 0 /\ cd \in DeletionRec /\ cd.ds[d].pc = "finished"
  BY <1>1, AtWork DEF _dsync_terminate_thread
<1>3. /\ cd.ds \in [Dsyncs -> DsyncRec] /\ cd.retry \in Seq(Doomed)
  BY <1>2, DeletionFields
<1>4. PICK D \in [Dsyncs -> DsyncRec] : D = [cd.ds EXCEPT ![d] = FreeDsync]
  BY <1>3, DeletionTypes
<1>5. PICK rt \in Seq(Doomed) : rt = IF cd.ds[d].again /\ Len(cd.retry) < MAX_DSYNC_CONCURRENCY
                                     THEN Append(cd.retry, i) ELSE cd.retry
  <2>1. Append(cd.retry, i) \in Seq(Doomed)
    BY <1>2, <1>3
  <2> QED
    BY <1>3, <2>1
<1>6. cd' = [cd EXCEPT !.ds = D, !.retry = rt]
  BY <1>1, <1>2, <1>4, <1>5 DEF _dsync_terminate_thread, DeletionRec
<1>7. /\ cd' \in DeletionRec /\ cd'.queue = cd.queue /\ cd'.ds = D /\ cd'.del = cd.del
      /\ cd'.gone = cd.gone /\ cd'.objs = cd.objs /\ cd'.counted = cd.counted /\ cd'.leaked = cd.leaked /\ cd'.torn = cd.torn
  BY <1>2, <1>6 DEF DeletionRec
<1>8. cd'.ds[d] = FreeDsync
  BY <1>3, <1>4, <1>7
<1>9. ThreadOK(cd', d) /\ StageOK(cd', d)
  BY <1>8 DEF ThreadOK, StageOK, FreeDsync, Working
<1>11. FreeDsync \in DsyncRec /\ FreeDsync.ino \in {0, cd.ds[d].ino}
  BY DeletionTypes DEF FreeDsync
<1> QED
  BY <1>1, <1>2, <1>4, <1>7, <1>9, <1>11, DsyncMoves

(* Without threads the invariant is about the objects and the queue.       *)
LEMMA NoThreads ==
  ASSUME NEW q \in DeletionRec, IsInjective(q.queue), q.ds = init_dsync_control,
         q.del = init_delete_control, \A i \in Doomed : InodeOK(q, i)
  PROVE  DeletionInv(q)
<1>1. /\ \A d \in Dsyncs : q.ds[d].ino = 0 /\ q.ds[d].pc = "none" /\ q.ds[d].slot = 0
      /\ \A l \in Deletes : q.del[l] = FreeDelete
  BY DEF init_dsync_control, init_delete_control, FreeDsync
<1>2. ASSUME NEW d \in Dsyncs PROVE ThreadOK(q, d) /\ StageOK(q, d)
  BY <1>1 DEF ThreadOK, StageOK, Working
<1>3. ASSUME NEW l \in Deletes PROVE DeleteOK(q, l)
  BY <1>1 DEF DeleteOK, FreeDelete
<1> QED
  BY <1>1, <1>2, <1>3 DEF DeletionInv, OneDsync

(* A restart keeps the objects and the queue.                              *)
LEMMA RestartStep == ASSUME DeletionInv(cd), Restart PROVE DeletionInv(cd')
<1>1. cd \in DeletionRec /\ IsInjective(cd.queue) /\ cd.crashes \in Nat
  BY DeletionFields DEF DeletionInv
<1>2. /\ init_dsync_control \in [Dsyncs -> DsyncRec] /\ init_delete_control \in [Deletes -> DeleteRec]
      /\ <<>> \in Seq(Doomed) /\ cd.crashes + 1 \in Nat
  BY <1>1, DeletionTypes
<1>3. /\ cd' \in DeletionRec /\ cd'.queue = cd.queue /\ cd'.ds = init_dsync_control
      /\ cd'.del = init_delete_control /\ cd'.gone = cd.gone /\ cd'.objs = cd.objs
      /\ cd'.counted = cd.counted /\ cd'.leaked = cd.leaked /\ cd'.torn = cd.torn
  BY <1>1, <1>2 DEF Restart, DeletionRec
<1>4. \A i \in Doomed : InodeOK(cd', i)
  BY <1>3 DEF DeletionInv, InodeOK
<1> QED
  BY <1>1, <1>3, <1>4, NoThreads

(* At first every number is queued and all its objects are there.          *)
LEMMA DeletionInit == ASSUME CDInit PROVE DeletionInv(cd)
<1>1. IsFiniteSet(Doomed)
  BY CloudDeleteAssumption DEF Doomed
<1>2. PICK n \in Nat : n = Cardinality(Doomed) /\ ExistsBijection(1..n, Doomed)
  BY <1>1, FS_CardinalityType
<1>3. PICK f \in [1..n -> Doomed] : IsInjective(f)
  BY <1>2 DEF ExistsBijection, Bijection, Injection, IsInjective, Surjection
<1>4. PICK s \in [1..n -> Doomed] : s = SetToSeq(Doomed) /\ IsInjective(s)
  BY <1>2, <1>3 DEF SetToSeq
<1>5. s \in Seq(Doomed) /\ DOMAIN s = 1..n
  BY <1>2, <1>4
<1>6. ToSet(s) = Doomed
  <2>1. IsFiniteSet(1..n) /\ Cardinality(1..n) = n
    BY FS_Interval
  <2>2. s \in Injection(1..n, Doomed)
    BY <1>4 DEF Injection, IsInjective
  <2>3. s \in Surjection(1..n, Doomed)
    BY <1>1, <1>2, <2>1, <2>2, FS_Injection
  <2> QED
    BY <1>5, <2>3 DEF Surjection, ToSet
<1>7. /\ init_dsync_control \in [Dsyncs -> DsyncRec] /\ init_delete_control \in [Deletes -> DeleteRec]
      /\ <<>> \in Seq(Doomed)
  BY DeletionTypes
<1>8. [i \in Doomed |-> CloudBlocks[i] \cup {"meta"}] \in [Doomed -> SUBSET Objects]
  <2>1. "meta" \in Objects
    BY DeletionTypes
  <2> QED
    BY <2>1, DeletionConstants
<1>9. /\ cd \in DeletionRec /\ cd.queue = s /\ cd.ds = init_dsync_control /\ cd.del = init_delete_control
      /\ cd.objs = [i \in Doomed |-> CloudBlocks[i] \cup {"meta"}] /\ cd.gone = {}
      /\ cd.counted = [i \in Doomed |-> 0] /\ cd.leaked = {} /\ cd.torn = {}
  BY <1>4, <1>5, <1>7, <1>8 DEF CDInit, DeletionRec
<1>10. \A i \in Doomed : InodeOK(cd, i)
  BY <1>6, <1>9 DEF InodeOK
<1> QED
  BY <1>4, <1>9, <1>10, NoThreads

(* A delete thread ends: its object is gone, or it has an error, and       *)
(* metadata whose deletion failed is known to be left.                     *)
LEMMA ObjectEnds ==
  ASSUME DeletionInv(cd), NEW l \in Deletes, NEW i \in Doomed, NEW o,
         i = cd.del[l].ino, o = cd.del[l].obj,
         NEW q \in DeletionRec, q.queue = cd.queue, q.gone = cd.gone, q.counted = cd.counted,
         q.torn = cd.torn, cd.leaked \subseteq q.leaked,
         \A e \in Dsyncs : /\ q.ds[e].ino = cd.ds[e].ino /\ q.ds[e].pc = cd.ds[e].pc
                           /\ q.ds[e].slot = cd.ds[e].slot /\ q.ds[e].err = cd.ds[e].err
                           /\ q.ds[e].todo = cd.ds[e].todo,
         \A k \in Deletes \ {l} : q.del[k] = cd.del[k],
         q.del[l].ino = i, q.del[l].obj = o, q.del[l].ds = cd.del[l].ds,
         q.del[l].created = cd.del[l].created, q.del[l].done,
         \A j \in Doomed \ {i} : q.objs[j] = cd.objs[j],
         q.objs[i] \subseteq cd.objs[i], cd.objs[i] \ {o} \subseteq q.objs[i],
         q.del[l].err \/ o \notin q.objs[i], q.del[l].err /\ o = "meta" => i \in q.leaked
  PROVE  DeletionInv(q)
<1>1. /\ cd \in DeletionRec /\ IsInjective(cd.queue) /\ OneDsync(cd) /\ i # 0
      /\ \A e \in Dsyncs : ThreadOK(cd, e) /\ StageOK(cd, e)
      /\ \A k \in Deletes : DeleteOK(cd, k)
      /\ \A j \in Doomed : InodeOK(cd, j)
  BY DeletionConstants DEF DeletionInv
<1>2. \A j \in Doomed : q.objs[j] \subseteq cd.objs[j]
  OBVIOUS
<1>3. OneDsync(q)
  BY <1>1 DEF OneDsync
<1>4. ASSUME NEW e \in Dsyncs PROVE ThreadOK(q, e)
  <2>1. cd.ds[e].slot \in Deletes \cup {0}
    BY <1>1, DeletionFields, ThreadFields
  <2>2. cd.ds[e].slot # 0 => /\ q.del[cd.ds[e].slot].ino = cd.del[cd.ds[e].slot].ino
                             /\ q.del[cd.ds[e].slot].obj = cd.del[cd.ds[e].slot].obj
                             /\ q.del[cd.ds[e].slot].created = cd.del[cd.ds[e].slot].created
    BY <2>1
  <2>3. /\ q.ds[e].ino = cd.ds[e].ino /\ q.ds[e].pc = cd.ds[e].pc /\ q.ds[e].slot = cd.ds[e].slot
        /\ q.queue = cd.queue /\ ThreadOK(cd, e)
    BY <1>1
  <2> QED
    BY ONLY <2>2, <2>3 DEF ThreadOK
<1>5. ASSUME NEW e \in Dsyncs PROVE StageOK(q, e)
  <2>1. PICK n : n = cd.ds[e].ino
    OBVIOUS
  <2>2. /\ n \in Doomed \cup {0} /\ StageOK(cd, e) /\ ThreadOK(cd, e)
    BY <1>1, <2>1, DeletionFields, ThreadFields
  <2>3. cd.ds[e].pc \in Working => n \in Doomed /\ q.objs[n] \subseteq cd.objs[n]
    BY <1>2, <2>1, <2>2 DEF ThreadOK, Working
  <2>4. ASSUME NEW x \in q.objs[n], Pending(cd, e, x) PROVE Pending(q, e, x)
    <3>1. PICK k \in Deletes : /\ cd.del[k].ds = e /\ cd.del[k].ino = n /\ cd.del[k].obj = x
                               /\ ~cd.del[k].done \/ cd.del[k].err
      BY <2>1, <2>4 DEF Pending
    <3>2. k = l => n = i /\ x = o /\ q.del[l].err
      BY <2>4, <3>1
    <3>3. /\ q.del[k].ds = e /\ q.del[k].ino = n /\ q.del[k].obj = x
          /\ ~q.del[k].done \/ q.del[k].err
      BY <3>1, <3>2
    <3> QED
      BY <2>1, <3>3 DEF Pending
  <2>5. /\ q.ds[e].ino = n /\ q.ds[e].pc = cd.ds[e].pc /\ q.ds[e].err = cd.ds[e].err
        /\ q.ds[e].todo = cd.ds[e].todo /\ cd.ds[e].ino = n /\ StageOK(cd, e)
        /\ q.counted = cd.counted /\ q.torn = cd.torn /\ cd.leaked \subseteq q.leaked
    BY <2>1, <2>2
  <2> QED
    BY ONLY <2>3, <2>4, <2>5 DEF StageOK, Working
<1>6. ASSUME NEW k \in Deletes PROVE DeleteOK(q, k)
  <2>1. CASE k = l
    <3>1. cd.del[l].ds \in Dsyncs /\ DeleteOK(cd, l)
      BY <1>1 DEF DeleteOK
    <3>2. o = "meta" => /\ q.ds[q.del[l].ds].ino = i /\ q.ds[q.del[l].ds].pc = "join"
                        /\ q.ds[q.del[l].ds].slot = l
      BY <1>1, <3>1 DEF DeleteOK
    <3>3. /\ q.del[k].ino = i /\ q.del[k].obj = o /\ q.del[k].ds \in Dsyncs /\ q.del[k].done
          /\ q.del[k].err \/ o \notin q.objs[i]
          /\ q.del[k].err /\ o = "meta" => i \in q.leaked
      BY <2>1, <3>1
    <3> QED
      BY ONLY <1>1, <2>1, <3>2, <3>3 DEF DeleteOK
  <2>2. CASE k # l
    <3>1. DeleteOK(cd, k) /\ q.del[k] = cd.del[k] /\ cd.del[k].ino \in Doomed \cup {0}
      BY <1>1, <2>2, DeletionFields, ThreadFields
    <3>2. CASE cd.del[k].ino = 0
      BY <3>1, <3>2 DEF DeleteOK
    <3>3. CASE cd.del[k].ino # 0
      <4>1. /\ q.objs[cd.del[k].ino] \subseteq cd.objs[cd.del[k].ino] /\ cd.leaked \subseteq q.leaked
            /\ cd.del[k].ds \in Dsyncs
        BY <1>2, <3>1, <3>3 DEF DeleteOK
      <4>2. /\ q.ds[cd.del[k].ds].ino = cd.ds[cd.del[k].ds].ino
            /\ q.ds[cd.del[k].ds].pc = cd.ds[cd.del[k].ds].pc
            /\ q.ds[cd.del[k].ds].slot = cd.ds[cd.del[k].ds].slot
        BY <4>1
      <4> QED
        BY ONLY <3>1, <3>3, <4>1, <4>2 DEF DeleteOK
    <3> QED
      BY <3>2, <3>3
  <2> QED
    BY <2>1, <2>2
<1>7. ASSUME NEW j \in Doomed PROVE InodeOK(q, j)
  <2>1. CASE j # i
    BY <1>1, <2>1 DEF InodeOK
  <2>2. CASE j = i
    <3>1. i \notin cd.torn /\ o = "meta" => cd.objs[i] \subseteq {"meta"}
      <4>1. o = "meta" => /\ cd.del[l].ds \in Dsyncs /\ cd.ds[cd.del[l].ds].ino = i
                          /\ cd.ds[cd.del[l].ds].pc = "join"
        <5>1. DeleteOK(cd, l) /\ cd.del[l].ino = i /\ cd.del[l].obj = o /\ i # 0
          BY <1>1
        <5> QED
          BY ONLY <5>1 DEF DeleteOK
      <4> QED
        BY <1>1, <4>1 DEF StageOK
    <3>2. i \notin q.torn => "meta" \in q.objs[i] \/ q.objs[i] = {}
      <4>1. i \notin cd.torn => "meta" \in cd.objs[i] \/ cd.objs[i] = {}
        BY <1>1 DEF InodeOK
      <4>2. CASE o = "meta"
        BY <3>1, <4>2
      <4>3. CASE o # "meta"
        BY <4>1, <4>3
      <4> QED
        BY <4>2, <4>3
    <3>3. /\ InodeOK(cd, i) /\ q.objs[i] \subseteq cd.objs[i] /\ cd.leaked \subseteq q.leaked
          /\ q.queue = cd.queue /\ q.gone = cd.gone /\ q.counted = cd.counted /\ q.torn = cd.torn
      BY <1>1
    <3> QED
      BY ONLY <2>2, <3>2, <3>3 DEF InodeOK
  <2> QED
    BY <2>1, <2>2
<1> QED
  BY <1>1, <1>3, <1>4, <1>5, <1>6, <1>7 DEF DeletionInv

(* An object is deleted.                                                   *)
LEMMA ObjectDeleted ==
  ASSUME DeletionInv(cd), NEW l \in Deletes, cd.del[l].ino # 0, ~cd.del[l].done,
         cd' = [cd EXCEPT !.del[l].done = TRUE, !.pause = TRUE,
                          !.objs[cd.del[l].ino] = @ \ {cd.del[l].obj}]
  PROVE  DeletionInv(cd')
<1>1. PICK i, o : i = cd.del[l].ino /\ o = cd.del[l].obj
  OBVIOUS
<1>2. cd \in DeletionRec /\ DeleteOK(cd, l)
  BY DEF DeletionInv
<1>3. cd.del[l] \in DeleteRec /\ i \in Doomed
  BY <1>1, <1>2, DeletionFields, ThreadFields
<1>4. cd.del \in [Deletes -> DeleteRec] /\ cd.objs \in [Doomed -> SUBSET Objects]
  BY <1>2, DeletionFields
<1>5. PICK u : u = [cd.del[l] EXCEPT !.done = TRUE]
  OBVIOUS
<1>6. /\ u \in DeleteRec /\ u.ino = i /\ u.obj = o /\ u.ds = cd.del[l].ds /\ u.done = TRUE
      /\ u.created = cd.del[l].created
  BY <1>1, <1>3, <1>5 DEF DeleteRec
<1>13. u.err = FALSE
  BY <1>1, <1>2, <1>3, <1>5 DEF DeleteOK, DeleteRec
<1>7. PICK L \in [Deletes -> DeleteRec] : L = [cd.del EXCEPT ![l] = u]
  BY <1>4, <1>6
<1>8. PICK O \in [Doomed -> SUBSET Objects] : O = [cd.objs EXCEPT ![i] = @ \ {o}]
  <2>1. cd.objs[i] \ {o} \in SUBSET Objects
    BY <1>3, <1>4
  <2>2. [cd.objs EXCEPT ![i] = @ \ {o}] \in [Doomed -> SUBSET Objects]
    BY <1>4, <2>1
  <2> QED
    BY <2>2
<1>9. cd' = [cd EXCEPT !.del = L, !.pause = TRUE, !.objs = O]
  BY <1>1, <1>2, <1>5, <1>7, <1>8 DEF DeletionRec
<1>10. /\ cd' \in DeletionRec /\ cd'.queue = cd.queue /\ cd'.ds = cd.ds /\ cd'.del = L
       /\ cd'.gone = cd.gone /\ cd'.objs = O /\ cd'.counted = cd.counted /\ cd'.leaked = cd.leaked
       /\ cd'.torn = cd.torn
  BY <1>2, <1>9 DEF DeletionRec
<1>11. cd'.del[l] = u /\ \A k \in Deletes \ {l} : cd'.del[k] = cd.del[k]
  BY <1>4, <1>7, <1>10
<1>12. cd'.objs[i] = cd.objs[i] \ {o} /\ \A j \in Doomed \ {i} : cd'.objs[j] = cd.objs[j]
  BY <1>3, <1>4, <1>8, <1>10
<1>14. /\ DeletionInv(cd) /\ l \in Deletes /\ i \in Doomed /\ i = cd.del[l].ino /\ o = cd.del[l].obj
       /\ cd' \in DeletionRec /\ cd'.queue = cd.queue /\ cd'.gone = cd.gone
       /\ cd'.counted = cd.counted /\ cd'.torn = cd.torn /\ cd.leaked \subseteq cd'.leaked
       /\ \A e \in Dsyncs : /\ cd'.ds[e].ino = cd.ds[e].ino /\ cd'.ds[e].pc = cd.ds[e].pc
                            /\ cd'.ds[e].slot = cd.ds[e].slot /\ cd'.ds[e].err = cd.ds[e].err
                            /\ cd'.ds[e].todo = cd.ds[e].todo
  BY <1>1, <1>3, <1>10
<1>15. /\ \A k \in Deletes \ {l} : cd'.del[k] = cd.del[k]
       /\ cd'.del[l].ino = i /\ cd'.del[l].obj = o /\ cd'.del[l].ds = cd.del[l].ds
       /\ cd'.del[l].created = cd.del[l].created /\ cd'.del[l].done
       /\ cd'.del[l].err /\ o = "meta" => i \in cd'.leaked
  BY <1>6, <1>11, <1>13
<1>16. /\ \A j \in Doomed \ {i} : cd'.objs[j] = cd.objs[j]
       /\ cd'.objs[i] \subseteq cd.objs[i] /\ cd.objs[i] \ {o} \subseteq cd'.objs[i]
       /\ cd'.del[l].err \/ o \notin cd'.objs[i]
  BY <1>12
<1> QED
  BY ONLY <1>14, <1>15, <1>16, ObjectEnds

(* What a failed request does, r being the state with the thread finished. *)
RequestFails(r, l) ==
  [r EXCEPT !.del[l].err = TRUE, !.ds[cd.del[l].ds].again = TRUE, !.fails = @ + 1,
            !.leaked = IF cd.del[l].obj = "meta" THEN @ \cup {cd.del[l].ino} ELSE @]

(* A request fails: the object is still there, and metadata is left.       *)
LEMMA RequestFailed ==
  ASSUME DeletionInv(cd), NEW l \in Deletes, cd.del[l].ino # 0, ~cd.del[l].done,
         NEW r, r = [cd EXCEPT !.del[l].done = TRUE, !.pause = TRUE],
         cd' = RequestFails(r, l)
  PROVE  DeletionInv(cd')
<1>1. PICK i, d, o : i = cd.del[l].ino /\ d = cd.del[l].ds /\ o = cd.del[l].obj
  OBVIOUS
<1>2. cd \in DeletionRec /\ DeleteOK(cd, l)
  BY DEF DeletionInv
<1>3. cd.del[l] \in DeleteRec /\ i \in Doomed /\ d \in Dsyncs /\ cd.ds[d] \in DsyncRec
  BY <1>1, <1>2, DeletionFields, ThreadFields DEF DeleteOK
<1>4. /\ cd.ds \in [Dsyncs -> DsyncRec] /\ cd.del \in [Deletes -> DeleteRec]
      /\ cd.fails \in Nat /\ cd.leaked \in SUBSET Doomed
  BY <1>2, DeletionFields
<1>5. PICK u : u = [cd.del[l] EXCEPT !.done = TRUE, !.err = TRUE]
  OBVIOUS
<1>6. /\ u \in DeleteRec /\ u.ino = i /\ u.obj = o /\ u.ds = d /\ u.done = TRUE
      /\ u.err = TRUE /\ u.created = cd.del[l].created
  BY <1>1, <1>3, <1>5 DEF DeleteRec
<1>7. PICK t : t = [cd.ds[d] EXCEPT !.again = TRUE]
  OBVIOUS
<1>8. /\ t \in DsyncRec /\ t.ino = cd.ds[d].ino /\ t.pc = cd.ds[d].pc /\ t.slot = cd.ds[d].slot
      /\ t.err = cd.ds[d].err /\ t.todo = cd.ds[d].todo
  BY <1>3, <1>7 DEF DsyncRec
<1>9. PICK D \in [Dsyncs -> DsyncRec], L \in [Deletes -> DeleteRec] :
        D = [cd.ds EXCEPT ![d] = t] /\ L = [cd.del EXCEPT ![l] = u]
  BY <1>4, <1>6, <1>8
<1>10. PICK f \in Nat, K \in SUBSET Doomed :
         f = cd.fails + 1 /\ K = (IF o = "meta" THEN cd.leaked \cup {i} ELSE cd.leaked)
  <2>1. cd.fails + 1 \in Nat
    BY <1>4
  <2>2. (IF o = "meta" THEN cd.leaked \cup {i} ELSE cd.leaked) \in SUBSET Doomed
    BY <1>3, <1>4
  <2> QED
    BY <2>1, <2>2
<1>11. cd' = [cd EXCEPT !.del = L, !.pause = TRUE, !.ds = D, !.fails = f, !.leaked = K]
  <2>1. PICK w : w = [cd.del[l] EXCEPT !.done = TRUE]
    OBVIOUS
  <2>2. u = [w EXCEPT !.err = TRUE]
    BY <1>3, <1>5, <2>1 DEF DeleteRec
  <2>3. PICK M : M = [cd.del EXCEPT ![l] = w]
    OBVIOUS
  <2>4. M[l] = w /\ [M EXCEPT ![l] = u] = L
    BY <1>4, <1>9, <2>3
  <2>5. r = [cd EXCEPT !.del = M, !.pause = TRUE]
    BY <1>2, <2>1, <2>3 DEF DeletionRec
  <2>7. cd' = [r EXCEPT !.del[l].err = TRUE, !.ds[d].again = TRUE, !.fails = @ + 1,
                        !.leaked = IF o = "meta" THEN @ \cup {i} ELSE @]
    BY <1>1 DEF RequestFails
  <2>8. r.del = M /\ r.ds = cd.ds /\ r.fails = cd.fails /\ r.leaked = cd.leaked
    BY <1>2, <2>5 DEF DeletionRec
  <2>9. cd' = [r EXCEPT !.del = L, !.ds = D, !.fails = f, !.leaked = K]
    <3>1. [r.del EXCEPT ![l].err = TRUE] = L
      BY <2>2, <2>4, <2>8
    <3>2. [r.ds EXCEPT ![d].again = TRUE] = D
      BY <1>7, <1>9, <2>8
    <3>3. r.fails + 1 = f /\ (IF o = "meta" THEN r.leaked \cup {i} ELSE r.leaked) = K
      BY <1>10, <2>8
    <3> QED
      BY ONLY <2>7, <3>1, <3>2, <3>3
  <2> QED
    BY <1>2, <2>5, <2>9 DEF DeletionRec
<1>12. /\ cd' \in DeletionRec /\ cd'.queue = cd.queue /\ cd'.ds = D /\ cd'.del = L
       /\ cd'.gone = cd.gone /\ cd'.objs = cd.objs /\ cd'.counted = cd.counted /\ cd'.leaked = K
       /\ cd'.torn = cd.torn
  BY <1>2, <1>11 DEF DeletionRec
<1>13. /\ cd'.ds[d] = t /\ \A e \in Dsyncs \ {d} : cd'.ds[e] = cd.ds[e]
       /\ cd'.del[l] = u /\ \A k \in Deletes \ {l} : cd'.del[k] = cd.del[k]
  BY <1>3, <1>4, <1>9, <1>12
<1>14. /\ DeletionInv(cd) /\ l \in Deletes /\ i \in Doomed /\ i = cd.del[l].ino /\ o = cd.del[l].obj
       /\ cd' \in DeletionRec /\ cd'.queue = cd.queue /\ cd'.gone = cd.gone
       /\ cd'.counted = cd.counted /\ cd'.torn = cd.torn /\ cd.leaked \subseteq cd'.leaked
       /\ \A e \in Dsyncs : /\ cd'.ds[e].ino = cd.ds[e].ino /\ cd'.ds[e].pc = cd.ds[e].pc
                            /\ cd'.ds[e].slot = cd.ds[e].slot /\ cd'.ds[e].err = cd.ds[e].err
                            /\ cd'.ds[e].todo = cd.ds[e].todo
  BY <1>1, <1>3, <1>8, <1>10, <1>12, <1>13
<1>15. /\ \A k \in Deletes \ {l} : cd'.del[k] = cd.del[k]
       /\ cd'.del[l].ino = i /\ cd'.del[l].obj = o /\ cd'.del[l].ds = cd.del[l].ds
       /\ cd'.del[l].created = cd.del[l].created /\ cd'.del[l].done
       /\ cd'.del[l].err /\ o = "meta" => i \in cd'.leaked
  BY <1>1, <1>6, <1>10, <1>12, <1>13
<1>16. /\ \A j \in Doomed \ {i} : cd'.objs[j] = cd.objs[j]
       /\ cd'.objs[i] \subseteq cd.objs[i] /\ cd.objs[i] \ {o} \subseteq cd'.objs[i]
       /\ cd'.del[l].err \/ o \notin cd'.objs[i]
  BY <1>6, <1>12, <1>13
<1> QED
  BY ONLY <1>14, <1>15, <1>16, ObjectEnds

(* The end of a delete thread, one way or the other.                       *)
LEMMA ObjectStep ==
  ASSUME DeletionInv(cd), NEW l \in Deletes, con_object_dsync(l) PROVE DeletionInv(cd')
<1>1. cd \in DeletionRec /\ cd.del[l].ino # 0 /\ ~cd.del[l].done
  BY DEF con_object_dsync, DeletionInv
<1>2. cd.del \in [Deletes -> DeleteRec] /\ cd.del[l] \in DeleteRec
  BY <1>1, DeletionFields
<1>3. PICK r : r = [cd EXCEPT !.del[l].done = TRUE, !.pause = TRUE]
  OBVIOUS
<1>4. r.del[l].ino = cd.del[l].ino /\ r.del[l].obj = cd.del[l].obj
  BY <1>1, <1>2, <1>3 DEF DeletionRec, DeleteRec
<1>5. CASE cd' = IF cd.del[l].obj = "meta" THEN do_meta_delete(r, l) ELSE do_block_delete(r, l)
  <2>1. cd' = [r EXCEPT !.objs[cd.del[l].ino] = @ \ {cd.del[l].obj}]
    BY <1>4, <1>5 DEF do_meta_delete, do_block_delete
  <2>2. cd' = [cd EXCEPT !.del[l].done = TRUE, !.pause = TRUE, !.objs[cd.del[l].ino] = @ \ {cd.del[l].obj}]
    BY <1>1, <1>3, <2>1 DEF DeletionRec
  <2> QED
    BY <1>1, <2>2, ObjectDeleted
<1>6. CASE cd' = RequestFails(r, l)
  BY <1>1, <1>3, <1>6, RequestFailed
<1> QED
  BY <1>3, <1>5, <1>6 DEF con_object_dsync, RequestFails

(* The collector frees the finished delete threads and hands their errors  *)
(* to the dsync threads that asked, or to whichever have their slots now.  *)
LEMMA CollectStep ==
  ASSUME DeletionInv(cd), collect_finished_delete_threads PROVE DeletionInv(cd')
<1>1. PICK S : S = {l \in Deletes : Collectable(l)}
  OBVIOUS
<1>2. /\ cd \in DeletionRec /\ cd.ds \in [Dsyncs -> DsyncRec] /\ cd.del \in [Deletes -> DeleteRec]
      /\ IsInjective(cd.queue) /\ OneDsync(cd)
  BY DeletionFields DEF DeletionInv
<1>3. ASSUME NEW l \in S
      PROVE  /\ l \in Deletes /\ cd.del[l].ino # 0 /\ cd.del[l].obj # "meta" /\ cd.del[l].done
             /\ cd.del[l].created
  BY <1>1, <1>3 DEF Collectable
<1>4. PICK L : L = [l \in Deletes |-> IF l \in S THEN FreeDelete ELSE cd.del[l]]
  OBVIOUS
<1>5. PICK D : D = [d \in Dsyncs |-> [cd.ds[d] EXCEPT
                      !.err = @ \/ \E l \in S : cd.del[l].ds = d /\ cd.del[l].err]]
  OBVIOUS
<1>6. L \in [Deletes -> DeleteRec]
  BY <1>2, <1>4, DeletionTypes
<1>7. ASSUME NEW d \in Dsyncs
      PROVE  /\ D[d] \in DsyncRec /\ D[d].ino = cd.ds[d].ino /\ D[d].pc = cd.ds[d].pc
             /\ D[d].todo = cd.ds[d].todo /\ D[d].slot = cd.ds[d].slot
             /\ D[d].err <=> (cd.ds[d].err \/ \E l \in S : cd.del[l].ds = d /\ cd.del[l].err)
  <2> DEFINE e == cd.ds[d].err \/ \E l \in S : cd.del[l].ds = d /\ cd.del[l].err
  <2>1. D[d] = [cd.ds[d] EXCEPT !.err = e] /\ cd.ds[d] \in DsyncRec /\ e \in BOOLEAN
    BY <1>2, <1>5
  <2> HIDE DEF e
  <2>2. /\ D[d] \in DsyncRec /\ D[d].ino = cd.ds[d].ino /\ D[d].pc = cd.ds[d].pc
        /\ D[d].todo = cd.ds[d].todo /\ D[d].slot = cd.ds[d].slot /\ D[d].err = e
    BY <2>1 DEF DsyncRec
  <2> QED
    BY <2>2 DEF e
<1>8. D \in [Dsyncs -> DsyncRec]
  BY <1>5, <1>7
<1>9. cd' = [cd EXCEPT !.pause = FALSE, !.del = L, !.ds = D]
  <2>1. PICK r : r = [cd EXCEPT !.pause = FALSE]
    OBVIOUS
  <2>2. r.del = cd.del /\ r.ds = cd.ds
    BY <1>2, <2>1 DEF DeletionRec
  <2>3. cd' = _delete_terminate_thread(r, S)
    BY <1>1, <2>1 DEF collect_finished_delete_threads
  <2>4. cd' = [r EXCEPT !.del = L, !.ds = D]
    <3>1. [l \in Deletes |-> IF l \in S THEN FreeDelete ELSE r.del[l]] = L
      BY <1>4, <2>2
    <3>2. [d \in Dsyncs |-> [r.ds[d] EXCEPT !.err = @ \/ \E l \in S : r.del[l].ds = d /\ r.del[l].err]] = D
      BY <1>5, <2>2
    <3> QED
      BY ONLY <2>3, <3>1, <3>2 DEF _delete_terminate_thread
  <2> QED
    BY <1>2, <2>1, <2>4 DEF DeletionRec
<1>10. /\ cd' \in DeletionRec /\ cd'.queue = cd.queue /\ cd'.ds = D /\ cd'.del = L
       /\ cd'.gone = cd.gone /\ cd'.objs = cd.objs /\ cd'.counted = cd.counted /\ cd'.leaked = cd.leaked /\ cd'.torn = cd.torn
  BY <1>2, <1>6, <1>8, <1>9 DEF DeletionRec
<1>11. \A l \in Deletes : cd'.del[l] = IF l \in S THEN FreeDelete ELSE cd.del[l]
  BY <1>4, <1>10
<1>12. OneDsync(cd')
  BY <1>2, <1>7, <1>10 DEF OneDsync
<1>13. ASSUME NEW d \in Dsyncs PROVE ThreadOK(cd', d)
  <2>1. ThreadOK(cd, d) /\ cd.ds[d].slot \in Deletes \cup {0}
    BY <1>2, DeletionFields, ThreadFields DEF DeletionInv
  <2>2. cd.ds[d].slot # 0 => cd'.del[cd.ds[d].slot] = cd.del[cd.ds[d].slot]
    <3>1. cd.ds[d].slot # 0 => cd.ds[d].slot \notin S
      BY <1>3, <2>1 DEF ThreadOK
    <3> QED
      BY <1>11, <2>1, <3>1
  <2>4. /\ cd'.ds[d].ino = cd.ds[d].ino /\ cd'.ds[d].pc = cd.ds[d].pc /\ cd'.ds[d].slot = cd.ds[d].slot
        /\ cd'.queue = cd.queue
    BY <1>7, <1>10
  <2> QED
    BY ONLY <2>1, <2>2, <2>4 DEF ThreadOK
<1>14. ASSUME NEW d \in Dsyncs PROVE StageOK(cd', d)
  <2>1. PICK i : i = cd.ds[d].ino
    OBVIOUS
  <2>2. StageOK(cd, d) /\ ThreadOK(cd, d)
    BY DEF DeletionInv
  <2>3. ASSUME ~cd'.ds[d].err, NEW o, Pending(cd, d, o) PROVE Pending(cd', d, o)
    <3>1. PICK k \in Deletes : /\ cd.del[k].ds = d /\ cd.del[k].ino = i /\ cd.del[k].obj = o
                               /\ ~cd.del[k].done \/ cd.del[k].err
      BY <2>1, <2>3 DEF Pending
    <3>4. k \notin S
      BY <1>3, <1>7, <1>10, <2>3, <3>1
    <3>5. cd'.del[k] = cd.del[k] /\ cd'.ds[d].ino = i
      BY <1>7, <1>10, <1>11, <2>1, <3>4
    <3> QED
      BY <3>1, <3>5 DEF Pending
  <2>4. /\ cd'.ds[d].ino = i /\ cd'.ds[d].pc = cd.ds[d].pc /\ cd'.ds[d].todo = cd.ds[d].todo
        /\ cd'.objs = cd.objs /\ cd'.counted = cd.counted /\ cd'.leaked = cd.leaked
        /\ cd'.torn = cd.torn /\ cd.ds[d].err => cd'.ds[d].err
    BY <1>7, <1>10, <2>1
  <2>5. /\ cd.ds[d].ino = i /\ cd'.ds[d].ino = i /\ cd'.ds[d].pc = cd.ds[d].pc
        /\ cd'.ds[d].todo = cd.ds[d].todo /\ cd'.objs[i] = cd.objs[i] /\ cd'.counted[i] = cd.counted[i]
        /\ cd'.leaked = cd.leaked /\ cd'.torn = cd.torn /\ (cd.ds[d].err => cd'.ds[d].err)
    BY <1>7, <1>10, <2>1, <2>4
  <2> QED
    BY ONLY <2>2, <2>3, <2>5 DEF StageOK
<1>15. ASSUME NEW l \in Deletes PROVE DeleteOK(cd', l)
  <2>1. CASE l \in S
    BY <1>11, <2>1 DEF DeleteOK, FreeDelete
  <2>2. CASE l \notin S
    <3>1. DeleteOK(cd, l) /\ cd'.del[l] = cd.del[l]
      BY <1>11, <2>2 DEF DeletionInv
    <3>2. \A d \in Dsyncs : /\ cd'.ds[d].ino = cd.ds[d].ino /\ cd'.ds[d].pc = cd.ds[d].pc
                            /\ cd'.ds[d].slot = cd.ds[d].slot
      BY <1>7, <1>10
    <3> QED
      BY <1>10, <3>1, <3>2 DEF DeleteOK
  <2> QED
    BY <2>1, <2>2
<1>16. ASSUME NEW i \in Doomed PROVE InodeOK(cd', i)
  BY <1>10 DEF DeletionInv, InodeOK
<1> QED
  BY <1>2, <1>10, <1>12, <1>13, <1>14, <1>15, <1>16 DEF DeletionInv

(* Every step keeps the invariant.                                         *)
LEMMA DeletionStep == ASSUME DeletionInv(cd), [CDNext]_cd PROVE DeletionInv(cd')
<1>1. CASE UNCHANGED cd
  BY <1>1
<1>2. CASE Restart
  BY <1>2, RestartStep
<1>3. CASE delete_loop
  BY <1>3, LoopStep
<1>4. CASE collect_finished_delete_threads
  BY <1>4, CollectStep
<1>5. ASSUME NEW d \in Dsyncs,
             FetchMeta(d) \/ DeleteBlock(d) \/ SetCreated(d) \/ WalkFails(d)
             \/ WaitBlocks(d) \/ DeleteMeta(d) \/ JoinMeta(d) \/ update_backend_stat(d)
             \/ dsync_single_inode(d) \/ _dsync_terminate_thread(d)
      PROVE  DeletionInv(cd')
  BY <1>5, FetchStep, BlockStep, CreatedStep, WalkStep, WaitStep, MetaStep, JoinStep, StatStep, FreeStep,
     TerminateStep
<1>6. ASSUME NEW l \in Deletes, con_object_dsync(l) PROVE DeletionInv(cd')
  BY <1>6, ObjectStep
<1> QED
  BY <1>1, <1>2, <1>3, <1>4, <1>5, <1>6 DEF CDNext, CDThreads

(* The invariant says what DeletedClean and the type say.                  *)
LEMMA DeletionImplies == ASSUME DeletionInv(cd) PROVE CDTypeOK /\ DeletedClean
<1>1. /\ cd \in DeletionRec /\ OneDsync(cd) /\ \A i \in Doomed : InodeOK(cd, i)
      /\ cd.queue \in Seq(Doomed) /\ cd.gone \in SUBSET Doomed
  BY DeletionFields DEF DeletionInv
<1>2. ToSet(cd.queue) \subseteq Doomed
  BY <1>1 DEF ToSet
<1>3. CDTypeOK
  BY <1>1, <1>2 DEF CDTypeOK, InodeOK
<1>4. \A i \in cd.gone \ cd.torn : cd.objs[i] \subseteq (IF i \in cd.leaked THEN {"meta"} ELSE {})
  BY <1>1 DEF InodeOK
<1>5. \A i \in Doomed \ cd.torn : "meta" \in cd.objs[i] \/ cd.objs[i] = {}
  BY <1>1 DEF InodeOK
<1>6. \A d, e \in Active : cd.ds[d].ino = cd.ds[e].ino => d = e
  BY <1>1 DEF OneDsync, Active
<1>7. \A i \in Doomed \ cd.leaked : cd.counted[i] <= 1
  BY <1>1 DEF InodeOK
<1>8. \A i \in Doomed : i \in cd.gone \/ i \in ToSet(cd.queue)
  BY <1>1 DEF InodeOK
<1> QED
  BY <1>3, <1>4, <1>5, <1>6, <1>7, <1>8 DEF DeletedClean

(* hcfs_clouddelete.c: for any number of inodes, blocks and threads, and   *)
(* whatever requests fail and wherever the program stops: when a number is *)
(* freed no object of it is left in the cloud (but metadata whose deletion *)
(* failed, and but the inodes whose fetched metadata could not be read to  *)
(* the end), metadata is never deleted before the blocks it names, no inode *)
(* has two dsync threads or is taken off the statistics twice, and no      *)
(* number leaves the queue without being freed.                            *)
THEOREM DeletionClean == CDSpec => [](CDTypeOK /\ DeletedClean)
<1>1. CDInit => DeletionInv(cd)
  BY DeletionInit
<1>2. DeletionInv(cd) /\ [CDNext]_cd => DeletionInv(cd)'
  BY DeletionStep
<1>3. DeletionInv(cd) => CDTypeOK /\ DeletedClean
  BY DeletionImplies
<1> QED
  BY <1>1, <1>2, <1>3, PTL DEF CDSpec
==============================================================================
