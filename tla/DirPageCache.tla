---------------------------- MODULE DirPageCache ----------------------------
(***************************************************************************)
(* The two directory pages that an entry of the metadata cache keeps       *)
(* (dir_entry_cache, newest first), over the pages of the meta file.  The  *)
(* caller holds the entry's lock, so this is sequential; a write to the    *)
(* file may fail, and then the page stays in the cache as dirty.           *)
(***************************************************************************)
EXTENDS Naturals, Sequences, SequencesExt

CONSTANTS DirPages,  \* positions of the pages in the meta file
          Contents   \* what a page may hold

VARIABLE dc  \* slot (0 to 2 cached pages), file; histories: last (the last
             \* content given for each page), lost (dropped after a failed write)

CachedPage(p, v, d) == [pos |-> p, val |-> v, dirty |-> d]
InCache(p) == \E k \in DOMAIN dc.slot : dc.slot[k].pos = p
Index(p) == CHOOSE k \in DOMAIN dc.slot : dc.slot[k].pos = p

(* Writes the page at k to the file; the flag is left as it is.            *)
meta_cache_flush_dir_cache(r, k) ==
  [r EXCEPT !.file[r.slot[k].pos] = r.slot[k].val]

_cache_sync(r, k) ==
  IF k \notin DOMAIN r.slot \/ ~r.slot[k].dirty THEN r
  ELSE [r EXCEPT !.file[r.slot[k].pos] = r.slot[k].val, !.slot[k].dirty = FALSE]

flush_single_entry(r) == _cache_sync(_cache_sync(r, 1), 2)

_push_page_entry(r, page) ==
  [r EXCEPT !.slot = IF @ = <<>> THEN <<page>> ELSE <<page, @[1]>>]

(* Variant for testing PagesCoherent: the page pushed out is not written.  *)
meta_cache_push_dir_page_unflushed(r, page) == _push_page_entry(r, page)

(* The second page, when dirty, is written before it is pushed out.        *)
meta_cache_push_dir_page(r, page) ==
  LET full == Len(r.slot) = 2 /\ r.slot[2].dirty
  IN _push_page_entry(IF full THEN meta_cache_flush_dir_cache(r, 2) ELSE r, page)

-----------------------------------------------------------------------------
(* A page in the cache is copied from there; a loaded page takes over the  *)
(* first slot's dirty flag.                                                *)
_lookup_dir_load_page(r, p) ==
  LET d == IF r.slot = <<>> THEN FALSE ELSE r.slot[1].dirty
  IN meta_cache_push_dir_page(r, CachedPage(p, r.file[p], d))

meta_cache_lookup_dir_data(p) ==
  ~InCache(p) /\ dc' = _lookup_dir_load_page(dc, p)

(* A name in page p: searched in the cached pages, then in the B-tree of   *)
(* the file, whose page is pushed.                                         *)
meta_cache_seek_dir_entry(p) ==
  ~InCache(p) /\ dc' = meta_cache_push_dir_page(dc, CachedPage(p, dc.file[p], FALSE))

SetPage(p, v) ==
  [IF InCache(p) THEN [dc EXCEPT !.slot[Index(p)] = CachedPage(p, v, TRUE)]
   ELSE meta_cache_push_dir_page(dc, CachedPage(p, v, TRUE)) EXCEPT
     !.last[p] = v, !.lost = @ \ {p}]

(* META_CACHE_FLUSH_NOW: the entry is flushed at once, unless that fails   *)
(* after some of the writes.                                               *)
meta_cache_update_dir_data(p, v) ==
  LET r == SetPage(p, v) IN
  dc' \in {flush_single_entry(r), _cache_sync(r, 1), r}

(* A failed write is not looked at: the page is dropped all the same.      *)
meta_cache_drop_pages(fails) ==
  LET W(r, k) == IF k \in DOMAIN r.slot /\ r.slot[k].dirty /\ ~fails
                 THEN meta_cache_flush_dir_cache(r, k) ELSE r
  IN [W(W(dc, 1), 2) EXCEPT
        !.slot = <<>>,
        !.lost = @ \cup {dc.slot[k].pos : k \in {j \in DOMAIN dc.slot : fails /\ dc.slot[j].dirty}}]

Drop == \E b \in BOOLEAN : dc' = meta_cache_drop_pages(b)

(* Variant for testing PagesCoherent: the tree is changed under the cache. *)
dir_add_entry_cached(p, q, v) ==
  dc' = [dc EXCEPT !.file[p] = v, !.file[q] = v, !.last[p] = v, !.last[q] = v,
                   !.lost = @ \ {p, q}]

(* dir_add_entry: the pages are dropped, then the tree is changed in the   *)
(* file (a page and the one it is split with) and the meta data updated.   *)
dpc_dir_add_entry(p, q, v) ==
  \E b \in BOOLEAN :
    dc' = [meta_cache_drop_pages(b) EXCEPT
             !.file[p] = v, !.file[q] = v, !.last[p] = v, !.last[q] = v, !.lost = @ \ {p, q}]

DCInit ==
  \E f \in [DirPages -> Contents] :
    dc = [slot |-> <<>>, file |-> f, last |-> f, lost |-> {}]

DCNext ==
  \/ \E p \in DirPages : \/ meta_cache_lookup_dir_data(p) \/ meta_cache_seek_dir_entry(p)
                         \/ \E v \in Contents : \/ meta_cache_update_dir_data(p, v)
                                                \/ \E q \in DirPages : dpc_dir_add_entry(p, q, v)
  \/ Drop

DCSpec == DCInit /\ [][DCNext]_dc

-----------------------------------------------------------------------------
DCTypeOK == Len(dc.slot) <= 2 /\ dc.file \in [DirPages -> Contents]

(* meta_cache_lookup_dir_data, meta_cache_seek_dir_entry,                  *)
(* meta_cache_update_dir_data: whichever pages are pushed in and out and   *)
(* whichever writes fail, no page is cached twice, a lookup finds the last *)
(* content given for the page (unless drop_pages lost it), in the cache or *)
(* in the file, and a page that is not dirty is as in the file.            *)
PagesCoherent ==
  /\ \A j, k \in DOMAIN dc.slot : dc.slot[j].pos = dc.slot[k].pos => j = k
  /\ \A k \in DOMAIN dc.slot : dc.slot[k].dirty \/ dc.slot[k].val = dc.file[dc.slot[k].pos]
  /\ \A p \in DirPages \ dc.lost :
       dc.last[p] = IF InCache(p) THEN dc.slot[Index(p)].val ELSE dc.file[p]
=============================================================================
