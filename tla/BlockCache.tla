----------------------------- MODULE BlockCache -----------------------------
(***************************************************************************)
(* The blocks of one file between the local cache and the cloud: read,     *)
(* write and truncate (fuseop.c), prefetching and pinning downloads        *)
(* (hcfs_fromcloud.c), page-out (hcfs_cacheops.c) and one upload of the    *)
(* file (hcfs_tocloud.c, tocloud_tools.c, atomic_tocloud.c).               *)
(*                                                                         *)
(* The content of a block is the set of the modifications it carries; 0    *)
(* stands for what it held at first.  Local files have an identity, so     *)
(* that a handle may hold one that has been unlinked.  A step ends where   *)
(* the code gives up or waits for the lock of the metadata (the cache      *)
(* entry's access_sem with the flock of the meta file) or the flock of a   *)
(* block file.                                                             *)
(***************************************************************************)
EXTENDS Integers, FiniteSets, TLC

CONSTANTS
  Blocks,      \* blocks of the file, all in one page
  Handles,     \* open file handles, one request at a time each
  Loaders,     \* download threads (prefetch_block, fetch_backend_block)
  MaxFiles,    \* bound: block files that exist or are held open
  MaxMod,      \* bound: writes and truncations
  MaxRead,     \* bound: reads
  MaxLoad,     \* bound: prefetches and pin downloads
  MaxPage,     \* bound: page-outs
  MaxUpload,   \* bound: uploads
  MaxFail,     \* bound: failed transfers
  MaxSleep,    \* bound: waits for a full cache
  MaxPin       \* bound: changes of the pin flag

ASSUME BlockCacheAssumption ==
  /\ {MaxFiles, MaxMod, MaxRead, MaxLoad, MaxPage, MaxUpload, MaxFail, MaxSleep,
      MaxPin} \subseteq Nat
  /\ Blocks \subseteq Nat /\ IsFiniteSet(Blocks) /\ IsFiniteSet(Loaders)
  /\ Handles \cap Loaders = {} /\ "none" \notin Handles \cup Loaders

VARIABLES
  meta,   \* block entries, finished_seq, need_inc_seq, pin and the lock's value
  disk,   \* path and data of block files, their flocks, toupload copies, count
  cloud,  \* objects by sequence number, and the entries of the uploaded meta
  th,     \* the request of each handle and its cached block file
  dl,     \* download threads
  up,     \* the upload
  gh,     \* history: current content, content in the cloud, hazards met
  left    \* what remains of the bounds

vars == <<meta, disk, cloud, th, dl, up, gh, left>>

Files == 1..MaxFiles
Procs == Handles \cup Loaders
NoOne == "none"
MaxSeq == 1 + MaxMod
Absent == {-1}                       \* no object, no copy
Local == {"LDISK", "LtoC", "BOTH"}
Remote == {"CLOUD", "CtoL"}
Gone == {"NONE", "TODELETE"}

Entry == [st : Local \cup Remote \cup Gone, seq : 0..MaxSeq, up : BOOLEAN, cnt : 0..MaxPage]
NoEntry == [st |-> "NONE", seq |-> 0, up |-> FALSE, cnt |-> 0]
Contents == (SUBSET (0..MaxMod)) \cup {Absent}

IdleTh == [pc |-> "idle", op |-> "", b |-> 0, f |-> 0, seq |-> 0, cnt |-> 0,
           now |-> 0, m |-> 0, res |-> {}, ver |-> 0]
NoHandle == [open |-> -1, file |-> 0, cnt |-> 0]
IdleDl == [pc |-> "idle", b |-> 0, f |-> 0, seq |-> 0, pin |-> FALSE]
NoSnap == [st |-> "NONE", seq |-> 0, back |-> 0, toseq |-> 0, ex |-> FALSE, fin |-> FALSE]
IdleUp == [pc |-> "idle", cur |-> 0, todo |-> {}, b |-> 0, err |-> FALSE,
           snap |-> [b \in Blocks |-> NoSnap]]

-----------------------------------------------------------------------------
(***************************************************************************)
(* Locks and files.                                                        *)
(***************************************************************************)
MetaFree == meta.lock = 1
Lock(M) == [M EXCEPT !.lock = 0]
(* meta_cache_unlock_entry posts only while the semaphore is taken, by     *)
(* whomever that is.                                                       *)
Unlock(M) == [M EXCEPT !.lock = 1]

Free(f, p) == disk.flock[f] \in {NoOne, p}
Flock(D, f, p) == [D EXCEPT !.flock[f] = p]
Funlock(D, p) == [D EXCEPT !.flock = [f \in Files |-> IF @[f] = p THEN NoOne ELSE @[f]]]

Used == {disk.path[b] : b \in Blocks} \cup {th[h].h.file : h \in Handles}
        \cup {th[h].t.f : h \in Handles} \cup {dl[l].f : l \in Loaders}
NewFile == CHOOSE f \in Files : f \notin Used

(* fopen(path, "a+") and the file it leaves at the path.                   *)
Create(b) == IF disk.path[b] # 0 THEN disk
             ELSE [disk EXCEPT !.path[b] = NewFile, !.data[NewFile] = {}]
CanCreate(b) == disk.path[b] # 0 \/ Files \ Used # {}

Unlinked(D, b) == [D EXCEPT !.path[b] = 0]
Counted(D) == [D EXCEPT !.cache = @ + 1]
SharedBy(f, p) ==
  \/ \E h \in Handles \ {p} : f \in {th[h].t.f, th[h].h.file}
  \/ \E l \in Loaders \ {p} : f = dl[l].f

(* Hazards met, for the properties that hold only without them.            *)
If(hazard, when) == IF when THEN {hazard} ELSE {}
Met(hazard, when) == [gh EXCEPT !.known = @ \cup If(hazard, when)]

(* The request t of a handle whose cached block file is x.                 *)
Go(h, t, x) == th' = [th EXCEPT ![h] = [t |-> t, h |-> x]]
At(h, pc) == th[h].t.pc = pc
T(h) == th[h].t
X(h) == th[h].h
Close(x) == [x EXCEPT !.open = -1, !.file = 0]
OpenAs(x, b, f) == [x EXCEPT !.open = b, !.file = f]

(* Handle h caches file f for block b with the page-out count c, which     *)
(* vouches for the file only if both are the block's now.                  *)
Caches(G, h, b, f, c) ==
  [G EXCEPT !.loose = IF f = disk.path[b] /\ c = meta.blk[b].cnt THEN @ \ {h} ELSE @ \cup {h}]
Holders(b) == {h \in Handles : X(h).open = b}

(* A download into file f of block b ends and takes the file at the path,  *)
(* whatever it is now, for its own.                                        *)
Taken(b, f) ==
  LET there == disk.path[b] # 0 IN
  [gh EXCEPT !.known = @ \cup If("count", there /\ meta.blk[b].st # "CtoL")
                         \cup If("orphan", there /\ disk.path[b] # f)]

Spend(k) == left' = [left EXCEPT ![k] = @ - 1]
SetSt(M, b, s) == [M EXCEPT !.blk[b].st = s]

(* Modification m reaches block b, as its application sees it.             *)
Modified(b, c) == gh' = [gh EXCEPT !.cur[b] = c, !.ver[b] = @ + 1]

-----------------------------------------------------------------------------
(***************************************************************************)
(* Copy before write.                                                      *)
(***************************************************************************)
update_meta_seq(M) == IF M.inc THEN [M EXCEPT !.fin = @ + 1, !.inc = FALSE] ELSE M
update_block_seq(M, b, now) == [M EXCEPT !.blk[b].seq = now]

block_finish_uploading(b) == up.snap[b].fin

(* A copy that is not empty is kept as it is.                              *)
check_and_copy_file(D, b) ==
  IF D.to[b] \notin {Absent, {}} THEN D
  ELSE [D EXCEPT !.to[b] = IF D.path[b] = 0 THEN {} ELSE D.data[D.path[b]]]

(* The block of number seq is in an upload that has not sent it yet.       *)
MustCopy(b, seq) == up.pc # "idle" /\ seq <= up.cur /\ ~block_finish_uploading(b)

meta_cache_check_uploading(D, b, seq) ==
  IF MustCopy(b, seq) THEN check_and_copy_file(D, b) ELSE D

(* The copy takes the flock of the block file.                             *)
CopyFree(b, seq, p) == (MustCopy(b, seq) /\ disk.path[b] # 0) => Free(disk.path[b], p)

(* A copy is due, and is refused while the cache is full.                  *)
CopyRefused(b) == MustCopy(b, meta.blk[b].seq) /\ disk.to[b] \in {Absent, {}}

-----------------------------------------------------------------------------
(***************************************************************************)
(* read.                                                                   *)
(***************************************************************************)
(* At the start of a read or a write of block b, a cached file is closed   *)
(* when the block may not be local or was paged out.                       *)
Recheck(x, b, e) ==
  IF e.st \in Local THEN (IF e.cnt # x.cnt THEN Close(x) ELSE x)
  ELSE IF x.open = b THEN Close(x) ELSE x

(* The cached file passes the check but is not the block's: it went by a   *)
(* truncation, or the count was not recorded with it or has begun again.   *)
Stale(h, x, b) == x.open = b /\ h \in gh.loose /\ x.file # disk.path[b]

(* What the entry e of the block makes of a read without a cached file.    *)
Decide(h, t, x, e) ==
  Go(h, [t EXCEPT !.cnt = e.cnt,
                  !.pc = IF e.st \in Gone THEN "replied"
                         ELSE IF e.st \in Local THEN "open" ELSE "fetch"], Close(x))

hfuse_ll_read(h, b) ==
  /\ At(h, "idle") /\ left.read > 0 /\ MetaFree
  /\ LET e == meta.blk[b]
         x == Recheck(X(h), b, e)
         t == [IdleTh EXCEPT !.op = "read", !.b = b, !.ver = gh.ver[b]]
     IN /\ IF x.open = b THEN Go(h, [t EXCEPT !.pc = "pread"], x) ELSE Decide(h, t, x, e)
        /\ gh' = Met("handle", Stale(h, x, b))
  /\ Spend("read")
  /\ UNCHANGED <<meta, disk, cloud, dl, up>>

(* The file may be paged out before it is opened: then the block is looked *)
(* at again; a file that opens is not looked at again.                     *)
ReadOpen(h) ==
  /\ At(h, "open")
  /\ LET b == T(h).b
         f == disk.path[b]
         x == IF f = 0 THEN X(h) ELSE [OpenAs(X(h), b, f) EXCEPT !.cnt = T(h).cnt]
     IN /\ Go(h, [T(h) EXCEPT !.pc = "relook"], x)
        /\ gh' = IF f = 0 THEN gh
                 ELSE Caches(Met("opened", meta.blk[b].st \in Remote), h, b, f, T(h).cnt)
  /\ UNCHANGED <<meta, disk, cloud, dl, up, left>>

read_lookup_meta(h) ==
  /\ At(h, "relook") /\ MetaFree
  /\ IF X(h).open = T(h).b THEN Go(h, [T(h) EXCEPT !.pc = "pread"], X(h))
     ELSE Decide(h, T(h), X(h), meta.blk[T(h).b])
  /\ UNCHANGED <<meta, disk, cloud, dl, up, gh, left>>

(* read_fetch_backend: open, flock, mark, download, mark.  The flock stays *)
(* with the handle until the read.                                         *)
ReadFetchOpen(h) ==
  /\ At(h, "fetch") /\ CanCreate(T(h).b)
  /\ disk' = Create(T(h).b)
  /\ Go(h, [T(h) EXCEPT !.pc = "rf_lock", !.f = disk'.path[T(h).b]], X(h))
  /\ UNCHANGED <<meta, cloud, dl, up, gh, left>>

ReadFetchLock(h) ==
  /\ At(h, "rf_lock") /\ Free(T(h).f, h)
  /\ disk' = Flock(disk, T(h).f, h)
  /\ Go(h, [T(h) EXCEPT !.pc = "rf_meta"], X(h))
  /\ UNCHANGED <<meta, cloud, dl, up, gh, left>>

read_fetch_backend(h) ==
  /\ At(h, "rf_meta") /\ MetaFree
  /\ LET b == T(h).b
         e == meta.blk[b]
     IN IF e.st \in Remote
        THEN /\ meta' = SetSt(meta, b, "CtoL")
             /\ Go(h, [T(h) EXCEPT !.pc = "rf_get", !.seq = e.seq], X(h))
             /\ gh' = Met("orphan", T(h).f # disk.path[b])
        ELSE /\ Go(h, [T(h) EXCEPT !.pc = "pread", !.f = 0], OpenAs(X(h), b, T(h).f))
             /\ gh' = Caches(Met("orphan", T(h).f # disk.path[b]), h, b, T(h).f, X(h).cnt)
             /\ UNCHANGED meta
  /\ UNCHANGED <<disk, cloud, dl, up, left>>

(* The block file holds the object, or is left empty.                      *)
fetch_from_cloud(b, seq, ok) ==
  LET o == cloud.obj[b][seq] IN
  /\ ok => o # Absent
  /\ ~ok => (o = Absent \/ left.fail > 0)
  /\ left' = IF ok \/ o = Absent THEN left ELSE [left EXCEPT !.fail = @ - 1]

Fetched(b, seq, f, ok) == [disk EXCEPT !.data[f] = IF ok THEN cloud.obj[b][seq] ELSE {}]

ReadFetchGet(h, ok) ==
  /\ At(h, "rf_get") /\ fetch_from_cloud(T(h).b, T(h).seq, ok)
  /\ disk' = IF ok THEN Fetched(T(h).b, T(h).seq, T(h).f, ok)
             ELSE Funlock(Fetched(T(h).b, T(h).seq, T(h).f, ok), h)
  /\ Go(h, [T(h) EXCEPT !.pc = IF ok THEN "rf_done" ELSE "rf_fail"], X(h))
  /\ UNCHANGED <<meta, cloud, dl, up, gh>>

(* Counted in the cache whenever a file is at the path; BOTH only if the   *)
(* block is still being fetched.                                           *)
ReadFetchDone(h) ==
  /\ At(h, "rf_done") /\ MetaFree
  /\ LET b == T(h).b
         there == disk.path[b] # 0
     IN /\ meta' = IF there /\ meta.blk[b].st = "CtoL" THEN SetSt(meta, b, "BOTH") ELSE meta
        /\ disk' = IF there THEN Counted(disk) ELSE disk
        /\ Go(h, [T(h) EXCEPT !.pc = "pread", !.f = 0], OpenAs(X(h), b, T(h).f))
        /\ gh' = Caches(Taken(b, T(h).f), h, b, T(h).f, X(h).cnt)
  /\ UNCHANGED <<cloud, dl, up, left>>

ReadFetchFail(h) ==
  /\ At(h, "rf_fail") /\ MetaFree
  /\ LET b == T(h).b
         mine == meta.blk[b].st = "CtoL"
     IN /\ meta' = IF mine THEN SetSt(meta, b, "CLOUD") ELSE meta
        /\ disk' = IF mine THEN Unlinked(disk, b) ELSE disk
        /\ gh' = Met("unlinked", mine /\ \E f \in {disk.path[b]} \ {0} : SharedBy(f, h))
  /\ Go(h, IdleTh, X(h))
  /\ UNCHANGED <<cloud, dl, up, left>>

_read_block(h) ==
  /\ At(h, "pread") /\ Free(X(h).file, h)
  /\ Go(h, [T(h) EXCEPT !.pc = "replied", !.res = disk.data[X(h).file]], X(h))
  /\ disk' = Funlock(disk, h)
  /\ UNCHANGED <<meta, cloud, dl, up, gh, left>>

Replied(h) ==
  /\ At(h, "replied")
  /\ Go(h, IdleTh, X(h))
  /\ UNCHANGED <<meta, disk, cloud, dl, up, gh, left>>

-----------------------------------------------------------------------------
(***************************************************************************)
(* write and truncate.  now_seq is taken at the start and kept across the  *)
(* waits.                                                                  *)
(***************************************************************************)
Mod == MaxMod - left.mod + 1
Leave(h, M) == meta' = Unlock(M) /\ Go(h, IdleTh, X(h))

(* hfuse_ll_write ("w"), hfuse_ll_truncate of the block the new end falls  *)
(* into ("cut") and of a block behind it ("del").                          *)
Begin(h, b, op) ==
  /\ At(h, "idle") /\ left.mod > 0 /\ MetaFree
  /\ meta' = Lock(update_meta_seq(meta))
  /\ Go(h, [IdleTh EXCEPT !.op = op, !.pc = op, !.b = b, !.m = Mod, !.now = meta'.fin], X(h))
  /\ Spend("mod")
  /\ UNCHANGED <<disk, cloud, dl, up, gh>>

hfuse_ll_write(h, b) == Begin(h, b, "w")
hfuse_ll_truncate(h, b) == Begin(h, b, "cut") \/ Begin(h, b, "del")

(* With the cache full the lock is given up until something is paged out,  *)
(* before a block is created or fetched (also truncate_wait_full_cache).   *)
write_wait_full_cache(h) ==
  LET st == meta.blk[T(h).b].st IN
  /\ left.sleep > 0
  /\ (At(h, "w") /\ st \notin Local) \/ (At(h, "cut") /\ st \in Remote)
  /\ meta' = Unlock(meta)
  /\ Go(h, [T(h) EXCEPT !.pc = "sleep"], IF At(h, "w") THEN Close(X(h)) ELSE X(h))
  /\ Spend("sleep")
  /\ UNCHANGED <<disk, cloud, dl, up, gh>>

Wake(h) ==
  /\ At(h, "sleep") /\ MetaFree
  /\ meta' = Lock(meta)
  /\ Go(h, [T(h) EXCEPT !.pc = T(h).op], X(h))
  /\ UNCHANGED <<disk, cloud, dl, up, gh, left>>

(* A wait that fails returns without the lock; the caller unlocks again.   *)
UnlockAgain(h) ==
  /\ meta' = Unlock(meta)
  /\ gh' = Met("unlock", ~MetaFree)
  /\ Go(h, IdleTh, X(h))

WakeFailed(h) ==
  /\ At(h, "sleep") /\ left.fail > 0
  /\ UnlockAgain(h)
  /\ Spend("fail")
  /\ UNCHANGED <<disk, cloud, dl, up>>

(* Also when the copy before a change finds no room.  The number is kept   *)
(* for the copy; a write keeps the cached file it is about to use.         *)
_check_sync_wait_full_cache(h) ==
  LET b == T(h).b
      e == meta.blk[b]
      x == IF At(h, "w") THEN Recheck(X(h), b, e) ELSE X(h)
  IN
  /\ left.sleep > 0
  /\ \/ T(h).pc \in {"w", "again"} /\ e.st \in {"LDISK", "LtoC"}
     \/ At(h, "cut") /\ e.st \in Local \cup {"TODELETE"}
     \/ At(h, "del") /\ e.st = "LtoC"
  /\ CopyRefused(b)
  /\ meta' = Unlock(meta)
  /\ Go(h, [T(h) EXCEPT !.pc = "copy", !.seq = e.seq],
           IF T(h).op = "w" /\ x.open # b THEN Close(x) ELSE x)
  /\ Spend("sleep")
  /\ UNCHANGED <<disk, cloud, dl, up, gh>>

(* The copy is tried again with the number from before the wait.  A write  *)
(* and a deletion look at the status again; see CutLocal for the third.    *)
CopyAgain(h) ==
  LET t == T(h) IN
  /\ At(h, "copy") /\ t.op \in {"w", "del"} /\ MetaFree /\ CopyFree(t.b, t.seq, h)
  /\ disk' = meta_cache_check_uploading(disk, t.b, t.seq)
  /\ meta' = Lock(meta)
  /\ Go(h, [t EXCEPT !.pc = IF t.op = "w" THEN "again" ELSE "del"], X(h))
  /\ UNCHANGED <<cloud, dl, up, gh, left>>

(* A wait for the copy that fails takes the lock, to return with it.       *)
CopyGivenUp(h) ==
  /\ At(h, "copy") /\ MetaFree /\ left.fail > 0
  /\ Go(h, IdleTh, X(h))
  /\ Spend("fail")
  /\ UNCHANGED <<meta, disk, cloud, dl, up, gh>>

(* fopen of the block's path, the metadata being M and the files D.        *)
OpenForWrite(h, M, D, x, G) ==
  LET b == T(h).b
      f == D.path[b] IN
  IF f = 0 THEN Leave(h, M) /\ gh' = G
  ELSE /\ meta' = M
       /\ gh' = [G EXCEPT !.loose = @ \ {h}]
       /\ Go(h, [T(h) EXCEPT !.pc = "w_lock", !.f = 0], [OpenAs(x, b, f) EXCEPT !.cnt = M.blk[b].cnt])

(* The cached file may not be the block's; after a wait for the copy it is *)
(* used without a look at the count.                                       *)
Unsure(h, x, b) ==
  [gh EXCEPT !.known = @ \cup If("handle", Stale(h, x, b))
    \cup If("slept", At(h, "again") /\ x.open = b /\ x.file # disk.path[b])]

(* Variant for testing CloudConsistent: a block being uploaded is written  *)
(* without a copy.                                                         *)
WriteLocal_nocopy(h, b, x) ==
  LET G == Unsure(h, x, b) IN
  /\ disk' = disk
  /\ \/ /\ x.open = b /\ meta' = SetSt(meta, b, "LDISK")
        /\ Go(h, [T(h) EXCEPT !.pc = "w_lock"], x) /\ gh' = G
     \/ x.open # b /\ OpenForWrite(h, SetSt(meta, b, "LDISK"), disk', x, G)

(* A local block: copied first if it is dirty and being uploaded.          *)
WriteLocal(h, b, x) ==
  LET e == meta.blk[b]
      G == Unsure(h, x, b) IN
  /\ CopyFree(b, e.seq, h)
  /\ disk' = IF e.st = "BOTH" THEN disk ELSE meta_cache_check_uploading(disk, b, e.seq)
  /\ \/ /\ x.open = b /\ meta' = SetSt(meta, b, "LDISK")
        /\ Go(h, [T(h) EXCEPT !.pc = "w_lock"], x) /\ gh' = G
     \/ x.open # b /\ OpenForWrite(h, SetSt(meta, b, "LDISK"), disk', x, G)

FetchFirst(h, b, x) ==
  /\ CanCreate(b) /\ disk' = Create(b)
  /\ Go(h, [T(h) EXCEPT !.pc = "wf_lock", !.f = disk'.path[b]], x)
  /\ UNCHANGED <<meta, gh>>

(* A cached file that outlived a wait for the copy is written to whatever  *)
(* the status has become.                                                  *)
_write_block(h) ==
  /\ T(h).pc \in {"w", "again"}
  /\ LET b == T(h).b
         e == meta.blk[b]
         x == IF At(h, "w") THEN Recheck(X(h), b, e) ELSE X(h)
     IN CASE e.st \in Local -> WriteLocal(h, b, x)
          [] e.st \notin Local /\ x.open = b ->
               /\ Go(h, [T(h) EXCEPT !.pc = "w_lock"], x)
               /\ gh' = Met("slept", TRUE) /\ UNCHANGED <<meta, disk>>
          [] e.st \in Gone /\ x.open # b ->
               /\ CanCreate(b) /\ disk' = Counted(Create(b))
               /\ OpenForWrite(h, SetSt(meta, b, "LDISK"), disk', x, gh)
          [] e.st \in Remote /\ x.open # b -> FetchFirst(h, b, x)
  /\ UNCHANGED <<cloud, dl, up, left>>

(* A snapshot was taken since now_seq was read.                            *)
Outdated(t) == t.now # meta.fin \/ meta.inc

(* Modification t.m reaches file f of block b.                             *)
Modify(h, b, f) ==
  /\ disk' = Funlock([disk EXCEPT !.data[f] = @ \cup {T(h).m}], h)
  /\ gh' = [Met("oldseq", Outdated(T(h))) EXCEPT !.cur[b] = @ \cup {T(h).m}, !.ver[b] = @ + 1]

(* The end of _write_block.                                                *)
Write(h) ==
  /\ At(h, "w_lock") /\ Free(X(h).file, h)
  /\ Modify(h, T(h).b, X(h).file)
  /\ Leave(h, update_block_seq(meta, T(h).b, T(h).now))
  /\ UNCHANGED <<cloud, dl, up, left>>

(* The rest of truncate_truncate for a block its caller took for local,    *)
(* with the files D: whatever is at the path is cut and becomes ST_LDISK.  *)
CutLocal(h, D) ==
  LET t == T(h)
      f == disk.path[t.b]
      slept == If("slept", meta.blk[t.b].st \notin Local)
  IN
  \/ f = 0 /\ Leave(h, meta) /\ disk' = D /\ UNCHANGED gh
  \/ /\ f # 0 /\ Free(f, h)
     /\ disk' = [D EXCEPT !.data[f] = @ \cup {t.m}]
     /\ gh' = [Met("oldseq", Outdated(t)) EXCEPT
                 !.cur[t.b] = @ \cup {t.m}, !.ver[t.b] = @ + 1, !.known = @ \cup slept]
     /\ Leave(h, update_block_seq(SetSt(meta, t.b, "LDISK"), t.b, t.now))

truncate_truncate(h) ==
  /\ At(h, "cut")
  /\ LET b == T(h).b
         e == meta.blk[b]
     IN \/ e.st \in Remote /\ FetchFirst(h, b, X(h))
        \/ /\ e.st = "NONE" /\ Leave(h, update_block_seq(meta, b, T(h).now))
           /\ UNCHANGED <<disk, gh>>
        \/ /\ e.st \in Local \cup {"TODELETE"}
           /\ CutLocal(h, meta_cache_check_uploading(disk, b, e.seq))
  /\ UNCHANGED <<cloud, dl, up, left>>

(* After a wait for the copy the status is not looked at again.            *)
CutAfterWait(h) ==
  /\ At(h, "copy") /\ T(h).op = "cut" /\ MetaFree
  /\ CutLocal(h, meta_cache_check_uploading(disk, T(h).b, T(h).seq))
  /\ UNCHANGED <<cloud, dl, up, left>>

(* _write_fetch_backend and the first half of truncate_truncate.           *)
WriteFetchLock(h) ==
  /\ At(h, "wf_lock") /\ Free(T(h).f, h)
  /\ LET b == T(h).b
         e == meta.blk[b]
     IN IF e.st \in Remote
        THEN /\ meta' = Unlock(SetSt(meta, b, "CtoL"))
             /\ disk' = Flock(disk, T(h).f, h)
             /\ Go(h, [T(h) EXCEPT !.pc = "wf_get", !.seq = e.seq], X(h))
             /\ UNCHANGED gh
        ELSE /\ disk' = disk
             /\ OpenForWrite(h, IF disk.path[b] = 0 THEN meta ELSE SetSt(meta, b, "LDISK"), disk, X(h), gh)
  /\ UNCHANGED <<cloud, dl, up, left>>

WriteFetchGet(h) ==
  /\ At(h, "wf_get") /\ fetch_from_cloud(T(h).b, T(h).seq, TRUE)
  /\ disk' = Fetched(T(h).b, T(h).seq, T(h).f, TRUE)
  /\ Go(h, [T(h) EXCEPT !.pc = "wf_done"], X(h))
  /\ UNCHANGED <<meta, cloud, dl, up, gh>>

WriteFetchFail(h) ==
  /\ At(h, "wf_get") /\ fetch_from_cloud(T(h).b, T(h).seq, FALSE)
  /\ disk' = Funlock(Fetched(T(h).b, T(h).seq, T(h).f, FALSE), h)
  /\ UnlockAgain(h)
  /\ UNCHANGED <<cloud, dl, up>>

_write_fetch_backend(h) ==
  /\ At(h, "wf_done") /\ MetaFree
  /\ LET b == T(h).b
         there == disk.path[b] # 0
         M == Lock(IF there THEN SetSt(meta, b, "LDISK") ELSE meta)
         D == IF there THEN Counted(disk) ELSE disk
         known == Taken(b, T(h).f)
     IN IF T(h).op = "w"
        THEN disk' = Funlock(D, h) /\ OpenForWrite(h, M, D, X(h), known)
        ELSE /\ disk' = Funlock([D EXCEPT !.data[T(h).f] = @ \cup {T(h).m}], h)
             /\ gh' = IF there
                      THEN [known EXCEPT !.cur[b] = @ \cup {T(h).m}, !.ver[b] = @ + 1,
                              !.known = @ \cup If("oldseq", Outdated(T(h)))]
                      ELSE [known EXCEPT !.known = @ \cup If("oldseq", meta.blk[b].st \in Remote)]
             /\ Leave(h, update_block_seq(M, b, T(h).now))
  /\ UNCHANGED <<cloud, dl, up, left>>

(* Variant for testing TypeOK: a block still being fetched is counted out. *)
Dropped_early(D, b, st) ==
  IF st \in Gone \cup {"CLOUD"} THEN D
  ELSE [Unlinked(D, b) EXCEPT !.cache = @ - 1]

(* The block file goes, and the count of the cache with it.                *)
Dropped(D, b, st) ==
  IF st \in Gone \cup {"CLOUD"} THEN D
  ELSE [Unlinked(D, b) EXCEPT !.cache = IF st = "LDISK" \/ (st # "CtoL" /\ D.path[b] # 0) THEN @ - 1 ELSE @]

(* Truncation to an earlier block: the entry and the local file go, with a *)
(* copy only for a block in LtoC.                                          *)
truncate_delete_block(h) ==
  LET b == T(h).b
      e == meta.blk[b]
      st == CASE e.st = "NONE" \/ (e.st = "LDISK" /\ ~e.up) -> "NONE" [] OTHER -> "TODELETE"
      D == IF e.st = "LtoC" THEN meta_cache_check_uploading(disk, b, e.seq) ELSE disk
  IN
  /\ At(h, "del")
  /\ e.st = "LtoC" => CopyFree(b, e.seq, h)
  /\ Leave(h, update_block_seq(SetSt(meta, b, st), b, T(h).now))
  /\ disk' = Dropped(D, b, e.st)
  /\ gh' = [gh EXCEPT !.known = @ \cup If("torn", e.st = "LDISK" /\ MustCopy(b, e.seq))
                                 \cup If("oldseq", Outdated(T(h))),
               !.cur[b] = {}, !.ver[b] = @ + 1, !.loose = @ \cup Holders(b)]
  /\ UNCHANGED <<cloud, dl, up, left>>

-----------------------------------------------------------------------------
(***************************************************************************)
(* Downloads ahead of a read (prefetch_block) and for pinned files         *)
(* (fetch_backend_block).  Both carry the sequence number their starter    *)
(* read from the entry.                                                    *)
(***************************************************************************)
GoDl(l, d) == dl' = [dl EXCEPT ![l] = d]

read_prefetch_cache(l, b) ==
  /\ dl[l].pc = "idle" /\ left.load > 0 /\ meta.blk[b].st \in Remote
  /\ GoDl(l, [IdleDl EXCEPT !.pc = "open", !.b = b, !.seq = meta.blk[b].seq])
  /\ Spend("load")
  /\ UNCHANGED <<meta, disk, cloud, th, up, gh>>

_check_fetch_block(l, b) ==
  /\ dl[l].pc = "idle" /\ left.load > 0 /\ MetaFree
  /\ meta.pin /\ meta.blk[b].st \in Remote
  /\ GoDl(l, [IdleDl EXCEPT !.pc = "open", !.b = b, !.seq = meta.blk[b].seq, !.pin = TRUE])
  /\ Spend("load")
  /\ UNCHANGED <<meta, disk, cloud, th, up, gh>>

LoadOpen(l) ==
  /\ dl[l].pc = "open" /\ CanCreate(dl[l].b)
  /\ disk' = Create(dl[l].b)
  /\ GoDl(l, [dl[l] EXCEPT !.pc = "lock", !.f = disk'.path[dl[l].b]])
  /\ UNCHANGED <<meta, cloud, th, up, gh, left>>

LoadLock(l) ==
  /\ dl[l].pc = "lock" /\ Free(dl[l].f, l)
  /\ disk' = Flock(disk, dl[l].f, l)
  /\ GoDl(l, [dl[l] EXCEPT !.pc = "mark"])
  /\ UNCHANGED <<meta, cloud, th, up, gh, left>>

EndLoad(l, D) == disk' = Funlock(D, l) /\ GoDl(l, IdleDl)

_modify_block_status(l) ==
  LET b == dl[l].b
      e == meta.blk[b] IN
  /\ dl[l].pc = "mark" /\ MetaFree
  /\ IF e.st \in Remote
     THEN /\ meta' = SetSt(meta, b, "CtoL")
          /\ GoDl(l, [dl[l] EXCEPT !.pc = "get"]) /\ UNCHANGED disk
          /\ gh' = [gh EXCEPT !.known = @ \cup If("loadseq", dl[l].seq # e.seq)
                                          \cup If("orphan", dl[l].f # disk.path[b])]
     ELSE EndLoad(l, disk) /\ UNCHANGED <<meta, gh>>
  /\ UNCHANGED <<cloud, th, up, left>>

LoadGet(l, ok) ==
  LET b == dl[l].b
      D == Fetched(b, dl[l].seq, dl[l].f, ok) IN
  /\ dl[l].pc = "get" /\ fetch_from_cloud(b, dl[l].seq, ok)
  /\ IF ok THEN disk' = D /\ GoDl(l, [dl[l] EXCEPT !.pc = IF dl[l].pin THEN "stat" ELSE "done"])
     ELSE EndLoad(l, D)
  /\ UNCHANGED <<meta, cloud, th, up, gh>>

prefetch_block(l) ==
  LET b == dl[l].b
      there == disk.path[b] # 0
      fresh == meta.blk[b].st = "CtoL" IN
  /\ dl[l].pc = "done" /\ MetaFree
  /\ meta' = IF there /\ fresh THEN SetSt(meta, b, "BOTH") ELSE meta
  /\ EndLoad(l, IF there THEN Counted(disk) ELSE disk)
  /\ gh' = Taken(b, dl[l].f)
  /\ UNCHANGED <<cloud, th, up, left>>

(* The pinning download looks at the path and counts before it locks.      *)
PinStat(l) ==
  LET there == disk.path[dl[l].b] # 0 IN
  /\ dl[l].pc = "stat"
  /\ disk' = IF there THEN Counted(disk) ELSE disk
  /\ GoDl(l, [dl[l] EXCEPT !.pc = IF there THEN "both" ELSE "undo"])
  /\ UNCHANGED <<meta, cloud, th, up, gh, left>>

fetch_backend_block(l) ==
  LET b == dl[l].b
      fresh == meta.blk[b].st = "CtoL" IN
  /\ dl[l].pc \in {"both", "undo"} /\ MetaFree
  /\ meta' = IF fresh THEN SetSt(meta, b, IF dl[l].pc = "both" THEN "BOTH" ELSE "CLOUD") ELSE meta
  /\ EndLoad(l, disk)
  /\ gh' = IF dl[l].pc = "undo" THEN Met("orphan", fresh /\ disk.path[b] # 0)
           ELSE IF disk.path[b] = 0 THEN Met("count", TRUE) ELSE Taken(b, dl[l].f)
  /\ UNCHANGED <<cloud, th, up, left>>

change_pin_flag ==
  /\ MetaFree /\ left.pin > 0 /\ Spend("pin")
  /\ meta' = [meta EXCEPT !.pin = ~@]
  /\ UNCHANGED <<disk, cloud, th, dl, up, gh>>

(* Variant for testing ReadLatest: a page-out is not counted.              *)
_remove_synced_block_uncounted(b) ==
  /\ MetaFree /\ left.page > 0 /\ Spend("page")
  /\ ~meta.pin /\ meta.blk[b].st = "BOTH"
  /\ meta' = SetSt(meta, b, "CLOUD")
  /\ disk' = [Unlinked(disk, b) EXCEPT !.cache = @ - 1]
  /\ UNCHANGED <<cloud, th, dl, up, gh>>

(* Variant for testing CacheExact: the block stays counted.                *)
_remove_synced_block_kept(b) ==
  /\ MetaFree /\ left.page > 0 /\ Spend("page")
  /\ ~meta.pin /\ meta.blk[b].st = "BOTH"
  /\ meta' = [SetSt(meta, b, "CLOUD") EXCEPT !.blk[b].cnt = @ + 1]
  /\ disk' = Unlinked(disk, b)
  /\ UNCHANGED <<cloud, th, dl, up, gh>>

(* Page-out of a block that is in the cloud too.                           *)
_remove_synced_block(b) ==
  /\ MetaFree /\ left.page > 0 /\ Spend("page")
  /\ ~meta.pin /\ meta.blk[b].st = "BOTH"
  /\ meta' = [SetSt(meta, b, "CLOUD") EXCEPT !.blk[b].cnt = @ + 1]
  /\ disk' = IF disk.path[b] = 0 THEN disk ELSE [Unlinked(disk, b) EXCEPT !.cache = @ - 1]
  /\ UNCHANGED <<cloud, th, dl, up, gh>>

-----------------------------------------------------------------------------
(***************************************************************************)
(* The upload of the file.  Blocks are uploaded one after another.         *)
(***************************************************************************)
Snap(b) == up.snap[b]
SetSnap(b, s) == [up EXCEPT !.snap[b] = s]

(* The snapshot: toupload metadata, progress file with the sequence        *)
(* numbers in the cloud, is_uploading and need_inc_seq.                    *)
meta_cache_set_uploading_info ==
  /\ up.pc = "idle" /\ left.upload > 0 /\ MetaFree
  /\ up' = [IdleUp EXCEPT !.pc = "check", !.cur = meta.fin, !.todo = Blocks,
              !.snap = [b \in Blocks |-> [NoSnap EXCEPT !.st = meta.blk[b].st, !.seq = meta.blk[b].seq,
                          !.back = IF cloud.meta[b].ex THEN cloud.meta[b].seq ELSE 0]]]
  /\ meta' = [meta EXCEPT !.inc = TRUE]
  /\ gh' = [gh EXCEPT !.snap = gh.cur]
  /\ Spend("upload")
  /\ UNCHANGED <<disk, cloud, th, dl>>

_check_block_sync(b) ==
  LET s == Snap(b)
      e == meta.blk[b] IN
  /\ up.pc = "check" /\ b \in up.todo /\ MetaFree
  /\ CASE s.st \in {"LDISK", "LtoC"} ->
            /\ meta' = IF e.st = "LDISK" /\ e.seq = s.seq THEN SetSt(meta, b, "LtoC") ELSE meta
            /\ up' = [up EXCEPT !.pc = "dispatch", !.b = b] /\ UNCHANGED <<disk, gh>>
       [] s.st \in Gone ->
            /\ meta' = IF e.st = "TODELETE" THEN [meta EXCEPT !.blk[b] = NoEntry] ELSE meta
            /\ up' = [SetSnap(b, [s EXCEPT !.fin = TRUE]) EXCEPT !.todo = @ \ {b}]
            /\ disk' = [disk EXCEPT !.to[b] = Absent]
            /\ gh' = IF e.st = "TODELETE" THEN [gh EXCEPT !.loose = @ \cup Holders(b)] ELSE gh
       [] s.st \in Remote \cup {"BOTH"} ->
            /\ UNCHANGED <<meta, gh>>
            /\ up' = [SetSnap(b, [s EXCEPT !.fin = TRUE, !.ex = TRUE, !.toseq = s.seq])
                       EXCEPT !.todo = @ \ {b}]
            /\ disk' = [disk EXCEPT !.to[b] = Absent]
  /\ UNCHANGED <<cloud, th, dl, left>>

Fail(U) == [U EXCEPT !.err = TRUE, !.pc = "revert", !.todo = Blocks]

dispatch_upload_block ==
  LET b == up.b
      copied == disk.to[b] \notin {Absent, {}} IN
  /\ up.pc = "dispatch"
  /\ ~copied /\ disk.path[b] # 0 => Free(disk.path[b], NoOne)
  /\ disk' = check_and_copy_file(disk, b)
  /\ up' = IF ~copied /\ disk.path[b] = 0 THEN Fail(up) ELSE [up EXCEPT !.pc = "put"]
  /\ UNCHANGED <<meta, cloud, th, dl, gh, left>>

con_object_sync(ok) ==
  /\ up.pc = "put" /\ (ok \/ left.fail > 0)
  /\ cloud' = IF ok THEN [cloud EXCEPT !.obj[up.b][Snap(up.b).seq] = disk.to[up.b]] ELSE cloud
  /\ up' = IF ok THEN [up EXCEPT !.pc = "finish"] ELSE Fail(up)
  /\ IF ok THEN UNCHANGED left ELSE Spend("fail")
  /\ UNCHANGED <<meta, disk, th, dl, gh>>

_upload_terminate_thread ==
  LET b == up.b IN
  /\ up.pc = "finish"
  /\ up' = [SetSnap(b, [Snap(b) EXCEPT !.fin = TRUE, !.ex = TRUE, !.toseq = Snap(b).seq])
             EXCEPT !.pc = "both"]
  /\ disk' = [disk EXCEPT !.to[b] = Absent]
  /\ UNCHANGED <<meta, cloud, th, dl, gh, left>>

(* Variant for testing StoredBoth: status and number are not compared.     *)
change_block_status_to_BOTH_anyseq ==
  LET b == up.b
      e == meta.blk[b] IN
  /\ up.pc = "both" /\ MetaFree
  /\ meta' = IF e.st \in {"LtoC", "LDISK"}
             THEN [SetSt(meta, b, "BOTH") EXCEPT !.blk[b].up = TRUE] ELSE meta
  /\ up' = [up EXCEPT !.pc = "check", !.todo = @ \ {b}]
  /\ UNCHANGED <<disk, cloud, th, dl, gh, left>>

change_block_status_to_BOTH ==
  LET b == up.b
      e == meta.blk[b] IN
  /\ up.pc = "both" /\ MetaFree
  /\ meta' = IF e.st = "LtoC" /\ e.seq = Snap(b).seq
             THEN [SetSt(meta, b, "BOTH") EXCEPT !.blk[b].up = TRUE] ELSE meta
  /\ up' = [up EXCEPT !.pc = "check", !.todo = @ \ {b}]
  /\ UNCHANGED <<disk, cloud, th, dl, gh, left>>

(* schedule_sync_meta and do_meta_sync: the metadata follows its blocks.   *)
do_meta_sync(ok) ==
  /\ up.pc = "check" /\ up.todo = {} /\ (ok \/ left.fail > 0)
  /\ cloud' = IF ~ok THEN cloud
              ELSE [cloud EXCEPT !.meta = [b \in Blocks |->
                     [ex |-> Snap(b).st \notin Gone,
                      seq |-> IF Snap(b).st \in Gone THEN 0 ELSE Snap(b).seq]]]
  /\ gh' = IF ok THEN [gh EXCEPT !.cloud = gh.snap] ELSE gh
  /\ up' = IF ok THEN [up EXCEPT !.pc = "delete", !.todo = Blocks] ELSE Fail(up)
  /\ IF ok THEN UNCHANGED left ELSE Spend("fail")
  /\ UNCHANGED <<meta, disk, th, dl>>

_choose_deleted_block(s, which) ==
  IF which = "DEL_TOUPLOAD" THEN s.fin /\ s.ex /\ s.toseq # s.back
  ELSE s.back # 0 /\ s.toseq # s.back

delete_backend_blocks(b) ==
  /\ up.pc = "delete" /\ b \in up.todo
  /\ cloud' = IF _choose_deleted_block(Snap(b), "DEL_BACKEND")
              THEN [cloud EXCEPT !.obj[b][Snap(b).back] = Absent] ELSE cloud
  /\ up' = [up EXCEPT !.todo = @ \ {b}]
  /\ UNCHANGED <<meta, disk, th, dl, gh, left>>

(* Variant for testing NoLoss: taken back even if paged out.               *)
_revert_block_status_always(b) ==
  LET chosen == _choose_deleted_block(Snap(b), "DEL_TOUPLOAD")
      st == meta.blk[b].st IN
  /\ up.pc = "revert" /\ b \in up.todo /\ MetaFree
  /\ meta' = IF chosen /\ st \in {"BOTH", "LtoC"} THEN SetSt(meta, b, "LDISK") ELSE meta
  /\ cloud' = IF chosen THEN [cloud EXCEPT !.obj[b][Snap(b).toseq] = Absent] ELSE cloud
  /\ up' = [up EXCEPT !.todo = @ \ {b}]
  /\ UNCHANGED <<disk, th, dl, gh, left>>

(* After a failure what was uploaded is taken back, unless the only copy   *)
(* is in the cloud by now.                                                 *)
_revert_block_status(b) ==
  LET chosen == _choose_deleted_block(Snap(b), "DEL_TOUPLOAD")
      st == meta.blk[b].st IN
  /\ up.pc = "revert" /\ b \in up.todo /\ MetaFree
  /\ meta' = IF chosen /\ st \in {"BOTH", "LtoC"} THEN SetSt(meta, b, "LDISK") ELSE meta
  /\ cloud' = IF chosen /\ st \notin Remote
              THEN [cloud EXCEPT !.obj[b][Snap(b).toseq] = Absent] ELSE cloud
  /\ up' = [up EXCEPT !.todo = @ \ {b}]
  /\ UNCHANGED <<disk, th, dl, gh, left>>

(* _del_toupload_blocks, unlink of the progress file, is_uploading.        *)
_del_toupload_blocks ==
  /\ up.pc \in {"delete", "revert"} /\ up.todo = {}
  /\ disk' = [disk EXCEPT !.to = [b \in Blocks |-> Absent]]
  /\ up' = IdleUp
  /\ UNCHANGED <<meta, cloud, th, dl, gh, left>>

-----------------------------------------------------------------------------
(* The file is new, or its blocks are in the cloud only.                   *)
Init ==
  \E new \in BOOLEAN :
    /\ meta = [blk |-> [b \in Blocks |-> IF new THEN NoEntry
                 ELSE [st |-> "CLOUD", seq |-> 1, up |-> TRUE, cnt |-> 0]],
               fin |-> IF new THEN 0 ELSE 1, inc |-> TRUE, pin |-> FALSE, lock |-> 1]
    /\ cloud = [obj |-> [b \in Blocks |-> [s \in 0..MaxSeq |->
                           IF ~new /\ s = 1 THEN {0} ELSE Absent]],
                meta |-> [b \in Blocks |-> [ex |-> ~new, seq |-> IF new THEN 0 ELSE 1]]]
    /\ gh = LET c == [b \in Blocks |-> IF new THEN {} ELSE {0}]
            IN [cur |-> c, snap |-> c, cloud |-> c, ver |-> [b \in Blocks |-> 0],
                known |-> {}, loose |-> {}]
    /\ disk = [path |-> [b \in Blocks |-> 0], data |-> [f \in Files |-> {}],
               flock |-> [f \in Files |-> NoOne], to |-> [b \in Blocks |-> Absent],
               cache |-> 0]
    /\ th = [h \in Handles |-> [t |-> IdleTh, h |-> NoHandle]]
    /\ dl = [l \in Loaders |-> IdleDl]
    /\ up = IdleUp
    /\ left = [mod |-> MaxMod, read |-> MaxRead, load |-> MaxLoad, page |-> MaxPage,
               upload |-> MaxUpload, fail |-> MaxFail, sleep |-> MaxSleep, pin |-> MaxPin]

Request(h) ==
  \E b \in Blocks :
    hfuse_ll_read(h, b) \/ hfuse_ll_write(h, b) \/ hfuse_ll_truncate(h, b)

Read(h) ==
  \/ ReadOpen(h) \/ read_lookup_meta(h)
  \/ ReadFetchOpen(h) \/ ReadFetchLock(h) \/ read_fetch_backend(h)
  \/ ReadFetchGet(h, TRUE) \/ ReadFetchGet(h, FALSE) \/ ReadFetchDone(h) \/ ReadFetchFail(h)
  \/ _read_block(h) \/ Replied(h)

Modifying(h) ==
  \/ write_wait_full_cache(h) \/ Wake(h) \/ WakeFailed(h)
  \/ _check_sync_wait_full_cache(h) \/ CopyAgain(h) \/ CopyGivenUp(h)
  \/ _write_block(h) \/ Write(h)
  \/ truncate_truncate(h) \/ CutAfterWait(h) \/ truncate_delete_block(h)
  \/ WriteFetchLock(h) \/ WriteFetchGet(h) \/ WriteFetchFail(h) \/ _write_fetch_backend(h)

Load(l) ==
  \/ \E b \in Blocks : read_prefetch_cache(l, b) \/ _check_fetch_block(l, b)
  \/ LoadOpen(l) \/ LoadLock(l) \/ _modify_block_status(l)
  \/ LoadGet(l, TRUE) \/ LoadGet(l, FALSE)
  \/ prefetch_block(l) \/ PinStat(l) \/ fetch_backend_block(l)

Upload ==
  \/ meta_cache_set_uploading_info
  \/ \E b \in Blocks : _check_block_sync(b) \/ delete_backend_blocks(b) \/ _revert_block_status(b)
  \/ dispatch_upload_block \/ _upload_terminate_thread \/ change_block_status_to_BOTH
  \/ \E ok \in BOOLEAN : con_object_sync(ok) \/ do_meta_sync(ok)
  \/ _del_toupload_blocks

Next ==
  \/ \E h \in Handles : Request(h) \/ Read(h) \/ Modifying(h)
  \/ \E l \in Loaders : Load(l)
  \/ change_pin_flag
  \/ \E b \in Blocks : _remove_synced_block(b)
  \/ Upload

Spec == Init /\ [][Next]_vars

Symmetry == Permutations(Handles)

-----------------------------------------------------------------------------
(***************************************************************************)
(* Properties.  "known" holds the hazards this run has met: see the        *)
(* README for each of them.                                                *)
(***************************************************************************)
Clean == gh.known = {}

(* Statuses, contents and counters stay in their sets; the cache counts no *)
(* block that is not there.                                                *)
TypeOK ==
  /\ meta.blk \in [Blocks -> Entry] /\ meta.fin \in 0..MaxSeq /\ meta.lock \in {0, 1}
  /\ \A f \in Files : disk.data[f] \in Contents /\ disk.flock[f] \in Procs \cup {NoOne}
  /\ disk.path \in [Blocks -> Files \cup {0}]
  /\ \A b \in Blocks : disk.to[b] \in Contents
  /\ disk.cache \in Int /\ (Clean => disk.cache >= 0)

(* A read that overlaps no modification of its block returns what the last *)
(* modification left, whether it went through a cached block file, a local *)
(* file, a download or a page-out on the way.                              *)
ReadLatest ==
  Clean => \A h \in Handles :
    (T(h).pc = "replied" /\ T(h).ver = gh.ver[T(h).b]) => T(h).res = gh.cur[T(h).b]

(* Whenever no thread is inside the metadata, the status of a block says   *)
(* where its last content is: in the local file, or in the object of its   *)
(* sequence number, or nowhere once it is deleted.                         *)
NoLoss ==
  (Clean /\ MetaFree) => \A b \in Blocks :
    LET e == meta.blk[b] IN
    /\ e.st \in Local => disk.path[b] # 0 /\ disk.data[disk.path[b]] = gh.cur[b]
    /\ e.st \in Remote => cloud.obj[b][e.seq] = gh.cur[b]
    /\ e.st \in Gone => gh.cur[b] = {}

(* ST_BOTH: the cloud holds the block as it is on local disk, so that      *)
(* paging it out loses nothing.                                            *)
StoredBoth ==
  (Clean /\ MetaFree) => \A b \in Blocks :
    meta.blk[b].st = "BOTH" =>
      disk.path[b] # 0 /\ cloud.obj[b][meta.blk[b].seq] = disk.data[disk.path[b]]

(* At any moment, a crash of the device included, the metadata in the      *)
(* cloud and the objects it names are one version of the file: the one     *)
(* the last complete upload started from.                                  *)
CloudConsistent ==
  Clean => \A b \in Blocks :
    /\ cloud.meta[b].ex => cloud.obj[b][cloud.meta[b].seq] = gh.cloud[b]
    /\ ~cloud.meta[b].ex => gh.cloud[b] = {}

(* When nothing is in progress the cache counts exactly the blocks that    *)
(* are on local disk.                                                      *)
CacheExact ==
  (/\ Clean /\ up.pc = "idle"
   /\ \A h \in Handles : At(h, "idle")
   /\ \A l \in Loaders : dl[l].pc = "idle")
  => disk.cache = Cardinality({b \in Blocks : meta.blk[b].st \in Local})

(* "Close opened block file if not sure there is a valid local copy": a    *)
(* read through the cached file sees the last modification (fails: only    *)
(* page-outs are counted, not truncations).                                *)
CachedFileValid ==
  \A h \in Handles :
    (T(h).pc = "replied" /\ T(h).ver = gh.ver[T(h).b]) => T(h).res = gh.cur[T(h).b]

=============================================================================
