------------------------------ MODULE MetaCache ------------------------------
(***************************************************************************)
(* The table of meta_mem_cache.c: hash buckets of cached inode metadata,   *)
(* a semaphore header_sem for each bucket and access_sem for each entry.   *)
(* The callers lock an entry, may lock a second one of a higher number     *)
(* while they hold it (a child under its directory), and unlock; entries   *)
(* are expired when there are too many, and removed when the inode goes.   *)
(***************************************************************************)
EXTENDS Naturals, Sequences, SequencesExt, FiniteSets

CONSTANTS CacheThreads, CachedInodes,
          NUM_META_MEM_CACHE_HEADERS, MAX_META_MEM_CACHE_ENTRIES

ASSUME MetaCacheAssumption ==
  /\ CachedInodes \subseteq Nat /\ IsFiniteSet(CachedInodes)
  /\ "nobody" \notin CacheThreads /\ IsFiniteSet(CacheThreads)
  /\ NUM_META_MEM_CACHE_HEADERS \in Nat \ {0}
  /\ MAX_META_MEM_CACHE_ENTRIES \in Nat

VARIABLE mc  \* list (inodes of each bucket, newest first), header and sem (who
             \* holds each semaphore), count (current_meta_mem_cache_entries),
             \* info (entries with is_uploading set), th (the threads); history:
             \* freed (an entry was locked after it had been freed)

Nobody == "nobody"
MetaBuckets == 0..(NUM_META_MEM_CACHE_HEADERS - 1)
Idle == [pc |-> "idle", ino |-> 0, held |-> {}, at |-> 0]

hash_inode_to_meta_cache(i) == i % NUM_META_MEM_CACHE_HEADERS
B(i) == hash_inode_to_meta_cache(i)
Cached(i) == i \in ToSet(mc.list[B(i)])
AllCached == {i \in CachedInodes : Cached(i)}

MCInit ==
  mc = [list |-> [b \in MetaBuckets |-> <<>>], header |-> [b \in MetaBuckets |-> Nobody],
        sem |-> [i \in CachedInodes |-> Nobody], count |-> 0, info |-> {},
        th |-> [t \in CacheThreads |-> Idle], freed |-> FALSE]

-----------------------------------------------------------------------------
meta_cache_lock_entry(t, i) ==
  /\ mc.th[t].pc = "idle" /\ Cardinality(mc.th[t].held) < 2
  /\ \A j \in mc.th[t].held : j < i
  /\ mc' = [mc EXCEPT !.th[t].pc = "header", !.th[t].ino = i]

(* Variant for testing EntriesHeld: header_sem is released before the wait. *)
LockHeader_released(t) ==
  LET i == mc.th[t].ino IN
  /\ mc.th[t].pc = "header" /\ mc.header[B(i)] = Nobody
  /\ IF Cached(i) THEN mc' = [mc EXCEPT !.th[t].pc = "access"]
     ELSE IF mc.count <= MAX_META_MEM_CACHE_ENTRIES
          THEN mc' = [mc EXCEPT !.header[B(i)] = t, !.th[t].pc = "insert"]
          ELSE \E b \in MetaBuckets : mc' = [mc EXCEPT !.th[t].pc = "expire", !.th[t].at = b]

(* With header_sem: the entry is found, or there is room (the counter is   *)
(* read here and increased later), or an entry has to be expired first.    *)
LockHeader(t) ==
  LET i == mc.th[t].ino IN
  /\ mc.th[t].pc = "header" /\ mc.header[B(i)] = Nobody
  /\ IF Cached(i) THEN mc' = [mc EXCEPT !.header[B(i)] = t, !.th[t].pc = "access"]
     ELSE IF mc.count <= MAX_META_MEM_CACHE_ENTRIES
          THEN mc' = [mc EXCEPT !.header[B(i)] = t, !.th[t].pc = "insert"]
          ELSE \E b \in MetaBuckets : mc' = [mc EXCEPT !.th[t].pc = "expire", !.th[t].at = b]

(* super_block_read may fail, and NULL is returned.                        *)
Insert(t) ==
  LET i == mc.th[t].ino IN
  /\ mc.th[t].pc = "insert"
  /\ \/ mc' = [mc EXCEPT !.header[B(i)] = Nobody, !.th[t].pc = "idle", !.th[t].ino = 0]
     \/ mc' = [mc EXCEPT !.list[B(i)] = <<i>> \o @, !.count = @ + 1,
                         !.th[t].pc = "access"]

(* access_sem is waited for with header_sem held.                          *)
LockAccess(t) ==
  LET i == mc.th[t].ino IN
  /\ mc.th[t].pc = "access" /\ mc.sem[i] = Nobody
  /\ mc' = [mc EXCEPT !.sem[i] = t, !.header[B(i)] = IF @ = t THEN Nobody ELSE @,
                      !.th[t].pc = "idle", !.th[t].ino = 0, !.th[t].held = @ \cup {i},
                      !.freed = @ \/ ~Cached(i)]

meta_cache_unlock_entry(t, i) ==
  /\ mc.th[t].pc = "idle" /\ i \in mc.th[t].held
  /\ mc' = [mc EXCEPT !.th[t].held = @ \ {i}, !.sem[i] = Nobody]

-----------------------------------------------------------------------------
(* The entry is taken out of its bucket and freed.                         *)
_expire_entry(r, i) ==
  LET k == CHOOSE n \in DOMAIN r.list[B(i)] : r.list[B(i)][n] = i
  IN [r EXCEPT !.list[B(i)] = RemoveAt(@, k), !.count = @ - 1]

(* Variant for testing EntriesHeld: entries under upload are expired too.  *)
Expirable_uploading(i) == mc.sem[i] = Nobody

Expirable(i) == mc.sem[i] = Nobody /\ i \notin mc.info

(* One bucket of the loop: an entry that nobody holds and that was not     *)
(* used for half a second goes; or the loop comes to another bucket, and   *)
(* after the last one the caller sleeps and begins anywhere.               *)
expire_meta_mem_cache_entry(t) ==
  LET b == mc.th[t].at IN
  /\ mc.th[t].pc = "expire" /\ mc.header[b] = Nobody
  /\ \/ \E i \in ToSet(mc.list[b]) :
          /\ Expirable(i)
          /\ mc' = [_expire_entry(mc, i) EXCEPT !.th[t].pc = "header", !.th[t].at = 0]
     \/ \E s \in MetaBuckets \ {b} : mc' = [mc EXCEPT !.th[t].at = s]

(* meta_cache_remove: also with header_sem held while access_sem is        *)
(* waited for.                                                             *)
meta_cache_remove(t, i) ==
  /\ mc.th[t].pc = "idle" /\ mc.th[t].held = {} /\ mc.header[B(i)] = Nobody /\ Cached(i)
  /\ mc' = [mc EXCEPT !.header[B(i)] = t, !.th[t].pc = "remove", !.th[t].ino = i]

RemoveEntry(t) ==
  LET i == mc.th[t].ino IN
  /\ mc.th[t].pc = "remove" /\ mc.sem[i] = Nobody
  /\ mc' = [_expire_entry(mc, i) EXCEPT !.header[B(i)] = Nobody, !.info = @ \ {i},
                                        !.th[t].pc = "idle", !.th[t].ino = 0]

meta_cache_set_uploading_info(t, i, now) ==
  /\ mc.th[t].pc = "idle" /\ i \in mc.th[t].held
  /\ (i \in mc.info) # now
  /\ mc' = [mc EXCEPT !.info = IF now THEN @ \cup {i} ELSE @ \ {i}]

MCNext ==
  \E t \in CacheThreads :
    \/ LockHeader(t) \/ Insert(t) \/ LockAccess(t)
    \/ expire_meta_mem_cache_entry(t) \/ RemoveEntry(t)
    \/ \E i \in CachedInodes : \/ meta_cache_lock_entry(t, i) \/ meta_cache_unlock_entry(t, i)
                         \/ meta_cache_remove(t, i)
                         \/ \E b \in BOOLEAN : meta_cache_set_uploading_info(t, i, b)

MCSpec == MCInit /\ [][MCNext]_mc

-----------------------------------------------------------------------------
MCTypeOK ==
  /\ \A b \in MetaBuckets : mc.header[b] \in CacheThreads \cup {Nobody}
  /\ \A t \in CacheThreads : mc.th[t].held \subseteq CachedInodes
  /\ mc.count \in Nat

(* meta_cache_lock_entry, meta_cache_remove, expire_meta_mem_cache_entry:  *)
(* an entry that a thread holds or waits for is in the table and stays     *)
(* there; every inode has at most one entry; the counter is the number of  *)
(* entries and exceeds the limit by no more than the threads that found    *)
(* room at once; and the record of an upload in progress, without which a  *)
(* write would not copy the block, goes only with meta_cache_remove.       *)
EntriesHeld ==
  /\ ~mc.freed
  /\ \A t \in CacheThreads : /\ \A i \in mc.th[t].held : mc.sem[i] = t /\ Cached(i)
                        /\ mc.th[t].pc = "access" => Cached(mc.th[t].ino)
  /\ \A b \in MetaBuckets : IsInjective(mc.list[b])
  /\ mc.count = Cardinality(AllCached)
  /\ mc.count <= MAX_META_MEM_CACHE_ENTRIES + Cardinality(CacheThreads)
  /\ mc.info \subseteq AllCached

(* Whoever t waits for.                                                    *)
Blocker(t) ==
  LET h == mc.th[t] IN
  CASE h.pc \in {"header"} -> mc.header[B(h.ino)]
    [] h.pc \in {"access", "remove"} -> mc.sem[h.ino]
    [] h.pc = "expire" -> mc.header[h.at]
    [] OTHER -> Nobody
Deadlocked(S) == S # {} /\ \A t \in S : Blocker(t) \in S
Wanted(S) == UNION {mc.th[t].held \cup (IF mc.th[t].ino = 0 THEN {} ELSE {mc.th[t].ino}) : t \in S}

(* meta_cache_lock_entry, meta_cache_remove: threads lock entries in one   *)
(* order.  As the code waits for an entry with the header held (though     *)
(* meta_mem_cache.h:64 says the header should be released), threads may    *)
(* wait for each other in a circle, but it has one of two causes: numbers  *)
(* that collide in a bucket, or the walk of a thread that holds an entry   *)
(* over all the buckets in search of one to expire.                        *)
DeadlockCauses ==
  \A S \in SUBSET CacheThreads :
    Deadlocked(S) => \/ \E i, j \in Wanted(S) : i # j /\ B(i) = B(j)
                    \/ \E t \in S : mc.th[t].pc = "expire" /\ mc.th[t].held # {}
=============================================================================
