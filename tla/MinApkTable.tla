----------------------------- MODULE MinApkTable -----------------------------
(***************************************************************************)
(* hash_list_struct.c and apk_mgmt.c: the table of minimal apks, a hash    *)
(* list whose buckets are locked one by one and the whole of it by a       *)
(* global lock that waits until no bucket is locked.  Lookups of an apk    *)
(* query it, and fill it from the directory; unlink and rename drop an     *)
(* entry; the monitor creates it when nothing can be downloaded and, when  *)
(* something can again, walks all entries to have the kernel forget them   *)
(* and destroys it.                                                        *)
(***************************************************************************)
EXTENDS Integers, Sequences, SequencesExt, FiniteSets, FiniteSetsExt

CONSTANTS Apks,              \* numbers of apk names; their remainder is the bucket
          ApkThreads, MINAPK_TABLE_SIZE,
          MaxMinIno,         \* bound: minimal apks created
          MaxApkOps, MaxToggles, MaxApkNoMem  \* bounds: operations, creations of the table, failed callocs

ASSUME MinApkAssumption == Apks \subseteq Nat /\ MINAPK_TABLE_SIZE \in Nat \ {0}

VARIABLE hl  \* table, bucket (semaphores), bsem, tsem, csem, vsem, num (of locked buckets), use,
             \* dir (minimal apk of each name), th, mon (the monitor), ops, toggles, nomem,
             \* ino; known cases: freed (a thread was inside), stale

Data(ino, complete) == [ino |-> ino, complete |-> complete]
_minapk_hash(k) == k % MINAPK_TABLE_SIZE
ApkBuckets == 0..(MINAPK_TABLE_SIZE - 1)
IdleApk == [pc |-> "idle", op |-> "lookup", k |-> 0, d |-> Data(0, FALSE)]
NoTable == [b \in ApkBuckets |-> <<>>]
ApkAt(t, pc) == hl.th[t].pc = pc /\ ~hl.freed
HasApk(s, k) == \E i \in DOMAIN s : s[i][1] = k
DataOf(s, k) == s[CHOOSE i \in DOMAIN s : s[i][1] = k][2]

-----------------------------------------------------------------------------
(* Locks.  A bucket first, then the table's semaphore for the count.       *)
ApkStep(t, pc) == [hl EXCEPT !.th[t].pc = pc]

(* Variant for testing MinApkExact: the count is not protected by the      *)
(* table's semaphore, and only the first locker waits.                     *)
_bucket_lock_free(t) ==
  \/ /\ ApkAt(t, "bucket") /\ hl.bsem[_minapk_hash(hl.th[t].k)] > 0
     /\ hl' = [ApkStep(t, "in") EXCEPT !.bsem[_minapk_hash(hl.th[t].k)] = 0, !.num = @ + 1]

_bucket_lock(t) ==
  \/ /\ ApkAt(t, "bucket") /\ hl.bsem[_minapk_hash(hl.th[t].k)] > 0
     /\ hl' = [ApkStep(t, "table") EXCEPT !.bsem[_minapk_hash(hl.th[t].k)] = 0]
  \/ /\ ApkAt(t, "table") /\ hl.tsem > 0 /\ hl' = [ApkStep(t, "share") EXCEPT !.tsem = 0]
  \/ /\ ApkAt(t, "share") /\ hl.vsem > 0 /\ hl' = [ApkStep(t, "count") EXCEPT !.vsem = 0]
  \/ /\ ApkAt(t, "count") /\ (hl.num > 0 \/ hl.csem > 0)
     /\ hl' = [ApkStep(t, "in") EXCEPT !.csem = 0, !.num = @ + 1, !.vsem = 1, !.tsem = 1]

After1(t) == IF hl.th[t].op = "lookup" /\ hl.th[t].pc = "leave-found" THEN "locate"
             ELSE IF hl.th[t].op = "lookup" /\ hl.th[t].pc = "leave-missing" THEN "check" ELSE "idle"
_bucket_unlock(t) ==
  /\ hl.th[t].pc \in {"leave", "leave-found", "leave-missing"} /\ ~hl.freed /\ hl.vsem > 0
  /\ hl' = [hl EXCEPT !.num = @ - 1, !.csem = IF hl.num = 1 THEN 1 ELSE @,
              !.bsem[_minapk_hash(hl.th[t].k)] = 1, !.th[t] = IF After1(t) = "idle" THEN IdleApk ELSE [@ EXCEPT !.pc = After1(t)]]

MonAt(pc) == hl.mon.pc = pc /\ ~hl.freed
hash_list_global_lock(from, to) ==
  \/ MonAt(from) /\ hl.tsem > 0 /\ hl' = [hl EXCEPT !.tsem = 0, !.mon.pc = from \o "2"]
  \/ MonAt(from \o "2") /\ hl.csem > 0 /\ hl' = [hl EXCEPT !.csem = 0, !.mon.pc = to]
hash_list_global_unlock(r) == [r EXCEPT !.csem = 1, !.tsem = 1]

-----------------------------------------------------------------------------
(* The operations of the list, under the bucket's lock.                    *)
UnderLock(t, op) == ApkAt(t, "in") /\ hl.th[t].op = op
ApkChain(t) == hl.table[_minapk_hash(hl.th[t].k)]
Left(t, chain, pc) == [ApkStep(t, pc) EXCEPT !.table[_minapk_hash(hl.th[t].k)] = chain]

insert_hash_list_entry(t) ==
  /\ UnderLock(t, "insert")
  /\ LET k == hl.th[t].k IN
     hl' = IF HasApk(ApkChain(t), k) THEN ApkStep(t, "leave")
           ELSE [Left(t, <<<<k, hl.th[t].d>>>> \o ApkChain(t), "leave") EXCEPT
                   !.stale = @ \/ hl.th[t].d.ino # hl.dir[k]]

lookup_hash_list_entry(t) ==
  /\ UnderLock(t, "lookup")
  /\ LET k == hl.th[t].k
         d == DataOf(ApkChain(t), k)
     IN hl' = IF ~HasApk(ApkChain(t), k) THEN ApkStep(t, "leave-missing")
              ELSE IF d.complete /\ d.ino > 0 THEN [ApkStep(t, "leave-found") EXCEPT !.th[t].d = d]
              ELSE [ApkStep(t, "leave") EXCEPT !.th[t].op = "found"]

remove_hash_list_entry(t) ==
  /\ UnderLock(t, "remove")
  /\ hl' = Left(t, SelectSeq(ApkChain(t), LAMBDA x : x[1] # hl.th[t].k), "leave")

(* The whole entry is replaced by the copy that lookup returned.           *)
update_hash_list_entry(t) ==
  /\ UnderLock(t, "update")
  /\ LET k == hl.th[t].k IN
     hl' = [Left(t, [i \in DOMAIN ApkChain(t) |-> IF ApkChain(t)[i][1] = k THEN <<k, hl.th[t].d>> ELSE ApkChain(t)[i]], "leave")
             EXCEPT !.stale = @ \/ (HasApk(ApkChain(t), k) /\ hl.th[t].d.ino # hl.dir[k])]

-----------------------------------------------------------------------------
(* apk_mgmt.c, from hfuse_ll_lookup, unlink and rename.                    *)
StartOp(t, op, k) == [hl EXCEPT !.th[t] = [IdleApk EXCEPT !.pc = IF hl.use THEN "test" ELSE "idle", !.op = op, !.k = k],
                                !.ops = @ - 1]
query_minapk_data(t, k) == ApkAt(t, "idle") /\ hl.ops > 0 /\ hl.use /\ hl' = StartOp(t, "lookup", k)

(* The table is tested once, without a lock, and then used.                *)
TestTable(t) == /\ ApkAt(t, "test")
                /\ hl' = IF hl.made THEN ApkStep(t, "bucket") ELSE [hl EXCEPT !.th[t] = IdleApk]

(* check_data_location: an error, complete, or not complete any more.      *)
CheckLocation(t) ==
  /\ ApkAt(t, "locate")
  /\ hl' \in {[hl EXCEPT !.th[t] = IdleApk],
              [hl EXCEPT !.th[t].pc = "test", !.th[t].op = "remove"],
              [hl EXCEPT !.th[t].pc = "test", !.th[t].op = "update", !.th[t].d.complete = FALSE]}

(* The directory is read, and what was read is inserted later.             *)
_check_use_minapk(t) ==
  /\ ApkAt(t, "check")
  /\ \E complete \in BOOLEAN :
       hl' = [hl EXCEPT !.th[t].pc = "test", !.th[t].op = "insert",
                        !.th[t].d = Data(hl.dir[hl.th[t].k], complete /\ hl.dir[hl.th[t].k] > 0)]

remove_minapk_data(t, k) ==
  /\ ApkAt(t, "idle") /\ hl.ops > 0
  /\ \/ hl.dir[k] # 0 /\ hl' = [StartOp(t, "remove", k) EXCEPT !.dir[k] = 0]
     \/ hl.dir[k] = 0 /\ hl.ino < MaxMinIno
        /\ hl' = [StartOp(t, "remove", k) EXCEPT !.dir[k] = hl.ino + 1, !.ino = @ + 1]

initialize_minimal_apk ==
  /\ MonAt("off") /\ hl.toggles > 0
  /\ hl' = [hl EXCEPT !.toggles = @ - 1, !.mon.pc = "on", !.table = NoTable, !.made = TRUE, !.use = TRUE,
              !.bsem = [b \in ApkBuckets |-> 1], !.tsem = 1, !.csem = 1, !.vsem = 1, !.num = 0]
BeginTerminate == MonAt("on") /\ hl' = [hl EXCEPT !.mon = [pc |-> "lock", b |-> -1, i |-> 0, seen |-> <<>>], !.use = FALSE]

(* Without memory for the iterator the table stays locked.                 *)
init_iterate_minapk_table ==
  \/ hash_list_global_lock("lock", "iterate")
  \/ MonAt("iterate") /\ hl.mon.b = -1 /\ hl.nomem > 0 /\ hl' = [hl EXCEPT !.nomem = @ - 1, !.mon.pc = "destroy"]

next_entry(b, i) ==
  IF b >= 0 /\ i < Len(hl.table[b]) THEN <<b, i + 1>>
  ELSE LET more == {c \in ApkBuckets : c > b /\ hl.table[c] # <<>>}
       IN IF more = {} THEN <<-1, 0>> ELSE <<Min(more), 1>>
(* When the application volume is not mounted no entry is looked at.       *)
_invalid_all_minapk ==
  LET n == next_entry(hl.mon.b, hl.mon.i)
      ended == [hash_list_global_unlock(hl) EXCEPT !.mon.pc = "destroy"]
  IN /\ MonAt("iterate")
     /\ \/ hl.mon.b = -1 /\ hl' = ended
        \/ hl' = IF n[1] < 0 THEN ended
                 ELSE [hl EXCEPT !.mon.b = n[1], !.mon.i = n[2],
                                 !.mon.seen = Append(@, hl.table[n[1]][n[2]][1])]

Inside == {t \in ApkThreads : hl.th[t].pc \notin {"idle", "test", "check", "locate"}}
destroy_hash_list ==
  \/ hash_list_global_lock("destroy", "free")
  \/ /\ MonAt("free")
     /\ hl' = IF Inside # {} THEN [hl EXCEPT !.freed = TRUE]
              ELSE [hl EXCEPT !.table = NoTable, !.made = FALSE, !.mon.pc = "off"]
terminate_minimal_apk == BeginTerminate \/ init_iterate_minapk_table \/ _invalid_all_minapk \/ destroy_hash_list

HLInit ==
  hl = [table |-> NoTable, made |-> FALSE, use |-> FALSE, bsem |-> [b \in ApkBuckets |-> 1], tsem |-> 1,
        csem |-> 1, vsem |-> 1, num |-> 0, dir |-> [k \in Apks |-> 0], th |-> [t \in ApkThreads |-> IdleApk],
        mon |-> [pc |-> "off", b |-> -1, i |-> 0, seen |-> <<>>], ops |-> MaxApkOps, toggles |-> MaxToggles,
        nomem |-> MaxApkNoMem, ino |-> 0, freed |-> FALSE, stale |-> FALSE]

HLNext ==
  \/ initialize_minimal_apk \/ terminate_minimal_apk
  \/ \E t \in ApkThreads :
       \/ _bucket_lock(t) \/ _bucket_unlock(t) \/ insert_hash_list_entry(t) \/ lookup_hash_list_entry(t)
       \/ remove_hash_list_entry(t) \/ update_hash_list_entry(t) \/ TestTable(t) \/ CheckLocation(t)
       \/ _check_use_minapk(t)
       \/ \E k \in Apks : query_minapk_data(t, k) \/ remove_minapk_data(t, k)

HLTypeOK ==
  /\ \A b \in ApkBuckets : \A i \in DOMAIN hl.table[b] : hl.table[b][i][1] \in Apks
  /\ {hl.tsem, hl.csem, hl.vsem} \subseteq {0, 1} /\ hl.bsem \in [ApkBuckets -> {0, 1}] /\ hl.num \in Nat
  /\ hl.dir \in [Apks -> 0..MaxMinIno]

-----------------------------------------------------------------------------
Counted == {t \in ApkThreads : hl.th[t].pc \in {"in", "leave", "leave-found", "leave-missing"}}
BucketHeld(b) == {t \in Inside : hl.th[t].pc # "bucket" /\ _minapk_hash(hl.th[t].k) = b}
MonHolds == hl.mon.pc \in {"iterate", "free"}
Dropping(k) == \E t \in ApkThreads : hl.th[t].pc # "idle" /\ hl.th[t].op = "remove" /\ hl.th[t].k = k

(* The monitor has the whole list or up to one thread has each bucket,     *)
(* never both; every semaphore that is taken has a holder that can still   *)
(* give it back, unless the walk found no memory (apk_mgmt.c:360 returns   *)
(* with the table locked); keys are unique and in their bucket; a          *)
(* completed walk has seen every entry once; and a cached minimal apk is   *)
(* the one in the directory unless its drop is on its way or a lookup      *)
(* stored what it had read before (fuseop.c:1882 and 1900, apk_mgmt.c:272  *)
(* and 301).                                                               *)
MinApkExact ==
  (hl.made /\ ~hl.freed) =>
  /\ MonHolds => Counted = {}
  /\ hl.num = Cardinality(Counted)
  /\ \A b \in ApkBuckets : /\ Cardinality(BucketHeld(b)) = 1 - hl.bsem[b]
                           /\ \A i, j \in DOMAIN hl.table[b] : i # j => hl.table[b][i][1] # hl.table[b][j][1]
                           /\ \A i \in DOMAIN hl.table[b] : _minapk_hash(hl.table[b][i][1]) = b
  /\ hl.nomem = MaxApkNoMem =>
       /\ hl.csem = 0 <=> Counted # {} \/ MonHolds
       /\ hl.tsem = 0 <=> (\E t \in ApkThreads : hl.th[t].pc \in {"share", "count"})
                          \/ hl.mon.pc \in {"lock2", "iterate", "destroy2", "free"}

  /\ hl.mon.pc = "iterate" =>
       /\ IsInjective(hl.mon.seen)
       /\ next_entry(hl.mon.b, hl.mon.i)[1] < 0 =>
            ToSet(hl.mon.seen) = UNION {{hl.table[b][i][1] : i \in DOMAIN hl.table[b]} : b \in ApkBuckets}
  /\ hl.use /\ ~hl.stale => \A b \in ApkBuckets : \A i \in DOMAIN hl.table[b] :
                    LET k == hl.table[b][i][1] IN hl.table[b][i][2].ino = hl.dir[k] \/ Dropping(k)
=============================================================================
