------------------------------ MODULE CacheLoop ------------------------------
(***************************************************************************)
(* hcfs_cacheops.c, hcfs_cachebuild.c and the pause of monitor.c: the      *)
(* replacement of cached blocks, and the threads that wait for room.       *)
(* The loop builds a hash table of the inodes with cached blocks, each     *)
(* chain ordered by what is best paged out, pages out synced blocks while  *)
(* the cache is over the soft limit, and hands the result to the sleeping  *)
(* threads one at a time by four semaphores.  When nothing can be paged    *)
(* out it waits on something_to_replace.                                   *)
(***************************************************************************)
EXTENDS Integers, Sequences, SequencesExt, FiniteSets, FiniteSetsExt

CONSTANTS CacheFiles, PinnedFiles, Writers,
          CACHE_USAGE_NUM_ENTRIES, CACHE_SOFT_LIMIT, CACHE_HARD_LIMIT, CACHE_DELTA,
          InitClean, InitDirty,     \* cached blocks at the start, per file
          MaxWrites, MaxPauses, MaxDeletes  \* bounds

ASSUME CacheLoopAssumption ==
  /\ CACHE_SOFT_LIMIT < CACHE_HARD_LIMIT - CACHE_DELTA
  /\ CACHE_USAGE_NUM_ENTRIES \in Nat \ {0} /\ CacheFiles \subseteq Nat

VARIABLE cl  \* cache (blocks per file), recent (files used lately), table, loop [pc,
             \* ret, e (e_index), skip, did, removed, ino, brk], paused, something,
             \* num (num_cache_sleep_sem), wake (check_cache_sem), got
             \* (check_cache_replace_status_sem), next (check_next_sem), status, th,
             \* down, left (bounds); known cases: slipped, shrunk

CacheSize == FoldSet(LAMBDA i, n : n + cl.cache[i].clean + cl.cache[i].dirty, 0, CacheFiles)
Full == CacheSize >= CACHE_HARD_LIMIT
Buckets == 0..(CACHE_USAGE_NUM_ENTRIES - 1)
Nonempty == {b \in Buckets : cl.table[b] # <<>>}

(* sem_check_and_release: a post unless the semaphore is up already.       *)
Release(n) == IF n = 0 THEN 1 ELSE n

-----------------------------------------------------------------------------
(* The usage table.                                                        *)
cache_usage_hash_init == [b \in Buckets |-> <<>>]

Sign(x, y) == IF x > y THEN 1 ELSE IF x < y THEN -1 ELSE 0

compare_cache_usage(a, b) ==
  CASE a.clean = 0 -> 1
    [] a.clean # 0 /\ b.clean = 0 -> -1
    [] a.clean # 0 /\ b.clean # 0 /\ a.recent # b.recent -> IF a.recent THEN 1 ELSE -1
    [] OTHER -> IF a.clean > b.clean + 1 THEN -1 ELSE IF b.clean > a.clean + 1 THEN 1
                ELSE Sign(a.dirty, b.dirty)

(* Variant for testing CacheLoopSound: the new node always goes first.     *)
insert_cache_usage_node_first(chain, node) == <<node>> \o chain

insert_cache_usage_node(chain, node) ==
  LET at == {k \in DOMAIN chain : compare_cache_usage(node, chain[k]) <= 0}
  IN IF at = {} THEN Append(chain, node) ELSE InsertAt(chain, Min(at), node)

return_cache_usage_node(chain, i) ==
  LET mine == SelectSeq(chain, LAMBDA n : n.ino = i)
  IN IF mine = <<>> THEN [ino |-> i, clean |-> 0, dirty |-> 0, recent |-> FALSE] ELSE mine[1]

(* One cached block: its inode's node is taken out, changed, put back.     *)
AddBlock(t, blk) ==
  LET b == blk.ino % CACHE_USAGE_NUM_ENTRIES
      old == return_cache_usage_node(t[b], blk.ino)
      node == IF blk.dirty THEN [old EXCEPT !.dirty = @ + 1, !.recent = cl.recent[blk.ino]]
              ELSE [old EXCEPT !.clean = @ + 1, !.recent = cl.recent[blk.ino]]
      rest == SelectSeq(t[b], LAMBDA n : n.ino # blk.ino)
  IN [t EXCEPT ![b] = insert_cache_usage_node(rest, node)]

(* The block files, in the order of the directory.                         *)
BlockFiles == LET Of(i) == [k \in 1..(cl.cache[i].clean + cl.cache[i].dirty) |->
                              [ino |-> i, dirty |-> k > cl.cache[i].clean]]
              IN FoldLeft(LAMBDA s, i : s \o Of(i), <<>>, SetToSeq(CacheFiles))

(* something_to_replace is drained first, so a post during the scan stays. *)
build_cache_usage(r, s) ==
  [r EXCEPT !.something = 0, !.table = FoldLeft(AddBlock, cache_usage_hash_init, s)]

-----------------------------------------------------------------------------
(* The threads that need room.                                             *)
ThreadAt(t, pc) == cl.th[t] = pc

(* A block is written, unless the cache is full.                           *)
WriteBlock(t) ==
  /\ ThreadAt(t, "idle") /\ ~Full /\ cl.left.writes > 0 /\ ~cl.down
  /\ \E i \in CacheFiles \ PinnedFiles :
       cl' = [cl EXCEPT !.cache[i].dirty = @ + 1, !.recent[i] = TRUE, !.left.writes = @ - 1]

(* A negative status is passed on at once; otherwise the loop is woken when*)
(* the upload is paused, and the thread goes to sleep.                     *)
sleep_on_cache_full(t) ==
  /\ ThreadAt(t, "idle") /\ Full /\ cl.left.writes > 0 /\ ~cl.down
  /\ cl' = IF cl.status < 0 THEN [cl EXCEPT !.left.writes = @ - 1]
           ELSE [cl EXCEPT !.th[t] = "count",
                           !.something = IF cl.paused THEN Release(@) ELSE @]

CountSleep(t) == ThreadAt(t, "count") /\ cl' = [cl EXCEPT !.num = @ + 1, !.th[t] = "asleep"]
WakeUp(t) == ThreadAt(t, "asleep") /\ cl.wake > 0
             /\ cl' = [cl EXCEPT !.wake = @ - 1, !.th[t] = "woken"]
(* An error ends the request; a success tries it again.                    *)
ReadStatus(t) ==
  /\ ThreadAt(t, "woken") /\ cl.num > 0
  /\ cl' = [cl EXCEPT !.num = @ - 1, !.got = @ + 1, !.next = @ + 1, !.th[t] = "idle",
                      !.left.writes = IF cl.status < 0 THEN @ - 1 ELSE @]
ThreadStep(t) == CountSleep(t) \/ WakeUp(t) \/ ReadStatus(t)

(* change_status_to_BOTH: an uploaded block can be paged out.              *)
UploadBlock(i) ==
  /\ ~cl.paused /\ cl.cache[i].dirty > 0 /\ ~cl.down
  /\ cl' = [cl EXCEPT !.cache[i].dirty = @ - 1, !.cache[i].clean = @ + 1, !.something = Release(@)]

(* A file loses a block to truncation or unlink: change_system_meta posts  *)
(* something_to_replace only for unpinned dirty data.                      *)
change_system_meta(i) ==
  /\ cl.left.deletes > 0 /\ ~cl.down
  /\ \/ /\ cl.cache[i].clean > 0
        /\ cl' = [cl EXCEPT !.cache[i].clean = @ - 1, !.left.deletes = @ - 1,
                            !.shrunk = @ \/ \E t \in Writers : cl.th[t] # "idle"]
     \/ /\ cl.cache[i].dirty > 0
        /\ cl' = [cl EXCEPT !.cache[i].dirty = @ - 1, !.left.deletes = @ - 1, !.something = Release(@),
                            !.shrunk = @ \/ \E t \in Writers : cl.th[t] # "idle"]

(* Variant for testing SleepersWake: the cache loop is not woken.          *)
update_sync_state_silent(off) ==
  /\ off => ~cl.paused /\ cl.left.pauses > 0
  /\ ~cl.down
  /\ cl' = IF off THEN [cl EXCEPT !.paused = TRUE, !.left.pauses = @ - 1]
           ELSE [cl EXCEPT !.paused = FALSE, !.status = 0]

(* The upload stops, which wakes the loop; or the backend is reachable and *)
(* the switch is on, which resumes it and lets threads sleep again.        *)
update_sync_state(off) ==
  /\ off => ~cl.paused /\ cl.left.pauses > 0
  /\ ~cl.down
  /\ cl' = IF off THEN [cl EXCEPT !.paused = TRUE, !.something = Release(@), !.left.pauses = @ - 1]
           ELSE [cl EXCEPT !.paused = FALSE, !.status = 0]

-----------------------------------------------------------------------------
(* The loop.                                                               *)
LoopAt(pc) == cl.loop.pc = pc
Goto(pc) == cl' = [cl EXCEPT !.loop.pc = pc]
EIO == -1
ESHUTDOWN == -2

(* notify_sleep_on_cache begins: the status, then one thread after another.*)
NotifyThen(status, ret) ==
  cl' = [cl EXCEPT !.status = status, !.loop.pc = "notify", !.loop.ret = ret]

(* A thread that has read the old status but is not counted yet slips by.  *)
Slips == \E t \in Writers : cl.th[t] = "count"

notify_sleep_on_cache ==
  \/ /\ LoopAt("notify") /\ cl.num > 0
     /\ cl' = [cl EXCEPT !.wake = @ + 1, !.loop.pc = "handshake"]
  \/ /\ LoopAt("notify") /\ cl.num = 0
     /\ cl' = [cl EXCEPT !.loop.pc = cl.loop.ret, !.slipped = @ \/ Slips]
  \/ /\ LoopAt("handshake") /\ cl.got > 0 /\ cl.next > 0
     /\ cl' = [cl EXCEPT !.got = @ - 1, !.next = @ - 1, !.loop.pc = "notify"]

(* One turn of the inner loop while the cache is over the soft limit.      *)
NextEntry == cl' = [cl EXCEPT !.loop.e = @ + 1]
PickInode ==
  LET e == cl.loop.e IN
  IF Nonempty = {} THEN Goto("result")
  ELSE IF e >= CACHE_USAGE_NUM_ENTRIES
  THEN IF ~cl.loop.did /\ ~cl.loop.skip THEN Goto("result")
       ELSE cl' = [cl EXCEPT !.loop.e = 0, !.loop.did = FALSE, !.loop.skip = @ /\ cl.loop.did]
  ELSE IF cl.table[e] = <<>> THEN NextEntry
  ELSE IF cl.table[e][1].clean = 0 \/ (cl.loop.skip /\ cl.table[e][1].recent) THEN NextEntry
  ELSE cl' = [cl EXCEPT !.loop.did = TRUE, !.loop.e = @ + 1, !.loop.ino = cl.table[e][1].ino,
                        !.loop.pc = "remove", !.table[e] = Tail(@)]

run_cache_loop ==
  /\ LoopAt("test")
  /\ IF cl.down THEN Goto("final") ELSE IF CacheSize >= CACHE_SOFT_LIMIT THEN PickInode ELSE Goto("idle")

InodeDone(n) == cl' = [cl EXCEPT !.loop.removed = @ + n, !.loop.pc = "test", !.loop.brk = FALSE]

(* The synced blocks of one inode, with a break below the soft limit.      *)
RemoveBlocks ==
  LET i == cl.loop.ino IN
  /\ LoopAt("remove")
  /\ IF i \in PinnedFiles THEN InodeDone(0)
     ELSE IF cl.down \/ cl.cache[i].clean = 0 THEN InodeDone(1)
     ELSE IF cl.loop.brk /\ CacheSize < CACHE_SOFT_LIMIT
     THEN InodeDone(1) \/ (cl.num > 0 /\ NotifyThen(0, "remove"))
     ELSE LET r == [cl EXCEPT !.cache[i].clean = @ - 1, !.loop.brk = CacheSize - 1 < CACHE_SOFT_LIMIT]
          IN cl' = IF CacheSize - 1 < CACHE_HARD_LIMIT - CACHE_DELTA
                   THEN [r EXCEPT !.status = 0, !.loop.pc = "notify", !.loop.ret = "remove"] ELSE r

(* Nothing was paged out: the threads are told when the upload is paused,  *)
(* a second time after two seconds, and the loop waits.                    *)
_check_cache_replace_result ==
  \/ /\ LoopAt("result")
     /\ IF cl.loop.removed > 0 THEN Goto("rebuild")
        ELSE IF CacheSize >= CACHE_HARD_LIMIT - CACHE_DELTA /\ cl.paused THEN NotifyThen(EIO, "again")
        ELSE cl' = [cl EXCEPT !.loop.pc = "blocked", !.slipped = @ \/ Slips]
  \/ LoopAt("again") /\ NotifyThen(EIO, "blocked")
  \/ LoopAt("blocked") /\ cl.something > 0 /\ Goto("rebuild")

Fresh(r) == [r EXCEPT !.loop.e = 0, !.loop.skip = TRUE, !.loop.did = FALSE, !.loop.removed = 0]
Rebuild == /\ LoopAt("rebuild")
           /\ \E s \in {BlockFiles, Reverse(BlockFiles)} :
                cl' = [Fresh(build_cache_usage(cl, s)) EXCEPT !.loop.pc = "test"]

(* Below the soft limit: once a second, with a rebuild from time to time.  *)
IdleLoop ==
  /\ LoopAt("idle")
  /\ \/ (CacheSize >= CACHE_SOFT_LIMIT \/ cl.down) /\ Goto("test")
     \/ CacheSize < CACHE_SOFT_LIMIT /\ cl.something > 0 /\ cl' = Fresh(build_cache_usage(cl, BlockFiles))
     \/ CacheSize < CACHE_SOFT_LIMIT /\ cl.num > 0 /\ NotifyThen(0, "idle")

(* TERMINATE posts something_to_replace once.                              *)
Terminate == ~cl.down /\ cl' = [cl EXCEPT !.down = TRUE, !.something = @ + 1]
Shutdown == LoopAt("final") /\ NotifyThen(ESHUTDOWN, "ended")

LoopStep == notify_sleep_on_cache \/ run_cache_loop \/ RemoveBlocks \/ _check_cache_replace_result
            \/ Rebuild \/ IdleLoop \/ Shutdown

CLInit ==
  cl = [cache |-> [i \in CacheFiles |-> [clean |-> InitClean[i], dirty |-> InitDirty[i]]],
        recent |-> [i \in CacheFiles |-> FALSE], table |-> cache_usage_hash_init,
        loop |-> [pc |-> "rebuild", ret |-> "test", e |-> 0, skip |-> TRUE, did |-> FALSE,
                  removed |-> 0, ino |-> 0, brk |-> FALSE],
        paused |-> FALSE, something |-> 1, num |-> 0, wake |-> 0, got |-> 0, next |-> 0, status |-> 0,
        th |-> [t \in Writers |-> "idle"], down |-> FALSE,
        left |-> [writes |-> MaxWrites, pauses |-> MaxPauses, deletes |-> MaxDeletes],
        slipped |-> FALSE, shrunk |-> FALSE]

CLNext ==
  \/ \E t \in Writers : WriteBlock(t) \/ sleep_on_cache_full(t) \/ ThreadStep(t)
  \/ \E i \in CacheFiles : UploadBlock(i) \/ change_system_meta(i)
  \/ \E off \in BOOLEAN : update_sync_state(off)
  \/ LoopStep \/ Terminate

CLTypeOK ==
  /\ \A i \in CacheFiles : cl.cache[i].clean \in Nat /\ cl.cache[i].dirty \in Nat
  /\ cl.something \in 0..2 /\ cl.num \in 0..Cardinality(Writers) /\ cl.status \in {0, EIO, ESHUTDOWN}
  /\ cl.th \in [Writers -> {"idle", "count", "asleep", "woken"}]

(* In every chain the inodes with something to page out come first (the    *)
(* loop looks at the head only); no file appears twice; the four           *)
(* semaphores are balanced whenever the loop is not handing over a status, *)
(* a sleeper being counted exactly once; and while the upload is paused    *)
(* the loop waits for room only when no thread is left asleep, unless one  *)
(* slipped by between reading the status and being counted                 *)
(* (hcfs_cacheops.c:612-630), or files shrank meanwhile.                   *)
CacheLoopSound ==
  /\ \A b \in Buckets : LET c == cl.table[b] IN
       /\ \A j, k \in DOMAIN c : j < k => c[j].ino # c[k].ino /\ (c[k].clean > 0 => c[j].clean > 0)
  /\ ~LoopAt("handshake") => cl.wake = 0 /\ cl.got = 0 /\ cl.next = 0
  /\ cl.num = Cardinality({t \in Writers : cl.th[t] \in {"asleep", "woken"}})
  /\ LoopAt("blocked") /\ cl.something = 0 /\ cl.paused /\ cl.num > 0 => cl.slipped \/ cl.shrunk
=============================================================================
