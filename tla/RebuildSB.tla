----------------------------- MODULE RebuildSB -----------------------------
(***************************************************************************)
(* rebuild_super_block.c, stage 2 of the restoration: a pool of threads    *)
(* walks the file systems from their roots, fetching the metadata of each  *)
(* inode and filling its super block entry.  The inodes to visit are a     *)
(* queue in a file, in which a visited one is overwritten by 0, so that    *)
(* the walk goes on after a crash; a directory's children are appended     *)
(* before it is erased.                                                    *)
(***************************************************************************)
EXTENDS Naturals, Sequences, SequencesExt, FiniteSets, FiniteSetsExt

CONSTANTS
  Workers,            \* threads of the pool
  Roots,              \* roots of the file systems (sequence)
  SubDirs, SubFiles,  \* children recorded in the directories (functions to sequences)
  Missing,            \* inodes whose metadata object the backend does not have
  NUM_CACHED_INODES,  \* jobs read from the queue file at once
  MaxJobs,            \* bound: length of the queue file
  MaxOffline,         \* bound: times the backend goes offline
  MaxRestarts         \* bound: crashes or shutdowns

ASSUME RebuildSBAssumption ==
  /\ NUM_CACHED_INODES \in Nat \ {0} /\ IsFiniteSet(Workers) /\ Workers # {}
  /\ {MaxJobs, MaxOffline, MaxRestarts} \subseteq Nat

VARIABLE rb  \* file (queue file), remaining, count, cached (jobs), finish,
             \* master, w (threads), entry (super block entries), parent
             \* (recorded parents), online, wake, down, done, offline, restarts;
             \* job and pos are the result of pull_inode_job

RebuildInodes == DOMAIN SubDirs
Children(i) == SubDirs[i] \o SubFiles[i]
IdleWorker == [pc |-> "get", job |-> 0, pos |-> 0]
NumIdle(r) == Cardinality({t \in Workers : r.w[t].pc \in {"wait", "woken"}})

Broadcast(r) ==
  [r EXCEPT !.w = [t \in Workers |->
     IF @[t].pc = "wait" THEN [@[t] EXCEPT !.pc = "woken"] ELSE @[t]]]

-----------------------------------------------------------------------------
(* The next job of the cache, which is filled from the file when empty; an *)
(* erased one (0) is passed over by the caller's loop.                     *)
pull_inode_job(r) ==
  LET n == Min({NUM_CACHED_INODES, Len(r.file) - r.count})
      c == IF r.cached # <<>> THEN r.cached
           ELSE SubSeq(r.file, r.count + 1, r.count + n)
  IN IF c = <<>> THEN [r EXCEPT !.remaining = 0, !.job = 0]
     ELSE [r EXCEPT !.cached = Tail(c), !.count = @ + 1, !.remaining = @ - 1,
                    !.job = Head(c), !.pos = r.count + 1]

(* New jobs go to the end of the file as the counters know it.             *)
push_inode_job(r, s) ==
  [r EXCEPT !.file = SubSeq(@, 1, r.remaining + r.count) \o s,
            !.remaining = @ + Len(s)]

erase_inode_job(r, t) == [r EXCEPT !.file[r.w[t].pos] = 0]

(* One pass of the loop, under job_mutex.                                  *)
_worker_get_job(t) ==
  /\ rb.w[t].pc \in {"get", "woken"}
  /\ LET r == [rb EXCEPT !.w[t] = IdleWorker]   \* woken: WORKING again
         p == pull_inode_job(r)
         Leave(x) == [x EXCEPT !.w[t].pc = "leave"]
     IN rb' = IF r.down THEN [Broadcast(r) EXCEPT !.w[t].pc = "gone"]
              ELSE IF r.finish THEN Leave(r)
              ELSE IF NumIdle(r) = Cardinality(Workers) - 1 /\ r.remaining <= 0
              THEN Leave(Broadcast([r EXCEPT !.finish = TRUE, !.master = t]))
              ELSE IF ~r.online \/ r.remaining <= 0 THEN [r EXCEPT !.w[t].pc = "wait"]
              ELSE IF p.job = 0 THEN [p EXCEPT !.pos = 0]
              ELSE [p EXCEPT !.w[t] = [pc |-> "restore", job |-> p.job, pos |-> p.pos],
                             !.job = 0, !.pos = 0]

-----------------------------------------------------------------------------
(* prune_this_entry: the inode leaves the directories that name it.        *)
prune_this_entry(r, i) == [r EXCEPT !.parent[i] = {}]

(* Another thread has filled the entry in the meantime, or it is new.      *)
rebuild_super_block_entry(r, i) ==
  IF r.entry[i] = "none" THEN [r EXCEPT !.entry[i] = "rebuilt"] ELSE r

(* ok, ENOENT, or another error: the backend cannot be reached.            *)
restore_meta_super_block_entry(r, i) ==
  CASE r.entry[i] = "rebuilt" -> {<<"ok", r>>}
    [] r.entry[i] = "TO_BE_RECLAIMED" -> {<<"ENOENT", prune_this_entry(r, i)>>}
    [] r.entry[i] = "none" /\ ~r.online -> {<<"error", r>>}
    [] r.entry[i] = "none" /\ r.online /\ i \in Missing ->
         {<<"ENOENT", [prune_this_entry(r, i) EXCEPT !.entry[i] = "TO_BE_RECLAIMED"]>>}
    [] r.entry[i] = "none" /\ r.online /\ i \notin Missing ->
         {<<"ok", rebuild_super_block_entry(r, i)>>}

AfterRestore(ret, i) ==
  CASE ret = "ENOENT" -> "erase"
    [] ret = "error" -> "again"
    [] ret = "ok" -> IF Children(i) = <<>> THEN "erase" ELSE "dirs"

(* Variant for testing RebuildComplete: the job is erased too early.       *)
Restore_erased(t) ==
  /\ rb.w[t].pc = "restore"
  /\ \E o \in restore_meta_super_block_entry(erase_inode_job(rb, t), rb.w[t].job) :
       rb' = [o[2] EXCEPT !.w[t].pc = AfterRestore(o[1], rb.w[t].job)]

Restore(t) ==
  /\ rb.w[t].pc = "restore"
  /\ \E o \in restore_meta_super_block_entry(rb, rb.w[t].job) :
       rb' = [o[2] EXCEPT !.w[t].pc = AfterRestore(o[1], rb.w[t].job)]

(* push_inode_job(&inode, 1), then erase_inode_job: a failed job goes to   *)
(* the end of the queue.                                                   *)
Again(t) ==
  /\ rb.w[t].pc = "again"
  /\ Len(rb.file) < MaxJobs
  /\ rb' = [push_inode_job(rb, <<rb.w[t].job>>) EXCEPT !.w[t].pc = "erase"]

(* rebuild_parent_stat of every child: once per parent.                    *)
rebuild_parent_stat(r, s, p) ==
  [r EXCEPT !.parent = [i \in RebuildInodes |-> IF i \in ToSet(s) THEN @[i] \cup {p} ELSE @[i]]]

ToChildren(t, from, s, to) ==
  /\ rb.w[t].pc = from
  /\ Len(rb.file) + Len(s) <= MaxJobs
  /\ LET r == rebuild_parent_stat(rb, s, rb.w[t].job) IN
     rb' = [push_inode_job(r, s) EXCEPT !.w[t].pc = to]

PushDirs(t) == rb.w[t].pc = "dirs" /\ ToChildren(t, "dirs", SubDirs[rb.w[t].job], "files")
PushFiles(t) == rb.w[t].pc = "files" /\ ToChildren(t, "files", SubFiles[rb.w[t].job], "erase")

(* The broadcast comes after the job of a directory is erased.             *)
Erase(t) ==
  /\ rb.w[t].pc = "erase"
  /\ LET r == [erase_inode_job(rb, t) EXCEPT !.w[t] = IdleWorker] IN
     rb' = IF Children(rb.w[t].job) # <<>> THEN Broadcast(r) ELSE r

(* The end of rebuild_sb_worker: the master reclaims the unused numbers    *)
(* (super_block_reclaim_fullscan) and wakes hook_fuse, which removes the   *)
(* queue file (destroy_rebuild_sb(TRUE)).                                  *)
rebuild_sb_worker(t) ==
  /\ rb.w[t].pc = "leave"
  /\ rb' = IF rb.master # t THEN [rb EXCEPT !.w[t].pc = "gone"]
           ELSE [rb EXCEPT !.w[t].pc = "gone", !.done = TRUE, !.file = <<>>]

Worker(t) ==
  \/ _worker_get_job(t) \/ Restore(t) \/ Again(t)
  \/ PushDirs(t) \/ PushFiles(t) \/ Erase(t) \/ rebuild_sb_worker(t)

-----------------------------------------------------------------------------
(* The monitor: the flag first, then wake_sb_rebuilder.                    *)
GoOffline ==
  /\ rb.online /\ rb.offline < MaxOffline /\ ~rb.done
  /\ rb' = [rb EXCEPT !.online = FALSE, !.offline = @ + 1]
GoOnline == ~rb.online /\ rb' = [rb EXCEPT !.online = TRUE, !.wake = TRUE]

(* Variant for testing RebuildEnds: only a finished rebuild is announced.  *)
wake_sb_rebuilder_finished ==
  /\ rb.wake
  /\ rb' = [(IF rb.finish THEN Broadcast(rb) ELSE rb) EXCEPT !.wake = FALSE]

wake_sb_rebuilder ==
  /\ rb.wake
  /\ rb' = [(IF rb.finish THEN rb ELSE Broadcast(rb)) EXCEPT !.wake = FALSE]

(* system_going_down, with the monitor's last wake-up.                     *)
RebuildGoDown == ~rb.down /\ ~rb.done /\ rb.restarts < MaxRestarts
          /\ rb' = [rb EXCEPT !.down = TRUE, !.wake = TRUE]

(* A handler of the file system needs inode i before the walk is there.    *)
Access(i) ==
  /\ ~rb.done /\ \E p \in RebuildInodes : p \in rb.parent[i] /\ rb.entry[p] = "rebuilt"
  /\ \E o \in restore_meta_super_block_entry(rb, i) : rb' = o[2]

(* init_rebuild_sb(START_REBUILD_SB): the roots, counters at zero.         *)
_init_rebuild_queue_file(r) ==
  [r EXCEPT !.file = Roots, !.remaining = Len(Roots), !.count = 0, !.cached = <<>>]

(* init_rebuild_sb(KEEP_REBUILD_SB) after a crash or a shutdown, which     *)
(* joins the threads (destroy_rebuild_sb(FALSE)).                          *)
init_rebuild_sb(r) ==
  [r EXCEPT !.remaining = Len(r.file), !.count = 0, !.cached = <<>>, !.finish = FALSE,
            !.master = "none", !.w = [t \in Workers |-> IdleWorker], !.wake = FALSE,
            !.down = FALSE, !.restarts = @ + 1]

RestartRebuild ==
  /\ ~rb.done /\ rb.restarts < MaxRestarts
  /\ rb' = init_rebuild_sb(rb)

RBInit ==
  rb = _init_rebuild_queue_file(
    [file |-> <<>>, remaining |-> 0, count |-> 0, cached |-> <<>>, finish |-> FALSE,
     master |-> "none", w |-> [t \in Workers |-> IdleWorker],
     entry |-> [i \in RebuildInodes |-> "none"], parent |-> [i \in RebuildInodes |-> {}],
     online |-> TRUE, wake |-> FALSE, down |-> FALSE, done |-> FALSE,
     offline |-> 0, restarts |-> 0, job |-> 0, pos |-> 0])

RBNext ==
  \/ \E t \in Workers : Worker(t)
  \/ \E i \in RebuildInodes : Access(i)
  \/ GoOffline \/ GoOnline \/ wake_sb_rebuilder \/ RebuildGoDown \/ RestartRebuild

-----------------------------------------------------------------------------
RBTypeOK ==
  /\ rb.count \in 0..Len(rb.file) \/ rb.done
  /\ rb.remaining \in 0..MaxJobs

(* The inodes below the roots that the backend holds.                      *)
Live ==
  LET f[k \in 0..Cardinality(RebuildInodes)] ==
        IF k = 0 THEN ToSet(Roots)
        ELSE LET L == f[k - 1] IN
             L \cup UNION {ToSet(Children(i)) : i \in L \ Missing}
  IN f[Cardinality(RebuildInodes)]

(* When the threads agree that the walk is over (job_finish: the queue is  *)
(* empty and the others are idle), every inode that can be reached has its *)
(* entry or is found missing, and every child knows its parents, after     *)
(* crashes, lost connections and accesses in any order.                    *)
RebuildComplete ==
  rb.finish =>
    \A i \in Live :
      /\ rb.entry[i] = IF i \in Missing THEN "TO_BE_RECLAIMED" ELSE "rebuilt"
      /\ i \notin Missing => rb.parent[i] = {p \in Live \ Missing : i \in ToSet(Children(p))}
=============================================================================
