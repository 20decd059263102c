------------------------------- MODULE Pinning -------------------------------
(***************************************************************************)
(* Pinning of files: the requests of the API (file_present.c, metaops.c),  *)
(* which walk a tree of inodes and keep the account of the pinned size,    *)
(* and the scheduler (pin_scheduling.c, hcfs_fromcloud.c): a loop hands    *)
(* the inodes of the pinning queue to workers, a worker hands the missing  *)
(* blocks to download threads, a collector and a manager join them.        *)
(* The pinning queue itself is the FIFO proved exact in SuperBlock.        *)
(***************************************************************************)
EXTENDS Integers, Sequences, SequencesExt, FiniteSets, FiniteSetsExt

CONSTANTS PinFiles, PinDirs,
          DirFiles,        \* the regular files of each directory, a sequence
          DirDirs,         \* its subdirectories, a sequence
          MinApks,         \* minimal apks, which unpinning a directory leaves alone
          PinRequests,     \* the inode lists that are pinned and unpinned
          ApiThreads, MAX_PINNING_FILE_CONCURRENCY, MAX_PIN_DL_CONCURRENCY,
          GrowingFiles,    \* the files that are written to
          PinnedLimit, PinCacheLimit,    \* get_pinned_limit, CACHE_LIMITS
          InitCloud,       \* blocks of each file, all in the cloud at the start
          PinBounds        \* bounds, a set of records: ops (requests), errors (failed
                           \* downloads), extends (blocks added)

ASSUME PinningAssumption ==
  /\ MAX_PINNING_FILE_CONCURRENCY \in Nat \ {0} /\ MAX_PIN_DL_CONCURRENCY \in Nat \ {0}
  /\ PinFiles \cap PinDirs = {}

VARIABLE pn  \* pin (local_pin), st (pin_status), list (the pinning queue), blk (block
             \* states, a sequence per file), pinned (pinned_size), th (API threads), loop,
             \* w (workers), d (download slots), err (error files), the semaphores
             \* pinWait, pinning, dl, paused, down, left (bounds); known cases: raced,
             \* resized, aba

PinInodes == PinFiles \cup PinDirs
PinWorkers == 1..MAX_PINNING_FILE_CONCURRENCY
DlSlots == 1..MAX_PIN_DL_CONCURRENCY
FreeWorker == [ino |-> 0, active |-> FALSE, finish |-> FALSE, pc |-> "idle", b |-> 0, n |-> 0,
               ret |-> "ok", stale |-> FALSE]
FreeSlot == [ino |-> 0, b |-> 0, active |-> FALSE, err |-> FALSE, pc |-> "idle"]
IdleThread == [pc |-> "idle", op |-> "pin", todo |-> <<>>, req |-> <<>>, reserved |-> 0, size |-> 0]
total_active_pinning == Cardinality({i \in PinWorkers : pn.w[i].active})
OnDisk(s) == Len(SelectSeq(s, LAMBDA x : x \in {"BOTH", "LDISK"}))
PinCacheSize == FoldSet(LAMBDA f, n : n + OnDisk(pn.blk[f]), 0, PinFiles)
PostOnce(n) == IF n = 0 THEN 1 ELSE n

init_pin_scheduler ==
  [w |-> [i \in PinWorkers |-> FreeWorker], pinning |-> MAX_PINNING_FILE_CONCURRENCY,
   loop |-> [pc |-> "top", now |-> 0, next |-> 0, head |-> TRUE]]

-----------------------------------------------------------------------------
(* A request: the inodes of the list, each followed by what lies below it. *)
ThAt(t, pc) == pn.th[t].pc = pc
Target(t) == Head(pn.th[t].todo)

(* The reservation of the PIN message.                                     *)
PinMessage(t, l, reserved) ==
  /\ ThAt(t, "idle") /\ pn.left.ops > 0 /\ ~pn.down
  /\ pn.pinned + reserved < PinnedLimit
  /\ pn' = [pn EXCEPT !.pinned = @ + reserved, !.left.ops = @ - 1,
              !.th[t] = [IdleThread EXCEPT !.pc = "stat", !.todo = l, !.req = l, !.reserved = reserved]]

unpin_inode_handle(t, l) ==
  /\ ThAt(t, "idle") /\ pn.left.ops > 0 /\ ~pn.down
  /\ pn' = [pn EXCEPT !.left.ops = @ - 1,
              !.th[t] = [IdleThread EXCEPT !.pc = "stat", !.op = "unpin", !.todo = l]]

(* The end of the list gives back what was reserved and not used.          *)
GiveBack(p, r) == IF p - r < 0 THEN 0 ELSE p - r
pin_inode_handle(t) ==
  /\ ThAt(t, "stat") /\ pn.th[t].todo = <<>>
  /\ pn' = [pn EXCEPT !.th[t] = IdleThread, !.pinned = GiveBack(@, pn.th[t].reserved)]

FetchStat(t) ==
  /\ ThAt(t, "stat") /\ pn.th[t].todo # <<>>
  /\ pn' = [pn EXCEPT !.th[t].pc = "flag",
              !.th[t].size = IF Target(t) \in PinFiles THEN Len(pn.blk[Target(t)]) ELSE 0]

(* The files of a directory come before its subdirectories.                *)
collect_dirmeta_children(i, ignore_minapk) ==
  LET Kept(s) == IF ignore_minapk THEN SelectSeq(s, LAMBDA x : x \notin MinApks) ELSE s
  IN IF i \in PinDirs THEN Kept(DirFiles[i]) \o DirDirs[i] ELSE <<>>
collect_dir_children(r, t) ==
  [r EXCEPT !.th[t].pc = "stat",
            !.th[t].todo = collect_dirmeta_children(Head(@), r.th[t].op = "unpin") \o Tail(@)]

(* local_pin changes under the lock of the metadata; an inode that has the *)
(* flag already is not counted or marked again.                            *)
Busy(f, t) == \E u \in ApiThreads \ {t} : pn.th[u].pc \in {"mark", "undo"} /\ Head(pn.th[u].todo) = f
SetFlag(r, f, new) ==
  [r EXCEPT !.pin[f] = new,
            !.w = [i \in PinWorkers |-> IF ~new /\ @[i].ino = f THEN [@[i] EXCEPT !.stale = TRUE] ELSE @[i]]]
change_pin_flag(t) ==
  LET f == Target(t)
      new == pn.th[t].op = "pin"
      r == [SetFlag(pn, f, new) EXCEPT !.raced = IF Busy(f, t) THEN @ \cup {f} ELSE @,
              !.resized = @ \/ (f \in PinFiles /\ Len(pn.blk[f]) # pn.th[t].size)]
  IN /\ ThAt(t, "flag")
     /\ pn' = IF pn.pin[f] = new THEN collect_dir_children(pn, t)
              ELSE [r EXCEPT !.th[t].pc = "mark"]

(* super_block_mark_pin and super_block_mark_unpin.                        *)
MarkPin(r, f) ==
  IF r.st[f] # "ST_UNPIN" THEN r
  ELSE IF f \in PinDirs THEN [r EXCEPT !.st[f] = "ST_PIN"]
  ELSE [r EXCEPT !.st[f] = "ST_PINNING", !.list = Append(@, f), !.pinWait = PostOnce(@)]
MarkUnpin(r, f) == [r EXCEPT !.st[f] = "ST_UNPIN", !.list = SelectSeq(@, LAMBDA x : x # f)]

(* The reservation is used first, then pinned_size, up to the limit.       *)
increase_pinned_size(t) ==
  LET short == pn.th[t].size - pn.th[t].reserved IN
  IF short < 0 THEN [pn EXCEPT !.th[t].reserved = -short]
  ELSE [pn EXCEPT !.th[t].reserved = 0, !.pinned = @ + short]
NoPinSpace(t) == LET short == pn.th[t].size - pn.th[t].reserved
                 IN Target(t) \in PinFiles /\ short >= 0 /\ pn.pinned + short > PinnedLimit

pin_inode(t) ==
  /\ ThAt(t, "mark") /\ pn.th[t].op = "pin"
  /\ pn' = IF NoPinSpace(t) THEN [pn EXCEPT !.th[t].pc = "undo"]
           ELSE collect_dir_children(MarkPin(increase_pinned_size(t), Target(t)), t)

decrease_pinned_size(t) == [pn EXCEPT !.pinned = GiveBack(@, pn.th[t].size)]
unpin_inode(t) ==
  /\ ThAt(t, "mark") /\ pn.th[t].op = "unpin"
  /\ pn' = collect_dir_children(MarkUnpin(decrease_pinned_size(t), Target(t)), t)

(* No room: the flag goes back, and everything the request names, pinned   *)
(* by it or before it, is unpinned.                                        *)
UndoPin(t) ==
  /\ ThAt(t, "undo")
  /\ pn' = [SetFlag(pn, Target(t), FALSE) EXCEPT !.pinned = GiveBack(@, pn.th[t].reserved),
              !.th[t] = [IdleThread EXCEPT !.pc = "stat", !.op = "unpin", !.todo = pn.th[t].req],
              !.raced = IF Busy(Target(t), t) THEN @ \cup {Target(t)} ELSE @]

-----------------------------------------------------------------------------
(* pinning_loop.                                                           *)
PlAt(pc) == pn.loop.pc = pc
PinLoopWait == PlAt("wait") /\ pn.pinWait > 0 /\ pn' = [pn EXCEPT !.pinWait = @ - 1, !.loop.pc = "top"]

(* Variant for testing PinningSound: the queue is compared with what could *)
(* be running, not with what runs.                                         *)
PinLoopTop_full ==
  /\ PlAt("top")
  /\ pn' = IF pn.down THEN [pn EXCEPT !.loop.pc = "ended"]
           ELSE IF pn.paused \/ pn.list = <<>> \/ Len(pn.list) <= MAX_PINNING_FILE_CONCURRENCY
           THEN [pn EXCEPT !.loop.pc = "wait"]
           ELSE [pn EXCEPT !.loop.now = Head(pn.list), !.loop.head = FALSE, !.loop.pc = "slot"]

PinLoopTop ==
  /\ PlAt("top")
  /\ pn' = IF pn.down THEN [pn EXCEPT !.loop.pc = "ended"]
           ELSE IF pn.paused \/ pn.list = <<>> THEN [pn EXCEPT !.loop.pc = "wait"]
           ELSE IF ~pn.loop.head THEN [pn EXCEPT !.loop.pc = "slot"]
           ELSE IF Len(pn.list) <= total_active_pinning THEN [pn EXCEPT !.loop.pc = "wait"]
           ELSE [pn EXCEPT !.loop.now = Head(pn.list), !.loop.head = FALSE, !.loop.pc = "slot"]

PinLoopSlot ==
  /\ PlAt("slot") /\ pn.pinning > 0
  /\ pn' = IF pn.down THEN [pn EXCEPT !.loop.pc = "ended"]
           ELSE [pn EXCEPT !.pinning = @ - 1, !.loop.pc = "search", !.loop.next = 0]

(* pin_ll_next: 0 at the end, and in an entry that left the queue.         *)
PinNext(f) ==
  LET at == {k \in DOMAIN pn.list : pn.list[k] = f}
  IN IF at = {} \/ Max(at) = Len(pn.list) THEN 0 ELSE pn.list[Max(at) + 1]

(* One inode of the search for one that is queued and not in a worker.     *)
PinLoopSearch ==
  LET f == pn.loop.now IN
  /\ PlAt("search")
  /\ pn' = IF f = 0 THEN [pn EXCEPT !.pinning = @ + 1, !.loop.head = TRUE, !.loop.pc = "top"]
           ELSE IF (\E i \in PinWorkers : pn.w[i].ino = f) \/ pn.st[f] = "ST_PIN"
           THEN [pn EXCEPT !.loop.now = PinNext(f)]
           ELSE IF pn.st[f] = "ST_PINNING" THEN [pn EXCEPT !.loop.next = PinNext(f), !.loop.pc = "run"]
           ELSE [pn EXCEPT !.loop.now = 0]

(* The worker begins by forgetting an old error and reading the size.      *)
PinLoopRun ==
  LET i == Min({k \in PinWorkers : ~pn.w[k].active})
      f == pn.loop.now
  IN /\ PlAt("run")
     /\ pn' = [pn EXCEPT !.w[i] = [FreeWorker EXCEPT !.ino = f, !.active = TRUE, !.pc = "fetch", !.b = 1,
                                     !.n = Len(pn.blk[f]), !.stale = ~pn.pin[f]],
                         !.err = @ \ {f}, !.loop.now = pn.loop.next, !.loop.pc = "top"]
pinning_loop == PinLoopWait \/ PinLoopTop \/ PinLoopSlot \/ PinLoopSearch \/ PinLoopRun

(* The collector joins a finished worker.                                  *)
pinning_collect(i) ==
  /\ pn.w[i].active /\ pn.w[i].finish
  /\ pn' = [pn EXCEPT !.w[i] = FreeWorker, !.pinning = @ + 1, !.pinWait = PostOnce(@)]

-----------------------------------------------------------------------------
(* A worker and its downloads.                                             *)
WorkerAt(i, pc) == pn.w[i].pc = pc
Leave(i, ret) == pn' = [pn EXCEPT !.w[i].pc = "drain", !.w[i].ret = ret]

_select_thread == Min({s \in DlSlots : ~pn.d[s].active})

(* One block; the pin flag is read again, a block in the cloud takes a     *)
(* download thread.                                                        *)
_check_fetch_block(i) ==
  LET f == pn.w[i].ino
      b == pn.w[i].b
      s == _select_thread
  IN IF ~pn.pin[f] THEN Leave(i, "EPERM")
     ELSE IF pn.blk[f][b] \in {"CLOUD", "CtoL"}
     THEN /\ pn.dl > 0
          /\ pn' = [pn EXCEPT !.dl = @ - 1, !.w[i].b = @ + 1,
                      !.d[s] = [FreeSlot EXCEPT !.ino = f, !.b = b, !.active = TRUE, !.pc = "begin"]]
     ELSE pn' = [pn EXCEPT !.w[i].b = @ + 1]

FetchNext(i) ==
  /\ WorkerAt(i, "fetch")
  /\ IF pn.w[i].b > pn.w[i].n THEN Leave(i, "ok")
     ELSE IF pn.w[i].ino \in pn.err THEN Leave(i, "EIO")
     ELSE IF pn.down THEN Leave(i, "ESHUTDOWN")
     ELSE IF PinCacheSize >= PinCacheLimit THEN Leave(i, "ENOSPC")
     ELSE _check_fetch_block(i)

(* Variant for testing PinningSound: the downloads are not waited for.     *)
FetchDrain_not(i) ==
  /\ WorkerAt(i, "drain")
  /\ pn' = [pn EXCEPT !.w[i].pc = IF pn.w[i].ret = "ok" THEN "finish" ELSE "failed"]

(* Until none of its downloads is active; then errors are looked for.      *)
FetchDrain(i) ==
  LET f == pn.w[i].ino
      ret == IF pn.down THEN "ESHUTDOWN"
             ELSE IF pn.w[i].ret = "ok" /\ PinCacheSize > PinCacheLimit THEN "ENOSPC"
             ELSE IF pn.w[i].ret = "ok" /\ f \in pn.err THEN "EIO" ELSE pn.w[i].ret
  IN /\ WorkerAt(i, "drain")
     /\ pn.down \/ \A s \in DlSlots : ~(pn.d[s].active /\ pn.d[s].ino = f)
     /\ pn' = [pn EXCEPT !.err = @ \ {f}, !.w[i].ret = ret,
                         !.w[i].pc = IF ret = "ok" THEN "finish" ELSE "failed"]
fetch_pinned_blocks(i) == FetchNext(i) \/ FetchDrain(i)

FinishWorker(r, i) == [r EXCEPT !.w[i].finish = TRUE, !.w[i].pc = "idle"]

(* super_block_finish_pinning: only an inode still being pinned.           *)
super_block_finish_pinning(r, i) ==
  LET f == r.w[i].ino
  IN IF r.st[f] # "ST_PINNING" THEN r
     ELSE [r EXCEPT !.st[f] = "ST_PIN", !.list = SelectSeq(@, LAMBDA x : x # f),
                    !.aba = IF r.w[i].stale THEN @ \cup {f} ELSE @]
pinning_worker(i) ==
  \/ fetch_pinned_blocks(i)
  \/ WorkerAt(i, "finish") /\ pn' = FinishWorker(super_block_finish_pinning(pn, i), i)
  \/ WorkerAt(i, "failed") /\ pn' = FinishWorker(pn, i)

(* A block still in the cloud is fetched; its status is set to BOTH unless *)
(* the file changed it meanwhile.                                          *)
DownloadPinned(s) ==
  LET f == pn.d[s].ino
      b == pn.d[s].b
      missing == pn.blk[f][b] \in {"CLOUD", "CtoL"}
  IN /\ pn.d[s].pc = "begin"
     /\ \/ pn' = [pn EXCEPT !.d[s].pc = "done", !.blk[f][b] = IF missing THEN "BOTH" ELSE @]
        \/ /\ pn.left.errors > 0 /\ missing
           /\ pn' = [pn EXCEPT !.d[s].pc = "done", !.d[s].err = TRUE, !.blk[f][b] = "CtoL",
                               !.left.errors = @ - 1]

(* The manager joins a download thread and notes its error.                *)
download_block_manager(s) ==
  /\ pn.d[s].pc = "done"
  /\ pn' = [pn EXCEPT !.d[s] = FreeSlot, !.dl = @ + 1,
                      !.err = IF pn.d[s].err THEN @ \cup {pn.d[s].ino} ELSE @]

-----------------------------------------------------------------------------
(* The surroundings: an unpinned synced block is paged out, a file grows,  *)
(* the paused upload goes on, the program stops.                           *)
PageOut(f) ==
  \E b \in DOMAIN pn.blk[f] :
    ~pn.pin[f] /\ pn.blk[f][b] = "BOTH" /\ pn' = [pn EXCEPT !.blk[f][b] = "CLOUD"]
ExtendFile(f) ==
  /\ pn.left.extends > 0 /\ ~pn.down
  /\ ~pn.pin[f] \/ pn.pinned + 1 <= PinnedLimit
  /\ pn' = [pn EXCEPT !.blk[f] = Append(@, "LDISK"), !.left.extends = @ - 1,
                      !.pinned = IF pn.pin[f] THEN @ + 1 ELSE @,
                      !.resized = @ \/ \E t \in ApiThreads : pn.th[t].pc # "idle" /\ pn.pin[f]]
ResumeSync == pn.paused /\ pn' = [pn EXCEPT !.paused = FALSE, !.pinWait = PostOnce(@)]
(* Modelled from the moment the requests at work are answered.             *)
destroy_pin_scheduler ==
  ~pn.down /\ (\A t \in ApiThreads : pn.th[t].pc = "idle") /\ pn' = [pn EXCEPT !.down = TRUE, !.pinWait = @ + 1]

PNInit == \E off \in BOOLEAN, left \in PinBounds :
  pn = [pin |-> [i \in PinInodes |-> FALSE], st |-> [i \in PinInodes |-> "ST_UNPIN"], list |-> <<>>,
        blk |-> [f \in PinFiles |-> [b \in 1..InitCloud[f] |-> "CLOUD"]], pinned |-> 0,
        th |-> [t \in ApiThreads |-> IdleThread],
        loop |-> init_pin_scheduler.loop, w |-> init_pin_scheduler.w, pinning |-> init_pin_scheduler.pinning,
        d |-> [s \in DlSlots |-> FreeSlot], err |-> {}, pinWait |-> 0, dl |-> MAX_PIN_DL_CONCURRENCY,
        paused |-> off, down |-> FALSE, left |-> left,
        raced |-> {}, resized |-> FALSE, aba |-> {}]

PNNext ==
  \/ \E t \in ApiThreads, l \in PinRequests : unpin_inode_handle(t, l) \/ \E r \in 0..1 : PinMessage(t, l, r)
  \/ \E t \in ApiThreads : pin_inode_handle(t) \/ FetchStat(t) \/ change_pin_flag(t)
                          \/ pin_inode(t) \/ UndoPin(t) \/ unpin_inode(t)
  \/ pinning_loop
  \/ \E i \in PinWorkers : pinning_worker(i) \/ pinning_collect(i)
  \/ \E s \in DlSlots : DownloadPinned(s) \/ download_block_manager(s)
  \/ \E f \in PinFiles : PageOut(f)
  \/ \E f \in GrowingFiles : ExtendFile(f)
  \/ ResumeSync \/ destroy_pin_scheduler

PNTypeOK ==
  /\ pn.pin \in [PinInodes -> BOOLEAN] /\ pn.st \in [PinInodes -> {"ST_UNPIN", "ST_PINNING", "ST_PIN"}]
  /\ pn.pinned \in 0..PinnedLimit /\ pn.pinWait \in 0..2
  /\ \A f \in PinFiles : ToSet(pn.blk[f]) \subseteq {"CLOUD", "CtoL", "BOTH", "LDISK"}

PinnedTotal == FoldSet(LAMBDA f, n : n + IF pn.pin[f] THEN Len(pn.blk[f]) ELSE 0, 0, PinFiles)

(* No inode is in two workers; places and download threads are never lost; *)
(* a file reported pinned has all its blocks on the disk, unless it was    *)
(* unpinned and pinned again during the download (file_present.c:1477,     *)
(* pin_scheduling.c:195) or two requests met; once the requests are over   *)
(* the flag and the pin status agree, unless two requests met between      *)
(* change_pin_flag and the super block (file_present.c:1328-1350), and     *)
(* pinned_size is the size of the pinned files, unless one also grew       *)
(* between the stat and the flag (1318); and the loop does not sleep over  *)
(* a file nobody works on.                                                 *)
PinningSound ==
  /\ \A i, j \in PinWorkers : i # j /\ pn.w[i].active => pn.w[i].ino # pn.w[j].ino
  /\ pn.pinning + total_active_pinning + (IF pn.loop.pc \in {"search", "run"} THEN 1 ELSE 0)
       = MAX_PINNING_FILE_CONCURRENCY
  /\ pn.dl + Cardinality({s \in DlSlots : pn.d[s].active}) = MAX_PIN_DL_CONCURRENCY
  /\ \A f \in PinFiles \ (pn.aba \cup pn.raced) : pn.pin[f] /\ pn.st[f] = "ST_PIN" =>
       ToSet(pn.blk[f]) \subseteq {"BOTH", "LDISK"}
  /\ (\A t \in ApiThreads : pn.th[t].pc = "idle") =>
       /\ \A f \in PinInodes \ pn.raced : pn.pin[f] <=> pn.st[f] # "ST_UNPIN"
       /\ pn.raced = {} /\ ~pn.resized => pn.pinned = PinnedTotal
  /\ PlAt("wait") /\ pn.pinWait = 0 /\ ~pn.paused /\ ~pn.down => Len(pn.list) <= total_active_pinning
=============================================================================
