------------------------------- MODULE Volumes -------------------------------
(***************************************************************************)
(* FS_manager.c and mount_manager.c: the database of volumes with its      *)
(* backup in the cloud, the binary tree of mounts, the threads that serve  *)
(* a mount, and the statistics of a volume, written by a reusable thread.  *)
(* A mount <<v, p>> is volume v at mount point p; the tree is ordered by   *)
(* name, then mount point.  op_lock and mount_lock are taken together and  *)
(* are one lock here.                                                      *)
(***************************************************************************)
EXTENDS Naturals, FiniteSets, Sequences

CONSTANTS Vols,       \* volumes, numbers in the order of their names
          Sites,      \* where a volume can be mounted: pairs <<volume, mount point>>
          MultiVols,  \* volumes of type ANDROID_MULTIEXTERNAL
          VolBounds   \* bounds, a set of records: stats (changes of statistics), dbs
                      \* (volumes created and deleted), mounts, uploads (of the backup)

ASSUME VolumesAssumption == MultiVols \subseteq Vols /\ Sites \subseteq Vols \X (Nat \ {0})

NULL == <<0, 0>>
Keys == Sites
Less(a, b) == a[1] < b[1] \/ (a[1] = b[1] /\ a[2] < b[2])

VARIABLE vm  \* db (volumes), num (num_FS), pend (backup file), up (copy being uploaded),
             \* cloud (backup in the cloud), root and node (the tree), cnt (num_mt_FS),
             \* thr (thread serving a mount), job (unmount in progress, holding the lock),
             \* all (for unmount_all), mem and disk (statistics), writing (writing_stat),
             \* ws (thread writing the statistics of a volume), left (of the bounds);
             \* histories: fresh (the database changed without a backup), missed (a write
             \* was not scheduled), late (volumes whose statistics changed after their
             \* thread was freed), ub (who used a freed thread, and of which volume)

NoCopy == [db |-> {}, valid |-> FALSE]
Copy(S) == [db |-> S, valid |-> TRUE]
Unlocked == vm.job = NULL /\ vm.ub = {}
Mounted == {k \in Keys : vm.thr[k] # "none"}

-----------------------------------------------------------------------------
(* _compare_node and the searches; a point of 0 stands for mp = NULL.      *)
_compare_node(k, n) == IF k[1] = n[1] /\ k[2] \in {0, n[2]} THEN "equal"
                       ELSE IF Less(k, n) THEN "less" ELSE "greater"
Child(k, n) == IF _compare_node(k, n) = "less" THEN vm.node[n].l ELSE vm.node[n].r
search_mount_node(k) ==
  LET find[n \in Keys \cup {NULL}] ==
        IF n = NULL \/ _compare_node(k, n) = "equal" THEN n ELSE find[Child(k, n)]
  IN find[vm.root]
search_mount(k) == LET n == search_mount_node(k)
                   IN IF n = NULL \/ vm.thr[n] = "unmounting" THEN NULL ELSE n
FS_is_mounted(v) == search_mount(<<v, 0>>) # NULL

(* Where a new node goes: the last node on the way down.                   *)
Leaf(k) ==
  LET down[n \in Keys] == IF Child(k, n) = NULL THEN n ELSE down[Child(k, n)]
  IN down[vm.root]
NewNode(p) == [l |-> NULL, r |-> NULL, p |-> p]
insert_mount_node(r, k) ==
  LET p == Leaf(k)
      linked == IF _compare_node(k, p) = "less" THEN [r EXCEPT !.node[p].l = k]
                ELSE [r EXCEPT !.node[p].r = k]
  IN [linked EXCEPT !.node[k] = NewNode(p)]
insert_mount(r, k) ==
  LET s == IF r.root = NULL THEN [r EXCEPT !.root = k, !.node[k] = NewNode(NULL)]
           ELSE insert_mount_node(r, k)
  IN [s EXCEPT !.cnt = @ + 1]

(* c takes the place of n below n's parent.                                *)
Splice(r, n, c) ==
  LET p == r.node[n].p
      s == IF c = NULL THEN r ELSE [r EXCEPT !.node[c].p = p]
  IN IF p = NULL THEN [s EXCEPT !.root = c]
     ELSE IF s.node[p].l = n THEN [s EXCEPT !.node[p].l = c] ELSE [s EXCEPT !.node[p].r = c]

(* The largest node below n.                                               *)
Largest(r, n) ==
  LET right[x \in Keys] == IF r.node[x].r = NULL THEN x ELSE right[r.node[x].r]
  IN right[n]

(* Variant for testing VolumesSound: the left child of the replacement is  *)
(* dropped.                                                                *)
replace_with_largest_child_dropped(r, n) == Splice(r, Largest(r, n), NULL)

replace_with_largest_child(r, n) == Splice(r, Largest(r, n), r.node[Largest(r, n)].l)

Adopt(r, c, p) == IF c = NULL THEN r ELSE [r EXCEPT !.node[c].p = p]
delete_mount_node(r, n) ==
  LET x == r.node[n] IN
  IF x.l = NULL \/ x.r = NULL THEN Splice(r, n, IF x.l = NULL THEN x.r ELSE x.l)
  ELSE LET c == Largest(r, x.l)
           s == replace_with_largest_child(r, x.l)
           y == s.node[n]
           t == [Adopt(Adopt(s, y.l, c), y.r, c) EXCEPT !.node[c].l = y.l, !.node[c].r = y.r]
       IN Splice(t, n, c)
delete_mount(r, k) ==
  IF search_mount_node(k) = NULL THEN r
  ELSE [delete_mount_node(r, k) EXCEPT !.cnt = @ - 1, !.thr[k] = "none",
                                       !.node[k] = NewNode(NULL), !.writing[k] = FALSE]

-----------------------------------------------------------------------------
prepare_FS_database_backup(r) == [r EXCEPT !.pend = Copy(r.db), !.fresh = TRUE]

add_filesystem(v) ==
  /\ Unlocked /\ v \notin vm.db /\ vm.left.dbs > 0
  /\ vm' = prepare_FS_database_backup([vm EXCEPT !.left.dbs = @ - 1, !.db = @ \cup {v}, !.num = @ + 1])

(* A volume with children stays (here: it may).  No backup of the database *)
(* follows a deletion.                                                     *)
delete_filesystem(v) ==
  /\ Unlocked /\ v \in vm.db /\ ~FS_is_mounted(v)
  /\ vm.left.dbs > 0
  /\ vm' = [vm EXCEPT !.left.dbs = @ - 1, !.db = @ \ {v}, !.num = @ - 1,
                      !.fresh = FALSE]

list_filesystem == Unlocked /\ vm' = [vm EXCEPT !.num = Cardinality(vm.db)]

(* The backup file is read, the copy uploaded, and the file removed,       *)
(* whatever it holds by then.                                              *)
ReadBackup == /\ vm.pend.valid /\ ~vm.up.valid /\ vm.ub = {} /\ vm.left.uploads > 0
              /\ vm' = [vm EXCEPT !.left.uploads = @ - 1, !.up = vm.pend]
backup_FS_database ==
  /\ vm.up.valid /\ vm.ub = {}
  /\ \/ vm' = [vm EXCEPT !.cloud = vm.up, !.up = NoCopy, !.pend = NoCopy,
                         !.fresh = @ /\ vm.up = vm.pend]
     \/ vm' = [vm EXCEPT !.up = NoCopy]

-----------------------------------------------------------------------------
read_FS_statistics(r, v) == [r EXCEPT !.mem[v] = r.disk[v]]
update_FS_statistics(r, v) == [r EXCEPT !.disk[v] = r.mem[v]]

do_mount_FS(r, k) == [r EXCEPT !.thr[k] = "loop"]

(* A further mount of a volume shares its statistics and its thread.  Both *)
(* callers pass a name and a mount point, so that the return with the      *)
(* locks held for a NULL is not met.                                       *)
mount_FS(k) ==
  LET v == k[1]
      shared == search_mount(<<v, 0>>) # NULL
      own == [read_FS_statistics(vm, v) EXCEPT !.ws[v] = [st |-> "idle", arg |-> NULL],
                                               !.late = @ \ {v}]
  IN /\ Unlocked /\ v \in vm.db /\ search_mount(k) = NULL
     /\ vm.cnt < vm.left.mounts /\ (shared => v \in MultiVols)
     /\ \/ vm' = do_mount_FS(insert_mount(IF shared THEN vm ELSE own, k), k)
        \/ vm' = IF shared THEN vm ELSE own

Freed(r, k, who) == [r EXCEPT !.ub = {<<k[1], who>>}]

(* do_unmount_FS up to the join: it frees the thread that writes the       *)
(* statistics and writes them, with the mount still served.  A write that  *)
(* was waiting is cancelled and leaves writing_stat set.                   *)
do_unmount_FS(r, k) ==
  IF r.ws[k[1]].st = "freed" THEN Freed(r, k, "unmount")
  ELSE update_FS_statistics([r EXCEPT !.ws[k[1]] = [st |-> "freed", arg |-> NULL]], k[1])

(* unmount_FS marks the mount, tells its thread to end and joins it with   *)
(* the locks held.                                                         *)
StartUnmount(r, k) ==
  do_unmount_FS([r EXCEPT !.job = k, !.thr[k] = IF @ = "loop" THEN "unmounting" ELSE @], k)
BeginUnmount(k) == Unlocked /\ search_mount(k) = k /\ vm' = StartUnmount(vm, k)

unmount_all ==
  /\ Unlocked /\ vm.root # NULL
  /\ vm' = StartUnmount([vm EXCEPT !.all = TRUE], vm.root)

(* A change of the statistics while the thread is freed.                   *)
LateChange(r, k, set, who) ==
  LET s == [r EXCEPT !.mem[k[1]] = @ + 1, !.left.stats = @ - 1, !.late = @ \cup {k[1]}]
  IN IF set THEN s ELSE Freed(s, k, who)

(* The last mount of a volume: lookup_destroy deletes the inodes that were *)
(* only kept open, if there are any (del), and takes them from the         *)
(* statistics.                                                             *)
_check_destroy_vol_shared_data(r, k, del) ==
  IF \E j \in Keys : j[1] = k[1] /\ r.thr[j] # "none" THEN r
  ELSE LET s == [r EXCEPT !.ws[k[1]] = [st |-> "none", arg |-> NULL]]
       IN IF del THEN LateChange(s, k, vm.writing[k], "destroy") ELSE s
Dels == IF vm.left.stats > 0 THEN BOOLEAN ELSE {FALSE}

(* The thread has ended; unmount_all goes on with the next mount.          *)
unmount_FS ==
  LET k == vm.job IN
  /\ k # NULL /\ vm.thr[k] = "unmounting" /\ vm.ub = {}
  /\ \E del \in Dels :
       LET r == _check_destroy_vol_shared_data(delete_mount(vm, k), k, del)
       IN vm' = IF r.all /\ r.root # NULL THEN StartUnmount(r, r.root)
                ELSE [r EXCEPT !.job = NULL, !.all = FALSE]

(* The thread of a mount that the kernel ended reads is_unmount, then      *)
(* calls unmount_event, which needs the locks.                             *)
mount_multi_thread(k) ==
  /\ vm.thr[k] = "loop" /\ vm.ub = {} /\ vm' = [vm EXCEPT !.thr[k] = "event"]
unmount_event(k) ==
  /\ Unlocked /\ vm.thr[k] = "event" /\ search_mount(k) = k
  /\ LET r == do_unmount_FS(vm, k) IN
     IF r.ub # {} THEN vm' = r
     ELSE \E del \in Dels : vm' = _check_destroy_vol_shared_data(delete_mount(r, k), k, del)

-----------------------------------------------------------------------------
(* PTHREAD_REUSE_run fails when the thread is still occupied.              *)
PTHREAD_REUSE_run(r, v, k) ==
  IF r.ws[v].st = "idle" THEN [r EXCEPT !.ws[v] = [st |-> "running", arg |-> k]]
  ELSE [r EXCEPT !.missed = TRUE]

(* By a request, also one that is still running when the mount is being    *)
(* unmounted: the session waits for it before it ends.                     *)
change_mount_stat(k) ==
  LET v == k[1]
      r == [vm EXCEPT !.mem[v] = @ + 1, !.left.stats = @ - 1]
  IN /\ vm.thr[k] \in {"loop", "unmounting"} /\ vm.ub = {} /\ vm.left.stats > 0
     /\ vm' = IF vm.ws[v].st = "freed" THEN LateChange(vm, k, vm.writing[k], vm.thr[k])
              ELSE IF vm.writing[k] THEN r
              ELSE PTHREAD_REUSE_run([r EXCEPT !.writing[k] = TRUE], v, k)

_write_volstat(v) ==
  LET w == vm.ws[v] IN
  /\ w.st = "running" /\ vm.ub = {}
  /\ vm' = [update_FS_statistics(vm, v) EXCEPT !.writing[w.arg] = FALSE, !.ws[v].st = "ending"]

(* The wrapper releases the thread after the routine has returned.         *)
PTHREAD_REUSE_wrapper(v) ==
  /\ vm.ws[v].st = "ending" /\ vm.ub = {}
  /\ vm' = [vm EXCEPT !.ws[v] = [st |-> "idle", arg |-> NULL]]

-----------------------------------------------------------------------------
init_fs_manager == [db |-> {}, num |-> 0, pend |-> Copy({}), up |-> NoCopy, cloud |-> NoCopy]
init_mount_mgr == [root |-> NULL, cnt |-> 0]
VMInit ==
  \E left \in VolBounds :
  vm = [db |-> init_fs_manager.db, num |-> init_fs_manager.num, pend |-> init_fs_manager.pend,
        up |-> init_fs_manager.up, cloud |-> init_fs_manager.cloud, root |-> init_mount_mgr.root,
        cnt |-> init_mount_mgr.cnt, node |-> [k \in Keys |-> NewNode(NULL)],
        thr |-> [k \in Keys |-> "none"], job |-> NULL, all |-> FALSE, mem |-> [v \in Vols |-> 0],
        disk |-> [v \in Vols |-> 0], writing |-> [k \in Keys |-> FALSE],
        ws |-> [v \in Vols |-> [st |-> "none", arg |-> NULL]], left |-> left,
        fresh |-> TRUE, missed |-> FALSE, late |-> {}, ub |-> {}]

VMNext ==
  \/ \E v \in Vols : \/ add_filesystem(v) \/ delete_filesystem(v)
                     \/ _write_volstat(v) \/ PTHREAD_REUSE_wrapper(v)
  \/ \E k \in Keys : \/ mount_FS(k) \/ BeginUnmount(k) \/ unmount_event(k)
                     \/ mount_multi_thread(k) \/ change_mount_stat(k)
  \/ unmount_FS \/ unmount_all \/ list_filesystem \/ ReadBackup \/ backup_FS_database

VMTypeOK ==
  /\ vm.db \subseteq Vols /\ vm.num \in Nat /\ vm.cnt \in Nat
  /\ vm.root \in Keys \cup {NULL} /\ vm.job \in Keys \cup {NULL}
  /\ vm.thr \in [Keys -> {"none", "loop", "event", "unmounting"}]
  /\ vm.mem \in [Vols -> Nat] /\ vm.disk \in [Vols -> Nat]

(* The tree of mounts after any sequence of insertions and deletions: the  *)
(* search finds every mount, every node's parent has it as a child, and    *)
(* only volumes of the database are mounted (delete_filesystem,            *)
(* insert_mount_node, delete_mount_node).                                  *)
MountsFound ==
  /\ \A k \in Mounted :
       /\ search_mount_node(k) = k /\ k[1] \in vm.db
       /\ LET p == vm.node[k].p
          IN IF p = NULL THEN vm.root = k ELSE k \in {vm.node[p].l, vm.node[p].r}
  /\ vm.cnt = Cardinality(Mounted) /\ vm.num = Cardinality(vm.db)

(* Changed statistics are on disk or on their way: a write is running. It  *)
(* fails only where the thread was found occupied by the write before      *)
(* (missed), or where the statistics changed after an unmount of the       *)
(* volume had freed the thread and written them (late: do_unmount_FS joins *)
(* the mount's thread last, lookup_destroy deletes inodes after that, and  *)
(* other mounts of the volume go on).                                      *)
StatSaved ==
  \A v \in Vols : vm.mem[v] # vm.disk[v] =>
    vm.ws[v].st = "running" \/ vm.missed \/ v \in vm.late

(* The cloud has the database that the last creation of a volume left, or  *)
(* a backup file is waiting, unless the file was replaced while the copy   *)
(* was being uploaded or a volume was deleted since (fresh).               *)
BackupCurrent == vm.fresh /\ ~vm.pend.valid => vm.cloud = Copy(vm.db)

(* Nobody is left waiting but an unmount that meets the end of the mount's *)
(* own thread: unmount_FS joins a thread that waits for its locks.  And    *)
(* the freed thread is used by a mount that stays, or by a second unmount, *)
(* only on a volume with several mounts; on any volume by a request that   *)
(* outlives the beginning of its unmount, and by the deletions at its end. *)
StuckCauses ==
  /\ \A u \in vm.ub : u[2] \in {"loop", "unmount"} => u[1] \in MultiVols
  /\ vm.job # NULL => vm.thr[vm.job] \in {"unmounting", "event"}

(* mount_FS, unmount_FS, change_mount_stat, backup_FS_database: mounts,    *)
(* statistics and backup are right until something freed is used, and that *)
(* and every unmount that waits for ever have known causes.                *)
VolumesSound == (vm.ub = {} => MountsFound /\ StatSaved /\ BackupCurrent) /\ StuckCauses
=============================================================================
