----------------------------- MODULE Namespace -----------------------------
(***************************************************************************)
(* The FUSE handlers that create, link, look up, rename, remove and forget *)
(* inodes (fuseop.c), with the metadata updates of file_present.c and      *)
(* metaops.c, the lookup count table (lookup_count.c), the parents of an   *)
(* inode (parent_lookup.c, as ParentList) and the per-directory statistics *)
(* (dir_statistics.c).                                                     *)
(*                                                                         *)
(* A handler is cut where it leaves the metadata locks: threads interleave *)
(* and a crash may come between two steps.  Metadata is written through    *)
(* (META_CACHE_FLUSH_NOW), so "disk" survives a crash; the lookup table    *)
(* and everything the kernel holds do not.  The kernel is external: it     *)
(* serialises handlers by the directory mutexes ("held"), keeps nlookup    *)
(* per inode and sends FORGET for inodes it evicts.                        *)
(*                                                                         *)
(* Left out: permissions, names (case folding, aliases), sizes, times and  *)
(* quotas, and the I/O error returns.                                      *)
(***************************************************************************)
EXTENDS ParentList, FiniteSets, FiniteSetsExt, TLC

CONSTANTS
  MaxIno,     \* inode numbers are 1..MaxIno, 1 is the root of the volume
  Names,      \* names within a directory
  Threads,    \* FUSE worker threads
  MaxLink,    \* MAX_HARD_LINK
  MaxOps,     \* bound: handlers started (forget and lookup not counted),
              \* unmounts and crashes together
  MaxCount,   \* bound: lookup count of an inode
  MaxCloud,   \* bound: inodes with metadata on the backend at a time
  MaxCrash,   \* bound: crashes
  MaxUmount   \* bound: unmounts

ASSUME NamespaceAssumption ==
  /\ MaxIno \in Nat \ {0, 1, 2}
  /\ IsFiniteSet(Names) /\ Names # {}
  /\ {MaxLink, MaxOps, MaxCount, MaxCloud, MaxCrash, MaxUmount} \subseteq Nat

Ino == 1..MaxIno
Ino0 == 0..MaxIno
Kinds == {"file", "dir", "lnk"}

VARIABLES
  disk,    \* directories, metadata, super block status, markers, statistics
  lut,     \* lookup_table: count and to_delete of every node
  kernel,  \* external: nlookup per inode, FORGETs on their way
  th,      \* the handler each thread is in
  phase,   \* "up", "umount" or "boot"
  left     \* what remains of MaxOps, MaxCrash, MaxUmount; was a number reused
           \* under its old marker

vars == <<disk, lut, kernel, th, phase, left>>

-----------------------------------------------------------------------------
(***************************************************************************)
(* Directories.                                                            *)
(***************************************************************************)
Name(D, i) == {e \in Ino \X Names : D.ent[e[1]][e[2]] = i}

(* The inode a name stands for, 0 if there is none.                        *)
lookup_dir(D, p, n) == D.ent[p][n]

(* Variant for testing TypeOK: total_children not counted up.              *)
dir_add_entry_uncounted(D, p, n, i) ==
  [D EXCEPT !.ent[p][n] = i,
            !.nlink[p] = IF D.kind[i] = "dir" THEN @ + 1 ELSE @]

(* Insertion of a B-tree entry, total_children and the parent's nlink.     *)
dir_add_entry(D, p, n, i) ==
  [D EXCEPT !.ent[p][n] = i, !.kids[p] = @ + 1,
            !.nlink[p] = IF D.kind[i] = "dir" THEN @ + 1 ELSE @]

dir_remove_entry(D, p, n, i) ==
  [D EXCEPT !.ent[p][n] = 0, !.kids[p] = @ - 1,
            !.nlink[p] = IF D.kind[i] = "dir" THEN @ - 1 ELSE @]

(* d_ino and d_type of an existing entry; the counts stay.                 *)
change_dir_entry_inode(D, p, n, i) == [D EXCEPT !.ent[p][n] = i]

(* ".." of a moved directory.                                              *)
change_parent_inode(D, i, q) == [D EXCEPT !.up[i] = q]

(* The directories on the path from d to the root, by primary parents.     *)
Path(D, d) ==
  LET f[k \in 0..MaxIno] ==
        IF k = 0 THEN {d}
        ELSE f[k - 1] \cup ({D.par[x].prim : x \in f[k - 1]} \ {0})
  IN f[MaxIno]

(* Variant for testing RootStatExact: the ancestors are not updated.       *)
update_dirstat_parent_only(D, d, delta) == [D EXCEPT !.dstat[d] = @ + delta]

update_dirstat_parent(D, d, delta) ==
  LET P == Path(D, d) IN
  [D EXCEPT !.dstat = [x \in Ino |-> IF x \in P THEN @[x] + delta ELSE @[x]]]

reset_dirstat_lookup(D, d) == [D EXCEPT !.dstat[d] = 0]

lookup_add_parent(D, i, p) == [D EXCEPT !.par[i] = AddParent(@, p)]

(* Variant for testing ParentsExact: only the first parent is looked at.   *)
lookup_delete_parent_first(D, i, p) == [D EXCEPT !.par[i].prim = 0]

lookup_delete_parent(D, i, p) == [D EXCEPT !.par[i] = DeleteParent(@, p)]
lookup_replace_parent(D, i, p, q) == [D EXCEPT !.par[i] = ReplaceParent(@, p, q)]

disk_checkdelete(D, i) == i \in D.mark
disk_markdelete(D, i) == [D EXCEPT !.mark = @ \cup {i}]
disk_cleardelete(D, i) == [D EXCEPT !.mark = @ \ {i}]

-----------------------------------------------------------------------------
(***************************************************************************)
(* The lookup table.  A node exists while its count is positive.           *)
(***************************************************************************)
lookup_increase(T, i) == [T EXCEPT ![i].cnt = @ + 1]

lookup_decrease(T, i, amount) ==
  IF T[i].cnt > amount THEN [T EXCEPT ![i].cnt = @ - amount]
  ELSE [T EXCEPT ![i] = [cnt |-> 0, del |-> FALSE]]

(* Variant for testing NoLostDelete: a node looked up twice is not marked. *)
lookup_markdelete_single(T, i) ==
  IF T[i].cnt = 1 THEN [T EXCEPT ![i].del = TRUE] ELSE T

lookup_markdelete(T, i) ==
  IF T[i].cnt = 0 THEN T ELSE [T EXCEPT ![i].del = TRUE]

-----------------------------------------------------------------------------
(***************************************************************************)
(* Threads.  i is the inode the handler is about, o the inode whose name   *)
(* it takes away, vp the directory that name was in.                       *)
(***************************************************************************)
Idle == [pc |-> "idle", op |-> "", p |-> 0, n |-> 0, q |-> 0, i |-> 0,
         o |-> 0, vp |-> 0, s |-> 0, held |-> {}, todo |-> {}]

Goto(t, pc) == th' = [th EXCEPT ![t].pc = pc]
At(t, pc) == th[t].pc = pc
Done(t) == th' = [th EXCEPT ![t] = Idle]

Locked(d) == \E t \in Threads : d \in th[t].held
Refers(i) == kernel.kn[i] > 0 \/ i = 1
Ready(t, dirs) ==
  /\ phase = "up" /\ At(t, "idle") /\ left.ops > 0
  /\ \A d \in dirs : ~Locked(d) /\ Refers(d)
Usable(p) == disk.kind[p] = "dir" /\ (p = 1 \/ Name(disk, p) # {})
Spend == left' = [left EXCEPT !.ops = @ - 1]
Reply(i) == kernel' = [kernel EXCEPT !.kn[i] = @ + 1]

(* The handlers that make an inode, up to super_block_new_inode.  A number *)
(* may come back before its old marker is cleared ("stale").               *)
NewInode(t, p, n, k) ==
  /\ Ready(t, {p}) /\ Usable(p) /\ lookup_dir(disk, p, n) = 0
  /\ \E i \in Ino :
       /\ disk.sb[i] = "free"
       /\ disk' = [disk EXCEPT !.sb[i] = "live", !.kind[i] = k]
       /\ th' = [th EXCEPT ![t] = [Idle EXCEPT !.pc = "entry", !.op = "new",
                  !.p = p, !.n = n, !.i = i, !.held = {p}]]
       /\ left' = [left EXCEPT !.ops = @ - 1, !.stale = @ \/ disk_checkdelete(disk, i)]
  /\ UNCHANGED <<lut, kernel, phase>>

hfuse_ll_mknod(t, p, n) == NewInode(t, p, n, "file")
hfuse_ll_create(t, p, n) == NewInode(t, p, n, "file")
hfuse_ll_mkdir(t, p, n) == NewInode(t, p, n, "dir")
symlink_internal(t, p, n) == NewInode(t, p, n, "lnk")

(* First half of mknod/mkdir/symlink_update_meta: parent lookup and entry. *)
AddEntry(t) ==
  /\ At(t, "entry") /\ Goto(t, "self")
  /\ LET h == th[t] IN
     disk' = dir_add_entry(lookup_add_parent(disk, h.i, h.p), h.p, h.n, h.i)
  /\ UNCHANGED <<lut, kernel, phase, left>>

(* Second half: the metadata of the new inode itself.                      *)
mknod_update_meta(D, i) == [D EXCEPT !.loc[i] = "meta", !.nlink[i] = 1]
symlink_update_meta(D, i) == [D EXCEPT !.loc[i] = "meta", !.nlink[i] = 1]
mkdir_update_meta(D, i, p) ==
  [D EXCEPT !.loc[i] = "meta", !.nlink[i] = 2, !.kids[i] = 0, !.up[i] = p]

SelfMeta(t) ==
  /\ At(t, "self") /\ Goto(t, "stat")
  /\ LET h == th[t]
         k == disk.kind[h.i]
     IN disk' = CASE k = "file" -> mknod_update_meta(disk, h.i)
                  [] k = "lnk" -> symlink_update_meta(disk, h.i)
                  [] k = "dir" -> mkdir_update_meta(disk, h.i, h.p)
  /\ UNCHANGED <<lut, kernel, phase, left>>

(* Statistics, lookup_increase and the reply.                              *)
NewDone(t) ==
  /\ At(t, "stat") /\ Done(t)
  /\ LET h == th[t] IN
     /\ disk' = CASE disk.kind[h.i] = "file" -> update_dirstat_parent(disk, h.p, 1)
                  [] disk.kind[h.i] = "dir" -> reset_dirstat_lookup(disk, h.i)
                  [] OTHER -> disk
     /\ lut' = lookup_increase(lut, h.i)
     /\ Reply(h.i)
  /\ UNCHANGED <<phase, left>>

hfuse_ll_lookup(t, p, n) ==
  LET i == lookup_dir(disk, p, n) IN
  /\ phase = "up" /\ At(t, "idle") /\ ~Locked(p) /\ Refers(p)
  /\ i # 0 /\ kernel.kn[i] = 0 /\ lut[i].cnt < MaxCount
  /\ lut' = lookup_increase(lut, i)
  /\ Reply(i)
  /\ UNCHANGED <<disk, th, phase, left>>

(* Variant for testing LinkCountExact: nlink is not written.               *)
link_update_meta_nonlink(D, i, p, n) ==
  dir_add_entry(lookup_add_parent(D, i, p), p, n, i)

(* nlink, parent lookup and entry under both metadata locks.  The kernel   *)
(* does not link an inode without a name.                                  *)
link_update_meta(D, i, p, n) ==
  dir_add_entry([lookup_add_parent(D, i, p) EXCEPT !.nlink[i] = @ + 1], p, n, i)

hfuse_ll_link(t, i, p, n) ==
  /\ Ready(t, {p, i}) /\ Usable(p) /\ lookup_dir(disk, p, n) = 0
  /\ disk.kind[i] = "file" /\ ~lut[i].del
  /\ disk.nlink[i] < MaxLink /\ lut[i].cnt < MaxCount
  /\ disk' = link_update_meta(disk, i, p, n)
  /\ th' = [th EXCEPT ![t] = [Idle EXCEPT !.pc = "stat", !.op = "link",
             !.p = p, !.i = i, !.held = {p, i}]]
  /\ Spend /\ UNCHANGED <<lut, kernel, phase>>

(* The removal of the entry; the rest of unlink_update_meta follows.       *)
unlink_update_meta(D, p, n) == dir_remove_entry(D, p, n, lookup_dir(D, p, n))

hfuse_ll_unlink(t, p, n) ==
  LET i == lookup_dir(disk, p, n) IN
  /\ i # 0 /\ Ready(t, {p, i}) /\ disk.kind[i] # "dir"
  /\ disk' = unlink_update_meta(disk, p, n)
  /\ th' = [th EXCEPT ![t] = [Idle EXCEPT !.pc = "nlink", !.op = "unlink",
             !.o = i, !.vp = p, !.held = {p, i}]]
  /\ Spend /\ UNCHANGED <<lut, kernel, phase>>

(* ENOTEMPTY while there are children.                                     *)
rmdir_update_meta(D, p, n) == dir_remove_entry(D, p, n, lookup_dir(D, p, n))

hfuse_ll_rmdir(t, p, n) ==
  LET i == lookup_dir(disk, p, n) IN
  /\ i # 0 /\ Ready(t, {p, i}) /\ disk.kind[i] = "dir" /\ disk.kids[i] = 0
  /\ disk' = rmdir_update_meta(disk, p, n)
  /\ th' = [th EXCEPT ![t] = [Idle EXCEPT !.pc = "dmark", !.op = "rmdir",
             !.o = i, !.vp = p, !.held = {p, i}]]
  /\ Spend /\ UNCHANGED <<lut, kernel, phase>>

(* Variant for testing NamedLives: an inode with two names is marked.      *)
decrease_nlink_inode_file_early(t) ==
  /\ At(t, "nlink")
  /\ disk' = disk_markdelete(disk, th[t].o) /\ Goto(t, "lmark")
  /\ UNCHANGED <<lut, kernel, phase, left>>

(* The last name only marks the inode: its link count stays 1.             *)
decrease_nlink_inode_file(t) ==
  /\ At(t, "nlink")
  /\ LET o == th[t].o IN
     IF disk.nlink[o] <= 1
     THEN disk' = disk_markdelete(disk, o) /\ Goto(t, "lmark")
     ELSE disk' = [disk EXCEPT !.nlink[o] = @ - 1] /\ Goto(t, "parent")
  /\ UNCHANGED <<lut, kernel, phase, left>>

(* mark_inode_delete of a directory: the marker on disk ...                *)
MarkDisk(t) ==
  /\ At(t, "dmark") /\ Goto(t, "lmark")
  /\ disk' = disk_markdelete(disk, th[t].o)
  /\ UNCHANGED <<lut, kernel, phase, left>>

(* ... and to_delete in the lookup table.                                  *)
MarkLookup(t) ==
  /\ At(t, "lmark") /\ Goto(t, "parent")
  /\ lut' = lookup_markdelete(lut, th[t].o)
  /\ UNCHANGED <<disk, kernel, phase, left>>

(* The parent and the statistics of the removed name.                      *)
DropParent(t) ==
  /\ At(t, "parent")
  /\ LET h == th[t]
         D == lookup_delete_parent(disk, h.o, h.vp)
     IN disk' = CASE disk.kind[h.o] = "file" -> update_dirstat_parent(D, h.vp, -1)
                  [] disk.kind[h.o] = "dir" -> reset_dirstat_lookup(D, h.o)
                  [] OTHER -> D
  /\ IF th[t].op = "rename" THEN Goto(t, "rmold") ELSE Done(t)
  /\ UNCHANGED <<lut, kernel, phase, left>>

-----------------------------------------------------------------------------
(***************************************************************************)
(* rename.  The kernel allows one cross-directory rename at a time and     *)
(* none of a directory into itself.                                        *)
(***************************************************************************)
(* The checks of both names under the locks of both parents.               *)
MayReplace(D, i, o) ==
  /\ i # o
  /\ o # 0 => /\ D.kind[i] = "dir" <=> D.kind[o] = "dir"
              /\ D.kind[o] = "dir" => D.kids[o] = 0

(* The new name: the target's entry changes hands, or a new entry.         *)
PlaceName(D, q, m, i) ==
  IF lookup_dir(D, q, m) # 0 THEN change_dir_entry_inode(D, q, m, i)
  ELSE dir_add_entry(D, q, m, i)

hfuse_ll_rename(t, p, n, q, m) ==
  LET i == lookup_dir(disk, p, n)
      o == lookup_dir(disk, q, m)
  IN
  /\ i # 0 /\ Ready(t, {p, q, i} \cup ({o} \ {0}))
  /\ Usable(p) /\ Usable(q) /\ i \notin Path(disk, q) /\ o # p
  /\ p # q => \A u \in Threads : th[u].op = "rename" => th[u].p = th[u].q
  /\ MayReplace(disk, i, o)
  /\ disk' = PlaceName(disk, q, m, i)
  /\ th' = [th EXCEPT ![t] = [Idle EXCEPT !.op = "rename",
             !.pc = IF o = 0 THEN "rmold"
                    ELSE IF disk.kind[o] = "dir" THEN "dmark" ELSE "nlink",
             !.p = p, !.n = n, !.q = q, !.i = i, !.o = o, !.vp = q,
             !.held = ({p, q, o} \cup (IF disk.kind[i] = "dir" THEN {} ELSE {i})) \ {0}]]
  /\ Spend /\ UNCHANGED <<lut, kernel, phase>>

RemoveOldName(t) ==
  /\ At(t, "rmold")
  /\ LET h == th[t]
         D == dir_remove_entry(disk, h.p, h.n, h.i)
         moved == h.p # h.q
     IN /\ disk' = IF moved /\ disk.kind[h.i] = "dir"
                   THEN change_parent_inode(D, h.i, h.q) ELSE D
        /\ IF moved THEN Goto(t, "rstat") ELSE Done(t)
  /\ UNCHANGED <<lut, kernel, phase, left>>

(* read_dirstat_lookup or check_file_storage_location, before the lock.    *)
ReadMovedStat(t) ==
  /\ At(t, "rstat")
  /\ LET i == th[t].i IN
     th' = [th EXCEPT ![t].pc = "rpar",
              ![t].s = CASE disk.kind[i] = "dir" -> disk.dstat[i]
                         [] disk.kind[i] = "file" -> 1
                         [] OTHER -> 0]
  /\ UNCHANGED <<disk, lut, kernel, phase, left>>

MoveParent(t) ==
  /\ At(t, "rpar") /\ Done(t)
  /\ LET h == th[t]
         D == lookup_replace_parent(disk, h.i, h.p, h.q)
     IN disk' = update_dirstat_parent(update_dirstat_parent(D, h.q, h.s), h.p, -h.s)
  /\ UNCHANGED <<lut, kernel, phase, left>>

-----------------------------------------------------------------------------
(***************************************************************************)
(* Deletion: actual_delete_inode, reached from forget, from lookup_destroy *)
(* at unmount and from startup_finish_delete.                              *)
(***************************************************************************)
(* External: the kernel evicts an inode none of its operations uses.       *)
Evict(i) ==
  /\ phase = "up" /\ i # 1 /\ kernel.kn[i] > 0
  /\ \A t \in Threads : i \notin {th[t].i, th[t].o, th[t].p, th[t].q}
  /\ \A n \in Names : disk.ent[i][n] # 0 => kernel.kn[disk.ent[i][n]] = 0
  /\ kernel' = [kernel EXCEPT !.kn[i] = 0, !.fp[i] = @ + kernel.kn[i]]
  /\ UNCHANGED <<disk, lut, th, phase, left>>

hfuse_ll_forget(t, i) ==
  /\ phase = "up" /\ At(t, "idle") /\ kernel.fp[i] > 0
  /\ kernel' = [kernel EXCEPT !.fp[i] = 0]
  /\ lut' = lookup_decrease(lut, i, kernel.fp[i])
  /\ IF lut[i].del /\ lut'[i].cnt = 0
     THEN th' = [th EXCEPT ![t] = [Idle EXCEPT !.pc = "meta", !.op = "forget", !.i = i]]
     ELSE UNCHANGED th
  /\ UNCHANGED <<disk, phase, left>>

After(t) == IF th[t].op = "forget" THEN Done(t) ELSE Goto(t, "next")

(* The metadata file moves to "todelete" ...                               *)
delete_inode_meta(D, i) == [D EXCEPT !.loc[i] = "todel"]
(* ... or is unlinked, for what was never uploaded.                        *)
directly_delete_inode_meta(D, i) == [D EXCEPT !.loc[i] = "none"]
(* upload_seq of the metadata is positive.                                 *)
check_meta_on_cloud(D, i) == i \in D.cloud

(* The first step.  A second attempt finds the metadata in "todelete" or   *)
(* not at all; then only the marker goes, and startup stops for a file.    *)
DeleteMeta(t) ==
  /\ At(t, "meta")
  /\ LET i == th[t].i
         file == disk.kind[i] = "file"
     IN CASE disk.loc[i] = "meta" ->
               /\ disk' = IF file \/ check_meta_on_cloud(disk, i)
                          THEN delete_inode_meta(disk, i)
                          ELSE directly_delete_inode_meta(disk, i)
               /\ Goto(t, "sbdel")
          [] disk.loc[i] = "todel" /\ file ->
               Goto(t, "file") /\ UNCHANGED disk
          [] OTHER ->
               /\ disk' = disk_cleardelete(disk, i)
               /\ IF file /\ th[t].op = "startup"
                  THEN th' = [th EXCEPT ![t].pc = "next", ![t].todo = {}]
                  ELSE After(t)
  /\ UNCHANGED <<lut, kernel, phase, left>>

(* super_block_to_delete.  A directory or symlink on the cloud is queued   *)
(* for deletion at once, a file later.                                     *)
ToDelete(t) ==
  /\ At(t, "sbdel")
  /\ LET i == th[t].i
         queue == disk.kind[i] # "file" /\ check_meta_on_cloud(disk, i)
     IN /\ disk' = [disk EXCEPT !.sb[i] = IF queue THEN "queued" ELSE "todel"]
        /\ Goto(t, IF queue THEN "clear"
                   ELSE IF disk.kind[i] = "file" THEN "file" ELSE "free")
  /\ UNCHANGED <<lut, kernel, phase, left>>

(* A file: queued if its metadata was ever uploaded, else nothing is left. *)
DeleteFile(t) ==
  /\ At(t, "file")
  /\ LET i == th[t].i IN
     IF check_meta_on_cloud(disk, i)
     THEN disk' = [disk EXCEPT !.sb[i] = "queued"] /\ Goto(t, "clear")
     ELSE disk' = [disk EXCEPT !.loc[i] = "none"] /\ Goto(t, "free")
  /\ UNCHANGED <<lut, kernel, phase, left>>

(* super_block_delete and super_block_reclaim: the number can be reused.   *)
Reclaimed(D, i) ==
  [D EXCEPT !.sb[i] = "free", !.kind[i] = "none", !.loc[i] = "none",
            !.cloud = @ \ {i}, !.nlink[i] = 0]

FreeNumber(t) ==
  /\ At(t, "free") /\ Goto(t, "clear")
  /\ disk' = Reclaimed(disk, th[t].i)
  /\ UNCHANGED <<lut, kernel, phase, left>>

ClearMark(t) ==
  /\ At(t, "clear") /\ After(t)
  /\ disk' = disk_cleardelete(disk, th[t].i)
  /\ UNCHANGED <<lut, kernel, phase, left>>

(* The delete loop has removed the inode from the backend.                 *)
dsync_finished(i) ==
  /\ disk.sb[i] = "queued"
  /\ disk' = Reclaimed(disk, i)
  /\ UNCHANGED <<lut, kernel, th, phase, left>>

(* The uploader has stored the metadata: CLOUD_RELATED_DATA.upload_seq.    *)
uploaded(i) ==
  /\ disk.sb[i] = "live" /\ disk.loc[i] = "meta" /\ i \notin disk.cloud /\ i # 1
  /\ Cardinality(disk.cloud) < MaxCloud
  /\ disk' = [disk EXCEPT !.cloud = @ \cup {i}]
  /\ UNCHANGED <<lut, kernel, th, phase, left>>

-----------------------------------------------------------------------------
(***************************************************************************)
(* Unmount, crash and start-up.                                            *)
(***************************************************************************)
NoKernel == [kn |-> [i \in Ino |-> 0], fp |-> [i \in Ino |-> 0]]
NoNodes == [i \in Ino |-> [cnt |-> 0, del |-> FALSE]]

(* lookup_destroy walks the table of the volume.                           *)
lookup_destroy(t) ==
  /\ phase = "up" /\ left.umount > 0 /\ left.ops > 0 /\ \A u \in Threads : At(u, "idle")
  /\ phase' = "umount" /\ left' = [left EXCEPT !.ops = @ - 1, !.umount = @ - 1]
  /\ kernel' = NoKernel
  /\ th' = [th EXCEPT ![t] = [Idle EXCEPT !.pc = "next", !.op = "umount",
             !.todo = {i \in Ino : lut[i].cnt > 0}]]
  /\ UNCHANGED <<disk, lut>>

Crash ==
  /\ left.crash > 0 /\ left.ops > 0 /\ phase # "boot"
  /\ left' = [left EXCEPT !.ops = @ - 1, !.crash = @ - 1]
  /\ phase' = "boot"
  /\ lut' = NoNodes /\ kernel' = NoKernel
  /\ th' = [t \in Threads |-> Idle]
  /\ UNCHANGED disk

startup_finish_delete(t) ==
  /\ phase = "boot" /\ \A u \in Threads : At(u, "idle")
  /\ th' = [th EXCEPT ![t] = [Idle EXCEPT !.pc = "next", !.op = "startup",
                                          !.todo = disk.mark]]
  /\ UNCHANGED <<disk, lut, kernel, phase, left>>

(* One inode of either loop.  A marker whose number is free is skipped.    *)
NextMarked(t) ==
  /\ At(t, "next")
  /\ \E i \in th[t].todo :
       LET go == IF th[t].op = "umount" THEN disk_checkdelete(disk, i)
                 ELSE disk.kind[i] # "none"
       IN th' = [th EXCEPT ![t].todo = @ \ {i}, ![t].i = i,
                           ![t].pc = IF go THEN "meta" ELSE "next"]
  /\ UNCHANGED <<disk, lut, kernel, phase, left>>

LoopDone(t) ==
  /\ At(t, "next") /\ th[t].todo = {}
  /\ Done(t) /\ phase' = "up" /\ lut' = NoNodes
  /\ UNCHANGED <<disk, kernel, left>>

-----------------------------------------------------------------------------
(* A volume with a directory and a file in it, as after mkdir and mknod.   *)
Init ==
  LET sub == CHOOSE n \in Names : TRUE IN
  /\ disk =
       [ent |-> [d \in Ino |-> [n \in Names |-> IF d <= 2 /\ n = sub THEN d + 1 ELSE 0]],
        kind |-> [i \in Ino |-> CASE i <= 2 -> "dir" [] i = 3 -> "file" [] OTHER -> "none"],
        loc |-> [i \in Ino |-> IF i <= 3 THEN "meta" ELSE "none"],
        sb |-> [i \in Ino |-> IF i <= 3 THEN "live" ELSE "free"],
        nlink |-> [i \in Ino |-> CASE i = 1 -> 3 [] i = 2 -> 2 [] i = 3 -> 1 [] OTHER -> 0],
        kids |-> [i \in Ino |-> IF i <= 2 THEN 1 ELSE 0],
        up |-> [i \in Ino |-> IF i = 2 THEN 1 ELSE 0],
        par |-> [i \in Ino |-> IF i \in {2, 3} THEN AddParent(NoParents(Ino), i - 1)
                                               ELSE NoParents(Ino)],
        dstat |-> [i \in Ino |-> IF i <= 2 THEN 1 ELSE 0],
        mark |-> {}, cloud |-> {}]
  /\ lut = [NoNodes EXCEPT ![2].cnt = 1, ![3].cnt = 1]
  /\ kernel = [NoKernel EXCEPT !.kn[2] = 1, !.kn[3] = 1]
  /\ th = [t \in Threads |-> Idle]
  /\ phase = "up"
  /\ left = [ops |-> MaxOps, stale |-> FALSE, crash |-> MaxCrash, umount |-> MaxUmount]

Handler(t) ==
  \/ AddEntry(t) \/ SelfMeta(t) \/ NewDone(t)
  \/ decrease_nlink_inode_file(t) \/ MarkDisk(t) \/ MarkLookup(t) \/ DropParent(t)
  \/ RemoveOldName(t) \/ ReadMovedStat(t) \/ MoveParent(t)
  \/ DeleteMeta(t) \/ ToDelete(t) \/ DeleteFile(t) \/ FreeNumber(t) \/ ClearMark(t)
  \/ NextMarked(t) \/ LoopDone(t)

Request(t) ==
  \/ \E p \in Ino, n \in Names : hfuse_ll_mknod(t, p, n) \/ hfuse_ll_create(t, p, n)
  \/ \E p \in Ino, n \in Names : hfuse_ll_mkdir(t, p, n)
  \/ \E p \in Ino, n \in Names : symlink_internal(t, p, n)
  \/ \E p \in Ino, n \in Names : hfuse_ll_lookup(t, p, n)
  \/ \E p \in Ino, n \in Names : hfuse_ll_unlink(t, p, n)
  \/ \E p \in Ino, n \in Names : hfuse_ll_rmdir(t, p, n)
  \/ \E p, q \in Ino, n, m \in Names : hfuse_ll_rename(t, p, n, q, m)
  \/ \E i, p \in Ino, n \in Names : hfuse_ll_link(t, i, p, n)
  \/ \E i \in Ino : hfuse_ll_forget(t, i)

Next ==
  \/ \E t \in Threads : Handler(t) \/ Request(t)
  \/ \E t \in Threads : lookup_destroy(t) \/ startup_finish_delete(t)
  \/ \E i \in Ino : Evict(i) \/ dsync_finished(i) \/ uploaded(i)
  \/ Crash

Spec == Init /\ [][Next]_vars

-----------------------------------------------------------------------------
(***************************************************************************)
(* Properties.                                                             *)
(***************************************************************************)
Symmetry == Permutations(Threads)

NoCrash == left.crash = MaxCrash
Untouched(i) ==
  \A t \in Threads : i \notin {th[t].p, th[t].q, th[t].i, th[t].o, th[t].vp}
Quiet == phase = "up" /\ \A t \in Threads : At(t, "idle")

(* Every step keeps the state within its types.                            *)
TypeOK ==
  /\ disk.ent \in [Ino -> [Names -> Ino0]]
  /\ disk.kind \in [Ino -> Kinds \cup {"none"}]
  /\ disk.loc \in [Ino -> {"none", "meta", "todel"}]
  /\ disk.sb \in [Ino -> {"free", "live", "todel", "queued"}]
  /\ \A i \in Ino : disk.nlink[i] \in Nat /\ disk.kids[i] \in Nat /\ disk.dstat[i] \in Int
  /\ disk.mark \subseteq Ino /\ disk.cloud \subseteq Ino
  /\ lut \in [Ino -> [cnt : Nat, del : BOOLEAN]]
  /\ phase \in {"up", "umount", "boot"}

(* Without a crash no directory entry names an inode that is marked for    *)
(* deletion, being deleted or reclaimed: the steps of unlink, rmdir and    *)
(* rename, the late forget and the reuse of numbers never meet on one      *)
(* that is still in use.  (A number can be reused before its old marker    *)
(* is cleared; the thread that deleted it is then about to clear it.)      *)
NamedLives ==
  NoCrash => \A p \in Ino, n \in Names :
    LET i == disk.ent[p][n] IN
    i # 0 => /\ disk.sb[i] = "live"
             /\ i \in disk.mark => \E t \in Threads : th[t].i = i /\ At(t, "clear")
             /\ disk.loc[i] # "meta" => \E t \in Threads : th[t].i = i /\ At(t, "self")

(* Without a crash an inode marked on disk is deleted in the end: the mark *)
(* is also in its lookup node, or a thread is between the two marks or in  *)
(* the deletion.  Otherwise the last forget would leave it behind.         *)
NoLostDelete ==
  NoCrash => \A i \in disk.mark :
    \/ lut[i].cnt > 0 /\ lut[i].del
    \/ \E t \in Threads : At(t, "lmark") /\ th[t].o = i
    \/ \E t \in Threads : th[t].pc \in {"meta", "sbdel", "file", "free", "clear"}
                          /\ th[t].i = i

(* Without a crash, and while no number was reused under its old marker,   *)
(* the link count of an inode no handler is working on is                  *)
(* the number of its names (1 for a marked one), and a directory's nlink   *)
(* and total_children count its entries.                                   *)
LinkCountExact ==
  NoCrash /\ ~left.stale => \A i \in Ino : disk.loc[i] = "meta" /\ Untouched(i) =>
    IF disk.kind[i] = "dir"
    THEN LET E == {n \in Names : disk.ent[i][n] # 0} IN
         /\ disk.kids[i] = Cardinality(E)
         /\ disk.nlink[i] =
              2 + Cardinality({n \in E : disk.kind[disk.ent[i][n]] = "dir"})
    ELSE IF lut[i].del THEN Name(disk, i) = {} /\ disk.nlink[i] = 1
    ELSE disk.nlink[i] = Cardinality(Name(disk, i))

(* Without a crash the parents recorded for path reconstruction are the    *)
(* directories with a name of the inode, each as often as it has one, and  *)
(* ".." of a directory is its parent.                                      *)
ParentsExact ==
  NoCrash => \A i \in Ino : Untouched(i) =>
    \A p \in Ino :
      /\ Times(disk.par[i], p) = Cardinality({n \in Names : disk.ent[p][n] = i})
      /\ Name(disk, i) # {} /\ disk.kind[i] = "dir" /\ disk.par[i].prim = p
           => disk.up[i] = p

FilesBelow(D, d) ==
  Cardinality({e \in Ino \X Names :
                 /\ D.ent[e[1]][e[2]] # 0 /\ D.kind[D.ent[e[1]][e[2]]] = "file"
                 /\ d \in Path(D, e[1])})

(* Without a crash the statistics of the root count every name of every    *)
(* file of the volume, in whatever order moves and creations took their    *)
(* steps.                                                                  *)
RootStatExact == NoCrash /\ Quiet => disk.dstat[1] = FilesBelow(disk, 1)
=============================================================================
