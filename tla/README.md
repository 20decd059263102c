# HCFS in TLA+

HCFS is a FUSE file system whose data lives on a cloud object store and is cached
on the device. This directory holds TLA+ models of its components, the TLC
configurations that check them, and TLAPS proofs. Source files are named relative
to `src/HCFS/`.

## Parts of the system

| Part | State | Operations | What makes it correct |
|---|---|---|---|
| Super block (`super_block.c`) | one entry per inode number (status, links, pin status, transit flags), the head (first/last/count of four lists), unclaimed list file | new inode, update stat, mark dirty, update transit, to delete, enqueue delete, delete, reclaim, pin, unpin, finish pinning, full scan | every inode is in the list its status says, in order of arrival; counters agree; numbers are neither lost nor handed out twice |
| Super block lock (`super_block.c`) | three semaphores and a counter | share/exclusive lock and release | exclusion, nobody waits for ever together |
| Sync point (`syncpoint_control.c`) | a position in the dirty and in the to-delete queue, retry count | set, move, complete, cancel | the completion event comes after everything queued has left |
| Upload (`hcfs_tocloud.c`, `atomic_tocloud.c`, `tocloud_tools.c`) | sync slots, retry list, progress file and to-upload meta per inode | scan loop, sync thread, continue after interruption, collector | one uploader per inode, slots conserved, an inode leaves the dirty queue only when the cloud is current, dirty data is uploaded in the end |
| Connection monitor (`monitor.c`) | online, `sync_paused` | probe, pause, resume | sleeping loops are woken |
| Super block recovery (`recover_super_block.c`) | range being recovered, progress file | rounds over the entries, concurrent with operations; repair of a torn queue | every dirty inode is queued again, once |
| Super block rebuilding (`rebuild_super_block.c`) | queue file of inodes to visit, pool of workers | walk of the file systems, parking, waking, going on after a restart | every reachable inode gets its entry; the walk ends |
| Cloud deletion (`hcfs_clouddelete.c`) | dsync and delete slots, retry list | delete loop, per-inode thread, collectors | objects are deleted before the number is reused; deletions are carried out |
| Blocks of a file (`fuseop.c`, `hcfs_fromcloud.c`, `hcfs_cacheops.c`, `tocloud_tools.c`) | status and sequence number per block, local file, to-upload copy, objects, open handles | read, write, truncate, prefetch, page out, upload, taking back a failed upload | a read sees the last write, a block's only copy is never dropped, the cloud holds one whole version |
| Cache replacement (`hcfs_cacheops.c`, `hcfs_cachebuild.c`) | table of inodes with cached blocks, sleepers | build, page out, sleep on a full cache, wake | sleepers are woken, what can be paged out is found |
| Metadata cache (`meta_mem_cache.c`) | buckets of entries, their semaphores, two cached directory pages each | lock, unlock, expire, remove, look up and update pages | an entry in use stays, no page is lost |
| Namespace (`fuseop.c`, `file_present.c`, `metaops.c`, `lookup_count.c`, `dir_statistics.c`) | entries, link and lookup counts, deletion markers, statistics | create, link, unlink, rmdir, rename, lookup, forget, clean-up at start | an inode is deleted once, after the last use |
| Directories (`dir_entry_btree.c`, `filetables.c`) | B-tree of pages, walk list, gc list, snapshots | add, remove, list | the tree is the set of names; a listing is complete |
| Parents (`parent_lookup.c`) | `pathlookup_data`, pages of `plookup2` | add, delete, replace, fetch | each inode has exactly the parents recorded for it |
| Paths (`path_reconstruct.c`) | cache of path nodes | build a path, drop a node | a cached parent is the parent |
| Extended attributes (`xattr_ops.c`) | key pages, value blocks, reclaimed lists | set, get, list, remove, inherit | what is read is what was set |
| File metadata pages (`metaops.c`, `atomic_tocloud.c`) | page tree of the meta file, its copy in the progress file | create, seek, set progress | a block finds its own page, after failures too |
| Pinning (`pin_scheduling.c`, `file_present.c`, `hcfs_fromcloud.c`) | pinned size, pinning queue, workers | pin, unpin, roll back, fetch all blocks | pinned files end up local; the account is right |
| Restoration (`do_restoration.c`, `control_smartcache.c`) | stage tag, restored paths, smart cache record | walk and download, prune, swap paths | what is put in place is complete; a stage can be started again |
| Volumes and mounts (`FS_manager.c`, `mount_manager.c`, `pthread_control.c`) | database, backup, tree of mounts, statistics threads | create, delete, mount, unmount, write statistics | mounts are found, statistics reach the disk |
| Events (`event_notification.c`, `event_filter.c`, `fuse_notify.c`) | ring buffers | add, send, retry | nothing is lost or handed on twice |
| Minimal apks (`apk_mgmt.c`, `hash_list_struct.c`) | hash list, its bucket and table locks | insert, query, iterate, create and free | exclusion; the table says what the directory says |

The rest is listed with its reason under "Not modelled" and in `PROJECT.json`.

File system threads call into the super block under its lock; the upload loop, the
delete loop and the pinning scheduler walk its three queues and are woken through
semaphores; sync threads talk to the file system through the metadata cache lock
and files on disk (progress file, to-upload meta); the monitor pauses and wakes
the loops; restoration hands over to the rebuilding of the super block, which ends
with the full scan for unused numbers. What is hard: locks are dropped between
reading a queue and acting on it, flags are cleared by one thread while another
relies on them, uploads, deletions and restorations are continued after a
disconnection or a crash from what is on disk, and lists, trees and chains are
patched by hand in many small steps.

## Modules

| Module | Models | Runs | Proofs |
|---|---|---|---|
| `LinkedList` | the pointer assignments of the intrusive queues, and what a well-formed queue is | (through `SuperBlock`, `QueueRecovery`) | `LinkedListProofs` |
| `SuperBlock` | `super_block.c`, `syncpoint_control.c` | `superblock` | `SuperBlockProofs` |
| `SuperBlockLock` | the four lock functions | `lock` | `SuperBlockLockProofs` |
| `UploadLoop` | `upload_loop` and everything it starts | `upload_loop`, `upload_live`, `upload_race`, `upload_continue` | `UploadLoopProofs` |
| `Namespace` | the handlers that make, move and remove names | `namespace` | `NamespaceProofs` |
| `BlockCache` | the blocks of one file between cache and cloud | `blocks`, `block_handle` | `BlockCacheReadProofs`, `BlockCacheProofs` |
| `ParentList`, `ParentTable` | what `parent_lookup.c` promises, as operators (used by `Namespace`) and as an abstract specification | (through `ParentLookup`) | |
| `ParentLookup` | the pages of `plookup2`, which implement `ParentTable` | `components` | |
| `QueueRecovery`, `FullScan` | torn queues, `ll_rebuild_dirty` and the recovery worker; the full scan | `components` | |
| `RebuildSB`, `CloudDelete`, `CacheLoop` | the three daemons | `components`, `progress` | `ComponentProofs` (`CloudDelete`) |
| `MetaCache`, `DirPageCache`, `Directory`, `Xattr`, `PageTree` | metadata in memory and in its files | `components` | `ComponentProofs` (the first two) |
| `Restoration`, `Volumes`, `Pinning`, `PathCache`, `MinApkTable` | the components of these names | `components`, `path_rename` | |
| `EventQueue`, `FuseNotify` | the two ring buffers | `components` | |
| `Components` | these eighteen side by side, with their instances | `components` | |
| `Progress` | three daemons under fairness | `progress` | |

`Components` and `Progress` run one component in a behaviour: these components share
no variable, so their product would only multiply states. Where components do
interact the interaction is inside one module: namespace, lookup table, parents and
statistics in `Namespace`; handles, downloads, page-out and upload in `BlockCache`;
queue, sync threads, monitor and collector in `UploadLoop`; requests, scheduler and
downloads in `Pinning`. Each of the eighteen keeps its state in one record variable
with its fields listed at the declaration, so that an operation can be written as a
function of the record and several be chained as the code chains its calls.

Every module has definitions marked "Variant for testing P": the operation with a
plausible mistake (a guard dropped, a link or a reset forgotten, an order swapped)
under which P must fail. A grouped property of `Components` is a conjunction over
components; each component's conjunct has such a variant of its own.

**SuperBlock.** `ll` holds status and `util_ll_*` of all entries and
first/last/count of the dirty and the to-delete queue; `pl` the same for the
pinning queue; `head` the inode counts and the reclaimed list (which reuses
`util_ll_next`, so it lives in `ll.next`); `unclaimed` the unclaimed list file; `sp`
the sync point. Each operation is one action named after its function because it
runs under `super_block_exclusive_locking`; `super_block_new_inode` is split in its
two branches, and `BeginTransit` is the super block section of `upload_loop`.
`ll.order`, `pl.order` and `sp.owed` are histories: who was queued before whom,
and which inodes the current sync round has yet to see leave. Callers delete an
inode with `super_block_to_delete` followed by `super_block_enqueue_delete` or
`super_block_delete`, which the guard `Deleting` states; every other operation is
possible at any time.
`super_block_to_delete` does not test that its inode is in use, but all its callers have
just held its metadata (`metaops.c:642`, `:1501`, `:1573`; `hfuse_system.c:545`).
Left out: sizes, times, generations and I/O errors; the full scan and recovery are in
`FullScan` and `QueueRecovery`. `super_block_reclaim` tests its trigger before it takes
the lock; the test is part of the action.

**SuperBlockLock.** One action per semaphore operation, `pc[t]` between two of them.

**UploadLoop.** The content of an inode is a version number. `Modify` is a change of
the meta file with its super block update, which happen under one metadata cache
lock; `RemoveInode` is the deletion (the rename of the meta file and
`super_block_to_delete` in one step). `loop` is the loop's locals: `start` (begin a
scan), `idle` (on `sync_wait_sem`), `pull` (look at `sync_paused`), `slot` (on
`sync_queue_sem`), `sched` (super block lock dropped, `sync_op_sem` not yet taken).
`PullInode` takes the slot, the retry entry and the super block section together:
the retry list is only filled by the collector, so taking from it late differs only
in which inode is tried first. Each slot `thr[n]` goes through the stages of
`sync_single_inode` (or `continue_inode_sync`), then the three steps of
`_sync_terminate_thread`, which keeps `sync_op_sem`. A failure is either a
disconnection (`continue_nexttime`) or another error; `Crash` keeps what is on disk.
Left out: blocks one by one (in `BlockCache`), orderly shutdown, re-queueing under a
sync point (in `SuperBlock`), the backup of the FS database (in `Volumes`). The upload
delay is a choice: an inode that is no retry may be skipped.

**Namespace.** A handler is cut where it leaves the metadata locks, and `th[t]` is the
handler a thread is in; `disk` is everything written through, `lut` the lookup table.
The kernel is external: it holds the mutexes of the directories a request names,
counts lookups and sends FORGET. `Crash` loses `lut` and the handlers; the next start
runs `disk_checkdelete` over the markers; an unmount forgets everything at once.

**BlockCache.** The content of a block is the set of modifications it carries. Local
files have an identity, so that a handle may hold one already unlinked. A step ends
where the code gives up, or waits for, the lock of the metadata or the flock of a
block file. Each handle has one request at a time; the blocks of an upload go one
after another; a failed upload is always taken back (`DEL_TOUPLOAD_BLOCKS`).
A request that has to copy a block for the upload and finds the cache full drops the
lock, sleeps and goes on: a write and a deletion look at the status again, a truncation
within the block does not (`CopyAgain`, `CutAfterWait`).
Left out: `try_cancel_undone_sync`, sizes and offsets, who wakes the sleepers (in
`CacheLoop`), and that `hfuse_ll_truncate` ends by writing back the file's metadata as it
read it, which differs from what is there only after the known case of an old sequence
number; pin flags change freely anyway.

**QueueRecovery** writes the disk one record at a time, as a crash is the only observer
of the steps of an operation: an operation or a round of the worker happens whole, or up
to one of its writes (`CrashDuring`, `RoundCut`). An entry the worker skips because its
meta file cannot be read is left out. **RebuildSB** has one action per section under the job
lock, with the condition variable as worker states. **FullScan** lets operations in
between two bundles. **CloudDelete** has the loop, the dsync threads, the delete
threads and both collectors. **Restoration** is a program counter over the steps of both
stages with what each leaves on disk, and a crash anywhere. The rules of
`do_restoration.c` for paths below `/data/data` (848, 857-859, 1975-1980, 1992, and the
repair at 2047-2085 and 2131-2144) are left out: the data volume is walked as
`/dev/MY-TERA` (2928), and the other callers of `_expand_and_fetch` start at `/data/app`,
`/storage/emulated` and `/data/smartcache`, so no path begins so. **MetaCache** has one action
per semaphore operation; **DirPageCache** is sequential under an entry's lock, with
failing writes. **Directory** is the B-tree as operators on a tree record (recursive as
in the code), the gc and walk lists and the handles with their snapshots. **Xattr** is
the hash lists and value chains. **PageTree** adds and links pages one write at a time.
**CacheLoop** has the chains of the cache usage table and the four semaphores of the
hand-shake. **Pinning** has the requests with their roll-back, the loop, its workers and
the download threads. **Volumes** has the tree of mounts and the threads that serve them;
the B-tree of volume names is a set. **PathCache**, **MinApkTable**, **EventQueue** and
**FuseNotify** have one action per critical section.

## What the runs show

| Run | Bounds | Checked |
|---|---|---|
| `superblock` | 3 inode numbers, reclaim trigger 2, one sync retry (92,086 states) | `QueuesFIFO`, `PinQueueFIFO`: lists are exact, doubly linked and in order of arrival; `CountsOK`; `NeverRebuilds`: the code's corruption checks do not fire; `SyncPointCovers`: the point is the youngest owed inode, completion means all owed have left; `RemovedIsQuiet`; `ReclaimListExact`: numbers are not lost or duplicated |
| `lock` | 3 threads (1,055 states) | `MutualExclusion`; `Progress`: while someone waits someone gets in |
| `upload_loop` | 2 inodes, one regular, 2 slots, 2 modifications each, 1 fault (4,896,764 states) | `OneUploader`, `SlotsConserved`, `SnapshotPresent`, `CompletionIsClean` |
| `upload_live` | 2 inodes, 1 slot, 1 modification each, 2 faults (83,063 states) | `EventuallyClean` |
| `upload_race` | 1 inode, 2 slots, 3 modifications, no fault | `NoLostUpdate` is violated |
| `upload_continue` | 1 regular file, 1 slot, 2 modifications, 1 fault | `ContinueIsClean` is violated |
| `namespace` | 4 inode numbers, 2 names, 2 threads, 3 handlers, unmounts or crashes beside lookups and forgets, of these one crash and one unmount at most, one inode in the cloud (775,554 states) | `NamedLives`: no name points to an inode being deleted; `NoLostDelete`: what is marked will be deleted; `LinkCountExact`, `ParentsExact`, `RootStatExact`: counts, recorded parents and statistics agree with the names when nobody works on them |
| `blocks` | one block, 2 handles, one download, one upload, one page-out, 2 modifications, one failed transfer, one change of pin (2,501,235 states) | `ReadLatest`, `NoLoss`, `StoredBoth`, `CloudConsistent`, `CacheExact` |
| `block_handle` | one block, 2 handles, 3 modifications, one read | `CachedFileValid` is violated |
| `path_rename` | 2 directories, 2 files, one thread | `CachedPathTrue` is violated |
| `components` | see `Components.cfg` (1,620,806 states over eighteen components) | `SuperBlockRepaired`, `CloudSound`, `MetadataSound`, `TablesSound`, `QueuesSound`, `CacheSound`, and `LookupRefines`: `ParentLookup` implements `ParentTable` |
| `progress` | 2 files and 2 writers; 2 workers and 4 inodes; 2 deletions of 2 and 1 blocks | `SleepersWake`, `RebuildEnds`, `DeletionEnds` |

Three inodes give a queue a first, a middle and a last element, and let one be
removed, reclaimed and reused beside the others; three threads give two readers and a
writer. Two inodes and two slots let the loop go on to another inode and come back to
one that is being uploaded; two modifications fall before and after the copy. In
`upload_live` one slot makes every inode wait for the other, and two faults let a
retry fail as well. `namespace` starts with a directory that holds a file and has one
more number, so that a file replaces another, a directory moves while its content
changes, and numbers are used again; the bound on handlers counts unmounts and crashes
too (two at once and one after). In
`blocks` two handles are a reader with a cached file and a writer, and every other
thread that touches a block is there once. In `components` every hash table is small
enough for collisions, every ring and every page for overflow (rings of 2, key pages
of 2, pages of one parent), the cache is full after one write, B-trees start from
histories that make 2 and 3 levels so that the next operations split, borrow and
merge at every level, and crashes or failures happen once or twice. What these bounds do
not reach: two pinning workers on one inode (there is one worker, so that conjunct of
`PinningSound` says nothing), minimal apks in the listing of a directory (`ignore_minapk`
is never met), the branches of `parent_lookup.c:349-355` and `:467-476` for pages of
several parents, and `mount_FS` without a mount point (605), which no caller asks for. The models may
come to rest when their bounds are used up, so these runs do not check deadlock;
waiting for ever is a property where the code could meet it (`Progress`,
`EventuallyClean`, `MetadataSound`, `TablesSound`, `progress`).

**The grouped properties of `components`.**

- `SuperBlockRepaired`: once recovery has begun from an empty queue, the queue is
  exactly the dirty inodes passed so far, whatever is enqueued and dequeued meanwhile
  and whichever write of a round but the head is the last before a crash or an I/O
  error, and a torn enqueue is repaired by the next operation that meets it
  (`QueueExact`);
  when the pool agrees that the walk is over every reachable inode has its entry and
  its parents (`RebuildComplete`); numbers handed out during and after a full scan are
  free and every unused number is found (`ReclaimSound`).
- `CloudSound`: unless its metadata cannot be read, a number is freed only when no object
  of it is left and metadata goes after the blocks it names; statistics are corrected
  once (`DeletedClean`); what restoration
  puts in place is complete, with statuses and names that agree with the restored blocks,
  and the second stage runs on it and on nothing else (`RestorationSound`).
- `MetadataSound`: an entry that is held or awaited stays in the table, and threads wait
  in a circle for two known reasons only (`EntriesHeld`, `DeadlockCauses`); a cached
  directory page or the file has the last content (`PagesCoherent`); tree, walk list and
  gc list of a directory are exact and a listing gives every entry of its beginning once
  (`DirectorySound`); attributes read are those set, and inherited ones too
  (`XattrSound`); each block finds its own page at every step, and the progress file what
  was recorded (`TreesExact`).
- `TablesSound`: every page of `plookup2` is reachable once (`PagesConserved`); mounts are
  found, statistics are on disk, on their way or changed after the last write, the backup
  is current, and the freed statistics thread is met on shared volumes, by requests that
  outlive the start of an unmount and by the deletions at its end, and nowhere else
  (`VolumesSound`); chains and global
  list of path nodes agree and a cached parent is the parent (`PathsExact`); readers and
  the freeing thread exclude each other in the table of minimal apks (`MinApkExact`).
- `QueuesSound`: the rings hold exactly what was added and not taken, in order; nothing
  leaves unsent; nobody sleeps over an entry; names are freed once (`EventsExact`,
  `NoticesExact`).
- `CacheSound`: in a chain what can be paged out comes first, the hand-shake of the
  sleepers is balanced (`CacheLoopSound`); pinning places are conserved, a file reported
  pinned is local, flags, status and account agree after the requests (`PinningSound`).

The four violations are faults in the code:

- `upload_race`: the loop reads `in_transit = TRUE`, the running upload ends and clears
  it, the loop starts a second upload without it. A change during that upload is not
  noted and is never uploaded.
- `upload_continue`: a disconnected upload clears `mod_after_in_transit` and is continued
  with its old copy; the change noted before or made in between is never uploaded.
- `block_handle`: a handle keeps its block file by status and `paged_out_count`; a
  truncation and a new write through another handle leave both as they were, and the
  first handle reads the unlinked file.
- `path_rename`: rename drops the cached path of the inode it replaced and not of the one
  it moved, whose old path is returned from then on.

`CompletionIsClean`, which is also proved, shows that the first two are the only ways: an
upload that began in transit and with a fresh copy never leaves an update behind.

**Known cases.** Some properties hold until a state is met that the code is known not to
handle. The model then sets a history field, named at its declaration, and the property
says what still holds and that nothing else leads there. They are:

| Module | Case | Where |
|---|---|---|
| `QueueRecovery` | the last inode of the range is not visited when it stands alone; entries changed between a restart and the resumed recovery are linked twice; a round of the recovery that stops between the head and the progress file is linked behind itself and counted twice, and one that stops before the head leaves a link that a change before the next start makes wrong; a crash in an enqueue followed by another mark of the same inode links it to itself | `recover_super_block.c:582`, `:567`, `:623-634`; `super_block.c:1641-1657` |
| `FullScan` | a number whose deletion began before the scan and ends behind it; the last number is not looked at | `super_block.c:1097-1103`, `:1174` |
| `DirPageCache` | pages dropped although writing them failed | `meta_mem_cache.c:1714-1722` |
| `CloudDelete` | the number is freed although metadata could not be deleted, or with the objects not yet deleted when the fetched metadata cannot be read at all or not to the end; a finished delete thread waits for the next announcement | `hcfs_clouddelete.c:830`, `:621`, `:767`, `:728-731` |
| `Restoration` | the stage is lost by a crash while the tag is rewritten or the paths exchanged; the size of the smart cache blocks is clamped | `do_restoration.c:128-145`, `:3216` |
| `Volumes` | a statistics write refused because the thread is just ending; the thread freed and the statistics written while the mount is still served, so that a request or a deletion at the end of the unmount meets the freed thread or changes statistics nobody writes; the shared thread freed with the first of several mounts; no backup after a deletion | `mount_manager.c:1154`, `:563-570`; `FS_manager.c:1128` |
| `Directory` | a child position never set; a link of the walk list written back from an old copy; a full buffer that keeps a reference | `dir_entry_btree.c:385-389`, `:576`; `fuseop.c:6121-6130` |
| `Xattr` | an empty value takes a reclaimed block with its old successor | `xattr_ops.c:427` |
| `EventQueue` | a batch read past the end of the ring; a signal between the test and the wait | `event_notification.c:440`, `:411-416` |
| `CacheLoop` | a thread that goes to sleep between reading the status and being counted; a file made smaller while paused | `hcfs_cacheops.c:612-630`, `:347-349` |
| `Pinning` | a file unpinned and pinned again during its download; two requests between flag and super block; a file that grows between stat and flag | `pin_scheduling.c:195`; `file_present.c:1328-1350`, `:1318` |
| `PathCache` | a lock posted twice after a failed search; a lookup and a rename that wait for each other | `path_reconstruct.c:345`, `:375`; `fuseop.c:2631`, `:2403` |
| `PageTree` | two threads in `set_progress_info` | `atomic_tocloud.c:474` |
| `MinApkTable` | the table freed while a thread is inside; a walk without memory returns with the table locked; a lookup stores what it read before | `apk_mgmt.c:266`, `:360`; `fuseop.c:1882-1900` |
| `MetaCache` | circles of waiting threads, as the bucket's header is held while waiting | `meta_mem_cache.c:1614` |
| `Namespace` | statistics of a directory between the root and a moved file, read before the lock | `fuseop.c:2546` |
| `BlockCache` | a handle whose cached file is no longer the block's although the page-out count agrees: the count is read after the file was opened, is not recorded at all by a read that fetched the block, or began again when the upload cleared the entry; a truncation or page-out under an opened or half-fetched block; a sequence number read before the unlock and used after it, by a download or by a truncation that has to fetch first; a block that changed its status or its file while a truncation or a write slept until there was room for a copy | `fuseop.c:3251-3296`, `:5118`, `:4399-4416`, `:4020-4049`, `:4035`, `:4120`, `:5458`, `:2925`, `:3572`; `hcfs_tocloud.c:994`; `hcfs_fromcloud.c:293`, `:309`, `:605` |

`blocks` explores no further from a state in which such a case was met (`CONSTRAINT Clean`).

**Fairness.** `lock`: weak fairness of each step inside the four functions and of the
release calls, since a thread inside runs on and returns; nothing forces a thread to
ask for the lock. `upload_live`: weak fairness of the loop, of each sync thread and of
the collector (running threads), weak fairness of `GoOnline` (the connection comes
back) and strong fairness of `SyncInode`, because the delay of the loop is finite: an
inode offered again and again is not skipped for ever. `progress`: weak fairness of each
daemon thread, because a runnable thread runs on; of the upload of dirty blocks while it
is not paused (`CacheFairness`), which `EventuallyClean` supports; and of the return of
the connection with the monitor's wake-up (`RebuildFairness`). Requests fail a bounded
number of times (`MaxDeleteFails`), as a backend that never answers refutes nothing.
Nothing makes a writer write or a user unmount.

## What is proved

Each theorem holds for every value of the constants that satisfies the assumption of its
module, which TLC evaluates on every run:

| Assumption | Says | Why the code justifies it |
|---|---|---|
| `SuperBlockAssumption` | inode numbers from 2; `RECLAIM_TRIGGER` and `SYNC_RETRY_TIMES` are naturals | numbers 0 and 1 are never handed out; compile-time constants |
| `ThreadsFinite` of the lock | threads are finitely many | they are |
| `UploadLoopAssumption` | finitely many inodes, numbers from 1; at least one slot | 0 is "no inode" in `upload_loop`; `MAX_SYNC_CONCURRENCY` |
| `NamespaceAssumption` | at least the root and two more inodes; finitely many names, at least one | the start state is a volume with a directory and a file in it; names are bounded strings |
| `MetaCacheAssumption` | finitely many inodes and threads; at least one bucket | `NUM_META_MEM_CACHE_HEADERS` |
| `BlockCacheAssumption` | the bounds are naturals; finitely many blocks, numbered by naturals, and download threads; no thread is both a handle and a download, nor "none" | block indices count from 0; the pools of download threads are fixed; a flock has one owner |
| `CloudDeleteAssumption` | finitely many inodes, 0 none of them; at least one thread of each kind; "meta" is not the name of a block | the metadata object has a name of its own |

The properties are seldom inductive by themselves. For each module, what had to be added
and how the proof goes:

- `LinkedListProofs`: `AppendFIFO` and `UnlinkFIFO`, the effect of the pointer
  assignments on any well-formed queue, `FIFOFrame`, that a queue does not notice
  changes at entries that are not its members, and the types of the results. It also
  holds the facts about sequences the other proofs share (`RemoveAtProperties`: what is
  left when one place of a sequence without repetition is removed; `ConsProperties`).
- `SuperBlockLockProofs`: `LockExcludes`, `LockTypeCorrect`, `LockCountsSharers`. The
  invariant says for each semaphore which places in the code hold it, that
  `share_lock_sem` is held by the writer or by the readers together, and that
  `share_counter` is the number of threads between its increment and decrement.
- `SuperBlockProofs`: `SuperBlockTypeCorrect`, `SuperBlockQueues`, `SuperBlockPinQueue`,
  `SuperBlockCounts`, `SuperBlockNeverRebuilds`, `SuperBlockRemovedIsQuiet`. A queue
  operation is right only on an entry in the state it expects, so the queues are
  inductive only together with `RemovedIsQuiet`, with numbers never handed out being
  `NO_LL`, and with the reclaimed list being a chain of `RECLAIMED` entries (its links
  share `util_ll_next` with the queues). One lemma per operation, then the theorems
  follow from `SuperBlockInvariant`. `SuperBlockSyncPoint` rests on that invariant:
  moving the point to `util_ll_prev` reaches the next older member because the queue is
  in order of arrival, and setting it to the last entry finds the youngest
  (`YoungestCovers`, `CoversEnqueue`, `CoversDequeue`). `SuperBlockReclaimLists` says of
  the reclaimed numbers that some order of them runs from `first_reclaimed` to
  `last_reclaimed` along `util_ll_next`: taking the first leaves the rest of the order
  (`ListedPop`), and `super_block_reclaim` puts the sorted batch in front of it
  (`ListedBatch`).
- `UploadLoopProofs`: `UploadTypeCorrect`, `UploadOneUploader`, `UploadSlotsConserved`,
  `UploadSnapshotPresent` and the action property `UploadCompletionIsClean`. `IInv` adds
  to these invariants, per slot, that the stage agrees with the slot being in use
  (`Shape`), and that the inode of an orderly upload stays in transit with a copy that is
  current unless a modification was noted (`Orderly`); and that what is dirty has been
  modified (`Modified`), without which a copy could be of version 0, "no copy". By
  `OneUploader` the inode an action works on belongs to no other slot, so that lemma
  `OneSlot` deals with all other slots at once; one lemma per action does the rest.
  `CompletionIsClean` rests on `in_transit` being cleared by the inode's own upload, or
  while it has none; `upload_race` starts an upload without the flag and is not orderly.
- `NamespaceProofs`: `NamespaceNamedLives` and `NamespaceNoLostDelete`, up to a first
  crash, as the properties say. The heart of `Core` is `Unlinked`: what is marked in the
  lookup table, about to be marked, or being deleted has no name and holds none. That
  this stays so needs what each thread knows at its step (`Agent`), that threads lock no
  directory and make or delete no inode together (`Exclusive`, `Apart`), that the kernel's
  uses are covered by the lookup counts (`Known`), that a file has no more names than
  links (`LinksCover`) and a directory one name, or two while it is being renamed
  (`OneName`), and that an empty count means an empty directory (`Holds`).
  `NamespaceLinkCounts` is `LinkCountExact`, up to a first crash or a number reused under
  its old marker, as the property says. `Links` is inductive on top of `Core`: a directory
  has two links and one per subdirectory (`DirLinks`), a file one per name, one more while
  a name has gone and the count not yet, one less for the second name of a rename, and 1
  when it is doomed (`FileLinks`); what is doomed is marked on disk (`MarkedToo`,
  `HasMark`), retired by one thread (`OneRetires`), and gone from what an unmount has
  passed by (`PassedBy`). All steps that
  change an entry go through lemma `EditStep`, those of a deletion through `DeleteStep`,
  those that leave the tree alone through `CountStep`.
- `ComponentProofs`, metadata: `MetaCacheEntriesHeld` (`MCSpec => [](MCTypeOK /\ EntriesHeld)`) and
  `DirPagesCoherent` (`DCSpec => [](DCTypeOK /\ PagesCoherent)`). `TableInv` says what each
  caller has found or locked at each place of `meta_cache_lock_entry` (`CallerOK`): an
  entry is looked for, inserted and taken under its bucket's header. The number of entries
  is inductive only when the threads that have found room and not yet inserted are counted
  too (`CountOK`): the code tests the limit before it inserts. `Coherent` says that a
  lookup finds the last content of a page whichever of the two slots holds it; a write
  that fails moves the page to `lost`.
- `ComponentProofs`, deletion: `DeletionClean` (`CDSpec => [](CDTypeOK /\ DeletedClean)`).
  `DeletionInv` ties the two pools together: while a thread deletes blocks each object
  left is still to do or with a delete thread that has not succeeded and works for this
  dsync thread, unless an error was handed over (`StageOK`). A delete thread for metadata
  works for a dsync thread that waits for it; one for a block may have been left behind
  by a walk that broke off, and all that is known of it is that its object is gone when
  it has succeeded (`DeleteOK`). `torn` holds the inodes whose metadata could not be read.
  `DsyncStep` does for all steps what they leave alone.
- `BlockCacheReadProofs`, `BlockCacheProofs`: `ReadsLatest`, `NothingLost`, `BothIsStored`, `CloudIsConsistent`,
  `CacheCountIsExact` and `BlockTypes`, all from `BlockInvariant`, for any number of
  blocks, handles, download threads, files and modifications. `BlockInv` is
  `Types /\ (Clean => Core)`: the properties hold until a known case is met, and so does
  the invariant. The status of a block tells where its content is (`StatusI`), but a
  request or a download acts on what it saw before it gave up the lock. `ReqI` and `JobI`
  say what remains of that at each of their steps: the file is one of the block, it is
  flocked by whom fills it, and as long as it is the file at the path the block is
  `ST_CtoL` with the number being fetched, and filled once the transfer is over. `CachedI`
  says what the page-out count of a handle vouches for, `NoReader` that no cached file is
  being filled, `ReadI` what a request will return if nothing modifies the block. The
  count of the cache is exact only with the pin downloads that have counted their block
  and not yet set its status (`CountI`). For the upload: an unmodified block is as the
  snapshot has it and a modified one has a later number (`SeqI`); a request that sleeps
  until there is room for a copy has a number this upload covers, or has outlived it
  (`CopyWait`, which holds after known cases too and has an induction of its own); what is
  still to be sent
  is in its copy or unmodified (`CopyI`); what was sent is in the cloud under the
  snapshot's number (`StoredI`); the metadata in the cloud names objects that no later
  upload and no clean-up touches (`CloudI`). The proof describes what the step
  of one process does to the blocks (`Gentle`, and `Quiet` when it leaves the upload alone;
  `Uploads` and `Apart` for a step of the upload); that the invariant holds of all other
  processes and blocks follows once for every such step, so that the lemma of an action
  proves only its own part.

Only model-checked, with the reason:

- `ParentsExact` and `RootStatExact` (bags and sums over all names and the tree above
  them) and the refinement `LookupRefines` (a
  walk along the chain of pages) say what a recursion computes for every input, which
  takes an induction over data the prover does not do. `TypeOK` of `Namespace` says that
  link and child counts stay natural, which crashes between the steps of a handler keep
  true only as long as they are few: it holds on the run's instance. Up to a first crash
  the types `Types` of `NamespaceProofs` are proved, with integers for these counts.
- `Directory` and `Xattr`: their operators are recursive as in the code, and `Components`
  with them. Theorems about a component in `Components` are about the component's own
  module and specification, which `Components` runs.
- Liveness (`Progress`, `EventuallyClean`, `SleepersWake`, `RebuildEnds`, `DeletionEnds`),
  which the prover does not do.
- The other modules of `Components`: nothing stands in the way but the work, see
  "What is left".

## Not modelled

- **Cloud backends** (`hcfscurl.c`, `b64encode.c`, Google Drive): requests over HTTP, their
  headers and the parsing of answers. The models see success, disconnection or another
  error. Google Drive's object ids are left out with them.
- **Encryption, compression, object format** (`enc.c`, `compress.c`, `objmeta.c`): pure
  conversion by external libraries; no protocol.
- **Deduplication** (`dedup_table.c`): compiled only with `ENABLE(DEDUP)`, which no build
  file sets (the `Makefile` has `ENABLE_DEDUP=0`).
- **Start-up, configuration, logging, utilities** (`hfuse_system.c`, `utils.c`, `logger.c`):
  sequential, before the threads exist; the semaphores they create and the hand-over
  between the stages of a restoration are in the modules that use them.
- **Local API, API server, command line tools** (`api_interface.c`, `../API`, `../CLI_utils`, `../pyhcfs`): dispatch over
  sockets, JSON, shell commands; the requests that change state are modelled with the
  component they change.
- **Aliases and package cache** (`alias.c`, `pkg_cache.c`): lookup caches under one lock each,
  sequential within it.
- **User id rewriting, permissions, quotas, names and times** in the handlers: data no
  property here tells apart.
- **I/O errors in the super block** (for example `super_block.c:1391`, a return with the
  lock held): after them the code gives no promise to check.

## What is left

1. `EventQueue` and `FuseNotify`: that the rings hold what was added and not taken needs
   a lemma about positions modulo the size of the ring.
2. `PathCache`, `MinApkTable`, `CacheLoop`, `Pinning` and `RebuildSB`, which have no
   recursive operators either: invariants per place of each thread, as in
   `ComponentProofs`.
3. `QueueRecovery` and `FullScan`: the queues after a torn write, on top of
   `LinkedListProofs`.
4. `try_cancel_undone_sync` in `BlockCache`, and more than one file.
