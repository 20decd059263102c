----------------------------- MODULE UploadLoop -----------------------------
(***************************************************************************)
(* Uploading dirty inodes: upload_loop walks the dirty queue and hands     *)
(* inodes to at most MAX_SYNC_CONCURRENCY sync threads (_sync_mark),       *)
(* sync_single_inode or continue_inode_sync upload one inode each, and     *)
(* collect_finished_sync_threads reaps them (_sync_terminate_thread).      *)
(* File system calls modify and remove inodes at any time, the connection  *)
(* fails, and the process crashes and restarts.                            *)
(*                                                                         *)
(* The content of an inode is its version ver[i]; the to-upload meta file  *)
(* and the object on the cloud hold versions.  Blocks of a regular file    *)
(* are one step.  Of the super block only what the loop touches is kept    *)
(* (module SuperBlock has the rest); no sync point is set and the system   *)
(* is not shut down in order.                                              *)
(***************************************************************************)
EXTENDS Naturals, Sequences, FiniteSets, SequencesExt

CONSTANTS
  Inodes,               \* a finite set of positive numbers
  Reg,                  \* the regular files among them
  MAX_SYNC_CONCURRENCY,
  MaxVersion,           \* bound on the modifications of an inode
  MaxFaults             \* bound on failures, disconnections and crashes

ASSUME UploadLoopAssumption ==
  /\ IsFiniteSet(Inodes) /\ Inodes \subseteq Nat \ {0}
  /\ Reg \subseteq Inodes
  /\ MAX_SYNC_CONCURRENCY \in Nat \ {0}
  /\ MaxVersion \in Nat /\ MaxFaults \in Nat

Slots == 1..MAX_SYNC_CONCURRENCY
Inode0 == Inodes \cup {0}

VARIABLES
  exists, ver,              \* the local meta file, version 0 once it is gone
  cloud,                    \* the version on the cloud, 0 if none
  dirty,                    \* the dirty queue of the super block
  in_transit, mod_after_in_transit,
  toupload,                 \* the to-upload meta file, 0 if there is none
  progress,                 \* now_action of the progress file, or "none"
  thr,                      \* sync_ctl: one record per slot
  retry_list,
  loop,                     \* the locals of upload_loop
  sync_queue_sem, sync_wait_sem,
  sync_paused,
  faults

fs == <<exists, ver>>
sb == <<dirty, in_transit, mod_after_in_transit>>
files == <<toupload, progress>>
ctl == <<thr, retry_list>>
sems == <<sync_queue_sem, sync_wait_sem>>
vars == <<fs, cloud, sb, files, ctl, loop, sems, sync_paused, faults>>

IsDirty(i) == Contains(dirty, i)
Position(i) == CHOOSE k \in 1..Len(dirty) : dirty[k] = i
ll_dequeue(i) == IF IsDirty(i) THEN RemoveAt(dirty, Position(i)) ELSE dirty
InUse(n) == thr[n].ino # 0
Active == Cardinality({n \in Slots : InUse(n)})

(* orderly is a history: the inode was marked in transit for this upload.  *)
FreeSlot == [ino |-> 0, stage |-> "free", error |-> FALSE, continue |-> FALSE,
             revert |-> FALSE, orderly |-> FALSE]
LoopStart == [pc |-> "start", ino_check |-> 0, ino_sync |-> 0, retry |-> FALSE]

Init ==
  /\ exists = [i \in Inodes |-> TRUE] /\ ver = [i \in Inodes |-> 0]
  /\ cloud = [i \in Inodes |-> 0]
  /\ dirty = <<>>
  /\ in_transit = [i \in Inodes |-> FALSE]
  /\ mod_after_in_transit = [i \in Inodes |-> FALSE]
  /\ toupload = [i \in Inodes |-> 0]
  /\ progress = [i \in Inodes |-> "none"]
  /\ thr = [n \in Slots |-> FreeSlot]
  /\ retry_list = [n \in Slots |-> 0]
  /\ loop = LoopStart
  /\ sync_queue_sem = MAX_SYNC_CONCURRENCY /\ sync_wait_sem = 0
  /\ sync_paused = FALSE /\ faults = 0

Fault == faults < MaxFaults /\ faults' = faults + 1

-----------------------------------------------------------------------------
(***************************************************************************)
(* File system calls.  The meta file and the super block entry change      *)
(* under the meta cache lock of the inode, which the copy to the to-upload *)
(* meta takes as well.                                                     *)
(***************************************************************************)
(* Variant for testing CompletionIsClean: nothing is noted in transit.      *)
ModifyUnnoted(i) ==
  /\ exists[i] /\ ver[i] < MaxVersion
  /\ ver' = [ver EXCEPT ![i] = @ + 1]
  /\ IF IsDirty(i) THEN UNCHANGED <<dirty, sync_wait_sem>>
     ELSE dirty' = Append(dirty, i) /\ sync_wait_sem' = 1
  /\ UNCHANGED <<mod_after_in_transit, exists, cloud, in_transit, files, ctl, loop,
                 sync_queue_sem, sync_paused, faults>>

Modify(i) ==
  /\ exists[i] /\ ver[i] < MaxVersion
  /\ ver' = [ver EXCEPT ![i] = @ + 1]
  /\ IF IsDirty(i) THEN UNCHANGED <<dirty, sync_wait_sem>>
     ELSE dirty' = Append(dirty, i) /\ sync_wait_sem' = 1
  /\ mod_after_in_transit' = [mod_after_in_transit EXCEPT ![i] = @ \/ in_transit[i]]
  /\ UNCHANGED <<exists, cloud, in_transit, files, ctl, loop, sync_queue_sem,
                 sync_paused, faults>>

RemoveInode(i) ==
  /\ exists[i]
  /\ exists' = [exists EXCEPT ![i] = FALSE] /\ ver' = [ver EXCEPT ![i] = 0]
  /\ dirty' = ll_dequeue(i)
  /\ in_transit' = [in_transit EXCEPT ![i] = FALSE]
  /\ UNCHANGED <<cloud, mod_after_in_transit, files, ctl, loop, sems,
                 sync_paused, faults>>

-----------------------------------------------------------------------------
(***************************************************************************)
(* The super block operations the upload uses.                             *)
(***************************************************************************)
update_transit(i, incomplete) ==
  /\ dirty' = IF incomplete \/ mod_after_in_transit[i] THEN dirty
              ELSE ll_dequeue(i)
  /\ in_transit' = [in_transit EXCEPT ![i] = FALSE]
  /\ mod_after_in_transit' = [mod_after_in_transit EXCEPT ![i] = FALSE]

util_ll_next(i) ==
  IF Position(i) = Len(dirty) THEN 0 ELSE dirty[Position(i) + 1]

(* The retry list is an array; a push into a full one is dropped.          *)
push_retry_inode(i) ==
  LET free == {n \in Slots : retry_list[n] = 0}
  IN retry_list' = IF free = {} THEN retry_list
                   ELSE [retry_list EXCEPT ![CHOOSE n \in free : \A m \in free : n <= m] = i]

Retries == {n \in Slots : retry_list[n] # 0}
FirstRetry == CHOOSE n \in Retries : \A m \in Retries : n <= m

-----------------------------------------------------------------------------
(***************************************************************************)
(* upload_loop.                                                            *)
(***************************************************************************)
(* Start of a scan.  While every dirty inode has a thread, and in pull     *)
(* while sync is paused, the loop sleeps on sync_wait_sem.                 *)
StartScan ==
  /\ loop.pc = "start"
  /\ loop' = [loop EXCEPT !.pc = IF Len(dirty) > Active THEN "pull" ELSE "idle",
                          !.ino_check = 0]
  /\ UNCHANGED <<fs, cloud, sb, files, ctl, sems, sync_paused, faults>>

SleepPaused ==
  /\ loop.pc = "pull" /\ sync_paused
  /\ loop' = [loop EXCEPT !.pc = "idle"]
  /\ UNCHANGED <<fs, cloud, sb, files, ctl, sems, sync_paused, faults>>

WakeUp ==
  /\ loop.pc = "idle"
  /\ sync_wait_sem = 1 /\ sync_wait_sem' = 0
  /\ loop' = [loop EXCEPT !.pc = "pull"]
  /\ UNCHANGED <<fs, cloud, sb, files, ctl, sync_queue_sem, sync_paused, faults>>

(* Sync was not paused when the loop looked; it may be by the time there   *)
(* is a free slot.                                                         *)
WaitSlot ==
  /\ loop.pc = "pull" /\ ~sync_paused
  /\ loop' = [loop EXCEPT !.pc = "slot"]
  /\ UNCHANGED <<fs, cloud, sb, files, ctl, sems, sync_paused, faults>>

(* Take a slot, choose the inode and mark it in transit, unless it already *)
(* is.                                                                     *)
PullInode ==
  LET retried == Retries # {}
      i == IF retried THEN retry_list[FirstRetry]
           ELSE IF loop.ino_check # 0 THEN loop.ino_check
           ELSE IF dirty # <<>> THEN Head(dirty) ELSE 0
      found == i # 0 /\ IsDirty(i)
      begin == found /\ ~in_transit[i]
  IN /\ loop.pc = "slot"
     /\ sync_queue_sem > 0 /\ sync_queue_sem' = sync_queue_sem - 1
     /\ retry_list' = IF retried THEN [retry_list EXCEPT ![FirstRetry] = 0] ELSE retry_list
     /\ IF begin
        THEN /\ in_transit' = [in_transit EXCEPT ![i] = TRUE]
             /\ mod_after_in_transit' = [mod_after_in_transit EXCEPT ![i] = FALSE]
        ELSE UNCHANGED <<in_transit, mod_after_in_transit>>
     /\ loop' = [pc |-> "sched", retry |-> retried,
                 ino_sync |-> IF found THEN i ELSE 0,
                 ino_check |-> IF found THEN util_ll_next(i) ELSE 0]
     /\ UNCHANGED <<fs, cloud, dirty, files, thr, sync_wait_sem, sync_paused, faults>>

(* ino_sync and retry_inode are assigned anew in every iteration.          *)
NextInode ==
  loop' = [loop EXCEPT !.pc = IF loop.ino_check = 0 THEN "start" ELSE "pull",
                       !.ino_sync = 0, !.retry = FALSE]

(* Variant for testing SlotsConserved: the skipped inode keeps its slot.    *)
SkipKeepsSlot ==
  /\ loop.pc = "sched"
  /\ loop.ino_sync = 0 \/ ~loop.retry
  /\ NextInode
  /\ UNCHANGED <<fs, cloud, sb, files, ctl, sems, sync_paused, faults>>

(* Nothing to do, or the inode was synced less than NORMAL_UPLOAD_DELAY    *)
(* ago and neither a retry nor urgent; it stays in transit.                *)
SkipInode ==
  /\ loop.pc = "sched"
  /\ loop.ino_sync = 0 \/ ~loop.retry
  /\ sync_queue_sem' = sync_queue_sem + 1
  /\ NextInode
  /\ UNCHANGED <<fs, cloud, sb, files, ctl, sync_wait_sem, sync_paused, faults>>

(* sync_op_sem: _sync_terminate_thread keeps it to its end.                *)
OpSemFree == \A n \in Slots : thr[n].stage \notin {"terminating", "unlinking"}

(* Variant for testing OneUploader: the search ends one slot early.         *)
in_sync_short(i) == \E m \in 1..(MAX_SYNC_CONCURRENCY - 1) : thr[m].ino = i

in_sync(i) == \E m \in Slots : thr[m].ino = i

(* The rest of the loop body under sync_op_sem, with _sync_mark and the    *)
(* copy of the meta file (fuseproc_set_uploading_info).                    *)
SyncInode ==
  LET i == loop.ino_sync
      free == {n \in Slots : ~InUse(n)}
      n == CHOOSE k \in free : \A m \in free : k <= m
      revert == progress[i] # "none"
  IN /\ loop.pc = "sched" /\ i # 0 /\ OpSemFree
     /\ \/ /\ in_sync(i)
           /\ sync_queue_sem' = sync_queue_sem + 1
           /\ UNCHANGED <<sb, files, thr>>
        \/ /\ ~in_sync(i)
           /\ ~exists[i]
           /\ update_transit(i, TRUE)
           /\ progress' = [progress EXCEPT ![i] = "none"]
           /\ sync_queue_sem' = sync_queue_sem + 1
           /\ UNCHANGED <<toupload, thr>>
        \/ /\ ~in_sync(i)
           /\ exists[i]
           /\ thr' = IF free = {} THEN thr
                     ELSE [thr EXCEPT ![n] =
                       [ino |-> i, stage |-> IF revert THEN "continue" ELSE "open",
                        error |-> FALSE, continue |-> FALSE, revert |-> revert,
                        orderly |-> in_transit[i]]]
           /\ toupload' = IF revert \/ free = {} THEN toupload
                          ELSE [toupload EXCEPT ![i] = ver[i]]
           /\ progress' = IF revert \/ free = {} THEN progress
                          ELSE [progress EXCEPT ![i] = "PREPARING"]
           /\ UNCHANGED <<sb, sync_queue_sem>>
     /\ NextInode
     /\ UNCHANGED <<fs, cloud, retry_list, sync_wait_sem, sync_paused, faults>>

-----------------------------------------------------------------------------
(***************************************************************************)
(* A sync thread.  Its failures: "conn" is -ENOTCONN from the backend,     *)
(* "other" anything else; both count as a disconnection while sync is      *)
(* paused.  The progress file is advanced before blocks are deleted.       *)
(***************************************************************************)
Goto(n, stage) == thr' = [thr EXCEPT ![n].stage = stage]

Finish(n, error, continue) ==
  thr' = [thr EXCEPT ![n].stage = "finished", ![n].error = error, ![n].continue = continue]

SetProgress(i, action) == progress' = [progress EXCEPT ![i] = action]

ThreadFrame == UNCHANGED <<fs, sb, retry_list, loop, sems, sync_paused>>

(* Variant for testing SnapshotPresent: the to-upload meta is not checked.  *)
CanContinueUnchecked(i) == i \in Reg /\ progress[i] = "NOW_UPLOADING"

CanContinue(i) == i \in Reg /\ progress[i] = "NOW_UPLOADING" /\ toupload[i] # 0

(* continue_inode_sync: only an interrupted upload of a regular file goes  *)
(* on, everything else is cleaned up and uploaded again later.             *)
continue_inode_sync(n) ==
  LET i == thr[n].ino IN
  /\ thr[n].stage = "continue"
  /\ IF CanContinue(i)
     THEN Goto(n, "open") /\ UNCHANGED files
     ELSE /\ toupload' = [toupload EXCEPT ![i] = 0]
          /\ IF i \in Reg /\ progress[i] = "NOW_UPLOADING"
             THEN SetProgress(i, "DEL_BACKEND_BLOCKS") ELSE UNCHANGED progress
          /\ Finish(n, TRUE, FALSE)
  /\ UNCHANGED <<cloud, faults>> /\ ThreadFrame

(* sync_single_inode up to init_backend_file_info.                         *)
OpenFiles(n) ==
  LET i == thr[n].ino IN
  /\ thr[n].stage = "open"
  /\ \/ ~exists[i] /\ Finish(n, FALSE, FALSE) /\ UNCHANGED <<progress, faults>>
     \/ exists[i] /\ i \notin Reg /\ Goto(n, "meta") /\ UNCHANGED <<progress, faults>>
     \/ /\ exists[i] /\ i \in Reg /\ Goto(n, "blocks")
        /\ IF thr[n].revert THEN UNCHANGED progress ELSE SetProgress(i, "NOW_UPLOADING")
        /\ UNCHANGED faults
     \/ /\ exists[i] /\ i \in Reg /\ ~thr[n].revert /\ Fault
        /\ Finish(n, TRUE, FALSE) /\ UNCHANGED progress
  /\ UNCHANGED <<cloud, toupload>> /\ ThreadFrame

(* The block loop.  In revert mode a block whose content has changed since *)
(* the first attempt and that was not uploaded yet cancels the upload.     *)
SyncBlocks(n) ==
  LET i == thr[n].ino IN
  /\ thr[n].stage = "blocks"
  /\ \/ exists[i] /\ Goto(n, "meta") /\ UNCHANGED <<progress, faults>>
     \/ /\ exists[i] /\ thr[n].revert /\ toupload[i] # ver[i]
        /\ Finish(n, TRUE, FALSE) /\ SetProgress(i, "DEL_TOUPLOAD_BLOCKS")
        /\ UNCHANGED faults
     \/ exists[i] /\ Fault /\ Finish(n, TRUE, TRUE) /\ UNCHANGED progress
     \/ /\ exists[i] /\ Fault /\ Finish(n, TRUE, sync_paused)
        /\ IF sync_paused THEN UNCHANGED progress ELSE SetProgress(i, "DEL_TOUPLOAD_BLOCKS")
     \/ /\ ~exists[i] /\ Finish(n, FALSE, FALSE) /\ SetProgress(i, "DEL_TOUPLOAD_BLOCKS")
        /\ UNCHANGED faults
  /\ UNCHANGED <<cloud, toupload>> /\ ThreadFrame

(* The upload of the meta file.                                            *)
SyncMeta(n) ==
  LET i == thr[n].ino
      abort == IF i \in Reg THEN SetProgress(i, "DEL_TOUPLOAD_BLOCKS") ELSE UNCHANGED progress
  IN
  /\ thr[n].stage = "meta"
  /\ \/ /\ exists[i] /\ Goto(n, "unlink")
        /\ cloud' = [cloud EXCEPT ![i] = toupload[i]]
        /\ UNCHANGED <<progress, faults>>
     \/ exists[i] /\ Fault /\ Finish(n, TRUE, TRUE) /\ UNCHANGED <<progress, cloud>>
     \/ /\ exists[i] /\ Fault /\ Finish(n, TRUE, sync_paused) /\ UNCHANGED cloud
        /\ IF sync_paused THEN UNCHANGED progress ELSE abort
     \/ ~exists[i] /\ Finish(n, FALSE, FALSE) /\ abort /\ UNCHANGED <<cloud, faults>>
  /\ UNCHANGED toupload /\ ThreadFrame

(* con_object_sync unlinks what it has uploaded.                           *)
UnlinkMeta(n) ==
  LET i == thr[n].ino IN
  /\ thr[n].stage = "unlink"
  /\ toupload' = [toupload EXCEPT ![i] = 0]
  /\ IF i \in Reg THEN Goto(n, "delete") ELSE Finish(n, FALSE, FALSE)
  /\ UNCHANGED <<cloud, progress, faults>> /\ ThreadFrame

(* delete_backend_blocks: note the new action, then delete the old blocks. *)
ChangeAction(n) ==
  /\ thr[n].stage = "delete"
  /\ Goto(n, "deleting") /\ SetProgress(thr[n].ino, "DEL_BACKEND_BLOCKS")
  /\ UNCHANGED <<cloud, toupload, faults>> /\ ThreadFrame

DeleteOldBlocks(n) ==
  /\ thr[n].stage = "deleting"
  /\ \/ Finish(n, FALSE, FALSE) /\ UNCHANGED faults
     \/ Fault /\ Finish(n, TRUE, sync_paused /\ exists[thr[n].ino])
  /\ UNCHANGED <<cloud, files>> /\ ThreadFrame

ThreadStep(n) ==
  \/ continue_inode_sync(n) \/ OpenFiles(n) \/ SyncBlocks(n)
  \/ SyncMeta(n) \/ UnlinkMeta(n) \/ ChangeAction(n) \/ DeleteOldBlocks(n)

-----------------------------------------------------------------------------
(***************************************************************************)
(* collect_finished_sync_threads, under sync_op_sem: first the super block *)
(* entry, then the files and the slot.                                     *)
(***************************************************************************)
TerminateTransit(n) ==
  LET i == thr[n].ino IN
  /\ thr[n].stage = "finished" /\ OpSemFree
  /\ update_transit(i, thr[n].error)
  /\ thr' = [thr EXCEPT ![n].stage = "terminating",
                        ![n].error = @ \/ ~exists[i],
                        ![n].continue = @ /\ exists[i]]
  /\ UNCHANGED <<fs, cloud, files, retry_list, loop, sems, sync_paused, faults>>

TerminateProgress(n) ==
  LET i == thr[n].ino IN
  /\ thr[n].stage = "terminating"
  /\ Goto(n, "unlinking")
  /\ IF thr[n].continue /\ i \in Reg THEN UNCHANGED progress ELSE SetProgress(i, "none")
  /\ UNCHANGED <<fs, cloud, sb, toupload, retry_list, loop, sems, sync_paused, faults>>

TerminateFree(n) ==
  LET i == thr[n].ino IN
  /\ thr[n].stage = "unlinking"
  /\ toupload' = IF thr[n].continue /\ i \in Reg THEN toupload
                 ELSE [toupload EXCEPT ![i] = 0]
  /\ IF thr[n].continue THEN push_retry_inode(i) ELSE UNCHANGED retry_list
  /\ thr' = [thr EXCEPT ![n] = FreeSlot]
  /\ sync_wait_sem' = 1
  /\ sync_queue_sem' = sync_queue_sem + 1
  /\ UNCHANGED <<fs, cloud, sb, progress, loop, sync_paused, faults>>

-----------------------------------------------------------------------------
(* update_sync_state: the connection goes and comes back.                  *)
GoOffline ==
  /\ ~sync_paused /\ Fault
  /\ sync_paused' = TRUE
  /\ UNCHANGED <<fs, cloud, sb, files, ctl, loop, sems>>

(* Variant for testing EventuallyClean: the sleeping loop is not woken.     *)
GoOnlineSilently ==
  /\ sync_paused
  /\ sync_paused' = FALSE
  /\ UNCHANGED <<fs, cloud, sb, files, ctl, loop, sems, faults>>

(* Variant for testing TypeOK: posted whatever its value.                   *)
GoOnlinePosting ==
  /\ sync_paused
  /\ sync_paused' = FALSE
  /\ sync_wait_sem' = sync_wait_sem + 1
  /\ UNCHANGED <<fs, cloud, sb, files, ctl, loop, sync_queue_sem, faults>>

GoOnline ==
  /\ sync_paused
  /\ sync_paused' = FALSE
  /\ sync_wait_sem' = 1
  /\ UNCHANGED <<fs, cloud, sb, files, ctl, loop, sync_queue_sem, faults>>

(* The process dies and starts again: the super block, the progress and    *)
(* the to-upload files are on disk, sync_ctl is not.                       *)
Crash ==
  /\ Fault
  /\ thr' = [n \in Slots |-> FreeSlot]
  /\ retry_list' = [n \in Slots |-> 0]
  /\ loop' = LoopStart
  /\ sync_queue_sem' = MAX_SYNC_CONCURRENCY /\ sync_wait_sem' = 0
  /\ sync_paused' = FALSE
  /\ UNCHANGED <<fs, cloud, sb, files>>

Loop == StartScan \/ SleepPaused \/ WakeUp \/ WaitSlot \/ PullInode \/ SkipInode \/ SyncInode
Collect(n) == TerminateTransit(n) \/ TerminateProgress(n) \/ TerminateFree(n)

Next ==
  \/ \E i \in Inodes : Modify(i) \/ RemoveInode(i)
  \/ Loop
  \/ \E n \in Slots : ThreadStep(n) \/ Collect(n)
  \/ GoOffline \/ GoOnline \/ Crash

Spec == Init /\ [][Next]_vars

(* The loop, the sync threads and the collector keep running and the       *)
(* connection comes back.  The upload delay passes: an inode that is       *)
(* scheduled again and again is not skipped for ever.                      *)
FairSpec ==
  /\ Spec
  /\ WF_vars(Loop) /\ WF_vars(GoOnline)
  /\ SF_vars(SyncInode)
  /\ \A n \in Slots : WF_vars(ThreadStep(n)) /\ WF_vars(Collect(n))

-----------------------------------------------------------------------------
Stages == {"free", "continue", "open", "blocks", "meta", "unlink", "delete",
           "deleting", "finished", "terminating", "unlinking"}
Actions == {"none", "PREPARING", "NOW_UPLOADING", "DEL_TOUPLOAD_BLOCKS", "DEL_BACKEND_BLOCKS"}

(* Type invariant.                                                         *)
TypeOK ==
  /\ exists \in [Inodes -> BOOLEAN]
  /\ ver \in [Inodes -> Nat] /\ cloud \in [Inodes -> Nat] /\ toupload \in [Inodes -> Nat]
  /\ dirty \in Seq(Inodes)
  /\ in_transit \in [Inodes -> BOOLEAN]
  /\ mod_after_in_transit \in [Inodes -> BOOLEAN]
  /\ progress \in [Inodes -> Actions]
  /\ thr \in [Slots -> [ino : Inode0, stage : Stages, error : BOOLEAN,
                        continue : BOOLEAN, revert : BOOLEAN, orderly : BOOLEAN]]
  /\ retry_list \in [Slots -> Inode0]
  /\ loop \in [pc : {"start", "idle", "pull", "slot", "sched"}, ino_check : Inode0, ino_sync : Inode0,
               retry : BOOLEAN]
  /\ sync_queue_sem \in Nat /\ sync_wait_sem \in {0, 1}
  /\ sync_paused \in BOOLEAN /\ faults \in Nat

(* No inode is uploaded by two threads, however often the loop meets it in *)
(* its walks and its retries.                                              *)
OneUploader ==
  \A m, n \in Slots : InUse(m) /\ thr[m].ino = thr[n].ino => m = n

(* sync_queue_sem counts the free slots but the one the loop holds, so     *)
(* _sync_mark always finds one and no slot leaks on any path.              *)
SlotsConserved ==
  sync_queue_sem + Active + (IF loop.pc = "sched" THEN 1 ELSE 0) = MAX_SYNC_CONCURRENCY

(* While a thread uploads, the to-upload meta and the progress file it     *)
(* works from exist, also when it continues an upload after a crash.       *)
SnapshotPresent ==
  \A n \in Slots : InUse(n) =>
    /\ thr[n].stage \in {"open", "blocks", "meta", "unlink"} => toupload[thr[n].ino] # 0
    /\ thr[n].stage # "unlinking" => progress[thr[n].ino] # "none"
    /\ thr[n].stage \in {"blocks", "meta", "unlink"} /\ thr[n].ino \in Reg
         => progress[thr[n].ino] = "NOW_UPLOADING"

Leaves(i) == IsDirty(i) /\ ~Contains(dirty', i)

(* An upload that began in transit and from a fresh copy takes the inode   *)
(* off the dirty queue only when the cloud has its current version.        *)
CompletionIsClean ==
  [][\A n \in Slots :
       /\ thr[n].stage = "finished" /\ thr'[n].stage = "terminating"
       /\ thr[n].orderly /\ ~thr[n].revert /\ exists[thr[n].ino] /\ Leaves(thr[n].ino)
       => cloud[thr[n].ino] = ver[thr[n].ino]]_vars

(* A dirty inode is uploaded or removed in the end, whatever failed on the *)
(* way.                                                                    *)
EventuallyClean == \A i \in Inodes : IsDirty(i) ~> ~IsDirty(i)

-----------------------------------------------------------------------------
(* super_block_update_transit, "If finished syncing and no more mod is     *)
(* done after queueing the inode for syncing": an inode that is not on the *)
(* dirty queue has its current version on the cloud.                       *)
NoLostUpdate ==
  \A i \in Inodes : exists[i] /\ ~IsDirty(i) => cloud[i] = ver[i]

(* The same for an upload that continues after a disconnection or crash.   *)
ContinueIsClean ==
  [][\A n \in Slots :
       /\ thr[n].stage = "finished" /\ thr'[n].stage = "terminating"
       /\ thr[n].revert /\ exists[thr[n].ino] /\ Leaves(thr[n].ino)
       => cloud[thr[n].ino] = ver[thr[n].ino]]_vars
=============================================================================
