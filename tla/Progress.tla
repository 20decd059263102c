------------------------------ MODULE Progress ------------------------------
(***************************************************************************)
(* What must happen in the end, for three daemons that do not share state  *)
(* here: the cache loop, the rebuilding of the super block and the         *)
(* deletion of objects.  One of them runs in a behaviour; its variable is  *)
(* the only one used.                                                      *)
(***************************************************************************)
EXTENDS CacheLoop, RebuildSB, CloudDelete, TLC

VARIABLE part

Off == <<>>
vars == <<part, cl, rb, cd>>

CleanBlocks == (1 :> 1) @@ (2 :> 1)
DirtyBlocks == (1 :> 0) @@ (2 :> 1)
RootDirs == <<1>>
DirsIn == (1 :> <<2>>) @@ (2 :> <<>>) @@ (3 :> <<>>) @@ (4 :> <<>>)
FilesIn == (1 :> <<3>>) @@ (2 :> <<4>>) @@ (3 :> <<>>) @@ (4 :> <<>>)
BlocksInCloud == (1 :> {"b1", "b2"}) @@ (2 :> {"b1"})

Init ==
  \/ part = "cache" /\ CLInit /\ rb = Off /\ cd = Off
  \/ part = "rebuild" /\ RBInit /\ cl = Off /\ cd = Off
  \/ part = "delete" /\ CDInit /\ cl = Off /\ rb = Off

Next ==
  \/ part = "cache" /\ CLNext /\ UNCHANGED <<part, rb, cd>>
  \/ part = "rebuild" /\ RBNext /\ UNCHANGED <<part, cl, cd>>
  \/ part = "delete" /\ CDNext /\ UNCHANGED <<part, cl, rb>>

(* The cache loop and the woken threads run on, and the upload goes on     *)
(* while it is not paused.                                                 *)
CacheFairness ==
  /\ WF_vars(part = "cache" /\ LoopStep /\ UNCHANGED <<part, rb, cd>>)
  /\ \A t \in Writers : WF_vars(part = "cache" /\ ThreadStep(t) /\ UNCHANGED <<part, rb, cd>>)
  /\ WF_vars(part = "cache" /\ (\E i \in CacheFiles : UploadBlock(i)) /\ UNCHANGED <<part, rb, cd>>)

(* The workers run on, and the monitor notices that the backend is back.   *)
RebuildFairness ==
  /\ \A t \in Workers : WF_vars(part = "rebuild" /\ Worker(t) /\ UNCHANGED <<part, cl, cd>>)
  /\ WF_vars(part = "rebuild" /\ GoOnline /\ UNCHANGED <<part, cl, cd>>)
  /\ WF_vars(part = "rebuild" /\ wake_sb_rebuilder /\ UNCHANGED <<part, cl, cd>>)

(* Every thread of the deletion goes on running.                           *)
Collects(d) == FetchMeta(d) \/ SetCreated(d) \/ WaitBlocks(d) \/ JoinMeta(d)
               \/ update_backend_stat(d) \/ dsync_single_inode(d)
DeleteFairness ==
  /\ WF_vars(part = "delete" /\ delete_loop /\ UNCHANGED <<part, cl, rb>>)
  /\ WF_vars(part = "delete" /\ collect_finished_delete_threads /\ UNCHANGED <<part, cl, rb>>)
  /\ \A d \in Dsyncs :
       /\ WF_vars(part = "delete" /\ Collects(d) /\ UNCHANGED <<part, cl, rb>>)
       /\ WF_vars(part = "delete" /\ (DeleteBlock(d) \/ DeleteMeta(d)) /\ UNCHANGED <<part, cl, rb>>)
       /\ WF_vars(part = "delete" /\ _dsync_terminate_thread(d) /\ UNCHANGED <<part, cl, rb>>)
  /\ \A l \in Deletes : WF_vars(part = "delete" /\ con_object_dsync(l) /\ UNCHANGED <<part, cl, rb>>)

Spec == Init /\ [][Next]_vars /\ CacheFairness /\ RebuildFairness /\ DeleteFairness

(* sleep_on_cache_full: a thread that waits for room in the cache goes on  *)
(* in the end, while uploads go on or when they are paused, unless it went *)
(* to sleep between the loop's last look at the sleepers and its own, or a *)
(* file was made smaller (hcfs_cacheops.c:612 and 347).                    *)
SleepersWake ==
  \A t \in Writers : (part = "cache" /\ cl.th[t] = "asleep")
                       ~> (part = "cache" /\ (cl.th[t] # "asleep" \/ cl.slipped \/ cl.shrunk))

(* rebuild_sb_worker: the walk over all file systems ends, although        *)
(* workers park while the backend is offline and push new jobs that only a *)
(* parked one may take.                                                    *)
RebuildEnds == <>(part # "rebuild" \/ rb.done \/ rb.down)

(* delete_loop: as requests fail only a bounded number of times, every     *)
(* number queued is freed in the end, unless a finished delete thread      *)
(* waits for the next one to be announced (hcfs_clouddelete.c:728).        *)
DeletionEnds == <>(part # "delete" \/ cd.gone = Doomed \/ Unannounced)
=============================================================================
