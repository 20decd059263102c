----------------------------- MODULE CloudDelete -----------------------------
(***************************************************************************)
(* hcfs_clouddelete.c: the deletion of inodes from the cloud.  delete_loop *)
(* walks the queue of numbers to be deleted and gives each to a dsync      *)
(* thread; that thread fetches the inode's metadata from the cloud, has    *)
(* its blocks deleted by the delete threads, then the metadata, and frees  *)
(* the number.  Two collectors take back the finished threads.  Requests   *)
(* fail, and the program may stop at any step: the queue is on disk.       *)
(***************************************************************************)
EXTENDS Naturals, Sequences, SequencesExt, FiniteSets

CONSTANTS CloudBlocks,            \* inode to be deleted -> its blocks in the cloud
          MAX_DSYNC_CONCURRENCY, MAX_DELETE_CONCURRENCY,
          MaxDeleteFails,         \* bound: requests that fail
          MaxDeleteCrashes        \* bound: restarts

ASSUME CloudDeleteAssumption ==
  /\ MAX_DSYNC_CONCURRENCY \in Nat \ {0} /\ MAX_DELETE_CONCURRENCY \in Nat \ {0}
  /\ IsFiniteSet(DOMAIN CloudBlocks) /\ 0 \notin DOMAIN CloudBlocks
  /\ \A i \in DOMAIN CloudBlocks : "meta" \notin CloudBlocks[i]

VARIABLE cd  \* queue (to-delete list), check (inode_to_check), retry (retry_list),
             \* ds (dsync threads), del (delete threads), pause (a finished delete
             \* thread is announced), objs (objects in the cloud), gone (numbers
             \* freed), fails, crashes; histories: counted (times update_backend_stat
             \* took the inode off), leaked (metadata whose deletion failed),
             \* torn (inodes whose fetched metadata could not be read to the end)

Doomed == DOMAIN CloudBlocks
Dsyncs == 1..MAX_DSYNC_CONCURRENCY
Deletes == 1..MAX_DELETE_CONCURRENCY
FreeDsync == [ino |-> 0, pc |-> "none", todo |-> {}, err |-> FALSE, again |-> FALSE, slot |-> 0]
FreeDelete == [ino |-> 0, obj |-> "none", ds |-> 0, created |-> FALSE, done |-> FALSE, err |-> FALSE]

Active == {d \in Dsyncs : cd.ds[d].ino # 0}
FreeSlots == {l \in Deletes : cd.del[l].ino = 0}

-----------------------------------------------------------------------------
init_dsync_control == [d \in Dsyncs |-> FreeDsync]
init_delete_control == [l \in Deletes |-> FreeDelete]

(* Whose turn it is: a number to retry, else the next of the walk, else    *)
(* the head of the queue.                                                  *)
ToCheck == IF cd.retry # <<>> THEN Head(cd.retry)
           ELSE IF cd.check # 0 THEN cd.check
           ELSE IF cd.queue = <<>> THEN 0 ELSE cd.queue[1]
Position(i) == CHOOSE k \in DOMAIN cd.queue : cd.queue[k] = i
NextInQueue(i) == IF Position(i) < Len(cd.queue) THEN cd.queue[Position(i) + 1] ELSE 0

(* An error handed to a slot out of use is not taken back here.            *)
_dsync_use_thread(r, d, i) ==
  [r EXCEPT !.ds[d] = [@ EXCEPT !.ino = i, !.pc = "fetch"]]

delete_loop ==
  LET i == ToCheck
      listed == i \in ToSet(cd.queue)
      r == [cd EXCEPT !.retry = IF @ = <<>> THEN @ ELSE Tail(@),
                      !.check = IF listed THEN NextInQueue(i) ELSE 0]
      busy == \E d \in Active : cd.ds[d].ino = i
  IN /\ Len(cd.queue) > Cardinality(Active) /\ Active # Dsyncs
     /\ IF listed /\ ~busy
        THEN LET d == CHOOSE x \in Dsyncs \ Active : \A y \in Dsyncs \ Active : x <= y
             IN cd' = _dsync_use_thread(r, d, i)
        ELSE cd' = r

Finished(r, d) == [r EXCEPT !.ds[d].pc = "finished"]
dsync_super_block_delete(r, i) ==
  [r EXCEPT !.queue = IF i \in ToSet(@) THEN RemoveAt(@, Position(i)) ELSE @, !.gone = @ \cup {i}]

(* fetch_from_cloud: without metadata in the cloud there is nothing to     *)
(* delete; any other error leaves the number queued.  But the number is    *)
(* freed when _read_backend_meta cannot read what was fetched, and all the *)
(* inode's objects stay in the cloud.                                      *)
FetchMeta(d) ==
  LET i == cd.ds[d].ino IN
  /\ cd.ds[d].pc = "fetch"
  /\ \/ /\ "meta" \in cd.objs[i]
        /\ cd' = [cd EXCEPT !.ds[d].pc = "blocks", !.ds[d].todo = CloudBlocks[i]]
     \/ /\ "meta" \notin cd.objs[i]
        /\ cd' = Finished(dsync_super_block_delete(cd, i), d)
     \/ /\ cd.fails < MaxDeleteFails
        /\ cd' = [Finished(cd, d) EXCEPT !.fails = @ + 1]
     \/ /\ "meta" \in cd.objs[i] /\ cd.fails < MaxDeleteFails
        /\ cd' = [Finished(dsync_super_block_delete(cd, i), d) EXCEPT
                     !.fails = @ + 1, !.torn = @ \cup {i}]

_use_delete_thread(r, l, d, o) ==
  [r EXCEPT !.del[l] = [FreeDelete EXCEPT !.ino = cd.ds[d].ino, !.obj = o, !.ds = d],
            !.ds[d].slot = l]

(* A block: the thread runs before threads_created is set.                 *)
DeleteBlock(d) ==
  /\ cd.ds[d].pc = "blocks" /\ cd.ds[d].slot = 0
  /\ \E b \in cd.ds[d].todo, l \in FreeSlots :
       cd' = [_use_delete_thread(cd, l, d, b) EXCEPT !.ds[d].todo = @ \ {b}]

(* The walk goes on unless an error was handed to this thread.             *)
LeftToWalk(d) == IF cd.ds[d].err THEN {} ELSE cd.ds[d].todo

SetCreated(d) ==
  /\ cd.ds[d].pc = "blocks" /\ cd.ds[d].slot # 0
  /\ cd' = [cd EXCEPT !.del[cd.ds[d].slot].created = TRUE,
                      !.ds[d] = [@ EXCEPT !.slot = 0, !.todo = LeftToWalk(d)]]

(* After the walk, or where it breaks off.                                 *)
Walked(r, d) == IF r.ds[d].err THEN Finished(r, d) ELSE [r EXCEPT !.ds[d].pc = "meta"]

(* A page of blocks cannot be read: the rest of the walk and the wait for  *)
(* its delete threads are left out, and the metadata's turn comes.         *)
WalkFails(d) ==
  /\ cd.ds[d].pc = "blocks" /\ cd.ds[d].slot = 0 /\ cd.ds[d].todo # {}
  /\ cd.fails < MaxDeleteFails
  /\ cd' = [Walked(cd, d) EXCEPT !.fails = @ + 1,
                                 !.torn = IF cd.ds[d].err THEN @ ELSE @ \cup {cd.ds[d].ino}]

(* Variant for testing DeletedClean: the delete threads are not waited for. *)
WaitBlocks_early(d) ==
  /\ cd.ds[d].pc = "blocks" /\ cd.ds[d].slot = 0
  /\ cd.ds[d].todo = {}
  /\ cd' = Walked(cd, d)

(* The poll of delete_done, after the last block or after an error.        *)
WaitBlocks(d) ==
  /\ cd.ds[d].pc = "blocks" /\ cd.ds[d].slot = 0
  /\ cd.ds[d].todo = {}
  /\ \A l \in Deletes : cd.del[l].ino # cd.ds[d].ino
  /\ cd' = Walked(cd, d)

DeleteMeta(d) ==
  /\ cd.ds[d].pc = "meta"
  /\ \E l \in FreeSlots : cd' = [_use_delete_thread(cd, l, d, "meta") EXCEPT
                                   !.del[l].created = TRUE, !.ds[d].pc = "join"]

do_block_delete(r, l) == [r EXCEPT !.objs[r.del[l].ino] = @ \ {r.del[l].obj}]
do_meta_delete(r, l) == [r EXCEPT !.objs[r.del[l].ino] = @ \ {"meta"}]

(* An object that is not there counts as deleted.                          *)
con_object_dsync(l) ==
  LET t == cd.del[l]
      r == [cd EXCEPT !.del[l].done = TRUE, !.pause = TRUE]
  IN /\ t.ino # 0 /\ ~t.done
     /\ \/ cd' = IF t.obj = "meta" THEN do_meta_delete(r, l) ELSE do_block_delete(r, l)
        \/ /\ cd.fails < MaxDeleteFails
           /\ cd' = [r EXCEPT !.del[l].err = TRUE, !.ds[t.ds].again = TRUE, !.fails = @ + 1,
                              !.leaked = IF t.obj = "meta" THEN @ \cup {t.ino} ELSE @]

(* The delete threads the collector takes back: finished, and created.     *)
Collectable(l) ==
  LET t == cd.del[l] IN t.ino # 0 /\ t.obj # "meta" /\ t.done /\ t.created

(* One pass over the delete threads; an error is handed to the dsync       *)
(* thread that asked.                                                      *)
_delete_terminate_thread(r, L) ==
  [r EXCEPT !.del = [l \in Deletes |-> IF l \in L THEN FreeDelete ELSE r.del[l]],
            !.ds = [d \in Dsyncs |-> [r.ds[d] EXCEPT
                      !.err = @ \/ \E l \in L : r.del[l].ds = d /\ r.del[l].err]]]

collect_finished_delete_threads ==
  /\ cd.pause
  /\ cd' = _delete_terminate_thread([cd EXCEPT !.pause = FALSE], {l \in Deletes : Collectable(l)})

(* After the join only dsync_ctl.threads_error is looked at, which the     *)
(* failure of the metadata's deletion does not set.                        *)
JoinMeta(d) ==
  LET l == cd.ds[d].slot IN
  /\ cd.ds[d].pc = "join" /\ cd.del[l].done
  /\ cd' = [cd EXCEPT !.del[l] = FreeDelete, !.ds[d].slot = 0,
                      !.ds[d].pc = IF cd.ds[d].err THEN "finished" ELSE "stat"]

update_backend_stat(d) ==
  /\ cd.ds[d].pc = "stat"
  /\ cd' = [cd EXCEPT !.counted[cd.ds[d].ino] = @ + 1, !.ds[d].pc = "free"]

(* The number is freed: its todelete file, its progress files and its      *)
(* place in the queue go.                                                  *)
dsync_single_inode(d) ==
  /\ cd.ds[d].pc = "free"
  /\ cd' = Finished(dsync_super_block_delete(cd, cd.ds[d].ino), d)

(* Variant for testing DeletionEnds: a thread to be retried keeps its slot. *)
_dsync_terminate_thread_kept(d) ==
  /\ cd.ds[d].pc = "finished" /\ ~cd.ds[d].again
  /\ cd' = [cd EXCEPT !.ds[d] = FreeDsync]

(* The finished thread; its inode is retried at once when asked for.       *)
_dsync_terminate_thread(d) ==
  /\ cd.ds[d].pc = "finished"
  /\ cd' = [cd EXCEPT !.ds[d] = FreeDsync,
                      !.retry = IF cd.ds[d].again /\ Len(@) < MAX_DSYNC_CONCURRENCY
                                THEN Append(@, cd.ds[d].ino) ELSE @]

Restart ==
  /\ cd.crashes < MaxDeleteCrashes
  /\ cd' = [cd EXCEPT !.ds = init_dsync_control, !.del = init_delete_control, !.check = 0,
                      !.retry = <<>>, !.pause = FALSE, !.crashes = @ + 1]

CDInit ==
  cd = [queue |-> SetToSeq(Doomed), check |-> 0, retry |-> <<>>, ds |-> init_dsync_control,
        del |-> init_delete_control, pause |-> FALSE,
        objs |-> [i \in Doomed |-> CloudBlocks[i] \cup {"meta"}], gone |-> {},
        fails |-> 0, crashes |-> 0, counted |-> [i \in Doomed |-> 0], leaked |-> {},
        torn |-> {}]

CDThreads ==
  \/ delete_loop
  \/ collect_finished_delete_threads
  \/ \E d \in Dsyncs : FetchMeta(d) \/ DeleteBlock(d) \/ SetCreated(d) \/ WalkFails(d)
                       \/ WaitBlocks(d) \/ DeleteMeta(d) \/ JoinMeta(d) \/ update_backend_stat(d)
                       \/ dsync_single_inode(d) \/ _dsync_terminate_thread(d)
  \/ \E l \in Deletes : con_object_dsync(l)

CDNext == CDThreads \/ Restart

CDSpec == CDInit /\ [][CDNext]_cd

-----------------------------------------------------------------------------
CDTypeOK ==
  /\ \A i \in Doomed : cd.objs[i] \subseteq CloudBlocks[i] \cup {"meta"}
  /\ cd.gone \subseteq Doomed /\ ToSet(cd.queue) \subseteq Doomed

(* dsync_single_inode: whatever fails and wherever the program stops, when *)
(* a number is freed nothing of it is left in the cloud (but metadata whose *)
(* deletion failed), the metadata that names the blocks is never deleted   *)
(* before them, an inode has one dsync thread at most, and it is taken off *)
(* the backend's statistics once at most.  The two known ways to leave     *)
(* objects behind are those of torn: the fetched metadata cannot be read   *)
(* at all, or not to the end ("need to scrub").                            *)
DeletedClean ==
  /\ \A i \in cd.gone \ cd.torn : cd.objs[i] \subseteq (IF i \in cd.leaked THEN {"meta"} ELSE {})
  /\ \A i \in Doomed \ cd.torn : "meta" \in cd.objs[i] \/ cd.objs[i] = {}
  /\ \A d, e \in Active : cd.ds[d].ino = cd.ds[e].ino => d = e
  /\ \A i \in Doomed \ cd.leaked : cd.counted[i] <= 1
  /\ \A i \in Doomed : i \in cd.gone \/ i \in ToSet(cd.queue)

(* A finished delete thread that the collector passed over because         *)
(* threads_created was not yet set is not announced a second time.         *)
Unannounced == \E l \in Deletes : cd.del[l].done /\ cd.del[l].obj # "meta" /\ ~cd.pause
=============================================================================
