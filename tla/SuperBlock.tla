----------------------------- MODULE SuperBlock -----------------------------
(***************************************************************************)
(* The HCFS super block: one entry per inode number, and the head with the *)
(* dirty queue, the to-delete queue, the pinning queue, the list of        *)
(* reclaimed inode numbers and the sync point (super_block.c,              *)
(* syncpoint_control.c).                                                   *)
(*                                                                         *)
(* Every operation runs under super_block_exclusive_locking (module        *)
(* SuperBlockLock), so each is one action.  Times, sizes, generations and  *)
(* the I/O error returns are left out, and so are the full scan that       *)
(* rebuilds the reclaimed list and the recovery of a corrupted super block *)
(* (now_reclaim_fullscan and sb_recovery_meta.is_ongoing are FALSE).       *)
(***************************************************************************)
EXTENDS LinkedList, Integers, Sequences, FiniteSetsExt

CONSTANTS
  MaxInode,         \* inode numbers are 2..MaxInode; NO_META_SPACE() beyond
  RECLAIM_TRIGGER,  \* super_block_reclaim does nothing below this count
  SYNC_RETRY_TIMES  \* rounds a sync point is set again on a dirty system

ASSUME SuperBlockAssumption ==
  /\ MaxInode \in Nat \ {0, 1}
  /\ RECLAIM_TRIGGER \in Nat
  /\ SYNC_RETRY_TIMES \in Nat

Inodes == 2..MaxInode
Inode0 == Inodes \cup {0}
Queue == {"IS_DIRTY", "TO_BE_DELETED"}
Status == Queue \cup {"NO_LL", "TO_BE_RECLAIMED", "RECLAIMED"}
PinStatus == {"ST_DEL", "ST_UNPIN", "ST_PINNING", "ST_PIN"}

VARIABLES
  ll,            \* status, util_ll_next/prev of the entries; the two queues
  pl,            \* pin_status, pin_ll_next/prev; the pinning queue
  exists,        \* inode_stat.ino # 0
  in_transit, mod_after_in_transit,
  head,          \* inode counts and the reclaimed list
  unclaimed,     \* the unclaimed_list file
  sp             \* the sync point

vars == <<ll, pl, exists, in_transit, mod_after_in_transit, head, unclaimed, sp>>

-----------------------------------------------------------------------------
(***************************************************************************)
(* Sync point.  point[q] is the inode of queue q up to which everything    *)
(* has to leave, done[q] says it has.  owed is a history: the inodes the   *)
(* current round still has to see leaving.                                 *)
(***************************************************************************)
NoSyncPoint ==
  [set |-> FALSE, retry |-> 0, owed |-> {},
   point |-> [q \in Queue |-> 0], done |-> [q \in Queue |-> TRUE]]

Members(L, q) == {k \in Inodes : L.status[k] = q}

(* Inode i is about to leave queue q and both halves of the sync point are *)
(* done: start another round if something other than i is queued.          *)
StillQueued(L, q, i, r) == L.last[r] # (IF r = q THEN i ELSE 0)

check_sync_complete(S, L, q, i) ==
  IF \E r \in Queue : ~S.done[r]
  THEN S
  ELSE IF S.retry > 0 /\ \E r \in Queue : StillQueued(L, q, i, r)
  THEN [S EXCEPT
         !.point = [r \in Queue |-> IF StillQueued(L, q, i, r) THEN L.last[r]
                                    ELSE S.point[r]],
         !.done = [r \in Queue |-> ~StillQueued(L, q, i, r)],
         !.retry = @ - 1,
         !.owed = {k \in Inodes : L.status[k] \in Queue /\ k # i}]
  ELSE [NoSyncPoint EXCEPT !.owed = S.owed]

(* Variant for testing SyncPointCovers: the point moves to the next inode. *)
move_sync_point_forward(S, L, q, i) ==
  LET hit == ~S.done[q] /\ S.point[q] = i
      p == IF hit THEN L.next[i] ELSE S.point[q]
      fin == ~S.done[q] /\ p = 0
      S1 == [S EXCEPT !.point[q] = p, !.done[q] = @ \/ fin, !.owed = @ \ {i}]
  IN IF ~S.set THEN S
     ELSE IF hit \/ fin THEN check_sync_complete(S1, L, q, i)
     ELSE S1

move_sync_point(S, L, q, i) ==
  LET hit == ~S.done[q] /\ S.point[q] = i
      p == IF hit THEN L.prev[i] ELSE S.point[q]
      fin == ~S.done[q] /\ p = 0
      S1 == [S EXCEPT !.point[q] = p, !.done[q] = @ \/ fin, !.owed = @ \ {i}]
  IN IF ~S.set THEN S
     ELSE IF hit \/ fin THEN check_sync_complete(S1, L, q, i)
     ELSE S1

-----------------------------------------------------------------------------
(***************************************************************************)
(* ll_enqueue and ll_dequeue on the dirty and to-delete queues.  L.order   *)
(* is the order-of-arrival history of LinkedList.                          *)
(***************************************************************************)
ll_dequeue(L, i) ==
  LET q == L.status[i] IN
  IF q \notin Queue THEN L
  ELSE [status |-> [L.status EXCEPT ![i] = "NO_LL"],
        next |-> UnlinkNext(L.next, L.prev, i),
        prev |-> UnlinkPrev(L.next, L.prev, i),
        first |-> [L.first EXCEPT ![q] = UnlinkFirst(L.next, L.prev, @, i)],
        last |-> [L.last EXCEPT ![q] = UnlinkLast(L.next, L.prev, @, i)],
        num |-> [L.num EXCEPT ![q] = @ - 1],
        order |-> UnlinkOrder(L.order, i)]

(* The sync point side of ll_dequeue; it runs before the unlinking.        *)
dequeue_sync_point(S, L, i) ==
  IF L.status[i] \in Queue THEN move_sync_point(S, L, L.status[i], i) ELSE S

(* Called with an entry that is in no queue.                               *)
ll_enqueue(L, i, q) ==
  [status |-> [L.status EXCEPT ![i] = q],
   next |-> AppendNext(L.next, L.first[q], L.last[q], i),
   prev |-> AppendPrev(L.prev, L.first[q], L.last[q], i),
   first |-> [L.first EXCEPT ![q] = AppendFirst(@, i)],
   last |-> [L.last EXCEPT ![q] = i],
   num |-> [L.num EXCEPT ![q] = @ + 1],
   order |-> AppendOrder(L.order, Members(L, q), i)]

(* need_rebuild in ll_dequeue and in ll_enqueue: the dirty queue is found  *)
(* corrupted and ll_rebuild_dirty is called.                               *)
DequeueNeedsRebuild(L, i) ==
  \/ IF L.next[i] = 0 THEN L.last["IS_DIRTY"] # i ELSE L.prev[L.next[i]] # i
  \/ IF L.prev[i] = 0 THEN L.first["IS_DIRTY"] # i ELSE L.next[L.prev[i]] # i

EnqueueNeedsRebuild(L) ==
  LET l == L.last["IS_DIRTY"] IN
  /\ L.first["IS_DIRTY"] # 0
  /\ \/ L.next[l] # 0
     \/ L.prev[l] # 0 /\ L.next[L.prev[l]] # l

-----------------------------------------------------------------------------
(* The pinning queue.                                                      *)
pin_ll_enqueue(P, i) ==
  [status |-> [P.status EXCEPT ![i] = "ST_PINNING"],
   next |-> AppendNext(P.next, P.last, P.last, i),
   prev |-> AppendPrev(P.prev, P.last, P.last, i),
   first |-> IF P.last = 0 THEN i ELSE P.first,
   last |-> i,
   num |-> P.num + 1,
   order |-> AppendOrder(P.order, {k \in Inodes : P.status[k] = "ST_PINNING"}, i)]

(* The status is set by the caller; nothing changes unless ST_PINNING.     *)
pin_ll_dequeue(P, i, new) ==
  IF P.status[i] # "ST_PINNING" THEN [P EXCEPT !.status[i] = new]
  ELSE [status |-> [P.status EXCEPT ![i] = new],
        next |-> UnlinkNext(P.next, P.prev, i),
        prev |-> UnlinkPrev(P.next, P.prev, i),
        first |-> UnlinkFirst(P.next, P.prev, P.first, i),
        last |-> UnlinkLast(P.next, P.prev, P.last, i),
        num |-> P.num - 1,
        order |-> UnlinkOrder(P.order, i)]

-----------------------------------------------------------------------------
Init ==
  /\ ll = [status |-> [i \in Inodes |-> "NO_LL"],
           next |-> [i \in Inodes |-> 0], prev |-> [i \in Inodes |-> 0],
           first |-> [q \in Queue |-> 0], last |-> [q \in Queue |-> 0],
           num |-> [q \in Queue |-> 0], order |-> {}]
  /\ pl = [status |-> [i \in Inodes |-> "ST_DEL"],
           next |-> [i \in Inodes |-> 0], prev |-> [i \in Inodes |-> 0],
           first |-> 0, last |-> 0, num |-> 0, order |-> {}]
  /\ exists = [i \in Inodes |-> FALSE]
  /\ in_transit = [i \in Inodes |-> FALSE]
  /\ mod_after_in_transit = [i \in Inodes |-> FALSE]
  /\ head = [num_total |-> 0, num_active |-> 0, first_reclaimed |-> 0,
             last_reclaimed |-> 0, num_reclaimed |-> 0, num_to_be_reclaimed |-> 0]
  /\ unclaimed = <<>>
  /\ sp = NoSyncPoint

Allocated(i) == i <= head.num_total + 1

(* Between super_block_to_delete and super_block_delete.                   *)
Deleting(i) == Allocated(i) /\ ~exists[i] /\ ll.status[i] \in {"NO_LL", "TO_BE_DELETED"}

(* memset of a fresh entry: status NO_LL, no links, not in transit.        *)
FreshEntry(i, pin) ==
  /\ ll' = [ll EXCEPT !.status[i] = "NO_LL", !.next[i] = 0, !.prev[i] = 0]
  /\ pl' = [pl EXCEPT !.status[i] = pin, !.next[i] = 0, !.prev[i] = 0]
  /\ exists' = [exists EXCEPT ![i] = TRUE]
  /\ in_transit' = [in_transit EXCEPT ![i] = FALSE]
  /\ mod_after_in_transit' = [mod_after_in_transit EXCEPT ![i] = FALSE]
  /\ UNCHANGED <<unclaimed, sp>>

(* super_block_new_inode: the head of the reclaimed list if it is not      *)
(* empty, the next unused number otherwise.                                *)
NewReclaimedInode(pin) ==
  LET i == head.first_reclaimed
      n == ll.next[i]
  IN /\ head.num_reclaimed > 0
     /\ head' = [head EXCEPT
          !.num_active = @ + 1,
          !.first_reclaimed = n,
          !.last_reclaimed = IF n = 0 THEN 0 ELSE @,
          !.num_reclaimed = IF n = 0 THEN 0 ELSE @ - 1]
     /\ FreshEntry(i, pin)

NewAppendedInode(pin) ==
  LET i == head.num_total + 2 IN
  /\ head.num_reclaimed = 0
  /\ i <= MaxInode
  /\ head' = [head EXCEPT !.num_active = @ + 1, !.num_total = @ + 1]
  /\ FreshEntry(i, pin)

(* super_block_update_stat with no_sync = FALSE.                           *)
super_block_update_stat(i) ==
  /\ exists[i]
  /\ IF ll.status[i] = "IS_DIRTY" THEN UNCHANGED <<ll, sp>>
     ELSE /\ ll' = ll_enqueue(ll_dequeue(ll, i), i, "IS_DIRTY")
          /\ sp' = dequeue_sync_point(sp, ll, i)
  /\ mod_after_in_transit' = [mod_after_in_transit EXCEPT ![i] = @ \/ in_transit[i]]
  /\ UNCHANGED <<pl, exists, in_transit, head, unclaimed>>

(* Variant for testing RemovedIsQuiet: no check for a removed inode.       *)
mark_dirty_removed(i) ==
  /\ Allocated(i)
  /\ ll' = IF ll.status[i] = "NO_LL" THEN ll_enqueue(ll, i, "IS_DIRTY") ELSE ll
  /\ mod_after_in_transit' = [mod_after_in_transit EXCEPT ![i] = @ \/ in_transit[i]]
  /\ UNCHANGED <<pl, exists, in_transit, head, unclaimed, sp>>

super_block_mark_dirty(i) ==
  /\ exists[i]
  /\ ll' = IF ll.status[i] = "NO_LL" THEN ll_enqueue(ll, i, "IS_DIRTY") ELSE ll
  /\ mod_after_in_transit' = [mod_after_in_transit EXCEPT ![i] = @ \/ in_transit[i]]
  /\ UNCHANGED <<pl, exists, in_transit, head, unclaimed, sp>>

(* upload_loop picks a dirty inode that is not in transit yet.             *)
BeginTransit(i) ==
  /\ ll.status[i] = "IS_DIRTY"
  /\ ~in_transit[i]
  /\ in_transit' = [in_transit EXCEPT ![i] = TRUE]
  /\ mod_after_in_transit' = [mod_after_in_transit EXCEPT ![i] = FALSE]
  /\ UNCHANGED <<ll, pl, exists, head, unclaimed, sp>>

(* Variant for testing CountsOK: the re-queued inode is counted again.      *)
update_transit_recount(i, incomplete) ==
  LET leaves == ll.status[i] = "IS_DIRTY" /\ ~incomplete
      requeue == leaves /\ mod_after_in_transit[i] /\ sp.set
      drop == leaves /\ ~mod_after_in_transit[i]
  IN /\ Allocated(i)
     /\ ll' = IF requeue THEN [ll_enqueue(ll_dequeue(ll, i), i, "IS_DIRTY")
                               EXCEPT !.num["IS_DIRTY"] = ll.num["IS_DIRTY"] + 1]
              ELSE IF drop THEN ll_dequeue(ll, i)
              ELSE ll
     /\ sp' = IF requeue \/ drop THEN dequeue_sync_point(sp, ll, i) ELSE sp
     /\ in_transit' = [in_transit EXCEPT ![i] = FALSE]
     /\ mod_after_in_transit' = [mod_after_in_transit EXCEPT ![i] = FALSE]
     /\ UNCHANGED <<pl, exists, head, unclaimed>>

(* super_block_update_transit at the end of an upload.                     *)
super_block_update_transit(i, incomplete) ==
  LET leaves == ll.status[i] = "IS_DIRTY" /\ ~incomplete
      requeue == leaves /\ mod_after_in_transit[i] /\ sp.set
      drop == leaves /\ ~mod_after_in_transit[i]
  IN /\ Allocated(i)
     /\ ll' = IF requeue THEN ll_enqueue(ll_dequeue(ll, i), i, "IS_DIRTY")
              ELSE IF drop THEN ll_dequeue(ll, i)
              ELSE ll
     /\ sp' = IF requeue \/ drop THEN dequeue_sync_point(sp, ll, i) ELSE sp
     /\ in_transit' = [in_transit EXCEPT ![i] = FALSE]
     /\ mod_after_in_transit' = [mod_after_in_transit EXCEPT ![i] = FALSE]
     /\ UNCHANGED <<pl, exists, head, unclaimed>>

(* Variant for testing TypeOK: the inode may already be on its way out.    *)
to_delete_twice(i, enqueue_now) ==
  /\ Allocated(i) /\ ll.status[i] \in {"NO_LL", "IS_DIRTY"}
  /\ pl' = pin_ll_dequeue(pl, i, "ST_DEL")
  /\ ll' = IF enqueue_now THEN ll_enqueue(ll_dequeue(ll, i), i, "TO_BE_DELETED")
           ELSE ll_dequeue(ll, i)
  /\ sp' = dequeue_sync_point(sp, ll, i)
  /\ head' = [head EXCEPT !.num_active = @ - 1]
  /\ in_transit' = [in_transit EXCEPT ![i] = FALSE]
  /\ exists' = [exists EXCEPT ![i] = FALSE]
  /\ UNCHANGED <<mod_after_in_transit, unclaimed>>

(* Variant for testing PinQueueFIFO: the entry stays in the pinning queue. *)
to_delete_keeps_pin(i, enqueue_now) ==
  /\ exists[i]
  /\ pl' = [pl EXCEPT !.status[i] = "ST_DEL"]
  /\ ll' = IF enqueue_now THEN ll_enqueue(ll_dequeue(ll, i), i, "TO_BE_DELETED")
           ELSE ll_dequeue(ll, i)
  /\ sp' = dequeue_sync_point(sp, ll, i)
  /\ head' = [head EXCEPT !.num_active = @ - 1]
  /\ in_transit' = [in_transit EXCEPT ![i] = FALSE]
  /\ exists' = [exists EXCEPT ![i] = FALSE]
  /\ UNCHANGED <<mod_after_in_transit, unclaimed>>

(* The function itself does not look whether the inode is active before it *)
(* takes one off num_active_inodes.  exists[i] is what its callers make    *)
(* sure of: each gets there only when it has just moved or removed the     *)
(* metadata file (metaops.c:642, 1501, 1573), so once per inode, or has    *)
(* just made the entry (hfuse_system.c:545).                               *)
super_block_to_delete(i, enqueue_now) ==
  /\ exists[i]
  /\ pl' = pin_ll_dequeue(pl, i, "ST_DEL")
  /\ ll' = IF enqueue_now THEN ll_enqueue(ll_dequeue(ll, i), i, "TO_BE_DELETED")
           ELSE ll_dequeue(ll, i)
  /\ sp' = dequeue_sync_point(sp, ll, i)
  /\ head' = [head EXCEPT !.num_active = @ - 1]
  /\ in_transit' = [in_transit EXCEPT ![i] = FALSE]
  /\ exists' = [exists EXCEPT ![i] = FALSE]
  /\ UNCHANGED <<mod_after_in_transit, unclaimed>>

(* -EINVAL unless the status is NO_LL.                                     *)
super_block_enqueue_delete(i) ==
  /\ Deleting(i)
  /\ ll.status[i] = "NO_LL"
  /\ ll' = ll_enqueue(ll, i, "TO_BE_DELETED")
  /\ UNCHANGED <<pl, exists, in_transit, mod_after_in_transit, head, unclaimed, sp>>

super_block_delete(i) ==
  /\ Deleting(i)
  /\ pl' = pin_ll_dequeue(pl, i, "ST_DEL")
  /\ ll' = [ll_dequeue(ll, i) EXCEPT !.status[i] = "TO_BE_RECLAIMED"]
  /\ sp' = dequeue_sync_point(sp, ll, i)
  /\ in_transit' = [in_transit EXCEPT ![i] = FALSE]
  /\ unclaimed' = Append(unclaimed, i)
  /\ head' = [head EXCEPT !.num_to_be_reclaimed = @ + 1]
  /\ UNCHANGED <<exists, mod_after_in_transit>>

(* Variant for testing ReclaimListExact: the list is not truncated.        *)
reclaim_keeps_list ==
  LET R == {i \in Inodes : /\ \E n \in 1..Len(unclaimed) : unclaimed[n] = i
                           /\ Allocated(i) /\ ll.status[i] = "TO_BE_RECLAIMED"}
      above(i) == {j \in R : j > i}
  IN /\ head.num_to_be_reclaimed >= RECLAIM_TRIGGER
     /\ ll' = [ll EXCEPT
          !.status = [i \in Inodes |-> IF i \in R THEN "RECLAIMED" ELSE @[i]],
          !.next = [i \in Inodes |->
                      IF i \notin R THEN @[i]
                      ELSE IF above(i) = {} THEN head.first_reclaimed
                      ELSE Min(above(i))]]
     /\ head' = [head EXCEPT
          !.first_reclaimed = IF R = {} THEN @ ELSE Min(R),
          !.last_reclaimed = IF R = {} \/ @ # 0 THEN @ ELSE Max(R),
          !.num_reclaimed = @ + Cardinality(R),
          !.num_to_be_reclaimed = 0]
     /\ unclaimed' = unclaimed
     /\ UNCHANGED <<pl, exists, in_transit, mod_after_in_transit, sp>>

(* The largest number goes in front of the reclaimed list first, so the    *)
(* batch ends up sorted in front of what was there.                        *)
super_block_reclaim ==
  LET R == {i \in Inodes : /\ \E n \in 1..Len(unclaimed) : unclaimed[n] = i
                           /\ Allocated(i) /\ ll.status[i] = "TO_BE_RECLAIMED"}
      above(i) == {j \in R : j > i}
  IN /\ head.num_to_be_reclaimed >= RECLAIM_TRIGGER
     /\ ll' = [ll EXCEPT
          !.status = [i \in Inodes |-> IF i \in R THEN "RECLAIMED" ELSE @[i]],
          !.next = [i \in Inodes |->
                      IF i \notin R THEN @[i]
                      ELSE IF above(i) = {} THEN head.first_reclaimed
                      ELSE Min(above(i))]]
     /\ head' = [head EXCEPT
          !.first_reclaimed = IF R = {} THEN @ ELSE Min(R),
          !.last_reclaimed = IF R = {} \/ @ # 0 THEN @ ELSE Max(R),
          !.num_reclaimed = @ + Cardinality(R),
          !.num_to_be_reclaimed = 0]
     /\ unclaimed' = <<>>
     /\ UNCHANGED <<pl, exists, in_transit, mod_after_in_transit, sp>>

-----------------------------------------------------------------------------
(* Pinning: only a regular file has blocks to fetch and is queued.         *)
super_block_mark_pin(i, isreg) ==
  /\ Allocated(i)
  /\ pl.status[i] = "ST_UNPIN"
  /\ pl' = IF isreg THEN pin_ll_enqueue(pl, i) ELSE [pl EXCEPT !.status[i] = "ST_PIN"]
  /\ UNCHANGED <<ll, exists, in_transit, mod_after_in_transit, head, unclaimed, sp>>

super_block_mark_unpin(i) ==
  /\ pl.status[i] \in {"ST_PINNING", "ST_PIN"}
  /\ pl' = pin_ll_dequeue(pl, i, "ST_UNPIN")
  /\ UNCHANGED <<ll, exists, in_transit, mod_after_in_transit, head, unclaimed, sp>>

super_block_finish_pinning(i) ==
  /\ pl.status[i] = "ST_PINNING"
  /\ pl' = pin_ll_dequeue(pl, i, "ST_PIN")
  /\ UNCHANGED <<ll, exists, in_transit, mod_after_in_transit, head, unclaimed, sp>>

(* A set sync point is overwritten.                                        *)
super_block_set_syncpoint ==
  /\ \E q \in Queue : ll.last[q] # 0
  /\ sp' = [set |-> TRUE, retry |-> SYNC_RETRY_TIMES,
            owed |-> {i \in Inodes : ll.status[i] \in Queue},
            point |-> [q \in Queue |-> IF ll.last[q] # 0 THEN ll.last[q] ELSE sp.point[q]],
            done |-> [q \in Queue |-> ll.last[q] = 0]]
  /\ UNCHANGED <<ll, pl, exists, in_transit, mod_after_in_transit, head, unclaimed>>

super_block_cancel_syncpoint ==
  /\ sp.set
  /\ sp' = NoSyncPoint
  /\ UNCHANGED <<ll, pl, exists, in_transit, mod_after_in_transit, head, unclaimed>>

Next ==
  \/ \E pin \in {"ST_PIN", "ST_UNPIN"} : NewReclaimedInode(pin) \/ NewAppendedInode(pin)
  \/ \E i \in Inodes :
       \/ super_block_update_stat(i)
       \/ super_block_mark_dirty(i)
       \/ BeginTransit(i)
       \/ \E incomplete \in BOOLEAN : super_block_update_transit(i, incomplete)
       \/ \E enqueue_now \in BOOLEAN : super_block_to_delete(i, enqueue_now)
       \/ super_block_enqueue_delete(i)
       \/ super_block_delete(i)
       \/ \E isreg \in BOOLEAN : super_block_mark_pin(i, isreg)
       \/ super_block_mark_unpin(i)
       \/ super_block_finish_pinning(i)
  \/ super_block_reclaim
  \/ super_block_set_syncpoint
  \/ super_block_cancel_syncpoint

Spec == Init /\ [][Next]_vars

-----------------------------------------------------------------------------
Links == [Inodes -> Inode0]

(* Type invariant.                                                         *)
TypeOK ==
  /\ ll \in [status : [Inodes -> Status], next : Links, prev : Links,
             first : [Queue -> Inode0], last : [Queue -> Inode0],
             num : [Queue -> Nat], order : SUBSET (Inodes \X Inodes)]
  /\ pl \in [status : [Inodes -> PinStatus], next : Links, prev : Links,
             first : Inode0, last : Inode0, num : Nat,
             order : SUBSET (Inodes \X Inodes)]
  /\ exists \in [Inodes -> BOOLEAN]
  /\ in_transit \in [Inodes -> BOOLEAN]
  /\ mod_after_in_transit \in [Inodes -> BOOLEAN]
  /\ head \in [num_total : Nat, num_active : Nat, first_reclaimed : Inode0,
               last_reclaimed : Inode0, num_reclaimed : Nat,
               num_to_be_reclaimed : Nat]
  /\ unclaimed \in Seq(Inodes)
  /\ sp \in [set : BOOLEAN, retry : Nat, owed : SUBSET Inodes,
             point : [Queue -> Inode0], done : [Queue -> BOOLEAN]]

(* The dirty and the to-delete queue hold exactly the entries with that    *)
(* status, linked in both directions in the order in which they were       *)
(* enqueued, and first/last_*_inode are the oldest and the youngest.       *)
QueuesFIFO ==
  \A q \in Queue :
     FIFO(Members(ll, q), ll.next, ll.prev, ll.first[q], ll.last[q], ll.order)

(* The same for the pinning queue and pin_status ST_PINNING.               *)
PinQueueFIFO ==
  FIFO({i \in Inodes : pl.status[i] = "ST_PINNING"},
       pl.next, pl.prev, pl.first, pl.last, pl.order)

(* num_dirty, num_to_be_deleted, num_pinning_inodes and num_active_inodes  *)
(* count the entries they stand for, through every detour an entry takes.  *)
CountsOK ==
  /\ \A q \in Queue : ll.num[q] = Cardinality(Members(ll, q))
  /\ pl.num = Cardinality({i \in Inodes : pl.status[i] = "ST_PINNING"})
  /\ head.num_active = Cardinality({i \in Inodes : exists[i]})

(* Without a crash the code's own corruption checks never fire, whatever   *)
(* the order of operations: ll_rebuild_dirty is not called.                *)
NeverRebuilds ==
  /\ \A i \in Inodes : ll.status[i] = "IS_DIRTY" => ~DequeueNeedsRebuild(ll, i)
  /\ ~EnqueueNeedsRebuild(ll)

(* The sync point stands on the youngest inode that is still owed, so the  *)
(* completion event is only sent when every inode that was queued when the *)
(* round began has left its queue; a set sync point is never stuck with    *)
(* nothing to wait for.                                                    *)
SyncPointCovers ==
  /\ ~sp.set => sp.owed = {}
  /\ sp.set => \E q \in Queue : ~sp.done[q]
  /\ \A q \in Queue :
       IF sp.set /\ ~sp.done[q]
       THEN /\ sp.point[q] \in Members(ll, q)
            /\ sp.owed \cap Members(ll, q) =
                 {k \in Members(ll, q) : k = sp.point[q] \/ <<k, sp.point[q]>> \in ll.order}
       ELSE sp.owed \cap Members(ll, q) = {}
  /\ \A i \in sp.owed : ll.status[i] \in Queue

(* A removed inode is in no upload or pinning queue, and a live one is     *)
(* neither waiting for deletion nor for reclaiming.                        *)
RemovedIsQuiet ==
  \A i \in Inodes :
     /\ ~exists[i] => /\ ll.status[i] # "IS_DIRTY" /\ ~in_transit[i]
                      /\ pl.status[i] = "ST_DEL"
     /\ exists[i] => ll.status[i] \in {"NO_LL", "IS_DIRTY"} /\ Allocated(i)

(* The reclaimed list that super_block_new_inode pops from holds each      *)
(* RECLAIMED number once and nothing else, num_inode_reclaimed is its      *)
(* length, and the unclaimed list holds each TO_BE_RECLAIMED number once:  *)
(* no inode number is lost and none is handed out twice.                   *)
Reclaimed(L) == {i \in Inodes : L.status[i] = "RECLAIMED"}
Parked(L) == {i \in Inodes : L.status[i] = "TO_BE_RECLAIMED"}
Entries(s) == {s[n] : n \in 1..Len(s)}

ReclaimListExact ==
  /\ Listed(Reclaimed(ll), ll.next, head.first_reclaimed, head.last_reclaimed)
  /\ Cardinality(Reclaimed(ll)) = head.num_reclaimed
  /\ Entries(unclaimed) = Parked(ll)
  /\ Cardinality(Parked(ll)) = Len(unclaimed)
  /\ Len(unclaimed) = head.num_to_be_reclaimed
=============================================================================
