--------------------------- MODULE QueueRecovery ---------------------------
(***************************************************************************)
(* The dirty queue of the super block under crashes: the disk writes of    *)
(* ll_enqueue and ll_dequeue with their callers, one after another, the    *)
(* repair ll_rebuild_dirty, and recover_super_block.c, which relinks the   *)
(* dirty entries in batches while other threads keep changing the queue.   *)
(* Every operation runs under the exclusive lock of the super block, so    *)
(* that a crash is the only observer of its intermediate writes.           *)
(***************************************************************************)
EXTENDS LinkedList, Naturals, Sequences, SequencesExt, FiniteSets

CONSTANTS
  MaxTotal,              \* bound: num_total_inodes
  MAX_NUM_ENTRY_HANDLE,  \* entries of one recovery round
  MaxCrashes             \* bound: crashes

ASSUME QueueRecoveryAssumption ==
  {MaxTotal, MAX_NUM_ENTRY_HANDLE} \subseteq Nat \ {0} /\ MaxCrashes \in Nat

VARIABLE qr  \* status, next, prev (entries on disk), head and dhead (the head
             \* in memory and on disk), total, prog (the progress file), rec
             \* (sb_recovery_meta), at (the worker's start_inode, 0: none),
             \* down (system_going_down), crashes, fate (history:
             \* what the queue has been through)

MIN_INODE_NO == 2
QInodes == MIN_INODE_NO..(MaxTotal + 1)
Used(r) == MIN_INODE_NO..(r.total + 1)
EmptyHead == [first |-> 0, last |-> 0, num |-> 0]
NoRecovery == [on |-> FALSE, start |-> 0, end |-> 0]
NoProgress == <<0, 0>>

Dirty(r) == {i \in Used(r) : r.status[i] = "IS_DIRTY"}
IS_SBENTRY_BEING_RECOVER_LATER(r, i) == r.rec.on /\ r.rec.start <= i /\ i <= r.rec.end

(* The entries met from start on along next, at most one per inode.        *)
Walk(r, start) ==
  LET f[k \in 1..MaxTotal] ==
        IF k = 1 THEN start ELSE IF f[k - 1] = 0 THEN 0 ELSE r.next[f[k - 1]]
  IN SelectSeq([k \in 1..MaxTotal |-> f[k]], LAMBDA x : x # 0)

-----------------------------------------------------------------------------
(* The last entry is corrected: its successor was being appended, or its   *)
(* predecessor does not lead to it.                                        *)
RebuildLast(r) ==
  LET l == r.head.last
      n == IF l = 0 THEN 0 ELSE r.next[l]
      p == IF l = 0 THEN 0 ELSE r.prev[l]
      h == [r.head EXCEPT !.last = n, !.num = @ + 1]
  IN IF n # 0
     THEN [r EXCEPT !.status[n] = "IS_DIRTY", !.next[n] = 0, !.prev[n] = l,
                    !.head = h, !.dhead = h]
     ELSE IF p # 0 THEN [r EXCEPT !.next[p] = l]
     ELSE r

ll_rebuild_dirty(r, missing) ==
  LET w == Walk(r, r.head.first)
      alone == [first |-> missing, last |-> missing, num |-> 1]
      fixed == [i \in QInodes |->
                  IF w # <<>> /\ i = w[1] THEN 0
                  ELSE IF \E k \in 2..Len(w) : w[k] = i
                  THEN w[(CHOOSE k \in 2..Len(w) : w[k] = i) - 1]
                  ELSE r.prev[i]]
  IN IF r.head.first = 0 /\ r.head.last = 0 /\ missing # 0
     THEN [r EXCEPT !.prev[missing] = 0, !.next[missing] = 0,
                    !.head = alone, !.dhead = alone]
     ELSE RebuildLast([r EXCEPT !.prev = fixed])

(* need_rebuild of ll_enqueue and of ll_dequeue.                           *)
TailBroken(r) ==
  LET l == r.head.last IN
  r.head.first # 0 /\ (r.next[l] # 0 \/ (r.prev[l] # 0 /\ r.next[r.prev[l]] # l))
EntryBroken(r, i) ==
  \/ IF r.next[i] = 0 THEN r.head.last # i ELSE r.prev[r.next[i]] # i
  \/ IF r.prev[i] = 0 THEN r.head.first # i ELSE r.next[r.prev[i]] # i

(* The states of the disk after each write of an operation; the last one   *)
(* carries the new head.                                                   *)
Later(r, i, s) == <<[r EXCEPT !.status[i] = s,
                              !.next[i] = IF s = "NO_LL" THEN 0 ELSE @,
                              !.prev[i] = IF s = "NO_LL" THEN 0 ELSE @]>>

ll_enqueue(r0, i) ==
  LET r == IF TailBroken(r0) THEN ll_rebuild_dirty(r0, 0) ELSE r0
      l == r.head.last
      tail == IF r.head.first = 0 THEN r ELSE [r EXCEPT !.next[l] = i]
      h == [first |-> AppendFirst(r.head.first, i), last |-> i, num |-> r.head.num + 1]
      headed == [tail EXCEPT !.head = h, !.dhead = h]
  IN <<r, tail, headed,
       [headed EXCEPT !.status[i] = "IS_DIRTY", !.next[i] = 0,
                      !.prev[i] = IF r.head.first = 0 THEN 0 ELSE l]>>

ll_dequeue(r0, i) ==
  LET r == IF EntryBroken(r0, i) THEN ll_rebuild_dirty(r0, i) ELSE r0
      n == r.next[i]
      p == r.prev[i]
      after == IF n = 0 THEN r ELSE [r EXCEPT !.prev[n] = p]
      before == IF p = 0 THEN after ELSE [after EXCEPT !.next[p] = n]
      h == [first |-> IF p = 0 THEN n ELSE r.head.first,
            last |-> IF n = 0 THEN p ELSE r.head.last,
            num |-> r.head.num - 1]
      headed == [before EXCEPT !.head = h, !.dhead = h]
  IN <<r, after, before, headed, Later(headed, i, "NO_LL")[1]>>

(* Variant for testing QueueExact: the flag of the recovery is ignored.    *)
super_block_mark_dirty_now(r, i) == ll_enqueue(r, i)

(* super_block_mark_dirty, and super_block_update_transit after an upload. *)
super_block_mark_dirty(r, i) ==
  IF IS_SBENTRY_BEING_RECOVER_LATER(r, i) THEN Later(r, i, "IS_DIRTY")
  ELSE ll_enqueue(r, i)

super_block_update_transit(r, i) ==
  IF IS_SBENTRY_BEING_RECOVER_LATER(r, i) THEN Later(r, i, "NO_LL")
  ELSE ll_dequeue(r, i)

Op(r, i) == IF r.status[i] = "NO_LL" THEN super_block_mark_dirty(r, i)
            ELSE super_block_update_transit(r, i)

(* An entry the unfinished recovery has not reached is changed while no    *)
(* worker runs: the resumed worker links it a second time.                 *)
Unreached(r, i) == ~r.rec.on /\ r.prog # NoProgress /\ r.prog[1] <= i /\ i <= r.prog[2]

Change(i) ==
  LET w == Op(qr, i) IN
  /\ qr.fate \in {"sound", "torn", "half"}
  /\ qr' = [w[Len(w)] EXCEPT !.fate = IF Unreached(qr, i) \/ @ = "half" THEN "broken"
                                      ELSE IF @ = "sound" THEN @
                                      ELSE IF i = qr.victim THEN "broken"
                                      ELSE IF TailBroken(w[Len(w)]) THEN @ ELSE "sound"]

(* The system stops after some of the writes and starts again.             *)
Restarted(r) == [r EXCEPT !.head = r.dhead, !.rec = NoRecovery, !.at = 0,
                          !.down = FALSE, !.crashes = @ + 1]

CrashDuring(i) ==
  LET w == Op(qr, i) IN
  /\ qr.crashes < MaxCrashes /\ qr.fate = "sound"
  /\ \E k \in 1..(Len(w) - 1) :
       qr' = [Restarted(w[k]) EXCEPT
                !.victim = i,
                !.fate = IF qr.head # qr.dhead \/ Unreached(qr, i) THEN "broken"
                         ELSE IF w[k] = qr THEN "sound"
                         ELSE IF qr.status[i] = "NO_LL" /\ k = 2 THEN "torn"
                         ELSE "broken"]

-----------------------------------------------------------------------------
(* num_dirty = 0 stands for the comparison with the dirty sizes too.       *)
need_recover_sb(r) ==
  /\ ~r.rec.on
  /\ r.prog # NoProgress \/ r.head.num = 0 \/ (r.head.num = 0) # (r.head.first = 0)

fetch_last_recover_progress(r) == r.prog
update_recover_progress(r, s, e) == [r EXCEPT !.prog = <<s, e>>]
unlink_recover_progress_file(r) == [r EXCEPT !.prog = NoProgress]
set_recovery_flag(r, on, s, e) ==
  [r EXCEPT !.rec = [on |-> on, start |-> IF on THEN s ELSE 0,
                     end |-> IF on THEN e ELSE 0]]
(* The head is reset in memory only.                                       *)
reset_queue_and_stat(r) == [r EXCEPT !.head = EmptyHead]

start_sb_recovery ==
  /\ need_recover_sb(qr) /\ qr.at = 0 /\ ~qr.down
  /\ LET p == fetch_last_recover_progress(qr)
         e == qr.total + MIN_INODE_NO - 1
         r == IF p # NoProgress THEN qr
              ELSE reset_queue_and_stat(update_recover_progress(qr, MIN_INODE_NO, e))
         q == IF p # NoProgress THEN p ELSE <<MIN_INODE_NO, e>>
     IN qr' = [set_recovery_flag(r, TRUE, q[1], q[2])
                 EXCEPT !.at = q[1], !.fate = IF @ = "lost" THEN "sound" ELSE @]

(* The dirty entries of a round, linked to each other and to the last      *)
(* dirty inode l: the batch that is written first.                         *)
RoundDirty(r, from, n) ==
  SelectSeq([k \in 1..n |-> from + k - 1], LAMBDA i : r.status[i] = "IS_DIRTY")
reconstruct_sb_entries(r, d) ==
  LET at(i) == CHOOSE k \in DOMAIN d : d[k] = i
  IN [r EXCEPT
       !.prev = [i \in QInodes |-> IF i \notin Range(d) THEN @[i]
                                   ELSE IF at(i) = 1 THEN r.head.last ELSE d[at(i) - 1]],
       !.next = [i \in QInodes |-> IF i \notin Range(d) THEN @[i]
                                   ELSE IF at(i) = Len(d) THEN 0 ELSE d[at(i) + 1]]]

(* prev_last_entry was copied before the batch was written; it is written  *)
(* next, and the head after it.                                            *)
PrevLast(r, b, d) ==
  LET l == r.head.last
  IN IF d = <<>> \/ l = 0 THEN b ELSE [b EXCEPT !.next[l] = d[1], !.prev[l] = r.prev[l]]
update_reconstruct_result(r, d) ==
  LET h == [first |-> AppendFirst(r.head.first, d[1]), last |-> Last(d),
            num |-> r.head.num + Len(d)]
  IN IF d = <<>> THEN r ELSE [r EXCEPT !.head = h, !.dhead = h]

(* The disk after each write of a round: the batch, the previous last      *)
(* entry, the head, the progress file.                                     *)
RoundSize(r) == IF r.at + MAX_NUM_ENTRY_HANDLE <= r.rec.end THEN MAX_NUM_ENTRY_HANDLE
                ELSE r.rec.end - r.at + 1
RoundWrites(r) ==
  LET n == RoundSize(r)
      d == RoundDirty(r, r.at, n)
      b == reconstruct_sb_entries(r, d)
      p == PrevLast(r, b, d)
      h == update_reconstruct_result(p, d)
  IN <<b, p, h, update_recover_progress(h, r.at + n, r.rec.end)>>

(* One round of the worker.                                                *)
recover_sb_queue_worker ==
  LET s == qr.at + RoundSize(qr)
  IN /\ qr.at # 0 /\ qr.at < qr.rec.end /\ ~qr.down
     /\ qr' = [set_recovery_flag(RoundWrites(qr)[4], TRUE, s, qr.rec.end)
                 EXCEPT !.at = s, !.fate = IF @ = "half" THEN "sound" ELSE @]

(* A round that stops after k of its writes, by a crash or by an error of  *)
(* the next one; the worker that resumes does the round again.  When the   *)
(* link of the previous last entry is on disk ("half"), that is harmless   *)
(* unless the queue changes in between; when the head is on disk, the      *)
(* entries of the round are linked behind themselves and counted twice.    *)
CutFate(r, k) ==
  IF RoundDirty(r, r.at, RoundSize(r)) = <<>> THEN r.fate
  ELSE CASE k = 3 -> "broken"
         [] k = 2 /\ r.head.last # 0 -> IF r.fate \in {"sound", "half"} THEN "half" ELSE "broken"
         [] OTHER -> r.fate
RoundCut(k) ==
  /\ qr.at # 0 /\ qr.at < qr.rec.end /\ ~qr.down /\ qr.fate # "broken"
  /\ LET w == [RoundWrites(qr)[k] EXCEPT !.fate = CutFate(qr, k)]
     IN \/ qr' = [set_recovery_flag(w, FALSE, 0, 0) EXCEPT !.at = 0]
        \/ /\ qr.crashes < MaxCrashes
           /\ qr' = [Restarted(w) EXCEPT !.fate = IF w.head # w.dhead THEN "broken" ELSE @]

(* The worker leaves the loop: done, or the system is going down.  An      *)
(* entry that is left over alone (start_inode = end_inode) is not linked.  *)
RecoveryDone ==
  /\ qr.at # 0 /\ ~qr.down /\ qr.at >= qr.rec.end
  /\ qr' = [unlink_recover_progress_file(set_recovery_flag(qr, FALSE, 0, 0))
              EXCEPT !.at = 0, !.fate = IF qr.at = qr.rec.end /\ qr.at \in Dirty(qr)
                                         THEN "broken" ELSE @]

(* system_going_down, or an I/O error: the progress file stays.            *)
RecoveryAborted ==
  /\ qr.at # 0 /\ qr.at < qr.rec.end
  /\ qr' = [set_recovery_flag(qr, FALSE, 0, 0) EXCEPT !.at = 0]

(* The shutdown waits for the worker, five times 0.1 s at most, and writes *)
(* the head (super_block_destroy) before the system starts again ...       *)
RecoveryGoDown == ~qr.down /\ qr' = [qr EXCEPT !.down = TRUE]
wait_sb_recovery_terminate ==
  /\ qr.down /\ qr.crashes < MaxCrashes
  /\ qr' = Restarted([qr EXCEPT !.dhead = qr.head])

(* ... and a crash may come at any time.  The head that reset_queue_and_   *)
(* stat left in memory is lost when no round has written it yet.           *)
Crash ==
  /\ qr.crashes < MaxCrashes
  /\ qr' = [Restarted(qr) EXCEPT !.fate = IF qr.head # qr.dhead THEN "broken" ELSE @]

QRInit ==
  \E t \in 1..MaxTotal : \E d \in SUBSET (MIN_INODE_NO..(t + 1)) :
    LET s == SetToSortSeq(d, LAMBDA a, b : a < b)
        at(i) == CHOOSE k \in DOMAIN s : s[k] = i
    IN qr = [status |-> [i \in QInodes |-> IF i \in d THEN "IS_DIRTY" ELSE "NO_LL"],
             next |-> [i \in QInodes |-> IF i \notin d \/ at(i) = Len(s) THEN 0 ELSE s[at(i) + 1]],
             prev |-> [i \in QInodes |-> IF i \notin d \/ at(i) = 1 THEN 0 ELSE s[at(i) - 1]],
             head |-> EmptyHead, dhead |-> EmptyHead, total |-> t, prog |-> NoProgress,
             rec |-> NoRecovery, at |-> 0, down |-> FALSE, crashes |-> 0,
             fate |-> "lost", victim |-> 0]

QRNext ==
  \/ \E i \in Used(qr) : Change(i) \/ CrashDuring(i)
  \/ start_sb_recovery \/ recover_sb_queue_worker \/ RecoveryDone \/ RecoveryAborted
  \/ \E k \in 1..3 : RoundCut(k)
  \/ RecoveryGoDown \/ wait_sb_recovery_terminate \/ Crash

-----------------------------------------------------------------------------
QRTypeOK ==
  /\ qr.next \in [QInodes -> QInodes \cup {0}]
  /\ qr.prev \in [QInodes -> QInodes \cup {0}]
  /\ qr.head.first \in QInodes \cup {0} /\ qr.head.last \in QInodes \cup {0}

(* Linked(S): the queue is exactly the inodes in S.                        *)
QLinked(r, S) ==
  LET w == Walk(r, r.head.first) IN
  /\ Range(w) = S /\ Len(w) = Cardinality(S) /\ r.head.num = Len(w)
  /\ r.head.last = IF w = <<>> THEN 0 ELSE Last(w)
  /\ \A k \in 1..Len(w) : r.prev[w[k]] = IF k = 1 THEN 0 ELSE w[k - 1]

(* recover_super_block.c and ll_rebuild_dirty: once a recovery has begun   *)
(* from an empty queue, the queue is exactly the dirty inodes the worker   *)
(* has passed, whatever other threads enqueue and dequeue, and after it    *)
(* all of them; a crash before the head of an enqueue is written is        *)
(* repaired by the next operation that meets the torn tail.  A round that  *)
(* is cut off before its head is written is done again without harm.       *)
QueueExact ==
  qr.fate = "sound" =>
    QLinked(qr, {i \in Dirty(qr) :
      ~IS_SBENTRY_BEING_RECOVER_LATER(qr, i) /\ ~Unreached(qr, i)})
=============================================================================
