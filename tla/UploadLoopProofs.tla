-------------------------- MODULE UploadLoopProofs --------------------------
(***************************************************************************)
(* Proofs about the upload, for any number of inodes, slots, modifications *)
(* and faults.                                                             *)
(*                                                                         *)
(* IInv is the inductive invariant.  An action works for one slot and on   *)
(* one inode, which by OneUploader no other slot has: lemma OneSlot keeps  *)
(* the invariant for all the other slots, and what is left for each action *)
(* is the slot it works for.                                               *)
(***************************************************************************)
EXTENDS UploadLoop, FiniteSetTheorems, SequenceTheorems, WellFoundedInduction, TLAPS

(* A slot is free exactly when its stage says so; a thread continues only  *)
(* an upload that had begun, and only of a regular file whose blocks were  *)
(* being uploaded.                                                         *)
Shape(n) ==
  /\ thr[n].stage = "free" <=> ~InUse(n)
  /\ thr[n].stage = "continue" => thr[n].revert
  /\ thr[n].stage = "open" /\ thr[n].revert
       => thr[n].ino \in Reg /\ progress[thr[n].ino] = "NOW_UPLOADING"

(* SnapshotPresent for one slot.                                           *)
Snapshot(n) ==
  InUse(n) =>
    /\ thr[n].stage \in {"open", "blocks", "meta", "unlink"} => toupload[thr[n].ino] # 0
    /\ thr[n].stage # "unlinking" => progress[thr[n].ino] # "none"
    /\ thr[n].stage \in {"blocks", "meta", "unlink"} /\ thr[n].ino \in Reg
         => progress[thr[n].ino] = "NOW_UPLOADING"

(* While an upload that began in transit and from a fresh copy runs, its   *)
(* inode stays in transit, and the copy, or what was sent of it, is        *)
(* current unless a modification was noted.                                *)
Current(i, v) == mod_after_in_transit[i] \/ v[i] = ver[i]
Orderly(n) ==
  InUse(n) /\ thr[n].orderly /\ ~thr[n].revert /\ exists[thr[n].ino] =>
    /\ thr[n].stage \notin {"terminating", "unlinking"} => in_transit[thr[n].ino]
    /\ thr[n].stage \in {"open", "blocks", "meta"} => Current(thr[n].ino, toupload)
    /\ thr[n].stage \in {"unlink", "delete", "deleting"} => Current(thr[n].ino, cloud)
    /\ thr[n].stage = "finished" /\ ~thr[n].error => Current(thr[n].ino, cloud)

(* What is dirty, or about to be uploaded, has been modified.              *)
Modified ==
  \A i \in Inodes : exists[i] /\ (IsDirty(i) \/ loop.ino_sync = i) => ver[i] # 0

SlotsSound == \A n \in Slots : Shape(n) /\ Snapshot(n) /\ Orderly(n)

IInv == TypeOK /\ SlotsConserved /\ OneUploader /\ SlotsSound /\ Modified

ThrRec == [ino : Inode0, stage : Stages, error : BOOLEAN, continue : BOOLEAN,
           revert : BOOLEAN, orderly : BOOLEAN]

-----------------------------------------------------------------------------
(* The first of some slots exists: _sync_mark and the retry list take it.  *)
LEMMA FirstSlot ==
  ASSUME NEW S \in SUBSET Slots, S # {}
  PROVE  (CHOOSE n \in S : \A m \in S : n <= m) \in S
<1> DEFINE less == {ss \in Nat \X Nat : ss[1] < ss[2]}
<1>1. IsWellFoundedOn(less, Nat)
  BY NatLessThanWellFounded DEF OpToRel
<1>2. S \subseteq Nat
  BY UploadLoopAssumption DEF Slots
<1> HIDE DEF less
<1>3. PICK n \in S : \A m \in S : ~(<<m, n>> \in less)
  BY <1>1, <1>2, WFMin
<1>4. \A m \in S : ~(m < n)
  BY <1>2, <1>3 DEF less
<1>5. \A m \in S : n <= m
  BY <1>2, <1>4
<1>6. QED
  BY <1>5

(* The place of a dirty inode in the queue.                                *)
LEMMA DirtyPosition ==
  ASSUME dirty \in Seq(Inodes), NEW i, IsDirty(i)
  PROVE  /\ Position(i) \in 1..Len(dirty) /\ dirty[Position(i)] = i
         /\ i \in Inodes /\ util_ll_next(i) \in Inode0
<1>1. PICK k \in 1..Len(dirty) : dirty[k] = i
  BY DEF IsDirty, Contains
<1>2. Position(i) \in 1..Len(dirty) /\ dirty[Position(i)] = i
  BY <1>1 DEF Position
<1>3. \A x \in 1..Len(dirty) : dirty[x] \in Inodes
  OBVIOUS
<1>4. QED
  <2>1. Position(i) = Len(dirty) \/ Position(i) + 1 \in 1..Len(dirty)
    BY <1>2
  <2>2. QED
    BY <2>1, <1>2, <1>3 DEF util_ll_next, Inode0

(* ll_dequeue leaves a queue of inodes that were queued before.            *)
LEMMA DequeueProperties ==
  ASSUME dirty \in Seq(Inodes), NEW i \in Inodes
  PROVE  /\ ll_dequeue(i) \in Seq(Inodes)
         /\ \A j : Contains(ll_dequeue(i), j) => IsDirty(j)
<1>1. CASE ~IsDirty(i)
  BY <1>1 DEF ll_dequeue, IsDirty
<1>2. CASE IsDirty(i)
  <2> DEFINE k == Position(i)
             a == SubSeq(dirty, 1, k - 1)
             b == SubSeq(dirty, k + 1, Len(dirty))
  <2>1. k \in 1..Len(dirty) /\ Len(dirty) \in Nat
    BY <1>2, DirtyPosition
  <2> HIDE DEF k
  <2>2. /\ a \in Seq(Inodes) /\ Len(a) = k - 1
        /\ \A x \in 1..(k - 1) : a[x] = dirty[x]
    BY <2>1
  <2>3. /\ b \in Seq(Inodes) /\ Len(b) = Len(dirty) - k
        /\ \A x \in 1..(Len(dirty) - k) : b[x] = dirty[k + x]
    BY <2>1
  <2> HIDE DEF a, b
  <2>4. ll_dequeue(i) = a \o b
    BY <1>2 DEF ll_dequeue, RemoveAt, k, a, b
  <2>5. /\ a \o b \in Seq(Inodes) /\ Len(a \o b) = Len(a) + Len(b)
        /\ \A x \in 1..(Len(a) + Len(b)) :
              (a \o b)[x] = IF x <= Len(a) THEN a[x] ELSE b[x - Len(a)]
    BY <2>2, <2>3, ConcatProperties
  <2>6. ASSUME NEW j, NEW x \in 1..Len(a \o b), (a \o b)[x] = j PROVE IsDirty(j)
    <3>1. CASE x <= Len(a)
      <4>1. x \in 1..(k - 1) /\ x \in 1..Len(dirty)
        BY <3>1, <2>1, <2>2, <2>3, <2>5
      <4>2. dirty[x] = j
        BY <3>1, <4>1, <2>2, <2>3, <2>5, <2>6
      <4>3. QED
        BY <4>1, <4>2 DEF IsDirty, Contains
    <3>2. CASE ~(x <= Len(a))
      <4>1. x - Len(a) \in 1..(Len(dirty) - k) /\ k + (x - Len(a)) \in 1..Len(dirty)
        BY <3>2, <2>1, <2>2, <2>3, <2>5
      <4>2. dirty[k + (x - Len(a))] = j
        BY <3>2, <4>1, <2>2, <2>3, <2>5, <2>6
      <4>3. QED
        BY <4>1, <4>2 DEF IsDirty, Contains
    <3>3. QED
      BY <3>1, <3>2
  <2>7. QED
    BY <2>4, <2>5, <2>6 DEF Contains
<1>3. QED
  BY <1>1, <1>2

(* What update_transit does to the super block.                            *)
LEMMA UpdateTransit ==
  ASSUME TypeOK, NEW i \in Inodes, NEW incomplete, update_transit(i, incomplete)
  PROVE  /\ dirty' \in Seq(Inodes) /\ \A j : IsDirty(j)' => IsDirty(j)
         /\ in_transit' = [in_transit EXCEPT ![i] = FALSE]
         /\ mod_after_in_transit' = [mod_after_in_transit EXCEPT ![i] = FALSE]
<1>1. dirty' = dirty \/ dirty' = ll_dequeue(i)
  BY DEF update_transit
<1>2. dirty' \in Seq(Inodes) /\ \A j : IsDirty(j)' => IsDirty(j)
  BY <1>1, DequeueProperties DEF TypeOK, IsDirty
<1>3. QED
  BY <1>2 DEF update_transit

(* The effect of a sync thread on its record.                              *)
LEMMA GotoEffect ==
  ASSUME TypeOK, NEW n \in Slots, NEW s \in Stages, Goto(n, s)
  PROVE  /\ thr' \in [Slots -> ThrRec]
         /\ \A m \in Slots \ {n} : thr'[m] = thr[m]
         /\ thr'[n].stage = s /\ thr'[n].ino = thr[n].ino
         /\ thr'[n].error = thr[n].error /\ thr'[n].continue = thr[n].continue
         /\ thr'[n].revert = thr[n].revert /\ thr'[n].orderly = thr[n].orderly
<1>1. thr \in [Slots -> ThrRec] /\ thr' = [thr EXCEPT ![n] = [thr[n] EXCEPT !.stage = s]]
  BY DEF TypeOK, Goto, ThrRec
<1> DEFINE r == [thr[n] EXCEPT !.stage = s]
<1>2. /\ r \in ThrRec /\ r.stage = s /\ r.ino = thr[n].ino
      /\ r.error = thr[n].error /\ r.continue = thr[n].continue
      /\ r.revert = thr[n].revert /\ r.orderly = thr[n].orderly
  BY <1>1 DEF ThrRec
<1> HIDE DEF r
<1>3. thr' = [thr EXCEPT ![n] = r]
  BY <1>1 DEF r
<1>4. QED
  BY <1>1, <1>2, <1>3

(* A thread that ends keeps everything but stage, error and continue.      *)
LEMMA FinishEffect ==
  ASSUME TypeOK, NEW n \in Slots, NEW e \in BOOLEAN, NEW c \in BOOLEAN, Finish(n, e, c)
  PROVE  /\ thr' \in [Slots -> ThrRec]
         /\ \A m \in Slots \ {n} : thr'[m] = thr[m]
         /\ thr'[n].stage = "finished" /\ thr'[n].ino = thr[n].ino
         /\ thr'[n].error = e /\ thr'[n].continue = c
         /\ thr'[n].revert = thr[n].revert /\ thr'[n].orderly = thr[n].orderly
<1> DEFINE r == [[[thr[n] EXCEPT !.stage = "finished"] EXCEPT !.error = e] EXCEPT !.continue = c]
<1>1. thr \in [Slots -> ThrRec] /\ "finished" \in Stages
  BY DEF TypeOK, ThrRec, Stages
<1>2. thr' = [thr EXCEPT ![n] = r]
  BY <1>1 DEF Finish
<1>3. /\ r \in ThrRec /\ r.stage = "finished" /\ r.ino = thr[n].ino
      /\ r.error = e /\ r.continue = c
      /\ r.revert = thr[n].revert /\ r.orderly = thr[n].orderly
  BY <1>1 DEF ThrRec
<1> HIDE DEF r
<1>4. QED
  BY <1>1, <1>2, <1>3

-----------------------------------------------------------------------------
(* Type correctness.                                                       *)
(* The locals of upload_loop.                                              *)
LoopRec == [pc : {"start", "idle", "pull", "slot", "sched"}, ino_check : Inode0,
            ino_sync : Inode0, retry : BOOLEAN]

(* The records of a free slot and of the loop at its start.                *)
LEMMA RestTyped == FreeSlot \in ThrRec /\ LoopStart \in LoopRec
  BY DEF FreeSlot, LoopStart, ThrRec, LoopRec, Inode0, Stages

(* The first state is well typed.                                          *)
LEMMA InitType == Init => TypeOK
<1> SUFFICES ASSUME Init PROVE TypeOK
  OBVIOUS
<1>1. thr \in [Slots -> ThrRec] /\ retry_list \in [Slots -> Inode0] /\ loop \in LoopRec
  BY RestTyped DEF Init, Inode0
<1>2. /\ exists \in [Inodes -> BOOLEAN] /\ ver \in [Inodes -> Nat]
      /\ cloud \in [Inodes -> Nat] /\ toupload \in [Inodes -> Nat] /\ dirty \in Seq(Inodes)
      /\ in_transit \in [Inodes -> BOOLEAN] /\ mod_after_in_transit \in [Inodes -> BOOLEAN]
      /\ progress \in [Inodes -> Actions]
      /\ sync_queue_sem \in Nat /\ sync_wait_sem = 0 /\ sync_paused = FALSE /\ faults = 0
  BY UploadLoopAssumption DEF Init, Actions
<1>3. QED
  BY <1>1, <1>2 DEF TypeOK, ThrRec, LoopRec

(* A modification and a removal keep the types.                            *)
LEMMA CallsType ==
  ASSUME TypeOK, NEW i \in Inodes, Modify(i) \/ RemoveInode(i) PROVE TypeOK'
<1>1. CASE Modify(i)
  <2>1. dirty' \in Seq(Inodes) /\ sync_wait_sem' \in {0, 1}
    <3>1. CASE IsDirty(i)
      BY <1>1, <3>1 DEF TypeOK, Modify
    <3>2. CASE ~IsDirty(i)
      <4>1. dirty' = Append(dirty, i) /\ sync_wait_sem' = 1
        BY <1>1, <3>2 DEF Modify
      <4>2. dirty \in Seq(Inodes)
        BY DEF TypeOK
      <4>3. QED
        BY <4>1, <4>2
    <3>3. QED
      BY <3>1, <3>2
  <2>2. ver' \in [Inodes -> Nat]
    BY <1>1 DEF TypeOK, Modify
  <2>3. mod_after_in_transit' \in [Inodes -> BOOLEAN]
    <3>1. (mod_after_in_transit[i] \/ in_transit[i]) \in BOOLEAN
      OBVIOUS
    <3>2. QED
      BY <1>1, <3>1, Zenon DEF TypeOK, Modify
  <2>4. QED
    BY <1>1, <2>1, <2>2, <2>3 DEF TypeOK, Modify, files, ctl
<1>2. CASE RemoveInode(i)
  BY <1>2, DequeueProperties DEF TypeOK, RemoveInode, files, ctl, sems
<1>3. QED
  BY <1>1, <1>2

(* The connection and a crash keep the types.                              *)
LEMMA OtherType == ASSUME TypeOK, GoOffline \/ GoOnline \/ Crash PROVE TypeOK'
<1>1. CASE GoOffline
  BY <1>1 DEF TypeOK, GoOffline, Fault, fs, sb, files, ctl, sems
<1>2. CASE GoOnline
  BY <1>2 DEF TypeOK, GoOnline, fs, sb, files, ctl
<1>3. CASE Crash
  <2>1. thr' \in [Slots -> ThrRec] /\ retry_list' \in [Slots -> Inode0] /\ loop' \in LoopRec
    BY <1>3, RestTyped DEF Crash, Inode0
  <2>2. /\ sync_queue_sem' \in Nat /\ sync_wait_sem' = 0 /\ sync_paused' = FALSE
        /\ faults' \in Nat /\ UNCHANGED <<fs, cloud, sb, files>>
    BY <1>3, UploadLoopAssumption DEF Crash, Fault, TypeOK
  <2>3. QED
    BY <2>1, <2>2 DEF TypeOK, ThrRec, LoopRec, fs, sb, files
<1>4. QED
  BY <1>1, <1>2, <1>3

(* The end of a turn of the loop: it holds no inode.                       *)
LEMMA NextInodeEffect ==
  ASSUME TypeOK, NextInode
  PROVE  loop' \in LoopRec /\ loop'.ino_sync = 0 /\ loop'.pc \in {"start", "pull"}
<1>1. PICK pc \in {"start", "pull"} :
        loop' = [loop EXCEPT !.pc = pc, !.ino_sync = 0, !.retry = FALSE]
  BY DEF NextInode
<1>2. loop \in LoopRec /\ 0 \in Inode0
  BY DEF TypeOK, LoopRec, Inode0
<1>3. QED
  BY <1>1, <1>2 DEF LoopRec

(* The steps of the loop that take no inode.                               *)
LEMMA LoopMoveType ==
  ASSUME TypeOK, StartScan \/ SleepPaused \/ WakeUp \/ WaitSlot
  PROVE  TypeOK' /\ loop'.ino_sync = loop.ino_sync /\ loop'.pc # "sched" /\ loop.pc # "sched"
<1>1. loop \in LoopRec /\ 0 \in Inode0
  BY DEF TypeOK, LoopRec, Inode0
<1>2. loop' \in LoopRec /\ loop'.ino_sync = loop.ino_sync /\ loop'.pc # "sched"
  <2>1. CASE StartScan
    <3>1. PICK pc \in {"pull", "idle"} : loop' = [loop EXCEPT !.pc = pc, !.ino_check = 0]
      BY <2>1 DEF StartScan
    <3>2. QED
      BY <3>1, <1>1 DEF LoopRec
  <2>2. CASE SleepPaused \/ WakeUp \/ WaitSlot
    BY <2>2, <1>1 DEF SleepPaused, WakeUp, WaitSlot, LoopRec
  <2>3. QED
    BY <2>1, <2>2
<1>3. QED
  BY <1>2 DEF TypeOK, LoopRec, StartScan, SleepPaused, WakeUp, WaitSlot, fs, sb, files, ctl, sems

(* What the loop has pulled: an inode of the dirty queue, or none.         *)
LEMMA PullEffect ==
  ASSUME TypeOK, PullInode
  PROVE  \E i \in Inode0 :
           /\ loop' \in LoopRec /\ loop'.pc = "sched" /\ loop'.ino_sync = i
           /\ i # 0 => IsDirty(i)
           /\ \/ UNCHANGED <<in_transit, mod_after_in_transit>>
              \/ /\ i # 0 /\ ~in_transit[i]
                 /\ in_transit' = [in_transit EXCEPT ![i] = TRUE]
                 /\ mod_after_in_transit' = [mod_after_in_transit EXCEPT ![i] = FALSE]
           /\ retry_list' \in [Slots -> Inode0]
<1> DEFINE retried == Retries # {}
           i == IF retried THEN retry_list[FirstRetry]
                ELSE IF loop.ino_check # 0 THEN loop.ino_check
                ELSE IF dirty # <<>> THEN Head(dirty) ELSE 0
           found == i # 0 /\ IsDirty(i)
           j == IF found THEN i ELSE 0
           c == IF found THEN util_ll_next(i) ELSE 0
<1>1. retried => FirstRetry \in Slots
  BY FirstSlot DEF FirstRetry, Retries
<1>2. i \in Inode0
  <2>1. dirty # <<>> => Head(dirty) \in Inodes
    BY DEF TypeOK
  <2>2. QED
    BY <1>1, <2>1 DEF TypeOK, Inode0
<1>3. j \in Inode0 /\ c \in Inode0 /\ retried \in BOOLEAN
  BY <1>2, DirtyPosition DEF TypeOK, Inode0
<1>4. loop' = [pc |-> "sched", retry |-> retried, ino_sync |-> j, ino_check |-> c]
  BY DEF PullInode
<1>5. \/ UNCHANGED <<in_transit, mod_after_in_transit>>
      \/ /\ found /\ ~in_transit[i]
         /\ in_transit' = [in_transit EXCEPT ![i] = TRUE]
         /\ mod_after_in_transit' = [mod_after_in_transit EXCEPT ![i] = FALSE]
  BY DEF PullInode
<1>6. retry_list' \in [Slots -> Inode0]
  <2>1. retry_list' = IF retried THEN [retry_list EXCEPT ![FirstRetry] = 0] ELSE retry_list
    BY DEF PullInode
  <2>2. QED
    BY <2>1, <1>1 DEF TypeOK, Inode0
<1>7. loop' \in LoopRec /\ loop'.pc = "sched" /\ loop'.ino_sync = j
  <2> HIDE DEF retried, j, c
  <2>1. QED
    BY <1>3, <1>4 DEF LoopRec
<1>8. j # 0 => IsDirty(j) /\ j = i
  OBVIOUS
<1>9. found => j = i /\ j # 0
  OBVIOUS
<1> HIDE DEF i, j, found
<1>10. QED
  BY <1>3, <1>5, <1>6, <1>7, <1>8, <1>9

(* Taking an inode keeps the types.                                        *)
LEMMA PullType == ASSUME TypeOK, PullInode PROVE TypeOK'
<1>1. sync_queue_sem' \in Nat
  BY DEF PullInode, TypeOK
<1>2. UNCHANGED <<fs, cloud, dirty, files, thr, sync_wait_sem, sync_paused, faults>>
  BY DEF PullInode
<1>3. /\ loop' \in LoopRec /\ retry_list' \in [Slots -> Inode0]
      /\ in_transit' \in [Inodes -> BOOLEAN] /\ mod_after_in_transit' \in [Inodes -> BOOLEAN]
  <2>1. PICK i \in Inode0 :
          /\ loop' \in LoopRec /\ retry_list' \in [Slots -> Inode0]
          /\ \/ UNCHANGED <<in_transit, mod_after_in_transit>>
             \/ /\ in_transit' = [in_transit EXCEPT ![i] = TRUE]
                /\ mod_after_in_transit' = [mod_after_in_transit EXCEPT ![i] = FALSE]
    BY PullEffect
  <2>2. QED
    BY <2>1 DEF TypeOK
<1>4. QED
  BY <1>1, <1>2, <1>3 DEF TypeOK, LoopRec, fs, files

-----------------------------------------------------------------------------
(* What every action leaves alone.                                         *)

(* A step for slot n and inode i, which no other slot has, disturbs        *)
(* nothing of the others.                                                  *)
LEMMA OneSlot ==
  ASSUME IInv, NEW n \in Slots, NEW i \in Inodes,
         \A m \in Slots \ {n} : thr[m].ino # i,
         thr' \in [Slots -> ThrRec], \A m \in Slots \ {n} : thr'[m] = thr[m],
         thr'[n].ino \in {0, i},
         UNCHANGED <<exists, ver>>,
         \A j \in Inodes \ {i} :
           /\ toupload'[j] = toupload[j] /\ progress'[j] = progress[j] /\ cloud'[j] = cloud[j]
           /\ in_transit'[j] = in_transit[j]
           /\ mod_after_in_transit'[j] = mod_after_in_transit[j],
         (Shape(n) /\ Snapshot(n) /\ Orderly(n))'
  PROVE  OneUploader' /\ SlotsSound'
<1>0. thr \in [Slots -> ThrRec] /\ 0 \notin Inodes
  BY UploadLoopAssumption DEF IInv, TypeOK, ThrRec
<1>1. OneUploader'
  BY <1>0 DEF IInv, OneUploader, InUse
<1>2. ASSUME NEW m \in Slots \ {n} PROVE (Shape(m) /\ Snapshot(m) /\ Orderly(m))'
  <2>1. /\ Shape(m) /\ Snapshot(m) /\ Orderly(m)
        /\ thr'[m] = thr[m] /\ thr[m].ino # i /\ thr[m].ino \in Inodes \cup {0}
    BY <1>0 DEF IInv, SlotsSound, ThrRec, Inode0
  <2>2. CASE thr[m].ino = 0
    BY <2>1, <2>2 DEF Shape, Snapshot, Orderly, InUse
  <2>3. CASE thr[m].ino \in Inodes
    <3> DEFINE j == thr[m].ino
    <3>1. /\ thr'[m].ino = j /\ j # 0
          /\ toupload'[j] = toupload[j] /\ progress'[j] = progress[j] /\ cloud'[j] = cloud[j]
          /\ in_transit'[j] = in_transit[j]
          /\ mod_after_in_transit'[j] = mod_after_in_transit[j]
          /\ exists'[j] = exists[j] /\ ver'[j] = ver[j]
      BY <1>0, <2>1, <2>3
    <3>2. QED
      BY <2>1, <3>1 DEF Shape, Snapshot, Orderly, InUse, Current
  <2>4. QED
    BY <2>1, <2>2, <2>3
<1>3. QED
  BY <1>1, <1>2 DEF SlotsSound

(* Modified needs only that nothing is queued or pulled anew.              *)
LEMMA ModifiedKept ==
  ASSUME Modified, UNCHANGED <<exists, ver>>, \A j : IsDirty(j)' => IsDirty(j),
         loop'.ino_sync = 0 \/ loop'.ino_sync = loop.ino_sync
  PROVE  Modified'
  BY UploadLoopAssumption DEF Modified

(* The number of slots in use depends on the inodes of the slots only.     *)
LEMMA ActiveKept ==
  ASSUME \A m \in Slots : thr'[m].ino = thr[m].ino
  PROVE  Active' = Active
<1>1. {m \in Slots : InUse(m)}' = {m \in Slots : InUse(m)}
  BY DEF InUse
<1>2. QED
  BY <1>1 DEF Active

(* The slots in use are finitely many.                                     *)
LEMMA ActiveType ==
  /\ IsFiniteSet({m \in Slots : InUse(m)}) /\ Active \in Nat
  /\ IsFiniteSet(Slots) /\ Cardinality(Slots) = MAX_SYNC_CONCURRENCY
<1>1. IsFiniteSet(Slots) /\ Cardinality(Slots) = MAX_SYNC_CONCURRENCY
  BY FS_Interval, UploadLoopAssumption DEF Slots
<1>2. IsFiniteSet({m \in Slots : InUse(m)})
  BY <1>1, FS_Subset
<1>3. QED
  BY <1>1, <1>2, FS_CardinalityType DEF Active

(* A thread of slot n, or the collector for it, goes on.                   *)
LEMMA SlotKeeps ==
  ASSUME IInv, NEW n \in Slots, InUse(n), TypeOK',
         \A m \in Slots \ {n} : thr'[m] = thr[m], thr'[n].ino = thr[n].ino,
         UNCHANGED <<exists, ver, loop, sync_queue_sem>>,
         \A j : IsDirty(j)' => IsDirty(j),
         \A j \in Inodes \ {thr[n].ino} :
           /\ toupload'[j] = toupload[j] /\ progress'[j] = progress[j] /\ cloud'[j] = cloud[j]
           /\ in_transit'[j] = in_transit[j]
           /\ mod_after_in_transit'[j] = mod_after_in_transit[j],
         (Shape(n) /\ Snapshot(n) /\ Orderly(n))'
  PROVE  IInv'
<1>1. thr \in [Slots -> ThrRec] /\ thr' \in [Slots -> ThrRec]
  BY DEF IInv, TypeOK, ThrRec
<1>2. thr[n].ino \in Inodes /\ \A m \in Slots \ {n} : thr[m].ino # thr[n].ino
  BY <1>1 DEF IInv, OneUploader, InUse, ThrRec, Inode0
<1>3. OneUploader' /\ SlotsSound'
  BY <1>1, <1>2, OneSlot
<1>4. Modified'
  BY ModifiedKept DEF IInv
<1>5. SlotsConserved'
  <2>1. Active' = Active
    BY ActiveKept
  <2>2. QED
    BY <2>1 DEF IInv, SlotsConserved
<1>6. QED
  BY <1>3, <1>4, <1>5 DEF IInv

-----------------------------------------------------------------------------
(* The sync threads.                                                       *)
LEMMA ThreadContext ==
  ASSUME IInv, NEW n \in Slots, thr[n].stage # "free"
  PROVE  /\ TypeOK /\ InUse(n) /\ thr[n].ino \in Inodes /\ thr[n] \in ThrRec
         /\ Shape(n) /\ Snapshot(n) /\ Orderly(n)
         /\ progress[thr[n].ino] \in Actions /\ toupload[thr[n].ino] \in Nat
<1>1. TypeOK /\ Shape(n) /\ Snapshot(n) /\ Orderly(n) /\ InUse(n)
  BY DEF IInv, SlotsSound, Shape
<1>2. thr[n] \in ThrRec
  BY <1>1 DEF TypeOK, ThrRec
<1>3. thr[n].ino \in Inodes
  BY <1>1, <1>2 DEF InUse, ThrRec, Inode0
<1>4. QED
  BY <1>1, <1>2, <1>3 DEF TypeOK

(* A sync thread changes its own record and its own inode's files and      *)
(* object; what is left to show is that its slot stays sound.              *)
LEMMA ThreadKeeps ==
  ASSUME IInv, NEW n \in Slots, InUse(n), thr[n].ino \in Inodes, ThreadFrame,
         thr' \in [Slots -> ThrRec], \A m \in Slots \ {n} : thr'[m] = thr[m],
         thr'[n].ino = thr[n].ino,
         cloud' = cloud \/ \E v \in Nat : cloud' = [cloud EXCEPT ![thr[n].ino] = v],
         toupload' = toupload \/ \E v \in Nat : toupload' = [toupload EXCEPT ![thr[n].ino] = v],
         progress' = progress \/ \E a \in Actions : SetProgress(thr[n].ino, a),
         faults' = faults \/ Fault,
         (Shape(n) /\ Snapshot(n) /\ Orderly(n))'
  PROVE  IInv'
<1>0. TypeOK
  BY DEF IInv
<1>t. /\ cloud \in [Inodes -> Nat] /\ toupload \in [Inodes -> Nat]
      /\ progress \in [Inodes -> Actions]
  BY <1>0 DEF TypeOK
<1>1. cloud' \in [Inodes -> Nat] /\ \A j \in Inodes \ {thr[n].ino} : cloud'[j] = cloud[j]
  BY <1>t
<1>2. /\ toupload' \in [Inodes -> Nat]
      /\ \A j \in Inodes \ {thr[n].ino} : toupload'[j] = toupload[j]
  BY <1>t
<1>3. /\ progress' \in [Inodes -> Actions]
      /\ \A j \in Inodes \ {thr[n].ino} : progress'[j] = progress[j]
  BY <1>t DEF SetProgress
<1>4. faults' \in Nat
  BY <1>0 DEF TypeOK, Fault
<1>5. /\ UNCHANGED <<exists, ver, dirty, in_transit, mod_after_in_transit, retry_list, loop>>
      /\ UNCHANGED <<sync_queue_sem, sync_wait_sem, sync_paused>>
  BY DEF ThreadFrame, fs, sb, sems
<1>6. TypeOK'
  BY <1>0, <1>1, <1>2, <1>3, <1>4, <1>5 DEF TypeOK, ThrRec
<1>7. \A j : IsDirty(j)' => IsDirty(j)
  BY <1>5 DEF IsDirty
<1>8. QED
  BY <1>1, <1>2, <1>3, <1>5, <1>6, <1>7, SlotKeeps

(* continue_inode_sync: the files left on disk decide where the thread     *)
(* goes on.                                                                *)
LEMMA ContinueStep == ASSUME IInv, NEW n \in Slots, continue_inode_sync(n) PROVE IInv'
<1> DEFINE i == thr[n].ino
<1>s. thr[n].stage = "continue"
  BY DEF continue_inode_sync
<1>0. /\ TypeOK /\ InUse(n) /\ i \in Inodes /\ thr[n] \in ThrRec
      /\ Shape(n) /\ Snapshot(n) /\ Orderly(n)
      /\ progress[i] \in Actions /\ toupload[i] \in Nat
  BY <1>s, ThreadContext
<1>r. thr[n].revert
  BY <1>0, <1>s DEF Shape
<1>1. CASE CanContinue(i)
  <2>1. Goto(n, "open") /\ UNCHANGED <<files, cloud, faults>> /\ ThreadFrame
    BY <1>1 DEF continue_inode_sync
  <2>2. /\ thr' \in [Slots -> ThrRec] /\ \A m \in Slots \ {n} : thr'[m] = thr[m]
        /\ thr'[n].stage = "open" /\ thr'[n].ino = i /\ thr'[n].revert = thr[n].revert
    BY <1>0, <2>1, GotoEffect DEF Stages
  <2>3. Shape(n)' /\ Snapshot(n)' /\ Orderly(n)'
    BY <1>0, <1>1, <1>r, <2>1, <2>2 DEF Shape, Snapshot, Orderly, InUse, CanContinue, files
  <2>4. QED
    BY <1>0, <2>1, <2>2, <2>3, ThreadKeeps DEF files
<1>2. CASE ~CanContinue(i)
  <2>1. /\ toupload' = [toupload EXCEPT ![i] = 0] /\ Finish(n, TRUE, FALSE)
        /\ UNCHANGED progress \/ SetProgress(i, "DEL_BACKEND_BLOCKS")
        /\ UNCHANGED <<cloud, faults>> /\ ThreadFrame
    BY <1>2 DEF continue_inode_sync
  <2>2. /\ thr' \in [Slots -> ThrRec] /\ \A m \in Slots \ {n} : thr'[m] = thr[m]
        /\ thr'[n].stage = "finished" /\ thr'[n].ino = i /\ thr'[n].revert = thr[n].revert
    BY <1>0, <2>1, FinishEffect
  <2>3. progress'[i] # "none" /\ "DEL_BACKEND_BLOCKS" \in Actions
    BY <1>0, <1>s, <2>1 DEF Snapshot, SetProgress, TypeOK, Actions
  <2>4. Shape(n)' /\ Snapshot(n)' /\ Orderly(n)'
    BY <1>0, <1>r, <2>2, <2>3 DEF Shape, Snapshot, Orderly, InUse
  <2>5. QED
    BY <1>0, <2>1, <2>2, <2>3, <2>4, ThreadKeeps
<1>3. QED
  BY <1>1, <1>2

(* A thread ends, with an error, without its file, or after its upload.    *)
LEMMA FinishStep ==
  ASSUME IInv, NEW n \in Slots, thr[n].stage \notin {"free", "terminating", "unlinking"},
         NEW e \in BOOLEAN, NEW c \in BOOLEAN, Finish(n, e, c),
         e \/ ~exists[thr[n].ino] \/ thr[n].stage \in {"unlink", "delete", "deleting"},
         toupload' = toupload \/ toupload' = [toupload EXCEPT ![thr[n].ino] = 0],
         progress' = progress \/ \E a \in Actions \ {"none"} : SetProgress(thr[n].ino, a),
         faults' = faults \/ Fault, UNCHANGED cloud, ThreadFrame
  PROVE  IInv'
<1> DEFINE i == thr[n].ino
<1>0. /\ TypeOK /\ InUse(n) /\ i \in Inodes /\ thr[n] \in ThrRec
      /\ Shape(n) /\ Snapshot(n) /\ Orderly(n)
      /\ progress[i] \in Actions /\ toupload[i] \in Nat
  BY ThreadContext
<1>1. /\ thr' \in [Slots -> ThrRec] /\ \A m \in Slots \ {n} : thr'[m] = thr[m]
      /\ thr'[n].stage = "finished" /\ thr'[n].ino = i /\ thr'[n].error = e
      /\ thr'[n].revert = thr[n].revert /\ thr'[n].orderly = thr[n].orderly
  BY <1>0, FinishEffect
<1>2. progress'[i] # "none"
  BY <1>0 DEF Snapshot, SetProgress, TypeOK
<1>3. UNCHANGED <<exists, ver, in_transit, mod_after_in_transit>>
  BY DEF ThreadFrame, fs, sb
<1>4. Shape(n)' /\ Snapshot(n)'
  BY <1>0, <1>1, <1>2 DEF Shape, Snapshot, InUse
<1>5. Orderly(n)'
  BY <1>0, <1>1, <1>3 DEF Orderly, InUse, Current
<1>6. QED
  BY <1>0, <1>1, <1>4, <1>5, ThreadKeeps

(* sync_single_inode opens the to-upload meta and the progress file.       *)
LEMMA OpenStep == ASSUME IInv, NEW n \in Slots, OpenFiles(n) PROVE IInv'
<1> DEFINE i == thr[n].ino
<1>s. thr[n].stage = "open" /\ UNCHANGED <<cloud, toupload>> /\ ThreadFrame
  BY DEF OpenFiles
<1>0. /\ TypeOK /\ InUse(n) /\ i \in Inodes /\ thr[n] \in ThrRec
      /\ Shape(n) /\ Snapshot(n) /\ Orderly(n)
      /\ progress[i] \in Actions /\ toupload[i] \in Nat
  BY <1>s, ThreadContext
<1>u. UNCHANGED <<exists, ver, in_transit, mod_after_in_transit>>
  BY <1>s DEF ThreadFrame, fs, sb
<1>1. CASE ~exists[i] /\ Finish(n, FALSE, FALSE) /\ UNCHANGED <<progress, faults>>
  BY <1>s, <1>0, <1>1, FinishStep
<1>2. CASE exists[i] /\ i \notin Reg /\ Goto(n, "meta") /\ UNCHANGED <<progress, faults>>
  <2>1. /\ thr' \in [Slots -> ThrRec] /\ \A m \in Slots \ {n} : thr'[m] = thr[m]
        /\ thr'[n].stage = "meta" /\ thr'[n].ino = i
        /\ thr'[n].revert = thr[n].revert /\ thr'[n].orderly = thr[n].orderly
    BY <1>0, <1>2, GotoEffect DEF Stages
  <2>2. Shape(n)' /\ Snapshot(n)'
    BY <1>0, <1>s, <1>2, <2>1 DEF Shape, Snapshot, InUse
  <2>3. Orderly(n)'
    BY <1>0, <1>s, <1>u, <1>2, <2>1 DEF Orderly, InUse, Current
  <2>4. QED
    BY <1>0, <1>s, <1>2, <2>1, <2>2, <2>3, ThreadKeeps
<1>3. CASE /\ exists[i] /\ i \in Reg /\ Goto(n, "blocks")
           /\ IF thr[n].revert THEN UNCHANGED progress ELSE SetProgress(i, "NOW_UPLOADING")
           /\ UNCHANGED faults
  <2>1. /\ thr' \in [Slots -> ThrRec] /\ \A m \in Slots \ {n} : thr'[m] = thr[m]
        /\ thr'[n].stage = "blocks" /\ thr'[n].ino = i
        /\ thr'[n].revert = thr[n].revert /\ thr'[n].orderly = thr[n].orderly
    BY <1>0, <1>3, GotoEffect DEF Stages
  <2>2. progress'[i] = "NOW_UPLOADING" /\ "NOW_UPLOADING" \in Actions
    BY <1>0, <1>s, <1>3 DEF Shape, SetProgress, TypeOK, Actions
  <2>3. Shape(n)' /\ Snapshot(n)'
    BY <1>0, <1>s, <2>1, <2>2 DEF Shape, Snapshot, InUse
  <2>4. Orderly(n)'
    BY <1>0, <1>s, <1>u, <2>1 DEF Orderly, InUse, Current
  <2>5. progress' = progress \/ SetProgress(i, "NOW_UPLOADING")
    BY <1>3
  <2>6. QED
    BY <1>0, <1>s, <1>3, <2>1, <2>2, <2>3, <2>4, <2>5, ThreadKeeps
<1>4. CASE /\ exists[i] /\ i \in Reg /\ ~thr[n].revert /\ Fault
           /\ Finish(n, TRUE, FALSE) /\ UNCHANGED progress
  BY <1>s, <1>0, <1>4, FinishStep
<1>5. QED
  BY <1>1, <1>2, <1>3, <1>4 DEF OpenFiles

(* The blocks are sent, or the upload is disconnected or fails.            *)
LEMMA BlocksStep == ASSUME IInv, NEW n \in Slots, SyncBlocks(n) PROVE IInv'
<1> DEFINE i == thr[n].ino
<1>s. thr[n].stage = "blocks" /\ UNCHANGED <<cloud, toupload>> /\ ThreadFrame
  BY DEF SyncBlocks
<1>0. /\ TypeOK /\ InUse(n) /\ i \in Inodes /\ thr[n] \in ThrRec
      /\ Shape(n) /\ Snapshot(n) /\ Orderly(n)
      /\ progress[i] \in Actions /\ toupload[i] \in Nat
  BY <1>s, ThreadContext
<1>u. UNCHANGED <<exists, ver, in_transit, mod_after_in_transit>>
  BY <1>s DEF ThreadFrame, fs, sb
<1>1. CASE exists[i] /\ Goto(n, "meta") /\ UNCHANGED <<progress, faults>>
  <2>1. /\ thr' \in [Slots -> ThrRec] /\ \A m \in Slots \ {n} : thr'[m] = thr[m]
        /\ thr'[n].stage = "meta" /\ thr'[n].ino = i
        /\ thr'[n].revert = thr[n].revert /\ thr'[n].orderly = thr[n].orderly
    BY <1>0, <1>1, GotoEffect DEF Stages
  <2>2. Shape(n)' /\ Snapshot(n)'
    BY <1>0, <1>s, <1>1, <2>1 DEF Shape, Snapshot, InUse
  <2>3. Orderly(n)'
    BY <1>0, <1>s, <1>u, <1>1, <2>1 DEF Orderly, InUse, Current
  <2>4. QED
    BY <1>0, <1>s, <1>1, <2>1, <2>2, <2>3, ThreadKeeps
<1>2. CASE ~(exists[i] /\ Goto(n, "meta") /\ UNCHANGED <<progress, faults>>)
  <2>1. PICK e \in BOOLEAN, c \in BOOLEAN :
          /\ Finish(n, e, c) /\ (e \/ ~exists[i])
          /\ progress' = progress \/ SetProgress(i, "DEL_TOUPLOAD_BLOCKS")
          /\ faults' = faults \/ Fault
    BY <1>2, <1>0 DEF SyncBlocks, TypeOK
  <2>2. progress' = progress \/ \E a \in Actions \ {"none"} : SetProgress(i, a)
    BY <2>1 DEF Actions
  <2>3. toupload' = toupload /\ cloud' = cloud /\ ThreadFrame /\ (e \/ ~exists[i])
    BY <1>s, <2>1
  <2>4. thr[n].stage \notin {"free", "terminating", "unlinking"}
    BY <1>s
  <2>5. QED
    BY <2>1, <2>2, <2>3, <2>4, FinishStep
<1>3. QED
  BY <1>1, <1>2

(* The metadata is sent: the cloud gets the version of the copy.           *)
LEMMA MetaStep == ASSUME IInv, NEW n \in Slots, SyncMeta(n) PROVE IInv'
<1> DEFINE i == thr[n].ino
<1>s. thr[n].stage = "meta" /\ UNCHANGED toupload /\ ThreadFrame
  BY DEF SyncMeta
<1>0. /\ TypeOK /\ InUse(n) /\ i \in Inodes /\ thr[n] \in ThrRec
      /\ Shape(n) /\ Snapshot(n) /\ Orderly(n)
      /\ progress[i] \in Actions /\ toupload[i] \in Nat
  BY <1>s, ThreadContext
<1>u. UNCHANGED <<exists, ver, in_transit, mod_after_in_transit>>
  BY <1>s DEF ThreadFrame, fs, sb
<1>1. CASE /\ exists[i] /\ Goto(n, "unlink")
           /\ cloud' = [cloud EXCEPT ![i] = toupload[i]] /\ UNCHANGED <<progress, faults>>
  <2>1. /\ thr' \in [Slots -> ThrRec] /\ \A m \in Slots \ {n} : thr'[m] = thr[m]
        /\ thr'[n].stage = "unlink" /\ thr'[n].ino = i
        /\ thr'[n].revert = thr[n].revert /\ thr'[n].orderly = thr[n].orderly
    BY <1>0, <1>1, GotoEffect DEF Stages
  <2>2. Shape(n)' /\ Snapshot(n)'
    BY <1>0, <1>s, <1>1, <2>1 DEF Shape, Snapshot, InUse
  <2>3. cloud'[i] = toupload[i]
    BY <1>0, <1>1 DEF TypeOK
  <2>4. Orderly(n)'
    BY <1>0, <1>s, <1>u, <2>1, <2>3 DEF Orderly, InUse, Current
  <2>5. QED
    BY <1>0, <1>s, <1>1, <2>1, <2>2, <2>4, ThreadKeeps
<1>2. CASE ~(/\ exists[i] /\ Goto(n, "unlink")
             /\ cloud' = [cloud EXCEPT ![i] = toupload[i]] /\ UNCHANGED <<progress, faults>>)
  <2>1. PICK e \in BOOLEAN, c \in BOOLEAN :
          /\ Finish(n, e, c) /\ (e \/ ~exists[i]) /\ UNCHANGED cloud
          /\ progress' = progress \/ SetProgress(i, "DEL_TOUPLOAD_BLOCKS")
          /\ faults' = faults \/ Fault
    BY <1>2, <1>0 DEF SyncMeta, TypeOK
  <2>2. progress' = progress \/ \E a \in Actions \ {"none"} : SetProgress(i, a)
    BY <2>1 DEF Actions
  <2>3. toupload' = toupload /\ cloud' = cloud /\ ThreadFrame /\ (e \/ ~exists[i])
    BY <1>s, <2>1
  <2>4. thr[n].stage \notin {"free", "terminating", "unlinking"}
    BY <1>s
  <2>5. QED
    BY <2>1, <2>2, <2>3, <2>4, FinishStep
<1>3. QED
  BY <1>1, <1>2

(* The to-upload meta is unlinked after the metadata was sent.             *)
LEMMA UnlinkStep == ASSUME IInv, NEW n \in Slots, UnlinkMeta(n) PROVE IInv'
<1> DEFINE i == thr[n].ino
<1>s. /\ thr[n].stage = "unlink" /\ toupload' = [toupload EXCEPT ![i] = 0]
      /\ UNCHANGED <<cloud, progress, faults>> /\ ThreadFrame
  BY DEF UnlinkMeta
<1>0. /\ TypeOK /\ InUse(n) /\ i \in Inodes /\ thr[n] \in ThrRec
      /\ Shape(n) /\ Snapshot(n) /\ Orderly(n)
      /\ progress[i] \in Actions /\ toupload[i] \in Nat
  BY <1>s, ThreadContext
<1>u. UNCHANGED <<exists, ver, in_transit, mod_after_in_transit>>
  BY <1>s DEF ThreadFrame, fs, sb
<1>1. CASE Goto(n, "delete")
  <2>1. /\ thr' \in [Slots -> ThrRec] /\ \A m \in Slots \ {n} : thr'[m] = thr[m]
        /\ thr'[n].stage = "delete" /\ thr'[n].ino = i
        /\ thr'[n].revert = thr[n].revert /\ thr'[n].orderly = thr[n].orderly
    BY <1>0, <1>1, GotoEffect DEF Stages
  <2>2. Shape(n)' /\ Snapshot(n)'
    BY <1>0, <1>s, <2>1 DEF Shape, Snapshot, InUse
  <2>3. Orderly(n)'
    BY <1>0, <1>s, <1>u, <2>1 DEF Orderly, InUse, Current
  <2>4. QED
    BY <1>0, <1>s, <2>1, <2>2, <2>3, ThreadKeeps
<1>2. CASE Finish(n, FALSE, FALSE)
  BY <1>0, <1>s, <1>2, FinishStep
<1>3. QED
  BY <1>1, <1>2 DEF UnlinkMeta

(* The progress file is set to deleting, and the old blocks go.            *)
LEMMA DeleteStep ==
  ASSUME IInv, NEW n \in Slots, ChangeAction(n) \/ DeleteOldBlocks(n) PROVE IInv'
<1> DEFINE i == thr[n].ino
<1>s. thr[n].stage \in {"delete", "deleting"} /\ UNCHANGED <<cloud, toupload>> /\ ThreadFrame
  BY DEF ChangeAction, DeleteOldBlocks, files
<1>0. /\ TypeOK /\ InUse(n) /\ i \in Inodes /\ thr[n] \in ThrRec
      /\ Shape(n) /\ Snapshot(n) /\ Orderly(n)
      /\ progress[i] \in Actions /\ toupload[i] \in Nat
  BY <1>s, ThreadContext
<1>u. UNCHANGED <<exists, ver, in_transit, mod_after_in_transit>>
  BY <1>s DEF ThreadFrame, fs, sb
<1>1. CASE ChangeAction(n)
  <2>0. Goto(n, "deleting") /\ SetProgress(i, "DEL_BACKEND_BLOCKS") /\ UNCHANGED faults
    BY <1>1 DEF ChangeAction
  <2>1. /\ thr' \in [Slots -> ThrRec] /\ \A m \in Slots \ {n} : thr'[m] = thr[m]
        /\ thr'[n].stage = "deleting" /\ thr'[n].ino = i
        /\ thr'[n].revert = thr[n].revert /\ thr'[n].orderly = thr[n].orderly
    BY <1>0, <2>0, GotoEffect DEF Stages
  <2>2. progress'[i] = "DEL_BACKEND_BLOCKS" /\ "DEL_BACKEND_BLOCKS" \in Actions
    BY <1>0, <2>0 DEF SetProgress, TypeOK, Actions
  <2>3. Shape(n)' /\ Snapshot(n)'
    BY <1>0, <2>1, <2>2 DEF Shape, Snapshot, InUse
  <2>4. Orderly(n)'
    BY <1>0, <1>s, <1>u, <2>1 DEF Orderly, InUse, Current
  <2>5. QED
    BY <1>0, <1>s, <2>0, <2>1, <2>2, <2>3, <2>4, ThreadKeeps
<1>2. CASE DeleteOldBlocks(n)
  <2>1. PICK e \in BOOLEAN, c \in BOOLEAN :
          Finish(n, e, c) /\ (faults' = faults \/ Fault) /\ progress' = progress
    BY <1>2, <1>0 DEF DeleteOldBlocks, files
  <2>2. QED
    BY <1>0, <1>s, <2>1, FinishStep
<1>3. QED
  BY <1>1, <1>2

(* All steps of a sync thread.                                             *)
LEMMA ThreadInv == ASSUME IInv, NEW n \in Slots, ThreadStep(n) PROVE IInv'
  BY ContinueStep, OpenStep, BlocksStep, MetaStep, UnlinkStep, DeleteStep DEF ThreadStep

-----------------------------------------------------------------------------
(* collect_finished_sync_threads.                                          *)
LEMMA TransitStep == ASSUME IInv, NEW n \in Slots, TerminateTransit(n) PROVE IInv'
<1> DEFINE i == thr[n].ino
           e == thr[n].error \/ ~exists[i]
           c == thr[n].continue /\ exists[i]
           r == [[[thr[n] EXCEPT !.stage = "terminating"] EXCEPT !.error = e] EXCEPT !.continue = c]
<1>s. thr[n].stage = "finished" /\ update_transit(i, thr[n].error)
  BY DEF TerminateTransit
<1>0. /\ TypeOK /\ InUse(n) /\ i \in Inodes /\ thr[n] \in ThrRec
      /\ Shape(n) /\ Snapshot(n)
  BY <1>s, ThreadContext
<1>u. UNCHANGED <<fs, cloud, files, retry_list, loop, sems, sync_paused, faults>>
  BY DEF TerminateTransit
<1>1. /\ dirty' \in Seq(Inodes) /\ \A j : IsDirty(j)' => IsDirty(j)
      /\ in_transit' = [in_transit EXCEPT ![i] = FALSE]
      /\ mod_after_in_transit' = [mod_after_in_transit EXCEPT ![i] = FALSE]
  BY <1>0, <1>s, UpdateTransit
<1>2. /\ r \in ThrRec /\ r.stage = "terminating" /\ r.ino = i
      /\ r.revert = thr[n].revert /\ r.orderly = thr[n].orderly
  <2>1. e \in BOOLEAN /\ c \in BOOLEAN /\ "terminating" \in Stages
    BY DEF Stages
  <2> HIDE DEF e, c
  <2>2. QED
    BY <1>0, <2>1 DEF ThrRec
<1>3. thr' = [thr EXCEPT ![n] = r]
  BY <1>0 DEF TerminateTransit
<1> HIDE DEF r, e, c
<1>4. /\ thr' \in [Slots -> ThrRec] /\ \A m \in Slots \ {n} : thr'[m] = thr[m]
      /\ thr'[n] = r
  BY <1>0, <1>2, <1>3 DEF TypeOK, ThrRec
<1>5. /\ in_transit' \in [Inodes -> BOOLEAN] /\ mod_after_in_transit' \in [Inodes -> BOOLEAN]
      /\ \A j \in Inodes \ {i} : /\ in_transit'[j] = in_transit[j]
                                /\ mod_after_in_transit'[j] = mod_after_in_transit[j]
  BY <1>0, <1>1 DEF TypeOK
<1>6. TypeOK'
  BY <1>0, <1>1, <1>4, <1>5, <1>u DEF TypeOK, ThrRec, fs, files, sems
<1>7. (Shape(n) /\ Snapshot(n) /\ Orderly(n))'
  BY <1>0, <1>s, <1>2, <1>4, <1>u DEF Shape, Snapshot, Orderly, InUse, files
<1>8. QED
  BY <1>0, <1>1, <1>2, <1>4, <1>5, <1>6, <1>7, <1>u, SlotKeeps DEF fs, files, sems

(* _sync_terminate_thread unlinks the progress file.                       *)
LEMMA ProgressStep == ASSUME IInv, NEW n \in Slots, TerminateProgress(n) PROVE IInv'
<1> DEFINE i == thr[n].ino
<1>s. /\ thr[n].stage = "terminating" /\ Goto(n, "unlinking")
      /\ UNCHANGED <<cloud, toupload, faults>> /\ ThreadFrame
      /\ progress' = progress \/ SetProgress(i, "none")
  BY DEF TerminateProgress, ThreadFrame
<1>0. /\ TypeOK /\ InUse(n) /\ i \in Inodes /\ thr[n] \in ThrRec
      /\ Shape(n) /\ Snapshot(n)
  BY <1>s, ThreadContext
<1>1. /\ thr' \in [Slots -> ThrRec] /\ \A m \in Slots \ {n} : thr'[m] = thr[m]
      /\ thr'[n].stage = "unlinking" /\ thr'[n].ino = i
  BY <1>0, <1>s, GotoEffect DEF Stages
<1>2. (Shape(n) /\ Snapshot(n) /\ Orderly(n))'
  BY <1>0, <1>1 DEF Shape, Snapshot, Orderly, InUse
<1>3. QED
  BY <1>0, <1>s, <1>1, <1>2, ThreadKeeps DEF Actions

(* _sync_terminate_thread frees the slot, or puts the inode into the retry *)
(* list.                                                                   *)
LEMMA FreeStep == ASSUME IInv, NEW n \in Slots, TerminateFree(n) PROVE IInv'
<1> DEFINE i == thr[n].ino
<1>s. thr[n].stage = "unlinking"
  BY DEF TerminateFree
<1>0. TypeOK /\ InUse(n) /\ i \in Inodes
  BY <1>s, ThreadContext
<1>u. /\ UNCHANGED <<fs, cloud, sb, progress, loop, sync_paused, faults>>
      /\ sync_wait_sem' = 1 /\ sync_queue_sem' = sync_queue_sem + 1
      /\ thr' = [thr EXCEPT ![n] = FreeSlot]
      /\ toupload' = toupload \/ toupload' = [toupload EXCEPT ![i] = 0]
  BY DEF TerminateFree
<1>1. retry_list' \in [Slots -> Inode0]
  <2>1. CASE push_retry_inode(i)
    <3> DEFINE free == {k \in Slots : retry_list[k] = 0}
               first == CHOOSE k \in free : \A m \in free : k <= m
    <3>1. free # {} => first \in Slots
      <4>1. free \in SUBSET Slots
        OBVIOUS
      <4> HIDE DEF free
      <4>2. QED
        BY <4>1, FirstSlot
    <3>2. retry_list' = IF free = {} THEN retry_list ELSE [retry_list EXCEPT ![first] = i]
      BY <2>1 DEF push_retry_inode
    <3> HIDE DEF free, first
    <3>3. QED
      BY <1>0, <3>1, <3>2 DEF TypeOK, Inode0
  <2>2. CASE UNCHANGED retry_list
    BY <1>0, <2>2 DEF TypeOK
  <2>3. QED
    BY <2>1, <2>2 DEF TerminateFree
<1>2. /\ thr \in [Slots -> ThrRec] /\ thr' \in [Slots -> ThrRec]
      /\ \A m \in Slots \ {n} : thr'[m] = thr[m]
      /\ thr'[n].ino = 0 /\ thr'[n].stage = "free"
  <2>1. FreeSlot \in ThrRec /\ FreeSlot.ino = 0 /\ FreeSlot.stage = "free"
    BY RestTyped DEF FreeSlot
  <2>2. thr \in [Slots -> ThrRec]
    BY <1>0 DEF TypeOK, ThrRec
  <2>3. QED
    BY <2>1, <2>2, <1>u
<1>3. /\ toupload' \in [Inodes -> Nat]
      /\ \A j \in Inodes \ {i} : toupload'[j] = toupload[j]
  <2>1. toupload \in [Inodes -> Nat]
    BY <1>0 DEF TypeOK
  <2>2. toupload' = toupload \/ toupload' = [toupload EXCEPT ![i] = 0]
    BY <1>u
  <2>3. QED
    BY <2>1, <2>2
<1>4. TypeOK'
  <2>1. sync_queue_sem' \in Nat
    BY <1>0, <1>u DEF TypeOK
  <2>2. QED
    BY <1>0, <1>u, <1>1, <1>2, <1>3, <2>1 DEF TypeOK, ThrRec, fs, sb
<1>5. (Shape(n) /\ Snapshot(n) /\ Orderly(n))'
  BY <1>2 DEF Shape, Snapshot, Orderly, InUse
<1>6. \A m \in Slots \ {n} : thr[m].ino # i
  BY <1>0 DEF IInv, OneUploader
<1>7. OneUploader' /\ SlotsSound'
  BY <1>0, <1>u, <1>2, <1>3, <1>5, <1>6, OneSlot DEF fs, sb
<1>8. Modified'
  <2>1. \A j : IsDirty(j)' => IsDirty(j)
    BY <1>u DEF sb, IsDirty
  <2>2. QED
    BY <1>u, <2>1, ModifiedKept DEF IInv, fs
<1>9. SlotsConserved'
  <2> DEFINE S == {m \in Slots : InUse(m)}
  <2>1. S' = S \ {n} /\ n \in S
    BY <1>0, <1>2 DEF InUse
  <2>2. IsFiniteSet(S) /\ Cardinality(S) \in Nat /\ Active = Cardinality(S)
    BY ActiveType DEF Active
  <2>3. Cardinality(S \ {n}) = Cardinality(S) - 1
    BY <2>1, <2>2, FS_RemoveElement
  <2>4. Active' = Cardinality(S')
    BY DEF Active
  <2> HIDE DEF S
  <2>5. Active' = Active - 1 /\ Active \in Nat
    BY <2>1, <2>2, <2>3, <2>4
  <2>6. QED
    BY <2>5, <1>0, <1>u DEF IInv, SlotsConserved, TypeOK
<1>10. QED
  BY <1>4, <1>7, <1>8, <1>9 DEF IInv

(* All steps of the collector.                                             *)
LEMMA CollectInv == ASSUME IInv, NEW n \in Slots, Collect(n) PROVE IInv'
  BY TransitStep, ProgressStep, FreeStep DEF Collect

-----------------------------------------------------------------------------
(* upload_loop.                                                            *)

(* A step that leaves the slots and the versions alone, and notes at most  *)
(* the transit of an inode that was not in transit.                        *)
LEMMA SlotsKept ==
  ASSUME IInv, UNCHANGED <<thr, exists, ver, toupload, progress, cloud>>,
         \/ UNCHANGED <<in_transit, mod_after_in_transit>>
         \/ \E i \in Inodes :
              /\ ~in_transit[i]
              /\ in_transit' = [in_transit EXCEPT ![i] = TRUE]
              /\ mod_after_in_transit' = [mod_after_in_transit EXCEPT ![i] = FALSE]
  PROVE  OneUploader' /\ SlotsSound' /\ Active' = Active
<1>0. /\ thr \in [Slots -> ThrRec] /\ in_transit \in [Inodes -> BOOLEAN]
      /\ mod_after_in_transit \in [Inodes -> BOOLEAN]
  BY DEF IInv, TypeOK, ThrRec
<1>1. \A j \in Inodes : in_transit[j] =>
        in_transit'[j] /\ mod_after_in_transit'[j] = mod_after_in_transit[j]
  BY <1>0
<1>2. OneUploader'
  BY DEF IInv, OneUploader, InUse
<1>3. ASSUME NEW m \in Slots PROVE (Shape(m) /\ Snapshot(m) /\ Orderly(m))'
  <2>1. Shape(m) /\ Snapshot(m) /\ Orderly(m) /\ thr[m].ino \in Inodes \cup {0}
    BY <1>0 DEF IInv, SlotsSound, ThrRec, Inode0
  <2>2. Shape(m)' /\ Snapshot(m)'
    BY <2>1 DEF Shape, Snapshot, InUse
  <2>3. Orderly(m)'
    BY <2>1, <1>1 DEF Orderly, InUse, Current
  <2>4. QED
    BY <2>2, <2>3
<1>4. QED
  BY <1>2, <1>3, ActiveKept DEF SlotsSound

(* The loop starts a scan, sleeps, wakes or waits for a slot.              *)
LEMMA MoveStep ==
  ASSUME IInv, StartScan \/ SleepPaused \/ WakeUp \/ WaitSlot PROVE IInv'
<1>1. /\ UNCHANGED <<fs, cloud, sb, files, ctl, sync_queue_sem>>
  BY DEF StartScan, SleepPaused, WakeUp, WaitSlot, sems
<1>2. TypeOK' /\ loop'.ino_sync = loop.ino_sync /\ loop'.pc # "sched" /\ loop.pc # "sched"
  BY LoopMoveType DEF IInv
<1>3. OneUploader' /\ SlotsSound' /\ Active' = Active
  BY <1>1, SlotsKept DEF fs, sb, files, ctl
<1>4. Modified'
  BY <1>1, <1>2, ModifiedKept DEF IInv, fs, sb, IsDirty
<1>5. SlotsConserved'
  BY <1>1, <1>2, <1>3 DEF IInv, SlotsConserved
<1>6. QED
  BY <1>2, <1>3, <1>4, <1>5 DEF IInv

(* The loop takes a slot and an inode of the dirty queue.                  *)
LEMMA PullStep == ASSUME IInv, PullInode PROVE IInv'
<1>0. TypeOK /\ TypeOK'
  BY PullType DEF IInv
<1>1. /\ UNCHANGED <<fs, cloud, dirty, files, thr>> /\ loop.pc = "slot"
      /\ sync_queue_sem > 0 /\ sync_queue_sem' = sync_queue_sem - 1
  BY DEF PullInode
<1>2. PICK i \in Inode0 :
        /\ loop'.pc = "sched" /\ loop'.ino_sync = i
        /\ i # 0 => IsDirty(i)
        /\ \/ UNCHANGED <<in_transit, mod_after_in_transit>>
           \/ /\ i # 0 /\ ~in_transit[i]
              /\ in_transit' = [in_transit EXCEPT ![i] = TRUE]
              /\ mod_after_in_transit' = [mod_after_in_transit EXCEPT ![i] = FALSE]
  BY <1>0, PullEffect
<1>3. OneUploader' /\ SlotsSound' /\ Active' = Active
  BY <1>1, <1>2, SlotsKept DEF fs, files, Inode0
<1>4. Modified'
  BY <1>1, <1>2, UploadLoopAssumption DEF IInv, Modified, fs, IsDirty
<1>5. SlotsConserved'
  BY <1>0, <1>1, <1>2, <1>3, ActiveType DEF IInv, SlotsConserved, TypeOK
<1>6. QED
  BY <1>0, <1>3, <1>4, <1>5 DEF IInv

(* The loop gives back the slot it holds.                                  *)
LEMMA SlotReleased ==
  ASSUME IInv, loop.pc = "sched", loop'.pc \in {"start", "pull"}, Active' = Active,
         sync_queue_sem' = sync_queue_sem + 1
  PROVE  SlotsConserved'
<1>1. sync_queue_sem \in Nat /\ Active \in Nat
  BY ActiveType DEF IInv, TypeOK
<1>2. sync_queue_sem + Active + 1 = MAX_SYNC_CONCURRENCY
  BY DEF IInv, SlotsConserved
<1>3. loop'.pc # "sched"
  OBVIOUS
<1>4. QED
  BY <1>1, <1>2, <1>3 DEF SlotsConserved

(* The inode is not uploaded yet: the slot goes back.                      *)
LEMMA SkipStep == ASSUME IInv, SkipInode PROVE IInv'
<1>0. TypeOK /\ loop.pc = "sched" /\ sync_queue_sem' = sync_queue_sem + 1 /\ NextInode
      /\ UNCHANGED <<fs, cloud, sb, files, ctl, sync_wait_sem, sync_paused, faults>>
  BY DEF IInv, SkipInode
<1>1. loop' \in LoopRec /\ loop'.ino_sync = 0 /\ loop'.pc \in {"start", "pull"}
  BY <1>0, NextInodeEffect
<1>2. TypeOK'
  <2>1. sync_queue_sem' \in Nat
    BY <1>0 DEF TypeOK
  <2>2. QED
    BY <1>0, <1>1, <2>1 DEF TypeOK, LoopRec, fs, sb, files, ctl
<1>3. OneUploader' /\ SlotsSound' /\ Active' = Active
  BY <1>0, SlotsKept DEF fs, sb, files, ctl
<1>4. Modified'
  BY <1>0, <1>1, ModifiedKept DEF IInv, fs, sb, IsDirty
<1>5. SlotsConserved'
  BY <1>0, <1>1, <1>3, SlotReleased
<1>6. QED
  BY <1>2, <1>3, <1>4, <1>5 DEF IInv

(* An inode that is being uploaded, or whose meta file has gone.           *)
LEMMA SyncSkippedStep ==
  ASSUME IInv, SyncInode, thr' = thr,
         loop.ino_sync \in Inodes, sync_queue_sem' = sync_queue_sem + 1,
         \/ UNCHANGED <<sb, files>>
         \/ /\ ~in_sync(loop.ino_sync) /\ update_transit(loop.ino_sync, TRUE)
            /\ SetProgress(loop.ino_sync, "none") /\ UNCHANGED toupload
  PROVE  IInv'
<1> DEFINE i == loop.ino_sync
<1>0. TypeOK /\ loop.pc = "sched" /\ NextInode
      /\ UNCHANGED <<fs, cloud, retry_list, sync_wait_sem, sync_paused, faults>>
  BY DEF IInv, SyncInode
<1>1. loop' \in LoopRec /\ loop'.ino_sync = 0 /\ loop'.pc \in {"start", "pull"}
  BY <1>0, NextInodeEffect
<1>2. /\ dirty' \in Seq(Inodes) /\ (\A j : IsDirty(j)' => IsDirty(j))
      /\ in_transit' \in [Inodes -> BOOLEAN] /\ mod_after_in_transit' \in [Inodes -> BOOLEAN]
      /\ progress' \in [Inodes -> Actions] /\ toupload' = toupload
      /\ OneUploader' /\ SlotsSound' /\ Active' = Active
  <2>1. CASE UNCHANGED <<sb, files>>
    <3>1. UNCHANGED <<dirty, in_transit, mod_after_in_transit, toupload, progress>>
      BY <2>1 DEF sb, files
    <3>2. OneUploader' /\ SlotsSound' /\ Active' = Active
      BY <1>0, <3>1, SlotsKept DEF fs
    <3>3. QED
      BY <1>0, <3>1, <3>2 DEF TypeOK, IsDirty
  <2>2. CASE /\ ~in_sync(i) /\ update_transit(i, TRUE)
             /\ SetProgress(i, "none") /\ UNCHANGED toupload
    <3>1. /\ dirty' \in Seq(Inodes) /\ (\A j : IsDirty(j)' => IsDirty(j))
          /\ in_transit' = [in_transit EXCEPT ![i] = FALSE]
          /\ mod_after_in_transit' = [mod_after_in_transit EXCEPT ![i] = FALSE]
      BY <1>0, <2>2, UpdateTransit
    <3>2. /\ in_transit' \in [Inodes -> BOOLEAN] /\ mod_after_in_transit' \in [Inodes -> BOOLEAN]
          /\ progress' \in [Inodes -> Actions]
          /\ \A j \in Inodes \ {i} :
               /\ in_transit'[j] = in_transit[j]
               /\ mod_after_in_transit'[j] = mod_after_in_transit[j]
               /\ progress'[j] = progress[j]
      BY <1>0, <2>2, <3>1 DEF TypeOK, SetProgress, Actions
    <3>3. OneUploader'
      BY DEF IInv, OneUploader, InUse
    <3>4. ASSUME NEW m \in Slots PROVE (Shape(m) /\ Snapshot(m) /\ Orderly(m))'
      <4>1. /\ Shape(m) /\ Snapshot(m) /\ Orderly(m)
            /\ thr[m].ino \in Inodes \cup {0} /\ thr[m].ino # i
        BY <1>0, <2>2 DEF IInv, SlotsSound, TypeOK, Inode0, in_sync
      <4>2. QED
        BY <1>0, <2>2, <3>2, <4>1 DEF Shape, Snapshot, Orderly, InUse, Current, fs
    <3>5. QED
      BY <2>2, <3>1, <3>2, <3>3, <3>4, ActiveKept DEF SlotsSound
  <2>3. QED
    BY <2>1, <2>2
<1>3. TypeOK'
  <2>1. sync_queue_sem' \in Nat
    BY <1>0 DEF TypeOK
  <2>2. QED
    BY <1>0, <1>1, <1>2, <2>1 DEF TypeOK, LoopRec, fs
<1>4. Modified'
  BY <1>0, <1>1, <1>2, ModifiedKept DEF IInv, fs
<1>5. SlotsConserved'
  BY <1>0, <1>1, <1>2, SlotReleased
<1>6. QED
  BY <1>2, <1>3, <1>4, <1>5 DEF IInv

(* _sync_mark finds a free slot: the loop holds one.                       *)
LEMMA FreeSlotLeft ==
  ASSUME IInv, loop.pc = "sched"
  PROVE  \E n \in Slots : ~InUse(n)
<1> SUFFICES ASSUME \A n \in Slots : InUse(n) PROVE FALSE
  OBVIOUS
<1>1. {n \in Slots : InUse(n)} = Slots
  OBVIOUS
<1>2. Active = MAX_SYNC_CONCURRENCY
  BY <1>1, ActiveType DEF Active
<1>3. QED
  BY <1>2, UploadLoopAssumption DEF IInv, SlotsConserved, TypeOK

(* _sync_mark gives the inode a free slot and starts its thread.           *)
LEMMA SyncMarkedStep ==
  ASSUME IInv, SyncInode, ~in_sync(loop.ino_sync), exists[loop.ino_sync],
         loop.ino_sync \in Inodes, sync_queue_sem' = sync_queue_sem, UNCHANGED sb,
         NEW n \in Slots, ~InUse(n), NEW revert \in BOOLEAN,
         revert <=> progress[loop.ino_sync] # "none",
         thr' = [thr EXCEPT ![n] =
                   [ino |-> loop.ino_sync, stage |-> IF revert THEN "continue" ELSE "open",
                    error |-> FALSE, continue |-> FALSE, revert |-> revert,
                    orderly |-> in_transit[loop.ino_sync]]],
         toupload' = IF revert THEN toupload
                     ELSE [toupload EXCEPT ![loop.ino_sync] = ver[loop.ino_sync]],
         progress' = IF revert THEN progress
                     ELSE [progress EXCEPT ![loop.ino_sync] = "PREPARING"]
  PROVE  IInv'
<1> DEFINE i == loop.ino_sync
           stage == IF revert THEN "continue" ELSE "open"
           r == [ino |-> i, stage |-> stage, error |-> FALSE, continue |-> FALSE,
                 revert |-> revert, orderly |-> in_transit[i]]
<1>0. TypeOK /\ loop.pc = "sched" /\ NextInode
      /\ UNCHANGED <<fs, cloud, retry_list, sync_wait_sem, sync_paused, faults>>
  BY DEF IInv, SyncInode
<1>1. loop' \in LoopRec /\ loop'.ino_sync = 0 /\ loop'.pc \in {"start", "pull"}
  BY <1>0, NextInodeEffect
<1>2. /\ r \in ThrRec /\ r.ino = i /\ r.revert = revert /\ r.orderly = in_transit[i]
      /\ r.stage = stage /\ i # 0
  <2>1. stage \in Stages /\ in_transit[i] \in BOOLEAN /\ i \in Inode0 /\ i # 0
    BY <1>0, UploadLoopAssumption DEF Stages, TypeOK, Inode0
  <2> HIDE DEF stage
  <2>2. QED
    BY <2>1 DEF ThrRec
<1>3. /\ thr \in [Slots -> ThrRec] /\ thr' \in [Slots -> ThrRec]
      /\ (\A m \in Slots \ {n} : thr'[m] = thr[m]) /\ thr'[n] = r
  <2>1. thr' = [thr EXCEPT ![n] = r] /\ thr \in [Slots -> ThrRec]
    BY <1>0 DEF TypeOK, ThrRec
  <2> HIDE DEF r
  <2>2. QED
    BY <1>2, <2>1
<1>4. /\ toupload' \in [Inodes -> Nat] /\ progress' \in [Inodes -> Actions]
      /\ (\A j \in Inodes \ {i} : toupload'[j] = toupload[j] /\ progress'[j] = progress[j])
      /\ progress'[i] # "none" /\ (~revert => toupload'[i] = ver[i] /\ ver[i] # 0)
  <2>1. ver[i] # 0 /\ ver[i] \in Nat
    BY <1>0 DEF IInv, Modified, TypeOK
  <2>2. toupload \in [Inodes -> Nat] /\ progress \in [Inodes -> Actions]
    BY <1>0 DEF TypeOK
  <2>3. CASE revert
    BY <2>2, <2>3
  <2>4. CASE ~revert
    BY <2>1, <2>2, <2>4 DEF Actions
  <2>5. QED
    BY <2>3, <2>4
<1> HIDE DEF r
<1>5. UNCHANGED <<exists, ver, cloud, dirty, in_transit, mod_after_in_transit>>
  BY <1>0 DEF fs, sb
<1>6. (Shape(n) /\ Snapshot(n) /\ Orderly(n))'
  <2>1. Shape(n)' /\ Snapshot(n)'
    BY <1>2, <1>3, <1>4 DEF Shape, Snapshot, InUse
  <2>2. Orderly(n)'
    BY <1>2, <1>3, <1>4, <1>5, ZenonT(60) DEF Orderly, InUse, Current
  <2>3. QED
    BY <2>1, <2>2
<1>7. OneUploader' /\ SlotsSound'
  <2>1. \A m \in Slots \ {n} : thr[m].ino # i
    BY DEF in_sync
  <2>2. QED
    BY <1>2, <1>3, <1>4, <1>5, <1>6, <2>1, OneSlot
<1>8. TypeOK'
  BY <1>0, <1>1, <1>3, <1>4, <1>5 DEF TypeOK, ThrRec, LoopRec
<1>9. Modified'
  BY <1>1, <1>5, ModifiedKept DEF IInv, IsDirty
<1>10. SlotsConserved'
  <2> DEFINE S == {m \in Slots : InUse(m)}
  <2>1. S' = S \cup {n} /\ n \notin S
    BY <1>2, <1>3 DEF InUse
  <2>2. IsFiniteSet(S) /\ Cardinality(S) \in Nat /\ Active = Cardinality(S)
    BY ActiveType DEF Active
  <2>3. Cardinality(S \cup {n}) = Cardinality(S) + 1
    BY <2>1, <2>2, FS_AddElement
  <2>4. Active' = Cardinality(S')
    BY DEF Active
  <2> HIDE DEF S
  <2>5. Active' = Active + 1 /\ Active \in Nat
    BY <2>1, <2>2, <2>3, <2>4
  <2>6. sync_queue_sem \in Nat /\ sync_queue_sem' = sync_queue_sem
    BY <1>0 DEF TypeOK
  <2>7. sync_queue_sem + Active + 1 = MAX_SYNC_CONCURRENCY
    BY <1>0 DEF IInv, SlotsConserved
  <2>8. sync_queue_sem' + Active' + 0 = MAX_SYNC_CONCURRENCY
    BY ONLY <2>5, <2>6, <2>7
  <2>9. loop'.pc # "sched"
    BY <1>1
  <2>10. QED
    BY <2>8, <2>9 DEF SlotsConserved
<1>11. QED
  BY <1>7, <1>8, <1>9, <1>10 DEF IInv

(* The two ends of the loop's turn: the inode is passed over or started.   *)
LEMMA SyncStep == ASSUME IInv, SyncInode PROVE IInv'
<1> DEFINE i == loop.ino_sync
           free == {n \in Slots : ~InUse(n)}
           n == CHOOSE k \in free : \A m \in free : k <= m
           revert == progress[i] # "none"
<1>0. loop.pc = "sched" /\ i \in Inodes
  BY DEF IInv, TypeOK, SyncInode, Inode0
<1>1. CASE in_sync(i) /\ sync_queue_sem' = sync_queue_sem + 1 /\ UNCHANGED <<sb, files, thr>>
  BY <1>0, <1>1, SyncSkippedStep
<1>2. CASE /\ ~in_sync(i) /\ update_transit(i, TRUE)
           /\ progress' = [progress EXCEPT ![i] = "none"]
           /\ sync_queue_sem' = sync_queue_sem + 1 /\ UNCHANGED <<toupload, thr>>
  BY <1>0, <1>2, SyncSkippedStep DEF SetProgress
<1>3. CASE /\ ~in_sync(i) /\ exists[i]
           /\ thr' = IF free = {} THEN thr
                     ELSE [thr EXCEPT ![n] =
                       [ino |-> i, stage |-> IF revert THEN "continue" ELSE "open",
                        error |-> FALSE, continue |-> FALSE, revert |-> revert,
                        orderly |-> in_transit[i]]]
           /\ toupload' = IF revert \/ free = {} THEN toupload
                          ELSE [toupload EXCEPT ![i] = ver[i]]
           /\ progress' = IF revert \/ free = {} THEN progress
                          ELSE [progress EXCEPT ![i] = "PREPARING"]
           /\ UNCHANGED <<sb, sync_queue_sem>>
  <2>1. free # {} /\ free \in SUBSET Slots
    BY <1>0, FreeSlotLeft
  <2> HIDE DEF free
  <2>2. n \in free
    BY <2>1, FirstSlot
  <2>3. n \in Slots /\ ~InUse(n)
    BY <2>2 DEF free
  <2> HIDE DEF n
  <2>4. /\ thr' = [thr EXCEPT ![n] =
                   [ino |-> i, stage |-> IF revert THEN "continue" ELSE "open",
                    error |-> FALSE, continue |-> FALSE, revert |-> revert,
                    orderly |-> in_transit[i]]]
        /\ toupload' = IF revert THEN toupload ELSE [toupload EXCEPT ![i] = ver[i]]
        /\ progress' = IF revert THEN progress ELSE [progress EXCEPT ![i] = "PREPARING"]
    BY <1>3, <2>1
  <2>5. revert \in BOOLEAN /\ (revert <=> progress[i] # "none")
    OBVIOUS
  <2> HIDE DEF revert
  <2>6. QED
    BY <1>0, <1>3, <2>3, <2>4, <2>5, SyncMarkedStep
<1>4. QED
  BY <1>1, <1>2, <1>3 DEF SyncInode

(* All steps of the loop.                                                  *)
LEMMA LoopInv == ASSUME IInv, Loop PROVE IInv'
  BY MoveStep, PullStep, SkipStep, SyncStep DEF Loop

-----------------------------------------------------------------------------
(* File system calls, the connection and crashes.                          *)
LEMMA ModifyStep == ASSUME IInv, NEW i \in Inodes, Modify(i) PROVE IInv'
<1>0. TypeOK /\ TypeOK'
  BY CallsType DEF IInv
<1>1. /\ UNCHANGED <<exists, cloud, in_transit, files, ctl, loop, sync_queue_sem>>
      /\ ver' = [ver EXCEPT ![i] = @ + 1]
      /\ mod_after_in_transit' =
           [mod_after_in_transit EXCEPT ![i] = mod_after_in_transit[i] \/ in_transit[i]]
  BY DEF Modify
<1>2. /\ ver'[i] # 0 /\ \A j \in Inodes \ {i} : ver'[j] = ver[j]
      /\ mod_after_in_transit'[i] = (mod_after_in_transit[i] \/ in_transit[i])
      /\ \A j \in Inodes \ {i} : mod_after_in_transit'[j] = mod_after_in_transit[j]
  <2>1. ver \in [Inodes -> Nat] /\ mod_after_in_transit \in [Inodes -> BOOLEAN]
    BY <1>0 DEF TypeOK
  <2>2. /\ ver'[i] = ver[i] + 1 /\ \A j \in Inodes \ {i} : ver'[j] = ver[j]
    BY <1>1, <2>1
  <2>3. QED
    BY <1>1, <2>1, <2>2
<1>3. OneUploader' /\ Active' = Active
  BY <1>1, ActiveKept DEF IInv, OneUploader, InUse, ctl
<1>4. SlotsSound'
  <2> SUFFICES ASSUME NEW m \in Slots PROVE (Shape(m) /\ Snapshot(m) /\ Orderly(m))'
    BY DEF SlotsSound
  <2>1. Shape(m) /\ Snapshot(m) /\ Orderly(m) /\ thr[m].ino \in Inodes \cup {0}
    BY <1>0 DEF IInv, SlotsSound, TypeOK, Inode0
  <2>2. Shape(m)' /\ Snapshot(m)'
    BY <1>1, <2>1 DEF Shape, Snapshot, InUse, files, ctl
  <2>3. Orderly(m)'
    BY <1>1, <1>2, <2>1, ZenonT(60) DEF Orderly, InUse, Current, files, ctl
  <2>4. QED
    BY <2>2, <2>3
<1>5. Modified'
  <2>1. ASSUME NEW j \in Inodes \ {i} PROVE IsDirty(j)' => IsDirty(j)
    <3>1. CASE IsDirty(i)
      BY <3>1 DEF Modify, IsDirty
    <3>2. CASE ~IsDirty(i)
      <4>1. dirty' = Append(dirty, i) /\ dirty \in Seq(Inodes)
        BY <1>0, <3>2 DEF Modify, TypeOK
      <4>2. QED
        BY <4>1 DEF IsDirty, Contains
    <3>3. QED
      BY <3>1, <3>2
  <2>2. QED
    BY <1>1, <1>2, <2>1 DEF IInv, Modified
<1>6. SlotsConserved'
  BY <1>1, <1>3 DEF IInv, SlotsConserved
<1>7. QED
  BY <1>0, <1>3, <1>4, <1>5, <1>6 DEF IInv

(* The removal of an inode, also while it is being uploaded.               *)
LEMMA RemoveStep == ASSUME IInv, NEW i \in Inodes, RemoveInode(i) PROVE IInv'
<1>0. TypeOK /\ TypeOK'
  BY CallsType DEF IInv
<1>1. /\ UNCHANGED <<cloud, mod_after_in_transit, files, ctl, loop, sems>>
      /\ exists' = [exists EXCEPT ![i] = FALSE] /\ ver' = [ver EXCEPT ![i] = 0]
      /\ in_transit' = [in_transit EXCEPT ![i] = FALSE]
  BY DEF RemoveInode
<1>2. /\ ~exists'[i]
      /\ \A j \in Inodes \ {i} : /\ exists'[j] = exists[j] /\ ver'[j] = ver[j]
                                /\ in_transit'[j] = in_transit[j]
  BY <1>0, <1>1 DEF TypeOK
<1>3. OneUploader' /\ Active' = Active
  BY <1>1, ActiveKept DEF IInv, OneUploader, InUse, ctl
<1>4. SlotsSound'
  <2> SUFFICES ASSUME NEW m \in Slots PROVE (Shape(m) /\ Snapshot(m) /\ Orderly(m))'
    BY DEF SlotsSound
  <2>1. Shape(m) /\ Snapshot(m) /\ Orderly(m) /\ thr[m].ino \in Inodes \cup {0}
    BY <1>0 DEF IInv, SlotsSound, TypeOK, Inode0
  <2>2. Shape(m)' /\ Snapshot(m)'
    BY <1>1, <2>1 DEF Shape, Snapshot, InUse, files, ctl
  <2>3. Orderly(m)'
    BY <1>1, <1>2, <2>1 DEF Orderly, InUse, Current, files, ctl
  <2>4. QED
    BY <2>2, <2>3
<1>5. Modified'
  <2>1. \A j : IsDirty(j)' => IsDirty(j)
    BY <1>0, DequeueProperties DEF RemoveInode, TypeOK, IsDirty
  <2>2. QED
    BY <1>1, <1>2, <2>1 DEF IInv, Modified
<1>6. SlotsConserved'
  BY <1>1, <1>3 DEF IInv, SlotsConserved, sems
<1>7. QED
  BY <1>0, <1>3, <1>4, <1>5, <1>6 DEF IInv

(* The monitor changes sync_paused and wakes the loop.                     *)
LEMMA ConnectionStep == ASSUME IInv, GoOffline \/ GoOnline PROVE IInv'
<1>1. TypeOK' /\ UNCHANGED <<fs, cloud, sb, files, ctl, loop, sync_queue_sem>>
  BY OtherType DEF IInv, GoOffline, GoOnline, sems
<1>2. OneUploader' /\ SlotsSound' /\ Active' = Active
  BY <1>1, SlotsKept DEF fs, sb, files, ctl
<1>3. Modified'
  BY <1>1, ModifiedKept DEF IInv, fs, sb, IsDirty
<1>4. SlotsConserved'
  BY <1>1, <1>2 DEF IInv, SlotsConserved
<1>5. QED
  BY <1>1, <1>2, <1>3, <1>4 DEF IInv

(* With every slot free and the loop at its start.                         *)
AtStart == /\ thr = [n \in Slots |-> FreeSlot] /\ loop = LoopStart
           /\ sync_queue_sem = MAX_SYNC_CONCURRENCY

(* With every slot free nothing is claimed of any.                         *)
LEMMA AllFree == AtStart => OneUploader /\ SlotsSound /\ SlotsConserved
<1> SUFFICES ASSUME AtStart PROVE OneUploader /\ SlotsSound /\ SlotsConserved
  OBVIOUS
<1>1. FreeSlot.ino = 0 /\ FreeSlot.stage = "free" /\ loop.pc = "start"
  BY DEF FreeSlot, LoopStart, AtStart
<1>2. \A n \in Slots : thr[n] = FreeSlot
  BY DEF AtStart
<1>3. OneUploader /\ SlotsSound
  BY <1>1, <1>2 DEF OneUploader, SlotsSound, Shape, Snapshot, Orderly, InUse
<1>4. {n \in Slots : InUse(n)} = {}
  BY <1>1, <1>2 DEF InUse
<1>5. Active = 0
  BY <1>4, FS_EmptySet DEF Active
<1>6. QED
  BY <1>1, <1>3, <1>5, UploadLoopAssumption DEF SlotsConserved, AtStart

(* A crash leaves what is on disk and frees every slot.                    *)
LEMMA CrashStep == ASSUME IInv, Crash PROVE IInv'
<1>1. TypeOK'
  BY OtherType DEF IInv
<1>2. (OneUploader /\ SlotsSound /\ SlotsConserved)'
  <2>1. AtStart'
    BY DEF Crash, AtStart
  <2>2. QED
    BY <2>1, AllFree, PTL
<1>3. Modified'
  <2>1. /\ loop'.ino_sync = 0 /\ UNCHANGED <<exists, ver, dirty>>
    BY DEF Crash, LoopStart, fs, sb
  <2>2. QED
    BY <2>1, ModifiedKept DEF IInv, IsDirty
<1>4. QED
  BY <1>1, <1>2, <1>3 DEF IInv

-----------------------------------------------------------------------------
(* The invariant holds at the start.                                       *)
LEMMA InitInv == Init => IInv
<1> SUFFICES ASSUME Init PROVE IInv
  OBVIOUS
<1>1. OneUploader /\ SlotsSound /\ SlotsConserved
  BY AllFree DEF Init, AtStart
<1>2. Modified
  <2>1. loop.ino_sync = 0 /\ dirty = <<>>
    BY DEF Init, LoopStart
  <2>2. \A j : ~IsDirty(j)
    BY <2>1 DEF IsDirty, Contains
  <2>3. QED
    BY <2>1, <2>2, UploadLoopAssumption DEF Modified
<1>3. QED
  BY <1>1, <1>2, InitType DEF IInv

(* Every step keeps it.                                                    *)
LEMMA StepInv == IInv /\ [Next]_vars => IInv'
<1> SUFFICES ASSUME IInv, [Next]_vars PROVE IInv'
  OBVIOUS
<1>1. CASE UNCHANGED vars
  <2>1. /\ UNCHANGED <<exists, ver, cloud, dirty, in_transit, mod_after_in_transit, toupload>>
        /\ UNCHANGED <<progress, thr, retry_list, loop, sync_queue_sem, sync_wait_sem>>
        /\ UNCHANGED <<sync_paused, faults>>
    BY <1>1 DEF vars, fs, sb, files, ctl, sems
  <2>2. TypeOK'
    BY <2>1 DEF IInv, TypeOK
  <2>3. OneUploader' /\ SlotsSound' /\ Active' = Active
    BY <2>1, SlotsKept
  <2>4. Modified' /\ SlotsConserved'
    BY <2>1, <2>3, ModifiedKept DEF IInv, SlotsConserved, IsDirty
  <2>5. QED
    BY <2>2, <2>3, <2>4 DEF IInv
<1>2. CASE Next
  BY <1>2, ModifyStep, RemoveStep, LoopInv, ThreadInv, CollectInv, ConnectionStep, CrashStep
     DEF Next
<1>3. QED
  BY <1>1, <1>2

(* The inductive invariant of the upload.                                  *)
LEMMA Invariance == Spec => []IInv
<1>1. QED
  BY InitInv, StepInv, PTL DEF Spec

(* Every variable of the upload keeps its type: sync_wait_sem in           *)
(* particular stays a binary semaphore however often it is posted.         *)
THEOREM UploadTypeCorrect == Spec => []TypeOK
<1>1. IInv => TypeOK
  BY DEF IInv
<1>2. QED
  BY <1>1, Invariance, PTL

(* No inode is ever uploaded by two sync threads, for any number of slots  *)
(* and inodes, with retries, removals, disconnections and crashes.         *)
THEOREM UploadOneUploader == Spec => []OneUploader
<1>1. IInv => OneUploader
  BY DEF IInv
<1>2. QED
  BY <1>1, Invariance, PTL

(* sync_queue_sem is exact: no path through upload_loop or the collector   *)
(* leaks a slot or gives one back twice, so that _sync_mark always finds   *)
(* the free slot it does not check for.                                    *)
THEOREM UploadSlotsConserved == Spec => []SlotsConserved
<1>1. IInv => SlotsConserved
  BY DEF IInv
<1>2. QED
  BY <1>1, Invariance, PTL

(* A thread never works without the to-upload meta and the progress file   *)
(* it needs, also when it continues an upload of an earlier process.       *)
THEOREM UploadSnapshotPresent == Spec => []SnapshotPresent
<1>1. IInv => SnapshotPresent
  BY DEF IInv, SlotsSound, Snapshot, SnapshotPresent
<1>2. QED
  BY <1>1, Invariance, PTL

(* An upload that began in transit and from a fresh copy takes its inode   *)
(* off the dirty queue only if the cloud has the current version: a        *)
(* modification at any point of the upload keeps the inode queued.         *)
THEOREM UploadCompletionIsClean == Spec => CompletionIsClean
<1> DEFINE Clean ==
      \A n \in Slots :
        /\ thr[n].stage = "finished" /\ thr'[n].stage = "terminating"
        /\ thr[n].orderly /\ ~thr[n].revert /\ exists[thr[n].ino] /\ Leaves(thr[n].ino)
        => cloud[thr[n].ino] = ver[thr[n].ino]
<1>1. IInv /\ [Next]_vars => [Clean]_vars
  <2> SUFFICES ASSUME IInv, Next,
                      NEW n \in Slots, thr[n].stage = "finished", thr'[n].stage = "terminating",
                      thr[n].orderly, ~thr[n].revert, exists[thr[n].ino], Leaves(thr[n].ino)
               PROVE  cloud[thr[n].ino] = ver[thr[n].ino]
    BY DEF Clean
  <2> DEFINE i == thr[n].ino
  <2>0. /\ TypeOK /\ InUse(n) /\ i \in Inodes /\ Orderly(n)
    BY ThreadContext
  <2>1. TerminateTransit(n)
    <3> SUFFICES ASSUME ~TerminateTransit(n) PROVE FALSE
      OBVIOUS
    <3>0. thr \in [Slots -> ThrRec]
      BY <2>0 DEF TypeOK, ThrRec
    <3>1. CASE \E j \in Inodes : Modify(j) \/ RemoveInode(j)
      BY <3>1 DEF Modify, RemoveInode, ctl
    <3>2. CASE StartScan \/ SleepPaused \/ WakeUp \/ WaitSlot \/ PullInode \/ SkipInode
      BY <3>2 DEF StartScan, SleepPaused, WakeUp, WaitSlot, PullInode, SkipInode, ctl
    <3>3. CASE SyncInode
      <4> DEFINE revert == progress[loop.ino_sync] # "none"
                 st == IF revert THEN "continue" ELSE "open"
                 r == [ino |-> loop.ino_sync, stage |-> st, error |-> FALSE, continue |-> FALSE,
                       revert |-> revert, orderly |-> in_transit[loop.ino_sync]]
                 free == {k \in Slots : ~InUse(k)}
                 first == CHOOSE k \in free : \A m \in free : k <= m
      <4>1. thr' = thr \/ thr' = [thr EXCEPT ![first] = r]
        BY <3>3, Zenon DEF SyncInode
      <4>2. r.stage # "terminating"
        OBVIOUS
      <4> HIDE DEF r, first
      <4>3. QED
        BY <3>0, <4>1, <4>2
    <3>4. ASSUME NEW m \in Slots, ThreadStep(m) \/ Collect(m) PROVE FALSE
      <4>1. CASE m = n
        BY <3>4, <4>1 DEF ThreadStep, Collect, continue_inode_sync, OpenFiles, SyncBlocks,
           SyncMeta, UnlinkMeta, ChangeAction, DeleteOldBlocks, TerminateProgress, TerminateFree
      <4>2. CASE m # n
        <5>1. \A s, e, c : Goto(m, s) \/ Finish(m, e, c) => thr'[n] = thr[n]
          BY <3>0, <4>2 DEF Goto, Finish
        <5>2. CASE ThreadStep(m)
          BY <5>1, <5>2 DEF ThreadStep, continue_inode_sync, OpenFiles, SyncBlocks,
             SyncMeta, UnlinkMeta, ChangeAction, DeleteOldBlocks
        <5>3. CASE Collect(m)
          BY <5>1, <5>3, <3>0, <4>2 DEF Collect, TerminateTransit, TerminateProgress, TerminateFree
        <5>4. QED
          BY <3>4, <5>2, <5>3
      <4>3. QED
        BY <4>1, <4>2
    <3>5. CASE GoOffline \/ GoOnline
      BY <3>5 DEF GoOffline, GoOnline, ctl
    <3>6. CASE Crash
      BY <3>6 DEF Crash, FreeSlot
    <3>7. QED
      BY <3>1, <3>2, <3>3, <3>4, <3>5, <3>6 DEF Next, Loop
  <2>2. update_transit(i, thr[n].error) /\ Leaves(i)
    BY <2>1 DEF TerminateTransit
  <2>3. ~thr[n].error /\ ~mod_after_in_transit[i]
    BY <2>2 DEF update_transit, Leaves, IsDirty
  <2>4. QED
    BY <2>0, <2>3 DEF Orderly, Current
<1>2. QED
  BY <1>1, Invariance, PTL DEF Spec, CompletionIsClean
=============================================================================
