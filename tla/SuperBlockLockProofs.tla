------------------------ MODULE SuperBlockLockProofs ------------------------
(***************************************************************************)
(* Proof that the super block lock excludes, for any number of threads.    *)
(*                                                                         *)
(* The inductive invariant says who holds each semaphore: at most one      *)
(* thread is at a place that holds exclusive_lock_sem, at most one at a    *)
(* place that holds share_CR_lock_sem, and share_lock_sem is held either   *)
(* by one exclusive thread or by the sharers together, never by both.      *)
(* share_counter counts the sharers, which ties the third semaphore to     *)
(* the threads inside the shared lock.                                     *)
(***************************************************************************)
EXTENDS SuperBlockLock, FiniteSetTheorems, TLAPS

ExclusiveInv ==
  /\ exclusive_lock_sem = 1 => \A t \in Threads : pc[t] \notin HoldsExclusive
  /\ \A t, u \in Threads :
        pc[t] \in HoldsExclusive /\ pc[u] \in HoldsExclusive => t = u

CRInv ==
  /\ share_CR_lock_sem = 1 => \A t \in Threads : pc[t] \notin HoldsCR
  /\ \A t, u \in Threads : pc[t] \in HoldsCR /\ pc[u] \in HoldsCR => t = u

WriterHolds == \E t \in Threads : pc[t] \in {"exclusive", "x_post_share"}

SharersHold ==
  share_counter > 0 \/ \E t \in Threads : pc[t] \in {"s_count", "r_post_share"}

ShareInv ==
  /\ share_lock_sem = 1 => ~WriterHolds /\ ~SharersHold
  /\ ~(WriterHolds /\ SharersHold)
  /\ \A t \in Threads : pc[t] \in {"s_first", "r_post_share"} => share_counter = 0

SemInv == TypeOK /\ ExclusiveInv /\ CRInv /\ ShareInv

IInv == SemInv /\ SharersCounted

-----------------------------------------------------------------------------
(* The semaphore half of the invariant holds initially.                    *)
LEMMA InitSem == Init => SemInv
  BY DEF Init, SemInv, TypeOK, ExclusiveInv, CRInv, ShareInv, WriterHolds,
         SharersHold, HoldsExclusive, HoldsCR, PC

(* Every step of a thread keeps the semaphore half: what a semaphore       *)
(* operation gives or takes is what its place says the thread holds.       *)
LEMMA NextSem == SemInv /\ [Next]_vars => SemInv'
<1> SUFFICES ASSUME SemInv, [Next]_vars PROVE SemInv'
  OBVIOUS
<1> USE DEF SemInv, TypeOK, ExclusiveInv, CRInv, ShareInv, WriterHolds,
            SharersHold, HoldsExclusive, HoldsCR, PC, Goto
<1>1. CASE UNCHANGED vars
  BY <1>1 DEF vars
<1>2. ASSUME NEW t \in Threads, CallShare(t) PROVE SemInv'
  BY <1>2 DEF CallShare
<1>3. ASSUME NEW t \in Threads, CallExclusive(t) PROVE SemInv'
  BY <1>3 DEF CallExclusive
<1>4. ASSUME NEW t \in Threads, ShareWaitExclusive(t) PROVE SemInv'
  BY <1>4 DEF ShareWaitExclusive
<1>5. ASSUME NEW t \in Threads, ShareWaitCR(t) PROVE SemInv'
  BY <1>5 DEF ShareWaitCR
<1>6. ASSUME NEW t \in Threads, ShareWaitShare(t) PROVE SemInv'
  BY <1>6 DEF ShareWaitShare
<1>7. ASSUME NEW t \in Threads, ShareCount(t) PROVE SemInv'
  BY <1>7 DEF ShareCount
<1>8. ASSUME NEW t \in Threads, SharePostCR(t) PROVE SemInv'
  BY <1>8 DEF SharePostCR
<1>9. ASSUME NEW t \in Threads, SharePostExclusive(t) PROVE SemInv'
  BY <1>9 DEF SharePostExclusive
<1>10. ASSUME NEW t \in Threads, CallShareRelease(t) PROVE SemInv'
  BY <1>10 DEF CallShareRelease
<1>11. ASSUME NEW t \in Threads, ReleaseWaitCR(t) PROVE SemInv'
  BY <1>11 DEF ReleaseWaitCR
<1>12. ASSUME NEW t \in Threads, ReleaseCount(t) PROVE SemInv'
  BY <1>12 DEF ReleaseCount
<1>13. ASSUME NEW t \in Threads, ReleasePostShare(t) PROVE SemInv'
  BY <1>13 DEF ReleasePostShare
<1>14. ASSUME NEW t \in Threads, ReleasePostCR(t) PROVE SemInv'
  BY <1>14 DEF ReleasePostCR
<1>15. ASSUME NEW t \in Threads, ExclusiveWaitExclusive(t) PROVE SemInv'
  BY <1>15 DEF ExclusiveWaitExclusive
<1>16. ASSUME NEW t \in Threads, ExclusiveWaitShare(t) PROVE SemInv'
  BY <1>16 DEF ExclusiveWaitShare
<1>17. ASSUME NEW t \in Threads, CallExclusiveRelease(t) PROVE SemInv'
  BY <1>17 DEF CallExclusiveRelease
<1>18. ASSUME NEW t \in Threads, ReleasePostShareX(t) PROVE SemInv'
  BY <1>18 DEF ReleasePostShareX
<1>19. ASSUME NEW t \in Threads, ReleasePostExclusive(t) PROVE SemInv'
  BY <1>19 DEF ReleasePostExclusive
<1>20. QED
  BY <1>1, <1>2, <1>3, <1>4, <1>5, <1>6, <1>7, <1>8, <1>9, <1>10, <1>11,
     <1>12, <1>13, <1>14, <1>15, <1>16, <1>17, <1>18, <1>19, Zenon
     DEF Next, Step

-----------------------------------------------------------------------------
(* The threads share_counter counts.                                       *)
Sharers == {t \in Threads : pc[t] \in Counted}

(* A step that moves no thread in or out of the counted places and leaves  *)
(* the counter alone keeps SharersCounted.                                 *)
LEMMA SameSharers ==
  ASSUME SharersCounted, share_counter' = share_counter,
         \A t \in Threads : pc'[t] \in Counted <=> pc[t] \in Counted
  PROVE  SharersCounted'
  BY DEF SharersCounted

(* share_counter stays the number of counted threads.                      *)
LEMMA NextCounted == IInv /\ [Next]_vars => SharersCounted'
<1> SUFFICES ASSUME IInv, [Next]_vars PROVE SharersCounted'
  OBVIOUS
<1> USE DEF IInv, SemInv, TypeOK
<1>fin. IsFiniteSet(Sharers) /\ Sharers \subseteq Threads
  BY ThreadsFinite, FS_Subset DEF Sharers
<1>card. share_counter = Cardinality(Sharers)
  BY DEF SharersCounted, Sharers
<1>1. CASE UNCHANGED vars
  BY <1>1 DEF vars, SharersCounted
<1>2. ASSUME NEW t \in Threads, ShareCount(t) PROVE SharersCounted'
  <2>1. Sharers' = Sharers \cup {t} /\ t \notin Sharers
    BY <1>2 DEF ShareCount, Goto, Sharers, Counted
  <2>2. Cardinality(Sharers') = Cardinality(Sharers) + 1
    BY <2>1, <1>fin, FS_AddElement
  <2>3. QED
    BY <1>2, <2>2, <1>card DEF ShareCount, SharersCounted, Sharers
<1>3. ASSUME NEW t \in Threads, ReleaseCount(t) PROVE SharersCounted'
  <2>1. t \in Sharers
    BY <1>3 DEF ReleaseCount, Goto, Sharers, Counted
  <2>2. share_counter # 0
    BY <2>1, <1>fin, <1>card, FS_EmptySet
  <2>3. Sharers' = Sharers \ {t}
    BY <1>3, <2>2 DEF ReleaseCount, Goto, Sharers, Counted
  <2>4. Cardinality(Sharers') = Cardinality(Sharers) - 1
    BY <2>1, <2>3, <1>fin, FS_RemoveElement
  <2>5. QED
    BY <1>3, <2>2, <2>4, <1>card DEF ReleaseCount, SharersCounted, Sharers
<1>4. ASSUME NEW t \in Threads,
             CallShare(t) \/ CallExclusive(t) \/ ShareWaitExclusive(t)
             \/ ShareWaitCR(t) \/ ShareWaitShare(t) \/ SharePostCR(t)
             \/ SharePostExclusive(t) \/ CallShareRelease(t)
             \/ ReleaseWaitCR(t) \/ ReleasePostShare(t) \/ ReleasePostCR(t)
      PROVE SharersCounted'
  <2>1. /\ share_counter' = share_counter
        /\ \A u \in Threads : pc'[u] \in Counted <=> pc[u] \in Counted
    BY <1>4 DEF CallShare, CallExclusive, ShareWaitExclusive, ShareWaitCR,
         ShareWaitShare, SharePostCR, SharePostExclusive, CallShareRelease,
         ReleaseWaitCR, ReleasePostShare, ReleasePostCR, Goto, Counted
  <2>2. QED
    BY <2>1, SameSharers
<1>5. ASSUME NEW t \in Threads,
             ExclusiveWaitExclusive(t) \/ ExclusiveWaitShare(t)
             \/ CallExclusiveRelease(t) \/ ReleasePostShareX(t)
             \/ ReleasePostExclusive(t)
      PROVE SharersCounted'
  <2>1. /\ share_counter' = share_counter
        /\ \A u \in Threads : pc'[u] \in Counted <=> pc[u] \in Counted
    BY <1>5 DEF ExclusiveWaitExclusive, ExclusiveWaitShare,
         CallExclusiveRelease, ReleasePostShareX, ReleasePostExclusive,
         Goto, Counted
  <2>2. QED
    BY <2>1, SameSharers
<1>6. QED
  BY <1>1, <1>2, <1>3, <1>4, <1>5, Zenon DEF Next, Step

(* No thread is counted at the start.                                      *)
LEMMA InitCounted == Init => SharersCounted
<1> SUFFICES ASSUME Init PROVE SharersCounted
  OBVIOUS
<1>1. Sharers = {} /\ share_counter = 0
  BY DEF Init, Sharers, Counted
<1>2. QED
  BY <1>1, FS_EmptySet DEF SharersCounted, Sharers

(* The invariant implies mutual exclusion: a thread inside the shared lock *)
(* makes the counter positive, so the sharers hold share_lock_sem.         *)
LEMMA InvExcludes == IInv => MutualExclusion
<1> SUFFICES ASSUME IInv,
                    NEW t \in Threads, NEW u \in Threads, t # u,
                    pc[t] \in {"exclusive", "x_post_share"}
             PROVE  pc[u] \notin {"shared", "exclusive", "x_post_share", "r_cr"}
  BY DEF MutualExclusion
<1>1. pc[u] \notin {"exclusive", "x_post_share"}
  BY DEF IInv, SemInv, ExclusiveInv, HoldsExclusive
<1>2. WriterHolds
  BY DEF WriterHolds
<1>3. share_counter = 0
  BY <1>2 DEF IInv, SemInv, TypeOK, ShareInv, SharersHold
<1>4. Sharers = {}
  <2>1. IsFiniteSet(Sharers) /\ Cardinality(Sharers) = 0
    BY <1>3, ThreadsFinite, FS_Subset DEF IInv, SharersCounted, Sharers
  <2>2. QED
    BY <2>1, FS_EmptySet
<1>5. pc[u] \notin {"shared", "r_cr"}
  BY <1>4 DEF Sharers, Counted
<1>6. QED
  BY <1>1, <1>5

(* The inductive invariant is an invariant of the lock.                    *)
THEOREM LockInvariant == Spec => []IInv
<1>1. Init => IInv
  BY InitSem, InitCounted DEF IInv
<1>2. IInv /\ [Next]_vars => IInv'
  BY NextSem, NextCounted DEF IInv
<1>3. QED
  BY <1>1, <1>2, PTL DEF Spec

(* The three semaphores stay binary and the counter never goes negative.   *)
THEOREM LockTypeCorrect == Spec => []TypeOK
<1>1. IInv => TypeOK
  BY DEF IInv, SemInv
<1>2. QED
  BY <1>1, LockInvariant, PTL

(* A thread that holds the super block exclusively is alone in it, for any *)
(* number of threads.                                                      *)
THEOREM LockExcludes == Spec => []MutualExclusion
  BY LockInvariant, InvExcludes, PTL

(* super_block_share_release never finds the counter at 0.                 *)
THEOREM LockCountsSharers == Spec => []SharersCounted
<1>1. IInv => SharersCounted
  BY DEF IInv
<1>2. QED
  BY <1>1, LockInvariant, PTL
=============================================================================
