--------------------------- MODULE SuperBlockLock ---------------------------
(***************************************************************************)
(* The lock of the super block: three POSIX semaphores and a counter of    *)
(* sharers (super_block_share_locking, super_block_share_release,          *)
(* super_block_exclusive_locking, super_block_exclusive_release).  One     *)
(* action per semaphore operation, with the plain code up to the next one. *)
(***************************************************************************)
EXTENDS Naturals, FiniteSets

CONSTANT Threads

ASSUME ThreadsFinite == IsFiniteSet(Threads)

VARIABLES
  pc,               \* where each thread is
  exclusive_lock_sem, share_CR_lock_sem, share_lock_sem,
  share_counter

vars == <<pc, exclusive_lock_sem, share_CR_lock_sem, share_lock_sem, share_counter>>

PC == {"idle",
       "s_excl", "s_cr", "s_first", "s_count", "s_post_cr", "s_post_excl", "shared",
       "r_cr", "r_count", "r_post_share", "r_post_cr",
       "x_excl", "x_share", "exclusive", "x_post_share", "x_post_excl"}

Goto(t, from, to) == pc[t] = from /\ pc' = [pc EXCEPT ![t] = to]

Init ==
  /\ pc = [t \in Threads |-> "idle"]
  /\ exclusive_lock_sem = 1
  /\ share_CR_lock_sem = 1
  /\ share_lock_sem = 1
  /\ share_counter = 0

-----------------------------------------------------------------------------
(* super_block_share_locking                                               *)
CallShare(t) ==
  /\ Goto(t, "idle", "s_excl")
  /\ UNCHANGED <<exclusive_lock_sem, share_CR_lock_sem, share_lock_sem, share_counter>>

ShareWaitExclusive(t) ==
  /\ Goto(t, "s_excl", "s_cr")
  /\ exclusive_lock_sem > 0
  /\ exclusive_lock_sem' = exclusive_lock_sem - 1
  /\ UNCHANGED <<share_CR_lock_sem, share_lock_sem, share_counter>>

(* Variant for testing TypeOK: the counter is updated without the   *)
(* counter semaphore.                                                      *)
ShareSkipCR(t) ==
  /\ Goto(t, "s_cr", IF share_counter = 0 THEN "s_first" ELSE "s_count")
  /\ UNCHANGED <<exclusive_lock_sem, share_CR_lock_sem, share_lock_sem, share_counter>>

ShareWaitCR(t) ==
  /\ Goto(t, "s_cr", IF share_counter = 0 THEN "s_first" ELSE "s_count")
  /\ share_CR_lock_sem > 0
  /\ share_CR_lock_sem' = share_CR_lock_sem - 1
  /\ UNCHANGED <<exclusive_lock_sem, share_lock_sem, share_counter>>

(* The first sharer locks out the exclusive holders for all of them.       *)
ShareWaitShare(t) ==
  /\ Goto(t, "s_first", "s_count")
  /\ share_lock_sem > 0
  /\ share_lock_sem' = share_lock_sem - 1
  /\ UNCHANGED <<exclusive_lock_sem, share_CR_lock_sem, share_counter>>

ShareCount(t) ==
  /\ Goto(t, "s_count", "s_post_cr")
  /\ share_counter' = share_counter + 1
  /\ UNCHANGED <<exclusive_lock_sem, share_CR_lock_sem, share_lock_sem>>

SharePostCR(t) ==
  /\ Goto(t, "s_post_cr", "s_post_excl")
  /\ share_CR_lock_sem' = share_CR_lock_sem + 1
  /\ UNCHANGED <<exclusive_lock_sem, share_lock_sem, share_counter>>

SharePostExclusive(t) ==
  /\ Goto(t, "s_post_excl", "shared")
  /\ exclusive_lock_sem' = exclusive_lock_sem + 1
  /\ UNCHANGED <<share_CR_lock_sem, share_lock_sem, share_counter>>

-----------------------------------------------------------------------------
(* super_block_share_release                                               *)
CallShareRelease(t) ==
  /\ Goto(t, "shared", "r_cr")
  /\ UNCHANGED <<exclusive_lock_sem, share_CR_lock_sem, share_lock_sem, share_counter>>

ReleaseWaitCR(t) ==
  /\ Goto(t, "r_cr", "r_count")
  /\ share_CR_lock_sem > 0
  /\ share_CR_lock_sem' = share_CR_lock_sem - 1
  /\ UNCHANGED <<exclusive_lock_sem, share_lock_sem, share_counter>>

(* The code returns -1 when the counter is already 0.                      *)
ReleaseCount(t) ==
  /\ IF share_counter = 0
     THEN Goto(t, "r_count", "r_post_cr") /\ UNCHANGED share_counter
     ELSE /\ share_counter' = share_counter - 1
          /\ Goto(t, "r_count", IF share_counter = 1 THEN "r_post_share" ELSE "r_post_cr")
  /\ UNCHANGED <<exclusive_lock_sem, share_CR_lock_sem, share_lock_sem>>

ReleasePostShare(t) ==
  /\ Goto(t, "r_post_share", "r_post_cr")
  /\ share_lock_sem' = share_lock_sem + 1
  /\ UNCHANGED <<exclusive_lock_sem, share_CR_lock_sem, share_counter>>

ReleasePostCR(t) ==
  /\ Goto(t, "r_post_cr", "idle")
  /\ share_CR_lock_sem' = share_CR_lock_sem + 1
  /\ UNCHANGED <<exclusive_lock_sem, share_lock_sem, share_counter>>

-----------------------------------------------------------------------------
(* super_block_exclusive_locking and super_block_exclusive_release         *)
CallExclusive(t) ==
  /\ Goto(t, "idle", "x_excl")
  /\ UNCHANGED <<exclusive_lock_sem, share_CR_lock_sem, share_lock_sem, share_counter>>

ExclusiveWaitExclusive(t) ==
  /\ Goto(t, "x_excl", "x_share")
  /\ exclusive_lock_sem > 0
  /\ exclusive_lock_sem' = exclusive_lock_sem - 1
  /\ UNCHANGED <<share_CR_lock_sem, share_lock_sem, share_counter>>

(* Variant for testing MutualExclusion: the sharers are not waited for.     *)
ExclusiveSkipShare(t) ==
  /\ Goto(t, "x_share", "exclusive")
  /\ UNCHANGED <<exclusive_lock_sem, share_CR_lock_sem, share_lock_sem, share_counter>>

ExclusiveWaitShare(t) ==
  /\ Goto(t, "x_share", "exclusive")
  /\ share_lock_sem > 0
  /\ share_lock_sem' = share_lock_sem - 1
  /\ UNCHANGED <<exclusive_lock_sem, share_CR_lock_sem, share_counter>>

CallExclusiveRelease(t) ==
  /\ Goto(t, "exclusive", "x_post_share")
  /\ UNCHANGED <<exclusive_lock_sem, share_CR_lock_sem, share_lock_sem, share_counter>>

ReleasePostShareX(t) ==
  /\ Goto(t, "x_post_share", "x_post_excl")
  /\ share_lock_sem' = share_lock_sem + 1
  /\ UNCHANGED <<exclusive_lock_sem, share_CR_lock_sem, share_counter>>

(* Variant for testing Progress: the release forgets its second semaphore.  *)
ReleaseKeepsExclusive(t) ==
  /\ Goto(t, "x_post_excl", "idle")
  /\ UNCHANGED <<exclusive_lock_sem, share_CR_lock_sem, share_lock_sem, share_counter>>

ReleasePostExclusive(t) ==
  /\ Goto(t, "x_post_excl", "idle")
  /\ exclusive_lock_sem' = exclusive_lock_sem + 1
  /\ UNCHANGED <<share_CR_lock_sem, share_lock_sem, share_counter>>

-----------------------------------------------------------------------------
(* What a thread does once it has called into the lock; calling is its own *)
(* choice.                                                                 *)
Step(t) ==
  \/ ShareWaitExclusive(t) \/ ShareWaitCR(t) \/ ShareWaitShare(t)
  \/ ShareCount(t) \/ SharePostCR(t) \/ SharePostExclusive(t)
  \/ CallShareRelease(t) \/ ReleaseWaitCR(t) \/ ReleaseCount(t)
  \/ ReleasePostShare(t) \/ ReleasePostCR(t)
  \/ ExclusiveWaitExclusive(t) \/ ExclusiveWaitShare(t)
  \/ CallExclusiveRelease(t) \/ ReleasePostShareX(t) \/ ReleasePostExclusive(t)

Next == \E t \in Threads : CallShare(t) \/ CallExclusive(t) \/ Step(t)

Spec == Init /\ [][Next]_vars

(* A thread inside the lock code or a critical section keeps running; no   *)
(* assumption on which waiter a sem_post wakes.                            *)
FairSpec == Spec /\ \A t \in Threads : WF_vars(Step(t))

-----------------------------------------------------------------------------
(* Holders of the semaphores, by place.                                    *)
HoldsExclusive == {"s_cr", "s_first", "s_count", "s_post_cr", "s_post_excl",
                   "x_share", "exclusive", "x_post_share", "x_post_excl"}
HoldsCR == {"s_first", "s_count", "s_post_cr", "r_count", "r_post_share", "r_post_cr"}
Counted == {"s_post_cr", "s_post_excl", "shared", "r_cr", "r_count"}

(* Type invariant: the semaphores are binary.                              *)
TypeOK ==
  /\ pc \in [Threads -> PC]
  /\ exclusive_lock_sem \in {0, 1}
  /\ share_CR_lock_sem \in {0, 1}
  /\ share_lock_sem \in {0, 1}
  /\ share_counter \in Nat

(* While one thread is between super_block_exclusive_locking and           *)
(* super_block_exclusive_release no other thread is inside the lock,       *)
(* shared or exclusive.                                                    *)
MutualExclusion ==
  \A t, u \in Threads :
     t # u /\ pc[t] \in {"exclusive", "x_post_share"}
       => pc[u] \notin {"shared", "exclusive", "x_post_share", "r_cr"}

(* share_counter is the number of threads inside the shared lock, so       *)
(* super_block_share_release never takes its "return -1" path.             *)
SharersCounted ==
  share_counter = Cardinality({t \in Threads : pc[t] \in Counted})

Waiting(t) == pc[t] \in {"s_excl", "s_cr", "s_first", "x_excl", "x_share"}
Inside(t) == pc[t] \in {"shared", "exclusive"}

(* The lock never wedges: while threads wait, some thread gets in.         *)
Progress == (\E t \in Threads : Waiting(t)) ~> (\E t \in Threads : Inside(t))
=============================================================================
