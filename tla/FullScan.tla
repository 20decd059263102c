------------------------------ MODULE FullScan ------------------------------
(***************************************************************************)
(* super_block_reclaim_fullscan, the last step of a restoration: all the   *)
(* entries of the super block are read and the unused numbers chained into *)
(* the reclaimed list, a bundle at a time.  Between two bundles the lock   *)
(* is released: files are created and deleted meanwhile, and the deleted   *)
(* numbers go to a temporary list.                                         *)
(***************************************************************************)
EXTENDS Naturals, Sequences, SequencesExt, FiniteSets

CONSTANTS MaxNumber,           \* bound: highest inode number
          NUM_SCAN_RECLAIMED   \* entries scanned between two releases of the lock

ASSUME FullScanAssumption == MaxNumber \in Nat /\ NUM_SCAN_RECLAIMED \in Nat \ {0}

VARIABLE fs  \* e (entries: status, ino, next), head (first, last, num, tbr,
             \* total), unclaimed and temp (the lists), at (the scan's inode,
             \* 0: not scanning), bundle, scanned; flow (numbers being deleted),
             \* early, upto: histories

Numbers == 2..MaxNumber
Unused == [status |-> "none", ino |-> 0, next |-> 0]
NoBundle == [first |-> 0, last |-> 0, num |-> 0]

Scanning == fs.at # 0
Allocated(i) == i <= fs.head.total + 1

Chain(r) ==
  LET f[k \in 1..MaxNumber] ==
        IF k = 1 THEN r.head.first ELSE IF f[k - 1] = 0 THEN 0 ELSE r.e[f[k - 1]].next
  IN SelectSeq([k \in 1..MaxNumber |-> f[k]], LAMBDA x : x # 0)

(* The first num numbers of the list: those that will be handed out.       *)
Free(r) == LET c == Chain(r) IN {c[k] : k \in 1..(IF r.head.num < Len(c) THEN r.head.num ELSE Len(c))}

-----------------------------------------------------------------------------
super_block_new_inode ==
  LET i == IF fs.head.num > 0 THEN fs.head.first ELSE fs.head.total + 2
      n == fs.e[i].next
      live == [status |-> "NO_LL", ino |-> i, next |-> 0]
  IN /\ i \in Numbers
     /\ fs' = IF fs.head.num = 0
              THEN [fs EXCEPT !.e[i] = live, !.head.total = @ + 1]
              ELSE [fs EXCEPT !.e[i] = live, !.head.first = n,
                              !.head.last = IF n = 0 THEN 0 ELSE @,
                              !.head.num = IF n = 0 THEN 0 ELSE @ - 1]

(* The deletion of i: enqueue_now, or later by super_block_enqueue_delete. *)
super_block_to_delete(i, enqueue_now) ==
  /\ fs.e[i].ino = i
  /\ fs' = [fs EXCEPT !.e[i].ino = 0,
                      !.e[i].status = IF enqueue_now THEN "TO_BE_DELETED" ELSE "NO_LL",
                      !.flow = @ \cup {i}]

super_block_enqueue_delete(i) ==
  /\ i \in fs.flow /\ fs.e[i].status = "NO_LL"
  /\ fs' = [fs EXCEPT !.e[i].status = "TO_BE_DELETED"]

(* During the scan the status is left NO_LL, and so it stays.              *)
super_block_delete(i) ==
  /\ i \in fs.flow /\ i \notin fs.early
  /\ LET r == [fs EXCEPT !.flow = @ \ {i}] IN
     fs' = IF Scanning
           THEN [r EXCEPT !.e[i].status = "NO_LL", !.temp = Append(@, i)]
           ELSE [r EXCEPT !.e[i].status = "TO_BE_RECLAIMED",
                          !.unclaimed = Append(@, i), !.head.tbr = @ + 1]

-----------------------------------------------------------------------------
BeginScan ==
  /\ ~Scanning /\ ~fs.scanned
  /\ fs' = [fs EXCEPT !.at = 2, !.scanned = TRUE, !.head.num = 0, !.head.tbr = 0,
                      !.bundle = NoBundle]

(* Not in use, as far as the entry tells: a number whose deletion has      *)
(* begun but is not queued looks unused.                                   *)
Reclaimable(e) ==
  e.status \in {"TO_BE_RECLAIMED", "RECLAIMED", "none"}
  \/ (e.ino = 0 /\ e.status # "TO_BE_DELETED")

ScanEntry(r, i) ==
  LET l == r.bundle.last IN
  IF ~Reclaimable(r.e[i]) THEN r
  ELSE [r EXCEPT
    !.e = [[@ EXCEPT ![i] = [status |-> "RECLAIMED", ino |-> @.ino, next |-> 0]]
             EXCEPT ![IF l = 0 THEN i ELSE l].next = IF l = 0 THEN 0 ELSE i],
    !.bundle = [first |-> IF @.first = 0 THEN i ELSE @.first, last |-> i, num |-> @.num + 1],
    !.early = IF i \in r.flow \cup ToSet(r.temp) THEN @ \cup {i} ELSE @]

(* Variant for testing ReclaimSound: the list's end is not moved.          *)
reclaim_bundle_keeps_last(r) ==
  LET b == r.bundle
      l == r.head.last
  IN IF b.first = 0 THEN r
     ELSE [r EXCEPT
       !.e[IF l = 0 THEN b.last ELSE l].next = IF l = 0 THEN @ ELSE b.first,
       !.head.first = IF @ = 0 THEN b.first ELSE @,
       !.head.last = IF @ = 0 THEN b.last ELSE @,
       !.head.num = @ + b.num,
       !.bundle = NoBundle]

(* The bundle goes to the end of the list, which is not emptied before.    *)
_fullscan_reclaim_bundle(r) ==
  LET b == r.bundle
      l == r.head.last
  IN IF b.first = 0 THEN r
     ELSE [r EXCEPT
       !.e[IF l = 0 THEN b.last ELSE l].next = IF l = 0 THEN @ ELSE b.first,
       !.head.first = IF @ = 0 THEN b.first ELSE @,
       !.head.last = b.last,
       !.head.num = @ + b.num,
       !.bundle = NoBundle]

(* The entries with count = i - 1 up to the next release of the lock; the  *)
(* loop runs while count < num_total_inodes.                               *)
super_block_reclaim_fullscan ==
  LET last == LET m == ((fs.at - 2) \div NUM_SCAN_RECLAIMED + 1) * NUM_SCAN_RECLAIMED + 1
              IN IF m < fs.head.total THEN m ELSE fs.head.total
      f[i \in (fs.at - 1)..MaxNumber] == IF i < fs.at THEN fs ELSE ScanEntry(f[i - 1], i)
  IN /\ Scanning /\ fs.at <= fs.head.total
     /\ fs' = [_fullscan_reclaim_bundle(f[last]) EXCEPT !.at = last + 1]

(* The temporary list becomes the unclaimed list; an entry that is NO_LL   *)
(* keeps that status.                                                      *)
_handle_temp_unclaimed_file(r) ==
  IF r.temp = <<>> THEN r
  ELSE [r EXCEPT
    !.e = [i \in Numbers |-> IF i \in ToSet(r.temp) /\ @[i].status # "NO_LL"
                             THEN [@[i] EXCEPT !.status = "TO_BE_RECLAIMED"] ELSE @[i]],
    !.unclaimed = r.temp, !.temp = <<>>, !.head.tbr = Len(r.temp)]

EndScan ==
  /\ Scanning /\ fs.at > fs.head.total
  /\ fs' = _handle_temp_unclaimed_file([fs EXCEPT !.unclaimed = <<>>, !.at = 0,
                                               !.upto = fs.head.total])

(* The restored super block: some numbers are in use, some unused, some    *)
(* found missing in the backend; the lists are empty.                      *)
FSInit ==
  \E t \in 1..(MaxNumber - 2) : \E u \in SUBSET (2..t) : \E g \in SUBSET ((2..t) \ u) :
    fs = [e |-> [i \in Numbers |->
                   IF i \in u THEN [status |-> "NO_LL", ino |-> i, next |-> 0]
                   ELSE IF i \in g THEN [Unused EXCEPT !.status = "TO_BE_RECLAIMED"]
                   ELSE Unused],
          head |-> [first |-> 0, last |-> 0, num |-> 0, tbr |-> 0, total |-> t],
          unclaimed |-> <<>>, temp |-> <<>>, at |-> 0, bundle |-> NoBundle,
          flow |-> {}, early |-> {}, scanned |-> FALSE, upto |-> 0]

FSNext ==
  \/ super_block_new_inode
  \/ \E i \in Numbers : \/ \E b \in BOOLEAN : super_block_to_delete(i, b)
                        \/ super_block_enqueue_delete(i) \/ super_block_delete(i)
  \/ BeginScan \/ super_block_reclaim_fullscan \/ EndScan

-----------------------------------------------------------------------------
FSTypeOK ==
  /\ \A i \in Numbers : fs.e[i].next \in Numbers \cup {0}
  /\ fs.head.num \in Nat /\ fs.head.total \in 0..MaxNumber

(* super_block_reclaim_fullscan and super_block_new_inode: whatever is     *)
(* created and deleted between two bundles, the numbers that will be       *)
(* handed out are free (not in use, not being deleted, not to be handed    *)
(* out a second time), the list ends where the head says, and after the    *)
(* scan every unused number is in the list.                                *)
ReclaimSound ==
  fs.early = {} =>
    /\ Cardinality(Free(fs)) = fs.head.num
    /\ \A i \in Free(fs) : fs.e[i].status = "RECLAIMED" /\ i \notin fs.flow
    /\ fs.head.num > 0 => fs.head.last = Last(Chain(fs))
    /\ \A i \in 2..fs.upto : fs.e[i].status # "none"
=============================================================================
