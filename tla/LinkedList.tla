----------------------------- MODULE LinkedList -----------------------------
(***************************************************************************)
(* The doubly linked queues that HCFS threads through its super block      *)
(* entries: util_ll_next/util_ll_prev for the dirty and the to-delete      *)
(* queue, pin_ll_next/pin_ll_prev for the pinning queue.  Inode number 0   *)
(* is "none".  The operators are the pointer assignments of ll_enqueue,    *)
(* ll_dequeue, pin_ll_enqueue and pin_ll_dequeue; next and prev are        *)
(* functions from inode numbers, first and last are the head's fields.     *)
(***************************************************************************)
EXTENDS Naturals, FiniteSets

(* Append i: ll_enqueue / pin_ll_enqueue.  The tail's next pointer is only *)
(* rewritten when the queue is not empty.                                  *)
(* Variant for testing NeverRebuilds: the tail is not linked to i.          *)
AppendNextUnlinked(next, first, last, i) ==
  [k \in DOMAIN next |-> IF k = i THEN 0 ELSE next[k]]

AppendNext(next, first, last, i) ==
  [k \in DOMAIN next |-> IF k = i THEN 0
                         ELSE IF first # 0 /\ k = last THEN i
                         ELSE next[k]]

AppendPrev(prev, first, last, i) ==
  [k \in DOMAIN prev |-> IF k = i THEN (IF first = 0 THEN 0 ELSE last)
                         ELSE prev[k]]

AppendFirst(first, i) == IF first = 0 THEN i ELSE first

(* Unlink i: ll_dequeue / pin_ll_dequeue.  A missing neighbour means the   *)
(* head's first or last field is rewritten instead.                        *)
UnlinkNext(next, prev, i) ==
  [k \in DOMAIN next |-> IF k = i THEN 0
                         ELSE IF k = prev[i] THEN next[i]
                         ELSE next[k]]

(* Variant for testing QueuesFIFO: the successor keeps its old prev.        *)
UnlinkPrevForgotten(next, prev, i) ==
  [k \in DOMAIN prev |-> IF k = i THEN 0 ELSE prev[k]]

UnlinkPrev(next, prev, i) ==
  [k \in DOMAIN prev |-> IF k = i THEN 0
                         ELSE IF k = next[i] THEN prev[i]
                         ELSE prev[k]]

UnlinkFirst(next, prev, first, i) == IF prev[i] = 0 THEN next[i] ELSE first

UnlinkLast(next, prev, last, i) == IF next[i] = 0 THEN prev[i] ELSE last

-----------------------------------------------------------------------------
(***************************************************************************)
(* ord is a history: <<a, b>> \in ord when a was appended before b and     *)
(* neither has been unlinked since.                                        *)
(***************************************************************************)
AppendOrder(ord, mem, i) == ord \cup {<<k, i>> : k \in mem}

UnlinkOrder(ord, i) == {e \in ord : e[1] # i /\ e[2] # i}

(* The order of arrival is a strict total order on the members.            *)
TotalOn(mem, ord) ==
  /\ \A a, b \in mem : a # b => (<<a, b>> \in ord \/ <<b, a>> \in ord)
  /\ \A a, b \in mem : <<a, b>> \in ord => <<b, a>> \notin ord
  /\ \A a, b, c \in mem :
        <<a, b>> \in ord /\ <<b, c>> \in ord => <<a, c>> \in ord

(* first is the oldest member, last the youngest, 0 when there is none.    *)
EndsOK(mem, first, last, ord) ==
  /\ first = 0 <=> mem = {}
  /\ last = 0 <=> mem = {}
  /\ first # 0 => first \in mem /\ \A k \in mem : k # first => <<first, k>> \in ord
  /\ last # 0 => last \in mem /\ \A k \in mem : k # last => <<k, last>> \in ord

(* next and prev are each other's inverse and next is the immediate        *)
(* successor in the order of arrival.                                      *)
LinksOK(mem, next, prev, first, last, ord) ==
  \A i \in mem :
    /\ next[i] = 0 <=> i = last
    /\ prev[i] = 0 <=> i = first
    /\ next[i] # 0 => /\ next[i] \in mem
                      /\ prev[next[i]] = i
                      /\ <<i, next[i]>> \in ord
                      /\ \A k \in mem : <<i, k>> \in ord =>
                            k = next[i] \/ <<next[i], k>> \in ord
    /\ prev[i] # 0 => prev[i] \in mem /\ next[prev[i]] = i

(* The queue is exactly its members in order of arrival.                   *)
FIFO(mem, next, prev, first, last, ord) ==
  /\ TotalOn(mem, ord)
  /\ EndsOK(mem, first, last, ord)
  /\ LinksOK(mem, next, prev, first, last, ord)

(* A list linked by next alone visits each member once, from first to last *)
(* in the order ord; Listed says that there is one.                        *)
NextOK(mem, next, last, ord) ==
  \A i \in mem :
    /\ next[i] = 0 <=> i = last
    /\ next[i] # 0 => /\ next[i] \in mem
                      /\ <<i, next[i]>> \in ord
                      /\ \A k \in mem : <<i, k>> \in ord =>
                            k = next[i] \/ <<next[i], k>> \in ord

Listed(mem, next, first, last) ==
  \E ord \in SUBSET (mem \X mem) :
    TotalOn(mem, ord) /\ EndsOK(mem, first, last, ord) /\ NextOK(mem, next, last, ord)
=============================================================================
