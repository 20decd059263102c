-------------------------- MODULE SuperBlockProofs --------------------------
(***************************************************************************)
(* Proofs about the super block, for any number of inodes.                 *)
(*                                                                         *)
(* A queue operation is right only if it is called on an entry in the      *)
(* state it expects (ll_enqueue on one that is in no queue, a fresh entry  *)
(* on a number nobody uses), so the invariant of the queues is inductive   *)
(* only together with what the statuses say about an inode's life: live    *)
(* ones are NO_LL or IS_DIRTY, removed ones are not pinned, numbers never  *)
(* handed out are NO_LL, and the reclaimed list holds RECLAIMED entries    *)
(* only.                                                                   *)
(***************************************************************************)
EXTENDS SuperBlock, LinkedListProofs, FiniteSetTheorems, WellFoundedInduction

LLRec == [status : [Inodes -> Status], next : Links, prev : Links,
          first : [Queue -> Inode0], last : [Queue -> Inode0],
          num : [Queue -> Nat], order : SUBSET (Inodes \X Inodes)]

PLRec == [status : [Inodes -> PinStatus], next : Links, prev : Links,
          first : Inode0, last : Inode0, num : Nat,
          order : SUBSET (Inodes \X Inodes)]

SPRec == [set : BOOLEAN, retry : Nat, owed : SUBSET Inodes,
          point : [Queue -> Inode0], done : [Queue -> BOOLEAN]]

(* The dirty and to-delete queues are FIFO, only members of one queue are  *)
(* ordered, and the counters count.                                        *)
LLInv(L) ==
  /\ L \in LLRec
  /\ \A q \in Queue : FIFO(Members(L, q), L.next, L.prev, L.first[q], L.last[q], L.order)
  /\ \A a, b \in Inodes : <<a, b>> \in L.order
        => L.status[a] \in Queue /\ L.status[a] = L.status[b]
  /\ \A q \in Queue : L.num[q] = Cardinality(Members(L, q))

Pinning(P) == {k \in Inodes : P.status[k] = "ST_PINNING"}

PLInv(P) ==
  /\ P \in PLRec
  /\ FIFO(Pinning(P), P.next, P.prev, P.first, P.last, P.order)
  /\ \A a, b \in Inodes : <<a, b>> \in P.order => a \in Pinning(P) /\ b \in Pinning(P)
  /\ P.num = Cardinality(Pinning(P))

(* Inode numbers are finitely many and none is 0.                          *)
LEMMA InodesFinite == IsFiniteSet(Inodes) /\ 0 \notin Inodes /\ Inodes \subseteq Nat
<1>1. MaxInode \in Int /\ 2 \in Int
  BY SuperBlockAssumption
<1>2. IsFiniteSet(2..MaxInode)
  BY <1>1, FS_Interval
<1>3. QED
  BY <1>2, SuperBlockAssumption DEF Inodes

-----------------------------------------------------------------------------
(* ll_enqueue on an entry that is in no queue keeps both queues right and  *)
(* touches the pointers of no entry outside them.                          *)
LEMMA EnqueueInv ==
  ASSUME NEW L, LLInv(L), NEW i \in Inodes, NEW q \in Queue, L.status[i] \notin Queue
  PROVE  /\ LLInv(ll_enqueue(L, i, q))
         /\ ll_enqueue(L, i, q).status = [L.status EXCEPT ![i] = q]
         /\ \A k \in Inodes : L.status[k] \notin Queue /\ k # i
               => ll_enqueue(L, i, q).next[k] = L.next[k]
<1> DEFINE N == ll_enqueue(L, i, q)
           mem == Members(L, q)
<1>type. /\ L.status \in [Inodes -> Status] /\ L.next \in Links /\ L.prev \in Links
         /\ L.first \in [Queue -> Inode0] /\ L.last \in [Queue -> Inode0]
         /\ L.num \in [Queue -> Nat] /\ L.order \in SUBSET (Inodes \X Inodes)
  BY DEF LLInv, LLRec
<1>N. /\ N.status = [L.status EXCEPT ![i] = q]
      /\ N.next = AppendNext(L.next, L.first[q], L.last[q], i)
      /\ N.prev = AppendPrev(L.prev, L.first[q], L.last[q], i)
      /\ N.first = [L.first EXCEPT ![q] = AppendFirst(L.first[q], i)]
      /\ N.last = [L.last EXCEPT ![q] = i]
      /\ N.num = [L.num EXCEPT ![q] = L.num[q] + 1]
      /\ N.order = AppendOrder(L.order, mem, i)
  BY DEF ll_enqueue
<1>arr. Arrays(Inodes, mem, L.next, L.prev)
  BY <1>type, InodesFinite DEF Arrays, Links, Inode0, Members
<1>fifo. FIFO(mem, L.next, L.prev, L.first[q], L.last[q], L.order)
  BY DEF LLInv
<1>new. i \notin mem /\ \A k \in Inodes : <<i, k>> \notin L.order /\ <<k, i>> \notin L.order
  BY DEF LLInv, Members
<1>mem. Members(N, q) = mem \cup {i}
  BY <1>N, <1>type DEF Members
<1>oth. \A r \in Queue : r # q => Members(N, r) = Members(L, r)
  BY <1>N, <1>type DEF Members
<1>1. N \in LLRec
  <2>1. N.status \in [Inodes -> Status]
    BY <1>N, <1>type DEF Status
  <2>last. L.last[q] \in Inodes \cup {0}
    BY <1>type DEF Inode0
  <2>app. /\ AppendNext(L.next, L.first[q], L.last[q], i) \in Links
          /\ AppendPrev(L.prev, L.first[q], L.last[q], i) \in Links
    <3>1. Arrays(Inodes, Members(L, q), L.next, L.prev)
      BY <1>arr
    <3> HIDE DEF N, mem
    <3>2. QED
      BY <3>1, <2>last, AppendType DEF Links, Inode0
  <2>2. N.next \in Links /\ N.prev \in Links
    BY <1>N, <2>app
  <2>3. N.first \in [Queue -> Inode0] /\ N.last \in [Queue -> Inode0]
    BY <1>N, <1>type DEF AppendFirst, Inode0
  <2>4. N.num \in [Queue -> Nat]
    BY <1>N, <1>type
  <2>5. N.order \in SUBSET (Inodes \X Inodes)
    BY <1>N, <1>type DEF AppendOrder, Members
  <2>6. QED
    BY <2>1, <2>2, <2>3, <2>4, <2>5 DEF LLRec, ll_enqueue
<1>2. FIFO(Members(N, q), N.next, N.prev, N.first[q], N.last[q], N.order)
  <2>1. N.first[q] = AppendFirst(L.first[q], i) /\ N.last[q] = i
    BY <1>N, <1>type
  <2>2. QED
    BY <2>1, <1>N, <1>mem, <1>arr, <1>fifo, <1>new, AppendFIFO
<1>3. ASSUME NEW r \in Queue, r # q
      PROVE  FIFO(Members(N, r), N.next, N.prev, N.first[r], N.last[r], N.order)
  <2>1. FIFO(Members(L, r), L.next, L.prev, L.first[r], L.last[r], L.order)
    BY DEF LLInv
  <2>2. N.first[r] = L.first[r] /\ N.last[r] = L.last[r]
    BY <1>3, <1>N, <1>type
  <2>3. L.first[q] # 0 => L.last[q] \in mem
    BY <1>fifo DEF FIFO, EndsOK
  <2>4. \A k \in Members(L, r) : N.next[k] = L.next[k] /\ N.prev[k] = L.prev[k]
    BY <1>3, <2>3, <1>N, <1>type DEF Members, AppendNext, AppendPrev, Links
  <2>5. \A a, b \in Members(L, r) : <<a, b>> \in N.order <=> <<a, b>> \in L.order
    BY <1>N DEF AppendOrder, Members
  <2>6. QED
    BY <2>1, <2>2, <2>4, <2>5, <1>3, <1>oth, FIFOFrame
<1>4. ASSUME NEW a \in Inodes, NEW b \in Inodes, <<a, b>> \in N.order
      PROVE  N.status[a] \in Queue /\ N.status[a] = N.status[b]
  BY <1>4, <1>N, <1>type, <1>new DEF AppendOrder, LLInv, Members
<1>5. ASSUME NEW r \in Queue PROVE N.num[r] = Cardinality(Members(N, r))
  <2>1. CASE r = q
    <3>1. IsFiniteSet(mem)
      BY InodesFinite, FS_Subset DEF Members
    <3>2. Cardinality(mem \cup {i}) = Cardinality(mem) + 1
      BY <3>1, <1>new, FS_AddElement
    <3>3. QED
      BY <2>1, <3>2, <1>mem, <1>N, <1>type DEF LLInv
  <2>2. CASE r # q
    BY <2>2, <1>oth, <1>N, <1>type DEF LLInv
  <2>3. QED
    BY <2>1, <2>2
<1>6. ASSUME NEW k \in Inodes, L.status[k] \notin Queue, k # i
      PROVE  N.next[k] = L.next[k]
  <2>1. L.first[q] # 0 => L.last[q] \in mem
    BY <1>fifo DEF FIFO, EndsOK
  <2>2. QED
    BY <1>6, <2>1, <1>N, <1>type DEF Members, AppendNext, Links
<1>7. LLInv(N)
  BY <1>1, <1>2, <1>3, <1>4, <1>5 DEF LLInv
<1>8. QED
  BY <1>6, <1>7, <1>N

(* ll_dequeue keeps both queues right, takes the entry out of its queue    *)
(* if it is in one, and touches no entry outside them.                     *)
LEMMA DequeueInv ==
  ASSUME NEW L, LLInv(L), NEW i \in Inodes
  PROVE  /\ LLInv(ll_dequeue(L, i))
         /\ ll_dequeue(L, i).status =
              [L.status EXCEPT ![i] = IF L.status[i] \in Queue THEN "NO_LL" ELSE L.status[i]]
         /\ \A k \in Inodes : L.status[k] \notin Queue => ll_dequeue(L, i).next[k] = L.next[k]
<1> DEFINE N == ll_dequeue(L, i)
           q == L.status[i]
           mem == Members(L, q)
<1>type. /\ L.status \in [Inodes -> Status] /\ L.next \in Links /\ L.prev \in Links
         /\ L.first \in [Queue -> Inode0] /\ L.last \in [Queue -> Inode0]
         /\ L.num \in [Queue -> Nat] /\ L.order \in SUBSET (Inodes \X Inodes)
  BY DEF LLInv, LLRec
<1>a. CASE q \notin Queue
  BY <1>a, <1>type DEF ll_dequeue
<1>b. CASE q \in Queue
  <2>N. /\ N.status = [L.status EXCEPT ![i] = "NO_LL"]
        /\ N.next = UnlinkNext(L.next, L.prev, i)
        /\ N.prev = UnlinkPrev(L.next, L.prev, i)
        /\ N.first = [L.first EXCEPT ![q] = UnlinkFirst(L.next, L.prev, L.first[q], i)]
        /\ N.last = [L.last EXCEPT ![q] = UnlinkLast(L.next, L.prev, L.last[q], i)]
        /\ N.num = [L.num EXCEPT ![q] = L.num[q] - 1]
        /\ N.order = UnlinkOrder(L.order, i)
    BY <1>b DEF ll_dequeue
  <2>rec. N = [status |-> N.status, next |-> N.next, prev |-> N.prev, first |-> N.first,
               last |-> N.last, num |-> N.num, order |-> N.order]
    BY <1>b DEF ll_dequeue
  <2>arr. Arrays(Inodes, mem, L.next, L.prev) /\ i \in mem
    BY <1>type, InodesFinite DEF Arrays, Links, Inode0, Members
  <2>fifo. FIFO(mem, L.next, L.prev, L.first[q], L.last[q], L.order)
    BY <1>b DEF LLInv
  <2>mem. Members(N, q) = mem \ {i}
    BY <1>b, <2>N, <1>type DEF Members, Queue
  <2>oth. \A r \in Queue : r # q => Members(N, r) = Members(L, r)
    BY <1>b, <2>N, <1>type DEF Members, Queue
  <2>nb. /\ L.next[i] # 0 => L.next[i] \in mem
         /\ L.prev[i] # 0 => L.prev[i] \in mem
    BY <2>fifo, <2>arr DEF FIFO, LinksOK
  <2>card. IsFiniteSet(mem) /\ Cardinality(mem) = L.num[q] /\ L.num[q] > 0
    <3>1. IsFiniteSet(mem)
      BY InodesFinite, FS_Subset DEF Members
    <3>2. Cardinality(mem) = L.num[q]
      BY <1>b DEF LLInv
    <3>3. Cardinality(mem) # 0
      BY <3>1, <2>arr, FS_EmptySet
    <3>4. QED
      BY <3>1, <3>2, <3>3, <1>b, <1>type
  <2> HIDE DEF N, mem, q
  <2>1. N \in LLRec
    <3>1. N.status \in [Inodes -> Status]
      BY <2>N, <1>type DEF Status
    <3>2. N.next \in Links /\ N.prev \in Links
      BY <2>N, <2>arr, UnlinkType DEF Links, Inode0
    <3>ends. /\ UnlinkFirst(L.next, L.prev, L.first[q], i) \in Inode0
             /\ UnlinkLast(L.next, L.prev, L.last[q], i) \in Inode0
      BY <1>type, <1>b DEF UnlinkFirst, UnlinkLast, Links
    <3> DEFINE f == UnlinkFirst(L.next, L.prev, L.first[q], i)
               l == UnlinkLast(L.next, L.prev, L.last[q], i)
    <3>3. N.first \in [Queue -> Inode0] /\ N.last \in [Queue -> Inode0]
      <4>1. f \in Inode0 /\ l \in Inode0
        BY <3>ends
      <4>2. N.first = [L.first EXCEPT ![q] = f] /\ N.last = [L.last EXCEPT ![q] = l]
        BY <2>N
      <4> HIDE DEF f, l
      <4>3. QED
        BY <4>1, <4>2, <1>type
    <3>4. N.num \in [Queue -> Nat]
      BY <2>N, <1>type, <2>card, <1>b
    <3>5. N.order \in SUBSET (Inodes \X Inodes)
      BY <2>N, <1>type DEF UnlinkOrder
    <3>6. QED
      BY <2>rec, <3>1, <3>2, <3>3, <3>4, <3>5 DEF LLRec
  <2>2. FIFO(Members(N, q), N.next, N.prev, N.first[q], N.last[q], N.order)
    <3>1. /\ N.first[q] = UnlinkFirst(L.next, L.prev, L.first[q], i)
          /\ N.last[q] = UnlinkLast(L.next, L.prev, L.last[q], i)
      BY <1>b, <2>N, <1>type
    <3>2. QED
      BY <3>1, <2>N, <2>mem, <2>arr, <2>fifo, UnlinkFIFO
  <2>3. ASSUME NEW r \in Queue, r # q
        PROVE  FIFO(Members(N, r), N.next, N.prev, N.first[r], N.last[r], N.order)
    <3>1. FIFO(Members(L, r), L.next, L.prev, L.first[r], L.last[r], L.order)
      BY DEF LLInv
    <3>2. N.first[r] = L.first[r] /\ N.last[r] = L.last[r]
      BY <2>3, <2>N, <1>type, <1>b
    <3>3. \A k \in Members(L, r) : k \in Inodes /\ k \notin mem
      BY <2>3 DEF Members, mem
    <3>4. \A k \in Members(L, r) : k # i /\ k # L.next[i] /\ k # L.prev[i]
      BY <3>3, <2>nb, <2>arr, InodesFinite
    <3>5. \A k \in Members(L, r) : N.next[k] = L.next[k] /\ N.prev[k] = L.prev[k]
      BY <3>3, <3>4, <2>N, <1>type DEF UnlinkNext, UnlinkPrev, Links
    <3>6. \A a, b \in Members(L, r) : <<a, b>> \in N.order <=> <<a, b>> \in L.order
      BY <3>4, <2>N DEF UnlinkOrder
    <3>7. QED
      BY <2>oth, <2>3, <3>1, <3>2, <3>5, <3>6, FIFOFrame
  <2>4. ASSUME NEW a \in Inodes, NEW b \in Inodes, <<a, b>> \in N.order
        PROVE  N.status[a] \in Queue /\ N.status[a] = N.status[b]
    <3>1. <<a, b>> \in L.order /\ a # i /\ b # i
      BY <2>4, <2>N DEF UnlinkOrder
    <3>2. QED
      BY <3>1, <2>N, <1>type DEF LLInv
  <2>5. ASSUME NEW r \in Queue PROVE N.num[r] = Cardinality(Members(N, r))
    <3>1. CASE r = q
      <4>1. Cardinality(mem \ {i}) = Cardinality(mem) - 1
        BY <2>card, <2>arr, FS_RemoveElement
      <4>2. QED
        BY <3>1, <4>1, <2>mem, <2>card, <2>N, <1>type, <1>b
    <3>2. CASE r # q
      BY <3>2, <2>oth, <2>N, <1>type, <1>b DEF LLInv
    <3>3. QED
      BY <3>1, <3>2
  <2>6. ASSUME NEW k \in Inodes, L.status[k] \notin Queue
        PROVE  N.next[k] = L.next[k]
    <3>1. k # i /\ k # L.prev[i]
      BY <2>6, <1>b, <2>nb, InodesFinite DEF Members, mem, q
    <3>2. QED
      BY <3>1, <2>N, <1>type DEF UnlinkNext, Links
  <2>7. LLInv(N)
    BY <2>1, <2>2, <2>3, <2>4, <2>5 DEF LLInv
  <2>8. QED
    BY <2>6, <2>7, <2>N, <1>b DEF N, q
<1>c. QED
  BY <1>a, <1>b

-----------------------------------------------------------------------------
(* pin_ll_enqueue on an entry that is not being pinned.                    *)
LEMMA PinEnqueueInv ==
  ASSUME NEW P, PLInv(P), NEW i \in Inodes, P.status[i] # "ST_PINNING"
  PROVE  /\ PLInv(pin_ll_enqueue(P, i))
         /\ pin_ll_enqueue(P, i).status = [P.status EXCEPT ![i] = "ST_PINNING"]
<1> DEFINE N == pin_ll_enqueue(P, i)
           mem == Pinning(P)
<1>type. /\ P.status \in [Inodes -> PinStatus] /\ P.next \in Links /\ P.prev \in Links
         /\ P.first \in Inode0 /\ P.last \in Inode0
         /\ P.num \in Nat /\ P.order \in SUBSET (Inodes \X Inodes)
  BY DEF PLInv, PLRec
<1>fifo. FIFO(mem, P.next, P.prev, P.first, P.last, P.order)
  BY DEF PLInv
<1>empty. P.first = 0 <=> P.last = 0
  BY <1>fifo DEF FIFO, EndsOK
<1>N. /\ N.status = [P.status EXCEPT ![i] = "ST_PINNING"]
      /\ N.next = AppendNext(P.next, P.first, P.last, i)
      /\ N.prev = AppendPrev(P.prev, P.first, P.last, i)
      /\ N.first = AppendFirst(P.first, i)
      /\ N.last = i
      /\ N.num = P.num + 1
      /\ N.order = AppendOrder(P.order, mem, i)
  BY <1>empty DEF pin_ll_enqueue, AppendNext, AppendPrev, AppendFirst, Pinning
<1>rec. N = [status |-> N.status, next |-> N.next, prev |-> N.prev, first |-> N.first,
             last |-> N.last, num |-> N.num, order |-> N.order]
  BY DEF pin_ll_enqueue
<1>arr. Arrays(Inodes, mem, P.next, P.prev)
  BY <1>type, InodesFinite DEF Arrays, Links, Inode0, Pinning
<1>new. i \notin mem /\ \A k \in Inodes : <<i, k>> \notin P.order /\ <<k, i>> \notin P.order
  BY DEF PLInv, Pinning
<1>mem. Pinning(N) = mem \cup {i}
  BY <1>N, <1>type DEF Pinning
<1>sub. mem \subseteq Inodes
  BY DEF Pinning
<1> HIDE DEF N, mem
<1>1. N \in PLRec
  <2>1. N.status \in [Inodes -> PinStatus]
    BY <1>N, <1>type DEF PinStatus
  <2>app. /\ AppendNext(P.next, P.first, P.last, i) \in Links
          /\ AppendPrev(P.prev, P.first, P.last, i) \in Links
    <3>1. P.last \in Inodes \cup {0}
      BY <1>type DEF Inode0
    <3>2. QED
      BY <3>1, <1>arr, AppendType DEF Links, Inode0
  <2>2. N.next \in Links /\ N.prev \in Links
    BY <1>N, <2>app
  <2>3. N.first \in Inode0 /\ N.last \in Inode0 /\ N.num \in Nat
    BY <1>N, <1>type DEF AppendFirst, Inode0
  <2>4. N.order \in SUBSET (Inodes \X Inodes)
    BY <1>N, <1>type, <1>sub DEF AppendOrder
  <2>5. QED
    BY <1>rec, <2>1, <2>2, <2>3, <2>4 DEF PLRec
<1>2. FIFO(Pinning(N), N.next, N.prev, N.first, N.last, N.order)
  BY <1>N, <1>mem, <1>arr, <1>fifo, <1>new, AppendFIFO
<1>3. \A a, b \in Inodes : <<a, b>> \in N.order => a \in Pinning(N) /\ b \in Pinning(N)
  BY <1>N, <1>mem DEF AppendOrder, PLInv, mem
<1>4. N.num = Cardinality(Pinning(N))
  <2>1. IsFiniteSet(mem)
    BY <1>sub, InodesFinite, FS_Subset
  <2>2. Cardinality(mem \cup {i}) = Cardinality(mem) + 1
    BY <2>1, <1>new, FS_AddElement
  <2>3. QED
    BY <2>2, <1>N, <1>mem DEF PLInv, mem
<1>5. QED
  BY <1>1, <1>2, <1>3, <1>4, <1>N DEF PLInv, N

(* pin_ll_dequeue, whether or not the entry is in the queue.               *)
LEMMA PinDequeueInv ==
  ASSUME NEW P, PLInv(P), NEW i \in Inodes,
         NEW new \in PinStatus, new # "ST_PINNING"
  PROVE  /\ PLInv(pin_ll_dequeue(P, i, new))
         /\ pin_ll_dequeue(P, i, new).status = [P.status EXCEPT ![i] = new]
<1> DEFINE N == pin_ll_dequeue(P, i, new)
           mem == Pinning(P)
<1>type. /\ P.status \in [Inodes -> PinStatus] /\ P.next \in Links /\ P.prev \in Links
         /\ P.first \in Inode0 /\ P.last \in Inode0
         /\ P.num \in Nat /\ P.order \in SUBSET (Inodes \X Inodes)
  BY DEF PLInv, PLRec
<1>fifo. FIFO(mem, P.next, P.prev, P.first, P.last, P.order)
  BY DEF PLInv
<1>a. CASE P.status[i] # "ST_PINNING"
  <2>1. N = [P EXCEPT !.status[i] = new]
    BY <1>a DEF pin_ll_dequeue
  <2>2. N \in PLRec /\ N.status = [P.status EXCEPT ![i] = new]
    BY <2>1 DEF PLInv, PLRec
  <2>3. /\ N.next = P.next /\ N.prev = P.prev /\ N.first = P.first /\ N.last = P.last
        /\ N.num = P.num /\ N.order = P.order
    BY <2>1 DEF PLInv, PLRec
  <2>4. Pinning(N) = mem
    BY <1>a, <2>2, <1>type DEF Pinning
  <2> HIDE DEF N, mem
  <2>5. PLInv(N)
    BY <2>2, <2>3, <2>4 DEF PLInv, mem
  <2>6. QED
    BY <2>2, <2>5 DEF N
<1>b. CASE P.status[i] = "ST_PINNING"
  <2>N. /\ N.status = [P.status EXCEPT ![i] = new]
        /\ N.next = UnlinkNext(P.next, P.prev, i)
        /\ N.prev = UnlinkPrev(P.next, P.prev, i)
        /\ N.first = UnlinkFirst(P.next, P.prev, P.first, i)
        /\ N.last = UnlinkLast(P.next, P.prev, P.last, i)
        /\ N.num = P.num - 1
        /\ N.order = UnlinkOrder(P.order, i)
    BY <1>b DEF pin_ll_dequeue
  <2>rec. N = [status |-> N.status, next |-> N.next, prev |-> N.prev, first |-> N.first,
               last |-> N.last, num |-> N.num, order |-> N.order]
    BY <1>b DEF pin_ll_dequeue
  <2>arr. Arrays(Inodes, mem, P.next, P.prev) /\ i \in mem
    BY <1>b, <1>type, InodesFinite DEF Arrays, Links, Inode0, Pinning
  <2>mem. Pinning(N) = mem \ {i}
    BY <2>N, <1>type DEF Pinning
  <2>card. IsFiniteSet(mem) /\ Cardinality(mem) = P.num /\ P.num > 0
    <3>1. IsFiniteSet(mem)
      BY InodesFinite, FS_Subset DEF Pinning
    <3>2. Cardinality(mem) = P.num
      BY DEF PLInv
    <3>3. Cardinality(mem) # 0
      BY <3>1, <2>arr, FS_EmptySet
    <3>4. QED
      BY <3>1, <3>2, <3>3, <1>type
  <2> HIDE DEF N, mem
  <2>1. N \in PLRec
    <3>1. N.status \in [Inodes -> PinStatus]
      BY <2>N, <1>type
    <3>2. N.next \in Links /\ N.prev \in Links
      BY <2>N, <2>arr, UnlinkType DEF Links, Inode0
    <3>3. N.first \in Inode0 /\ N.last \in Inode0 /\ N.num \in Nat
      BY <2>N, <2>card, <1>type DEF UnlinkFirst, UnlinkLast, Links
    <3>4. N.order \in SUBSET (Inodes \X Inodes)
      BY <2>N, <1>type DEF UnlinkOrder
    <3>5. QED
      BY <2>rec, <3>1, <3>2, <3>3, <3>4 DEF PLRec
  <2>2. FIFO(Pinning(N), N.next, N.prev, N.first, N.last, N.order)
    BY <2>N, <2>mem, <2>arr, <1>fifo, UnlinkFIFO
  <2>3. \A a, b \in Inodes : <<a, b>> \in N.order => a \in Pinning(N) /\ b \in Pinning(N)
    BY <2>N, <2>mem DEF UnlinkOrder, PLInv, mem
  <2>4. N.num = Cardinality(Pinning(N))
    <3>1. Cardinality(mem \ {i}) = Cardinality(mem) - 1
      BY <2>card, <2>arr, FS_RemoveElement
    <3>2. QED
      BY <3>1, <2>mem, <2>card, <2>N
  <2>5. QED
    BY <2>1, <2>2, <2>3, <2>4, <2>N DEF PLInv, N
<1>c. QED
  BY <1>a, <1>b

-----------------------------------------------------------------------------
(* The queues only depend on the entries that are in them: any change to   *)
(* the others that leaves them outside keeps the invariant.                *)
LEMMA LLFrame ==
  ASSUME NEW L, LLInv(L), NEW N \in LLRec,
         N.first = L.first, N.last = L.last, N.num = L.num, N.order = L.order,
         \A k \in Inodes : L.status[k] \in Queue
            => N.status[k] = L.status[k] /\ N.next[k] = L.next[k] /\ N.prev[k] = L.prev[k],
         \A k \in Inodes : L.status[k] \notin Queue => N.status[k] \notin Queue
  PROVE  LLInv(N)
<1>1. ASSUME NEW q \in Queue
      PROVE  /\ Members(N, q) = Members(L, q)
             /\ FIFO(Members(N, q), N.next, N.prev, N.first[q], N.last[q], N.order)
             /\ N.num[q] = Cardinality(Members(N, q))
  <2>1. Members(N, q) = Members(L, q)
    BY DEF Members
  <2>2. FIFO(Members(L, q), L.next, L.prev, L.first[q], L.last[q], L.order)
    BY DEF LLInv
  <2>3. \A k \in Members(L, q) : N.next[k] = L.next[k] /\ N.prev[k] = L.prev[k]
    BY DEF Members
  <2>4. FIFO(Members(L, q), N.next, N.prev, N.first[q], N.last[q], N.order)
    BY <2>2, <2>3, FIFOFrame
  <2>5. QED
    BY <2>1, <2>4 DEF LLInv
<1>2. \A a, b \in Inodes : <<a, b>> \in N.order
        => N.status[a] \in Queue /\ N.status[a] = N.status[b]
  BY DEF LLInv
<1>3. QED
  BY <1>1, <1>2 DEF LLInv

(* The same for the pinning queue.                                         *)
LEMMA PLFrame ==
  ASSUME NEW P, PLInv(P), NEW N \in PLRec,
         N.first = P.first, N.last = P.last, N.num = P.num, N.order = P.order,
         \A k \in Inodes : P.status[k] = "ST_PINNING"
            => N.status[k] = P.status[k] /\ N.next[k] = P.next[k] /\ N.prev[k] = P.prev[k],
         \A k \in Inodes : P.status[k] # "ST_PINNING" => N.status[k] # "ST_PINNING"
  PROVE  PLInv(N)
<1>1. Pinning(N) = Pinning(P)
  BY DEF Pinning
<1>2. FIFO(Pinning(P), P.next, P.prev, P.first, P.last, P.order)
  BY DEF PLInv
<1>3. \A k \in Pinning(P) : N.next[k] = P.next[k] /\ N.prev[k] = P.prev[k]
  BY DEF Pinning
<1>4. FIFO(Pinning(P), N.next, N.prev, N.first, N.last, N.order)
  BY <1>2, <1>3, FIFOFrame
<1>5. QED
  BY <1>1, <1>4 DEF PLInv

(* The sync point stays well formed when an inode leaves its queue.        *)
LEMMA SyncType ==
  ASSUME NEW S \in SPRec, NEW L, LLInv(L), NEW i \in Inodes
  PROVE  dequeue_sync_point(S, L, i) \in SPRec
<1>type. /\ L.prev \in [Inodes -> Inode0] /\ L.last \in [Queue -> Inode0]
         /\ NoSyncPoint \in SPRec
  BY DEF LLInv, LLRec, Links, NoSyncPoint, SPRec, Inode0
<1>1. ASSUME NEW T \in SPRec, NEW q \in Queue
      PROVE  check_sync_complete(T, L, q, i) \in SPRec
  <2>1. [NoSyncPoint EXCEPT !.owed = T.owed] \in SPRec
    BY <1>type DEF SPRec
  <2>2. ASSUME T.retry > 0
        PROVE [T EXCEPT
                 !.point = [r \in Queue |-> IF StillQueued(L, q, i, r) THEN L.last[r]
                                            ELSE T.point[r]],
                 !.done = [r \in Queue |-> ~StillQueued(L, q, i, r)],
                 !.retry = @ - 1,
                 !.owed = {k \in Inodes : L.status[k] \in Queue /\ k # i}] \in SPRec
    <3>1. [r \in Queue |-> IF StillQueued(L, q, i, r) THEN L.last[r] ELSE T.point[r]]
             \in [Queue -> Inode0]
      BY <1>type DEF SPRec
    <3>2. [r \in Queue |-> ~StillQueued(L, q, i, r)] \in [Queue -> BOOLEAN]
      OBVIOUS
    <3>3. T.retry - 1 \in Nat
      BY <2>2 DEF SPRec
    <3>4. QED
      BY <3>1, <3>2, <3>3 DEF SPRec
  <2>3. QED
    BY <2>1, <2>2 DEF check_sync_complete
<1>2. ASSUME NEW q \in Queue PROVE move_sync_point(S, L, q, i) \in SPRec
  <2> DEFINE hit == ~S.done[q] /\ S.point[q] = i
             p == IF hit THEN L.prev[i] ELSE S.point[q]
             fin == ~S.done[q] /\ p = 0
             S1 == [S EXCEPT !.point[q] = p, !.done[q] = @ \/ fin, !.owed = @ \ {i}]
  <2>1. p \in Inode0
    BY <1>type DEF SPRec
  <2>2. S1 \in SPRec
    BY <2>1 DEF SPRec
  <2>3. check_sync_complete(S1, L, q, i) \in SPRec
    BY <2>2, <1>1
  <2>4. QED
    BY <2>2, <2>3 DEF move_sync_point
<1>3. QED
  BY <1>2 DEF dequeue_sync_point

-----------------------------------------------------------------------------
(* A nonempty set of inode numbers has a least and a greatest element.     *)
LEMMA MinMax ==
  ASSUME NEW R, R \subseteq Inodes, R # {}
  PROVE  /\ Min(R) \in R /\ \A k \in R : Min(R) <= k
         /\ Max(R) \in R /\ \A k \in R : k <= Max(R)
<1>wf. ASSUME NEW T, T \subseteq Nat, T # {} PROVE \E x \in T : \A y \in T : x <= y
  <2> DEFINE less == {ss \in Nat \X Nat : ss[1] < ss[2]}
  <2>1. IsWellFoundedOn(less, Nat)
    BY NatLessThanWellFounded DEF OpToRel
  <2> HIDE DEF less
  <2>2. PICK x \in T : \A y \in T : ~ (<<y, x>> \in less)
    BY <1>wf, <2>1, WFMin
  <2>3. \A y \in T : ~ (y < x)
    BY <1>wf, <2>2 DEF less
  <2>4. \A y \in T : x <= y
    BY <1>wf, <2>3
  <2>5. QED
    BY <2>4
<1>1. \E x \in R : \A y \in R : x <= y
  BY <1>wf, InodesFinite
<1>2. \E x \in R : \A y \in R : x >= y
  <2> DEFINE T == {MaxInode - x : x \in R}
  <2>0. \A x \in R : MaxInode - x \in Nat
    BY SuperBlockAssumption DEF Inodes
  <2>1. T \subseteq Nat /\ T # {}
    BY <2>0
  <2>2. PICK m \in T : \A y \in T : m <= y
    BY <2>1, <1>wf
  <2>3. PICK x \in R : m = MaxInode - x
    BY <2>2
  <2>4. \A y \in R : MaxInode - x <= MaxInode - y
    BY <2>2, <2>3
  <2>5. QED
    BY <2>3, <2>4, SuperBlockAssumption, InodesFinite
<1>3. Max(R) \in R /\ \A k \in R : Max(R) >= k
  BY <1>2 DEF Max
<1>4. \A k \in R : k <= Max(R)
  BY <1>3, InodesFinite
<1>5. QED
  BY <1>1, <1>3, <1>4 DEF Min

(* The reclaimed list: it starts at a RECLAIMED entry, stays within them,  *)
(* and no two entries lead to the same one, nor any to the first.          *)
RInv(L, first, num) ==
  /\ num > 0 => first # 0
  /\ first # 0 => first \in Reclaimed(L)
  /\ \A k \in Reclaimed(L) : L.next[k] # 0 => L.next[k] \in Reclaimed(L) /\ L.next[k] # first
  /\ \A j, k \in Reclaimed(L) : j # k /\ L.next[j] = L.next[k] => L.next[j] = 0

(* What only concerns the RECLAIMED entries survives what leaves them be.  *)
LEMMA RFrame ==
  ASSUME NEW L, NEW N, NEW first, NEW num, RInv(L, first, num),
         \A k \in Inodes : L.status[k] = "RECLAIMED" <=> N.status[k] = "RECLAIMED",
         \A k \in Inodes : L.status[k] = "RECLAIMED" => N.next[k] = L.next[k]
  PROVE  RInv(N, first, num)
<1>1. Reclaimed(N) = Reclaimed(L)
  BY DEF Reclaimed
<1>2. \A k \in Reclaimed(L) : N.next[k] = L.next[k]
  BY DEF Reclaimed
<1>3. QED
  BY <1>1, <1>2 DEF RInv

HeadRec == [num_total : Nat, num_active : Nat, first_reclaimed : Inode0,
            last_reclaimed : Inode0, num_reclaimed : Nat, num_to_be_reclaimed : Nat]

(* Types of the remaining variables.                                       *)
RestOK ==
  /\ exists \in [Inodes -> BOOLEAN] /\ in_transit \in [Inodes -> BOOLEAN]
  /\ mod_after_in_transit \in [Inodes -> BOOLEAN]
  /\ head \in HeadRec
  /\ unclaimed \in Seq(Inodes)
  /\ sp \in SPRec

Live == {k \in Inodes : exists[k]}

(* The inductive invariant.                                                *)
IInv ==
  /\ RestOK
  /\ LLInv(ll)
  /\ PLInv(pl)
  /\ head.num_active = Cardinality(Live)
  /\ RemovedIsQuiet
  /\ \A k \in Inodes : ~Allocated(k) => ll.status[k] = "NO_LL"
  /\ RInv(ll, head.first_reclaimed, head.num_reclaimed)

(* A fresh super block satisfies the invariant.                            *)
LEMMA InitInv == Init => IInv
<1> SUFFICES ASSUME Init PROVE IInv
  OBVIOUS
<1> USE DEF Init
<1>0. 0 \in Inode0 /\ InodesFinite
  BY InodesFinite DEF Inode0
<1>1. RestOK
  <2>1. NoSyncPoint \in SPRec
    BY <1>0 DEF NoSyncPoint, SPRec
  <2>2. QED
    BY <1>0, <2>1 DEF RestOK, HeadRec
<1>2. LLInv(ll)
  <2>1. ll \in LLRec
    BY <1>0 DEF LLRec, Links, Status
  <2>2. \A q \in Queue : Members(ll, q) = {}
    BY DEF Members, Queue
  <2>3. \A q \in Queue : FIFO({}, ll.next, ll.prev, ll.first[q], ll.last[q], ll.order)
    BY DEF FIFO, TotalOn, EndsOK, LinksOK
  <2>4. QED
    BY <2>1, <2>2, <2>3, FS_EmptySet DEF LLInv
<1>3. PLInv(pl)
  <2>1. pl \in PLRec
    BY <1>0 DEF PLRec, Links, PinStatus
  <2>2. Pinning(pl) = {}
    BY DEF Pinning
  <2>3. FIFO({}, pl.next, pl.prev, pl.first, pl.last, pl.order)
    BY DEF FIFO, TotalOn, EndsOK, LinksOK
  <2>4. QED
    BY <2>1, <2>2, <2>3, FS_EmptySet DEF PLInv
<1>4. head.num_active = Cardinality(Live)
  <2>1. Live = {}
    BY DEF Live
  <2>2. QED
    BY <2>1, FS_EmptySet
<1>5. RemovedIsQuiet /\ \A k \in Inodes : ~Allocated(k) => ll.status[k] = "NO_LL"
  BY DEF RemovedIsQuiet
<1>6. RInv(ll, head.first_reclaimed, head.num_reclaimed)
  BY DEF RInv, Reclaimed
<1>7. QED
  BY <1>1, <1>2, <1>3, <1>4, <1>5, <1>6 DEF IInv

-----------------------------------------------------------------------------
(* Moving an entry to the end of a queue: ll_enqueue after ll_dequeue.     *)
LEMMA RequeueInv ==
  ASSUME NEW L, LLInv(L), NEW i \in Inodes, NEW q \in Queue
  PROVE  /\ LLInv(ll_enqueue(ll_dequeue(L, i), i, q))
         /\ ll_enqueue(ll_dequeue(L, i), i, q).status = [L.status EXCEPT ![i] = q]
         /\ \A k \in Inodes : L.status[k] \notin Queue /\ k # i
               => ll_enqueue(ll_dequeue(L, i), i, q).next[k] = L.next[k]
<1> DEFINE D == ll_dequeue(L, i)
           N == ll_enqueue(D, i, q)
<1>1. /\ LLInv(D)
      /\ D.status = [L.status EXCEPT ![i] = IF L.status[i] \in Queue THEN "NO_LL" ELSE L.status[i]]
      /\ \A k \in Inodes : L.status[k] \notin Queue => D.next[k] = L.next[k]
  BY DequeueInv
<1>2. L.status \in [Inodes -> Status]
  BY DEF LLInv, LLRec
<1> HIDE DEF D
<1>3. D.status[i] \notin Queue
  BY <1>1, <1>2 DEF Queue
<1>4. /\ LLInv(N) /\ N.status = [D.status EXCEPT ![i] = q]
      /\ \A k \in Inodes : D.status[k] \notin Queue /\ k # i => N.next[k] = D.next[k]
  <2>1. LLInv(D)
    BY <1>1
  <2>2. QED
    BY ONLY <2>1, <1>3, EnqueueInv, i \in Inodes, q \in Queue
<1> HIDE DEF N
<1>5. N.status = [L.status EXCEPT ![i] = q]
  BY <1>1, <1>2, <1>4
<1>6. \A k \in Inodes : L.status[k] \notin Queue /\ k # i => N.next[k] = L.next[k]
  BY <1>1, <1>2, <1>4
<1>7. QED
  BY <1>4, <1>5, <1>6 DEF N, D

(* A step that moves one inode between NO_LL, the queues and               *)
(* TO_BE_RECLAIMED leaves the reclaimed list alone.                        *)
LEMMA RStep ==
  ASSUME NEW L, LLInv(L), NEW N, NEW first, NEW num, RInv(L, first, num),
         NEW i \in Inodes, NEW s, L.status[i] # "RECLAIMED", s # "RECLAIMED",
         N.status = [L.status EXCEPT ![i] = s],
         \A k \in Inodes : L.status[k] \notin Queue /\ k # i => N.next[k] = L.next[k]
  PROVE  RInv(N, first, num)
<1>1. L.status \in [Inodes -> Status]
  BY DEF LLInv, LLRec
<1>2. /\ \A k \in Inodes : L.status[k] = "RECLAIMED" <=> N.status[k] = "RECLAIMED"
      /\ \A k \in Inodes : L.status[k] = "RECLAIMED" => N.next[k] = L.next[k]
  BY <1>1 DEF Queue
<1>3. QED
  BY <1>2, RFrame

(* A fresh entry is written over one that is in no queue.                  *)
LEMMA FreshInv ==
  ASSUME IInv, NEW i \in Inodes, NEW pin \in {"ST_PIN", "ST_UNPIN"},
         ~exists[i], FreshEntry(i, pin), ll.status[i] \notin Queue
  PROVE  /\ LLInv(ll') /\ PLInv(pl')
         /\ ll'.status = [ll.status EXCEPT ![i] = "NO_LL"]
         /\ ll'.next = [ll.next EXCEPT ![i] = 0]
         /\ pl'.status = [pl.status EXCEPT ![i] = pin]
         /\ Cardinality(Live') = Cardinality(Live) + 1
<1>0. /\ LLInv(ll) /\ PLInv(pl) /\ exists \in [Inodes -> BOOLEAN] /\ RemovedIsQuiet
      /\ ll \in LLRec /\ pl \in PLRec
  BY DEF IInv, RestOK, LLInv, PLInv
<1>z. 0 \in Inode0
  BY DEF Inode0
<1>1. /\ ll' \in LLRec /\ ll'.status = [ll.status EXCEPT ![i] = "NO_LL"]
      /\ ll'.next = [ll.next EXCEPT ![i] = 0] /\ ll'.prev = [ll.prev EXCEPT ![i] = 0]
      /\ ll'.first = ll.first /\ ll'.last = ll.last /\ ll'.num = ll.num /\ ll'.order = ll.order
  BY <1>0, <1>z DEF FreshEntry, LLRec, Links, Status
<1>2. LLInv(ll')
  <2>1. ll.status \in [Inodes -> Status] /\ ll.next \in Links /\ ll.prev \in Links
    BY <1>0 DEF LLRec
  <2>2. \A k \in Inodes : ll.status[k] \in Queue
          => ll'.status[k] = ll.status[k] /\ ll'.next[k] = ll.next[k] /\ ll'.prev[k] = ll.prev[k]
    BY <1>1, <2>1 DEF Links
  <2>3. \A k \in Inodes : ll.status[k] \notin Queue => ll'.status[k] \notin Queue
    BY <1>1, <2>1 DEF Queue
  <2>4. QED
    BY <1>0, <1>1, <2>2, <2>3, LLFrame
<1>3. /\ pl' \in PLRec /\ pl'.status = [pl.status EXCEPT ![i] = pin]
      /\ pl'.next = [pl.next EXCEPT ![i] = 0] /\ pl'.prev = [pl.prev EXCEPT ![i] = 0]
      /\ pl'.first = pl.first /\ pl'.last = pl.last /\ pl'.num = pl.num /\ pl'.order = pl.order
  BY <1>0, <1>z DEF FreshEntry, PLRec, Links, PinStatus
<1>4. PLInv(pl')
  <2>1. pl.status \in [Inodes -> PinStatus] /\ pl.next \in Links /\ pl.prev \in Links
    BY <1>0 DEF PLRec
  <2>2. pl.status[i] = "ST_DEL"
    BY <1>0 DEF RemovedIsQuiet
  <2>3. \A k \in Inodes : pl.status[k] = "ST_PINNING"
          => pl'.status[k] = pl.status[k] /\ pl'.next[k] = pl.next[k] /\ pl'.prev[k] = pl.prev[k]
    BY <1>3, <2>1, <2>2 DEF Links
  <2>4. \A k \in Inodes : pl.status[k] # "ST_PINNING" => pl'.status[k] # "ST_PINNING"
    BY <1>3, <2>1
  <2>5. QED
    BY <1>0, <1>3, <2>3, <2>4, PLFrame
<1>5. Cardinality(Live') = Cardinality(Live) + 1
  <2>1. Live' = Live \cup {i} /\ i \notin Live
    BY <1>0 DEF Live, FreshEntry
  <2>2. IsFiniteSet(Live)
    BY InodesFinite, FS_Subset DEF Live
  <2>3. QED
    BY <2>1, <2>2, FS_AddElement
<1>6. QED
  BY <1>1, <1>2, <1>3, <1>4, <1>5

-----------------------------------------------------------------------------
(* The steps, one lemma per operation of super_block.c.                    *)

(* super_block_new_inode pops the reclaimed list: the number it hands out  *)
(* belongs to nobody, and the rest of the list stays well formed.          *)
LEMMA NewReclaimedStep ==
  ASSUME IInv, NEW pin \in {"ST_PIN", "ST_UNPIN"}, NewReclaimedInode(pin)
  PROVE  IInv'
<1> DEFINE i == head.first_reclaimed
           n == ll.next[i]
<1>0. /\ RestOK /\ LLInv(ll) /\ PLInv(pl) /\ RemovedIsQuiet
      /\ RInv(ll, head.first_reclaimed, head.num_reclaimed)
      /\ head.num_active = Cardinality(Live)
      /\ \A k \in Inodes : ~Allocated(k) => ll.status[k] = "NO_LL"
  BY DEF IInv
<1>t. /\ ll.status \in [Inodes -> Status] /\ ll.next \in [Inodes -> Inode0]
      /\ pl.status \in [Inodes -> PinStatus]
  BY <1>0 DEF LLInv, LLRec, PLInv, PLRec, Links
<1>1. i \in Inodes /\ ll.status[i] = "RECLAIMED" /\ i # 0
  BY <1>0 DEF NewReclaimedInode, RInv, Reclaimed
<1>2. FreshEntry(i, pin) /\ ~exists[i] /\ Allocated(i) /\ ll.status[i] \notin Queue
  BY <1>0, <1>1 DEF NewReclaimedInode, RemovedIsQuiet, Queue
<1>3. /\ LLInv(ll') /\ PLInv(pl')
      /\ ll'.status = [ll.status EXCEPT ![i] = "NO_LL"]
      /\ ll'.next = [ll.next EXCEPT ![i] = 0]
      /\ pl'.status = [pl.status EXCEPT ![i] = pin]
      /\ Cardinality(Live') = Cardinality(Live) + 1
  BY <1>1, <1>2, FreshInv
<1>4. /\ head'.num_active = head.num_active + 1 /\ head'.num_total = head.num_total
      /\ head'.first_reclaimed = n
      /\ head'.num_reclaimed = IF n = 0 THEN 0 ELSE head.num_reclaimed - 1
  BY <1>0 DEF NewReclaimedInode, RestOK, HeadRec
<1>5. RestOK'
  <2>1. head' \in HeadRec
    <3> DEFINE l == IF n = 0 THEN 0 ELSE head.last_reclaimed
               m == IF n = 0 THEN 0 ELSE head.num_reclaimed - 1
    <3>1. head \in HeadRec /\ n \in Inode0 /\ head.num_reclaimed > 0
      BY <1>0, <1>1, <1>t DEF RestOK, NewReclaimedInode
    <3>2. l \in Inode0 /\ m \in Nat /\ head.num_active + 1 \in Nat
      BY <3>1 DEF HeadRec, Inode0
    <3>3. head' = [head EXCEPT !.num_active = head.num_active + 1, !.first_reclaimed = n,
                               !.last_reclaimed = l, !.num_reclaimed = m]
      BY DEF NewReclaimedInode
    <3> HIDE DEF l, m, n, i
    <3>4. QED
      BY <3>1, <3>2, <3>3 DEF HeadRec
  <2>2. QED
    BY <1>0, <1>1, <1>2, <2>1 DEF RestOK, FreshEntry
<1>6. RInv(ll', n, head'.num_reclaimed)
  <2>1. Reclaimed(ll') = Reclaimed(ll) \ {i}
    BY <1>1, <1>3, <1>t DEF Reclaimed
  <2>2. \A k \in Reclaimed(ll') : ll'.next[k] = ll.next[k]
    BY <1>1, <1>3, <1>t, <2>1 DEF Reclaimed
  <2>3. i \in Reclaimed(ll)
    BY <1>1 DEF Reclaimed
  <2>4. QED
    BY <1>0, <1>1, <1>4, <2>1, <2>2, <2>3 DEF RInv, RestOK, HeadRec
<1>7. RemovedIsQuiet' /\ (\A k \in Inodes : ~Allocated(k) => ll.status[k] = "NO_LL")'
  <2>1. exists' = [exists EXCEPT ![i] = TRUE] /\ in_transit' = [in_transit EXCEPT ![i] = FALSE]
    BY <1>2 DEF FreshEntry
  <2>2. exists \in [Inodes -> BOOLEAN] /\ in_transit \in [Inodes -> BOOLEAN]
    BY <1>0 DEF RestOK
  <2> HIDE DEF i, n
  <2>3. QED
    BY <1>0, <1>1, <1>2, <1>3, <1>4, <1>t, <2>1, <2>2 DEF RemovedIsQuiet, Allocated
<1>8. QED
  BY <1>0, <1>3, <1>4, <1>5, <1>6, <1>7 DEF IInv

(* super_block_new_inode takes the next number that was never used.        *)
LEMMA NewAppendedStep ==
  ASSUME IInv, NEW pin \in {"ST_PIN", "ST_UNPIN"}, NewAppendedInode(pin)
  PROVE  IInv'
<1>0. /\ RestOK /\ LLInv(ll) /\ PLInv(pl) /\ RemovedIsQuiet
      /\ RInv(ll, head.first_reclaimed, head.num_reclaimed)
      /\ head.num_active = Cardinality(Live)
      /\ \A k \in Inodes : ~Allocated(k) => ll.status[k] = "NO_LL"
  BY DEF IInv
<1>t. /\ ll.status \in [Inodes -> Status] /\ ll.next \in [Inodes -> Inode0]
      /\ pl.status \in [Inodes -> PinStatus] /\ head.num_total \in Nat
  BY <1>0 DEF LLInv, LLRec, PLInv, PLRec, Links, RestOK, HeadRec
<1>1. PICK i \in Inodes : i = head.num_total + 2
  BY <1>t, SuperBlockAssumption DEF NewAppendedInode, Inodes
<1>h. head' = [head EXCEPT !.num_active = head.num_active + 1, !.num_total = head.num_total + 1]
  BY DEF NewAppendedInode
<1>u. ~Allocated(i)
  BY <1>1, <1>t DEF Allocated
<1>2. FreshEntry(i, pin) /\ ~exists[i] /\ ll.status[i] = "NO_LL"
  BY <1>0, <1>1, <1>u DEF NewAppendedInode, RemovedIsQuiet
<1>3. /\ LLInv(ll') /\ PLInv(pl')
      /\ ll'.status = [ll.status EXCEPT ![i] = "NO_LL"]
      /\ ll'.next = [ll.next EXCEPT ![i] = 0]
      /\ pl'.status = [pl.status EXCEPT ![i] = pin]
      /\ Cardinality(Live') = Cardinality(Live) + 1
  <2>1. ll.status[i] \notin Queue
    BY <1>2 DEF Queue
  <2>2. QED
    BY <1>1, <1>2, <2>1, FreshInv
<1>4. /\ head'.num_active = head.num_active + 1 /\ head'.num_total = head.num_total + 1
      /\ head'.first_reclaimed = head.first_reclaimed
      /\ head'.num_reclaimed = head.num_reclaimed
  BY <1>0, <1>h DEF RestOK, HeadRec
<1>5. RestOK'
  <2>1. head' \in HeadRec
    <3>1. head.num_active + 1 \in Nat /\ head.num_total + 1 \in Nat /\ head \in HeadRec
      BY <1>0 DEF RestOK, HeadRec
    <3>2. QED
      BY <3>1, <1>h DEF HeadRec
  <2>2. QED
    BY <1>0, <1>1, <1>2, <2>1 DEF RestOK, FreshEntry
<1>6. RInv(ll', head.first_reclaimed, head.num_reclaimed)
  <2>1. /\ \A k \in Inodes : ll.status[k] = "RECLAIMED" <=> ll'.status[k] = "RECLAIMED"
        /\ \A k \in Inodes : ll.status[k] = "RECLAIMED" => ll'.next[k] = ll.next[k]
    BY <1>1, <1>2, <1>3, <1>t
  <2>2. QED
    BY <1>0, <2>1, RFrame
<1>7. RemovedIsQuiet' /\ (\A k \in Inodes : ~Allocated(k) => ll.status[k] = "NO_LL")'
  <2>1. exists' = [exists EXCEPT ![i] = TRUE] /\ in_transit' = [in_transit EXCEPT ![i] = FALSE]
    BY <1>2 DEF FreshEntry
  <2>2. exists \in [Inodes -> BOOLEAN] /\ in_transit \in [Inodes -> BOOLEAN]
    BY <1>0 DEF RestOK
  <2>3. Allocated(i)' /\ \A k \in Inodes : Allocated(k) => Allocated(k)'
    BY <1>1, <1>4, <1>t, InodesFinite DEF Allocated
  <2>4. RemovedIsQuiet'
    BY <1>0, <1>1, <1>2, <1>3, <1>t, <2>1, <2>2, <2>3 DEF RemovedIsQuiet
  <2>5. (\A k \in Inodes : ~Allocated(k) => ll.status[k] = "NO_LL")'
    BY <1>0, <1>1, <1>3, <1>t, <2>3
  <2>6. QED
    BY <2>4, <2>5
<1>8. QED
  BY <1>0, <1>3, <1>4, <1>5, <1>6, <1>7 DEF IInv

(* What a step that concerns one allocated inode i has to establish.       *)
LEMMA OneInode ==
  ASSUME IInv, NEW i \in Inodes, NEW s, NEW p,
         RestOK', LLInv(ll'), PLInv(pl'),
         ll'.status = [ll.status EXCEPT ![i] = s],
         pl'.status = [pl.status EXCEPT ![i] = p],
         \A k \in Inodes : k # i => exists'[k] = exists[k] /\ in_transit'[k] = in_transit[k],
         Allocated(i), head'.num_total = head.num_total,
         exists'[i] => s \in {"NO_LL", "IS_DIRTY"},
         ~exists'[i] => s # "IS_DIRTY" /\ ~in_transit'[i] /\ p = "ST_DEL",
         head'.num_active = Cardinality(Live'),
         RInv(ll', head'.first_reclaimed, head'.num_reclaimed)
  PROVE  IInv'
<1>0. /\ RemovedIsQuiet
      /\ \A k \in Inodes : ~Allocated(k) => ll.status[k] = "NO_LL"
      /\ ll.status \in [Inodes -> Status] /\ pl.status \in [Inodes -> PinStatus]
  BY DEF IInv, LLInv, LLRec, PLInv, PLRec
<1>1. \A k \in Inodes : Allocated(k)' <=> Allocated(k)
  BY DEF Allocated
<1>2. RemovedIsQuiet'
  <2> SUFFICES ASSUME NEW k \in Inodes
               PROVE  /\ ~exists'[k] => /\ ll'.status[k] # "IS_DIRTY" /\ ~in_transit'[k]
                                        /\ pl'.status[k] = "ST_DEL"
                      /\ exists'[k] => ll'.status[k] \in {"NO_LL", "IS_DIRTY"} /\ Allocated(k)'
    BY DEF RemovedIsQuiet
  <2>1. CASE k = i
    BY <2>1, <1>0, <1>1
  <2>2. CASE k # i
    BY <2>2, <1>0, <1>1 DEF RemovedIsQuiet
  <2>3. QED
    BY <2>1, <2>2
<1>3. (\A k \in Inodes : ~Allocated(k) => ll.status[k] = "NO_LL")'
  BY <1>0, <1>1
<1>4. QED
  BY <1>2, <1>3 DEF IInv

(* The facts the steps start from.                                         *)
LEMMA Facts ==
  ASSUME IInv
  PROVE  /\ LLInv(ll) /\ PLInv(pl) /\ RemovedIsQuiet /\ RestOK /\ head \in HeadRec
         /\ ll.status \in [Inodes -> Status] /\ pl.status \in [Inodes -> PinStatus]
         /\ sp \in SPRec
         /\ head.num_active = Cardinality(Live)
         /\ RInv(ll, head.first_reclaimed, head.num_reclaimed)
  BY DEF IInv, LLInv, LLRec, PLInv, PLRec, RestOK

(* super_block_update_stat queues a live inode.                            *)
LEMMA UpdateStatStep ==
  ASSUME IInv, NEW i \in Inodes, super_block_update_stat(i)
  PROVE  IInv'
<1> USE DEF super_block_update_stat
<1>0. /\ LLInv(ll) /\ PLInv(pl) /\ RemovedIsQuiet /\ RestOK
      /\ ll.status \in [Inodes -> Status] /\ pl.status \in [Inodes -> PinStatus]
      /\ sp \in SPRec /\ head.num_active = Cardinality(Live)
      /\ RInv(ll, head.first_reclaimed, head.num_reclaimed)
  BY Facts
<1>1. exists[i] /\ Allocated(i) /\ ll.status[i] \in {"NO_LL", "IS_DIRTY"}
  BY <1>0 DEF RemovedIsQuiet
<1>2. /\ LLInv(ll') /\ ll'.status = [ll.status EXCEPT ![i] = "IS_DIRTY"]
      /\ RInv(ll', head.first_reclaimed, head.num_reclaimed)
  <2>1. CASE ll.status[i] = "IS_DIRTY"
    BY <2>1, <1>0
  <2>2. CASE ll.status[i] # "IS_DIRTY"
    <3>1. ll' = ll_enqueue(ll_dequeue(ll, i), i, "IS_DIRTY") /\ "IS_DIRTY" \in Queue
      BY <2>2 DEF Queue
    <3>2. /\ LLInv(ll') /\ ll'.status = [ll.status EXCEPT ![i] = "IS_DIRTY"]
          /\ \A k \in Inodes : ll.status[k] \notin Queue /\ k # i => ll'.next[k] = ll.next[k]
      BY <3>1, <1>0, RequeueInv
    <3>3. QED
      BY <3>2, <1>0, <1>1, RStep
  <2>3. QED
    BY <2>1, <2>2
<1>3. RestOK'
  <2>1. sp' \in SPRec
    BY <1>0, SyncType
  <2>2. QED
    BY <2>1, <1>0 DEF RestOK
<1>4. Live' = Live
  BY DEF Live
<1>5. pl' = pl /\ pl'.status = [pl.status EXCEPT ![i] = pl.status[i]]
  BY <1>0
<1>6. QED
  BY <1>0, <1>1, <1>2, <1>3, <1>4, <1>5, OneInode

(* super_block_mark_dirty queues a live inode that is in no queue.         *)
LEMMA MarkDirtyStep ==
  ASSUME IInv, NEW i \in Inodes, super_block_mark_dirty(i)
  PROVE  IInv'
<1> USE DEF super_block_mark_dirty
<1>0. /\ LLInv(ll) /\ PLInv(pl) /\ RemovedIsQuiet /\ RestOK
      /\ ll.status \in [Inodes -> Status] /\ pl.status \in [Inodes -> PinStatus]
      /\ head.num_active = Cardinality(Live)
      /\ RInv(ll, head.first_reclaimed, head.num_reclaimed)
  BY Facts
<1>1. exists[i] /\ Allocated(i) /\ ll.status[i] \in {"NO_LL", "IS_DIRTY"}
  BY <1>0 DEF RemovedIsQuiet
<1>2. /\ LLInv(ll') /\ ll'.status = [ll.status EXCEPT ![i] = "IS_DIRTY"]
      /\ RInv(ll', head.first_reclaimed, head.num_reclaimed)
  <2>1. CASE ll.status[i] = "IS_DIRTY"
    BY <2>1, <1>0
  <2>2. CASE ll.status[i] = "NO_LL"
    <3>1. /\ ll' = ll_enqueue(ll, i, "IS_DIRTY") /\ "IS_DIRTY" \in Queue
          /\ ll.status[i] \notin Queue
      BY <2>2 DEF Queue
    <3>2. /\ LLInv(ll') /\ ll'.status = [ll.status EXCEPT ![i] = "IS_DIRTY"]
          /\ \A k \in Inodes : ll.status[k] \notin Queue /\ k # i => ll'.next[k] = ll.next[k]
      BY <3>1, <1>0, EnqueueInv
    <3>3. QED
      BY <3>2, <1>0, <1>1, RStep
  <2>3. QED
    BY <1>1, <2>1, <2>2
<1>3. RestOK'
  BY <1>0 DEF RestOK
<1>4. Live' = Live
  BY DEF Live
<1>5. pl' = pl /\ pl'.status = [pl.status EXCEPT ![i] = pl.status[i]]
  BY <1>0
<1>6. QED
  BY <1>0, <1>1, <1>2, <1>3, <1>4, <1>5, OneInode

(* upload_loop marks a dirty inode as in transit.                          *)
LEMMA BeginTransitStep ==
  ASSUME IInv, NEW i \in Inodes, BeginTransit(i)
  PROVE  IInv'
<1> USE DEF BeginTransit
<1>0. /\ LLInv(ll) /\ PLInv(pl) /\ RemovedIsQuiet /\ RestOK
      /\ ll.status \in [Inodes -> Status] /\ pl.status \in [Inodes -> PinStatus]
      /\ head.num_active = Cardinality(Live)
      /\ RInv(ll, head.first_reclaimed, head.num_reclaimed)
  BY Facts
<1>1. exists[i] /\ Allocated(i) /\ ll.status[i] = "IS_DIRTY"
  BY <1>0 DEF RemovedIsQuiet
<1>2. RestOK'
  BY <1>0 DEF RestOK
<1>3. Live' = Live
  BY DEF Live
<1>4. /\ ll' = ll /\ ll'.status = [ll.status EXCEPT ![i] = "IS_DIRTY"]
      /\ pl' = pl /\ pl'.status = [pl.status EXCEPT ![i] = pl.status[i]]
  BY <1>0, <1>1
<1>5. \A k \in Inodes : k # i => exists'[k] = exists[k] /\ in_transit'[k] = in_transit[k]
  BY <1>0 DEF RestOK
<1>6. head' = head /\ exists' = exists
  OBVIOUS
<1>7. LLInv(ll') /\ PLInv(pl')
  BY <1>0, <1>4
<1>8. /\ head'.num_active = Cardinality(Live')
      /\ RInv(ll', head'.first_reclaimed, head'.num_reclaimed)
  BY <1>0, <1>3, <1>4, <1>6
<1> HIDE DEF BeginTransit
<1>9. QED
  BY <1>1, <1>2, <1>4, <1>5, <1>6, <1>7, <1>8, OneInode

(* The end of an upload may come when the inode is long gone.              *)
LEMMA UpdateTransitStep ==
  ASSUME IInv, NEW i \in Inodes, NEW incomplete \in BOOLEAN,
         super_block_update_transit(i, incomplete)
  PROVE  IInv'
<1> DEFINE leaves == ll.status[i] = "IS_DIRTY" /\ ~incomplete
           requeue == leaves /\ mod_after_in_transit[i] /\ sp.set
           drop == leaves /\ ~mod_after_in_transit[i]
<1>0. /\ LLInv(ll) /\ PLInv(pl) /\ RemovedIsQuiet /\ RestOK /\ head \in HeadRec
      /\ ll.status \in [Inodes -> Status] /\ pl.status \in [Inodes -> PinStatus]
      /\ sp \in SPRec /\ head.num_active = Cardinality(Live)
      /\ RInv(ll, head.first_reclaimed, head.num_reclaimed)
  BY Facts
<1>s. PICK s : /\ LLInv(ll') /\ ll'.status = [ll.status EXCEPT ![i] = s]
               /\ RInv(ll', head.first_reclaimed, head.num_reclaimed)
               /\ s = ll.status[i] \/ (exists[i] /\ s \in {"NO_LL", "IS_DIRTY"})
  <2>1. CASE requeue
    <3>1. ll' = ll_enqueue(ll_dequeue(ll, i), i, "IS_DIRTY") /\ "IS_DIRTY" \in Queue
      BY <2>1 DEF super_block_update_transit, Queue
    <3>2. /\ LLInv(ll') /\ ll'.status = [ll.status EXCEPT ![i] = "IS_DIRTY"]
          /\ \A k \in Inodes : ll.status[k] \notin Queue /\ k # i => ll'.next[k] = ll.next[k]
      BY <3>1, <1>0, RequeueInv
    <3>3. RInv(ll', head.first_reclaimed, head.num_reclaimed)
      BY <3>2, <2>1, <1>0, RStep
    <3>4. QED
      BY <3>2, <3>3, <2>1
  <2>2. CASE drop
    <3>1. ll' = ll_dequeue(ll, i)
      BY <2>2 DEF super_block_update_transit
    <3>2. /\ LLInv(ll')
          /\ ll'.status = [ll.status EXCEPT ![i] = IF ll.status[i] \in Queue THEN "NO_LL"
                                                    ELSE ll.status[i]]
          /\ \A k \in Inodes : ll.status[k] \notin Queue => ll'.next[k] = ll.next[k]
      BY <3>1, <1>0, DequeueInv
    <3>3. ll'.status = [ll.status EXCEPT ![i] = "NO_LL"] /\ exists[i]
      BY <3>2, <2>2, <1>0 DEF Queue, RemovedIsQuiet
    <3>4. RInv(ll', head.first_reclaimed, head.num_reclaimed)
      BY <3>2, <3>3, <2>2, <1>0, RStep
    <3>5. QED
      BY <3>2, <3>3, <3>4
  <2>3. CASE ~requeue /\ ~drop
    <3>1. ll' = ll
      BY <2>3 DEF super_block_update_transit
    <3>2. ll'.status = [ll.status EXCEPT ![i] = ll.status[i]]
      BY <3>1, <1>0
    <3>3. QED
      BY <3>1, <3>2, <1>0
  <2>4. QED
    BY <2>1, <2>2, <2>3
<1>1. Allocated(i) /\ pl' = pl /\ exists' = exists /\ head' = head
  BY DEF super_block_update_transit
<1>2. RestOK'
  <2>1. sp' \in SPRec
    BY <1>0, SyncType DEF super_block_update_transit
  <2>2. QED
    BY <2>1, <1>0 DEF RestOK, super_block_update_transit
<1>3. Live' = Live
  BY <1>1 DEF Live
<1>4. pl'.status = [pl.status EXCEPT ![i] = pl.status[i]]
  BY <1>0, <1>1
<1>5. /\ in_transit'[i] = FALSE
      /\ \A k \in Inodes : k # i => exists'[k] = exists[k] /\ in_transit'[k] = in_transit[k]
  BY <1>0, <1>1 DEF RestOK, super_block_update_transit
<1>6. /\ exists'[i] => s \in {"NO_LL", "IS_DIRTY"}
      /\ ~exists'[i] => s # "IS_DIRTY" /\ ~in_transit'[i] /\ pl.status[i] = "ST_DEL"
  BY <1>0, <1>s, <1>1, <1>5 DEF RemovedIsQuiet
<1>7. QED
  BY <1>0, <1>s, <1>1, <1>2, <1>3, <1>4, <1>5, <1>6, OneInode

(* super_block_to_delete takes a live inode out of both kinds of queue.    *)
LEMMA ToDeleteStep ==
  ASSUME IInv, NEW i \in Inodes, NEW enqueue_now \in BOOLEAN,
         super_block_to_delete(i, enqueue_now)
  PROVE  IInv'
<1> USE DEF super_block_to_delete
<1>0. /\ LLInv(ll) /\ PLInv(pl) /\ RemovedIsQuiet /\ RestOK /\ head \in HeadRec
      /\ ll.status \in [Inodes -> Status] /\ pl.status \in [Inodes -> PinStatus]
      /\ sp \in SPRec /\ head.num_active = Cardinality(Live)
      /\ RInv(ll, head.first_reclaimed, head.num_reclaimed)
  BY Facts
<1>1. exists[i] /\ Allocated(i) /\ ll.status[i] \in {"NO_LL", "IS_DIRTY"}
  BY <1>0 DEF RemovedIsQuiet
<1>s. PICK s \in {"NO_LL", "TO_BE_DELETED"} :
         /\ LLInv(ll') /\ ll'.status = [ll.status EXCEPT ![i] = s]
         /\ \A k \in Inodes : ll.status[k] \notin Queue /\ k # i => ll'.next[k] = ll.next[k]
  <2>1. CASE enqueue_now
    <3>1. ll' = ll_enqueue(ll_dequeue(ll, i), i, "TO_BE_DELETED") /\ "TO_BE_DELETED" \in Queue
      BY <2>1 DEF Queue
    <3>2. QED
      BY <3>1, <1>0, RequeueInv
  <2>2. CASE ~enqueue_now
    <3>1. ll' = ll_dequeue(ll, i)
      BY <2>2
    <3>2. /\ LLInv(ll')
          /\ ll'.status = [ll.status EXCEPT ![i] = IF ll.status[i] \in Queue THEN "NO_LL"
                                                    ELSE ll.status[i]]
          /\ \A k \in Inodes : ll.status[k] \notin Queue => ll'.next[k] = ll.next[k]
      BY <3>1, <1>0, DequeueInv
    <3>3. ll'.status = [ll.status EXCEPT ![i] = "NO_LL"]
      BY <3>2, <1>1 DEF Queue
    <3>4. QED
      BY <3>2, <3>3
  <2>3. QED
    BY <2>1, <2>2
<1>2. RInv(ll', head.first_reclaimed, head.num_reclaimed)
  BY <1>0, <1>1, <1>s, RStep
<1>3. PLInv(pl') /\ pl'.status = [pl.status EXCEPT ![i] = "ST_DEL"]
  BY <1>0, PinDequeueInv DEF PinStatus
<1>4. /\ Cardinality(Live') = Cardinality(Live) - 1
      /\ Cardinality(Live) - 1 \in Nat
  <2>1. Live' = Live \ {i} /\ i \in Live
    BY <1>0, <1>1 DEF Live, RestOK
  <2>2. IsFiniteSet(Live)
    BY InodesFinite, FS_Subset DEF Live
  <2>3. Cardinality(Live) # 0 /\ Cardinality(Live) \in Nat
    BY <2>1, <2>2, FS_EmptySet, FS_CardinalityType
  <2>4. Cardinality(Live \ {i}) = Cardinality(Live) - 1
    BY <2>1, <2>2, FS_RemoveElement
  <2>5. QED
    BY <2>1, <2>3, <2>4
<1>5. RestOK'
  <2>1. sp' \in SPRec
    BY <1>0, SyncType
  <2>2. head' \in HeadRec
    <3>1. head.num_active - 1 \in Nat
      BY <1>0, <1>4
    <3>2. QED
      BY <3>1, <1>0 DEF HeadRec
  <2>3. QED
    BY <2>1, <2>2, <1>0 DEF RestOK
<1>6. /\ head'.num_active = head.num_active - 1 /\ head'.num_total = head.num_total
      /\ head'.first_reclaimed = head.first_reclaimed
      /\ head'.num_reclaimed = head.num_reclaimed
  BY <1>0 DEF HeadRec
<1>7. /\ exists'[i] = FALSE /\ in_transit'[i] = FALSE
      /\ \A k \in Inodes : k # i => exists'[k] = exists[k] /\ in_transit'[k] = in_transit[k]
  BY <1>0 DEF RestOK
<1> HIDE DEF super_block_to_delete
<1>8. QED
  BY <1>0, <1>1, <1>s, <1>2, <1>3, <1>4, <1>5, <1>6, <1>7, OneInode

(* super_block_enqueue_delete queues a removed inode for deletion.         *)
LEMMA EnqueueDeleteStep ==
  ASSUME IInv, NEW i \in Inodes, super_block_enqueue_delete(i)
  PROVE  IInv'
<1> USE DEF super_block_enqueue_delete
<1>0. /\ LLInv(ll) /\ PLInv(pl) /\ RemovedIsQuiet /\ RestOK /\ head \in HeadRec
      /\ ll.status \in [Inodes -> Status] /\ pl.status \in [Inodes -> PinStatus]
      /\ sp \in SPRec /\ head.num_active = Cardinality(Live)
      /\ RInv(ll, head.first_reclaimed, head.num_reclaimed)
  BY Facts
<1>1. ~exists[i] /\ Allocated(i) /\ ll.status[i] = "NO_LL" /\ ll.status[i] \notin Queue
  BY DEF Deleting, Queue
<1>2. ll' = ll_enqueue(ll, i, "TO_BE_DELETED") /\ "TO_BE_DELETED" \in Queue
  BY DEF Queue
<1>3. /\ LLInv(ll') /\ ll'.status = [ll.status EXCEPT ![i] = "TO_BE_DELETED"]
      /\ \A k \in Inodes : ll.status[k] \notin Queue /\ k # i => ll'.next[k] = ll.next[k]
  BY <1>0, <1>1, <1>2, EnqueueInv
<1>4. RInv(ll', head.first_reclaimed, head.num_reclaimed)
  BY <1>0, <1>1, <1>3, RStep
<1>5. RestOK' /\ Live' = Live
  BY <1>0 DEF RestOK, Live
<1>6. pl' = pl /\ pl'.status = [pl.status EXCEPT ![i] = "ST_DEL"] /\ ~in_transit[i]
  BY <1>0, <1>1 DEF RemovedIsQuiet
<1>7. QED
  BY <1>0, <1>1, <1>3, <1>4, <1>5, <1>6, OneInode

(* super_block_delete parks the number on the unclaimed list.              *)
LEMMA DeleteStep ==
  ASSUME IInv, NEW i \in Inodes, super_block_delete(i)
  PROVE  IInv'
<1> DEFINE D == ll_dequeue(ll, i)
<1> USE DEF super_block_delete
<1>0. /\ LLInv(ll) /\ PLInv(pl) /\ RemovedIsQuiet /\ RestOK /\ head \in HeadRec
      /\ ll.status \in [Inodes -> Status] /\ pl.status \in [Inodes -> PinStatus]
      /\ sp \in SPRec /\ head.num_active = Cardinality(Live)
      /\ RInv(ll, head.first_reclaimed, head.num_reclaimed)
  BY Facts
<1>1. ~exists[i] /\ Allocated(i) /\ ll.status[i] \in {"NO_LL", "TO_BE_DELETED"}
  BY DEF Deleting
<1>2. /\ LLInv(D)
      /\ D.status = [ll.status EXCEPT ![i] = IF ll.status[i] \in Queue THEN "NO_LL"
                                              ELSE ll.status[i]]
      /\ \A k \in Inodes : ll.status[k] \notin Queue => D.next[k] = ll.next[k]
  BY <1>0, DequeueInv
<1>3. ll' = [D EXCEPT !.status[i] = "TO_BE_RECLAIMED"]
  OBVIOUS
<1> HIDE DEF D
<1>4. D.status[i] = "NO_LL" /\ D \in LLRec /\ D.status \in [Inodes -> Status]
  <2>1. D \in LLRec /\ D.status \in [Inodes -> Status]
    BY <1>2 DEF LLInv, LLRec
  <2>2. D.status[i] = "NO_LL"
    BY <1>0, <1>1, <1>2 DEF Queue
  <2>3. QED
    BY <2>1, <2>2
<1>5. /\ ll' \in LLRec /\ ll'.status = [D.status EXCEPT ![i] = "TO_BE_RECLAIMED"]
      /\ ll'.next = D.next /\ ll'.prev = D.prev /\ ll'.first = D.first /\ ll'.last = D.last
      /\ ll'.num = D.num /\ ll'.order = D.order
  <2> HIDE DEF super_block_delete
  <2>1. "TO_BE_RECLAIMED" \in Status
    BY DEF Status
  <2>2. [D.status EXCEPT ![i] = "TO_BE_RECLAIMED"] \in [Inodes -> Status]
    BY <1>4, <2>1
  <2>3. ll' \in LLRec /\ ll'.status = [D.status EXCEPT ![i] = "TO_BE_RECLAIMED"]
    BY <1>3, <1>4, <2>2 DEF LLRec
  <2>4. /\ ll'.next = D.next /\ ll'.prev = D.prev /\ ll'.first = D.first /\ ll'.last = D.last
        /\ ll'.num = D.num /\ ll'.order = D.order
    BY <1>3, <1>4 DEF LLRec
  <2>5. QED
    BY <2>3, <2>4
<1>6. LLInv(ll')
  <2>1. /\ \A k \in Inodes : D.status[k] \in Queue => ll'.status[k] = D.status[k]
        /\ \A k \in Inodes : D.status[k] \notin Queue => ll'.status[k] \notin Queue
    BY <1>4, <1>5 DEF Queue
  <2>2. QED
    BY <1>2, <1>5, <2>1, LLFrame
<1>7. ll'.status = [ll.status EXCEPT ![i] = "TO_BE_RECLAIMED"]
  BY <1>0, <1>2, <1>5
<1>8. RInv(ll', head.first_reclaimed, head.num_reclaimed)
  BY <1>0, <1>1, <1>2, <1>5, <1>7, RStep
<1>9. PLInv(pl') /\ pl'.status = [pl.status EXCEPT ![i] = "ST_DEL"]
  BY <1>0, PinDequeueInv DEF PinStatus
<1>10. RestOK'
  <2>1. sp' \in SPRec
    BY <1>0, SyncType
  <2>2. head' \in HeadRec
    <3>1. head.num_to_be_reclaimed + 1 \in Nat
      BY <1>0 DEF HeadRec
    <3>2. QED
      BY <3>1, <1>0 DEF HeadRec
  <2>3. unclaimed' \in Seq(Inodes)
    BY <1>0 DEF RestOK
  <2>4. QED
    BY <2>1, <2>2, <2>3, <1>0 DEF RestOK
<1>11. /\ head'.num_active = head.num_active /\ head'.num_total = head.num_total
       /\ head'.first_reclaimed = head.first_reclaimed
       /\ head'.num_reclaimed = head.num_reclaimed
       /\ Live' = Live
  BY <1>0 DEF HeadRec, Live
<1>12. /\ ~exists'[i] /\ in_transit'[i] = FALSE
       /\ \A k \in Inodes : k # i => exists'[k] = exists[k] /\ in_transit'[k] = in_transit[k]
  BY <1>0, <1>1 DEF RestOK
<1> HIDE DEF super_block_delete
<1>13. QED
  BY <1>0, <1>1, <1>6, <1>7, <1>8, <1>9, <1>10, <1>11, <1>12, OneInode

(* super_block_mark_pin.                                                   *)
LEMMA MarkPinStep ==
  ASSUME IInv, NEW i \in Inodes, NEW isreg \in BOOLEAN, super_block_mark_pin(i, isreg)
  PROVE  IInv'
<1> USE DEF super_block_mark_pin
<1>0. /\ LLInv(ll) /\ PLInv(pl) /\ RemovedIsQuiet /\ RestOK /\ head \in HeadRec
      /\ ll.status \in [Inodes -> Status] /\ pl.status \in [Inodes -> PinStatus]
      /\ sp \in SPRec /\ head.num_active = Cardinality(Live)
      /\ RInv(ll, head.first_reclaimed, head.num_reclaimed)
  BY Facts
<1>1. exists[i] /\ Allocated(i) /\ ll.status[i] \in {"NO_LL", "IS_DIRTY"}
  BY <1>0 DEF RemovedIsQuiet
<1>2. PICK p : PLInv(pl') /\ pl'.status = [pl.status EXCEPT ![i] = p]
  <2>1. CASE isreg
    BY <2>1, <1>0, PinEnqueueInv
  <2>2. CASE ~isreg
    <3>1. pl' = pin_ll_dequeue(pl, i, "ST_PIN")
      BY <2>2 DEF pin_ll_dequeue
    <3> HIDE DEF super_block_mark_pin
    <3>2. PLInv(pl') /\ pl'.status = [pl.status EXCEPT ![i] = "ST_PIN"]
      BY <3>1, <1>0, PinDequeueInv DEF PinStatus
    <3>3. QED
      BY <3>2
  <2>3. QED
    BY <2>1, <2>2
<1>3. RestOK' /\ Live' = Live
  BY <1>0 DEF RestOK, Live
<1>4. ll' = ll /\ ll'.status = [ll.status EXCEPT ![i] = ll.status[i]]
  BY <1>0
<1>5. QED
  BY <1>0, <1>1, <1>2, <1>3, <1>4, OneInode

(* super_block_mark_unpin.                                                 *)
LEMMA MarkUnpinStep ==
  ASSUME IInv, NEW i \in Inodes, super_block_mark_unpin(i)
  PROVE  IInv'
<1> USE DEF super_block_mark_unpin
<1>0. /\ LLInv(ll) /\ PLInv(pl) /\ RemovedIsQuiet /\ RestOK /\ head \in HeadRec
      /\ ll.status \in [Inodes -> Status] /\ pl.status \in [Inodes -> PinStatus]
      /\ sp \in SPRec /\ head.num_active = Cardinality(Live)
      /\ RInv(ll, head.first_reclaimed, head.num_reclaimed)
  BY Facts
<1>1. exists[i] /\ Allocated(i) /\ ll.status[i] \in {"NO_LL", "IS_DIRTY"}
  BY <1>0 DEF RemovedIsQuiet
<1>2. PICK p : PLInv(pl') /\ pl'.status = [pl.status EXCEPT ![i] = p]
  BY <1>0, PinDequeueInv DEF PinStatus
<1>3. RestOK' /\ Live' = Live
  BY <1>0 DEF RestOK, Live
<1>4. ll' = ll /\ ll'.status = [ll.status EXCEPT ![i] = ll.status[i]]
  BY <1>0
<1>5. QED
  BY <1>0, <1>1, <1>2, <1>3, <1>4, OneInode

(* super_block_finish_pinning.                                             *)
LEMMA FinishPinningStep ==
  ASSUME IInv, NEW i \in Inodes, super_block_finish_pinning(i)
  PROVE  IInv'
<1> USE DEF super_block_finish_pinning
<1>0. /\ LLInv(ll) /\ PLInv(pl) /\ RemovedIsQuiet /\ RestOK /\ head \in HeadRec
      /\ ll.status \in [Inodes -> Status] /\ pl.status \in [Inodes -> PinStatus]
      /\ sp \in SPRec /\ head.num_active = Cardinality(Live)
      /\ RInv(ll, head.first_reclaimed, head.num_reclaimed)
  BY Facts
<1>1. exists[i] /\ Allocated(i) /\ ll.status[i] \in {"NO_LL", "IS_DIRTY"}
  BY <1>0 DEF RemovedIsQuiet
<1>2. PICK p : PLInv(pl') /\ pl'.status = [pl.status EXCEPT ![i] = p]
  BY <1>0, PinDequeueInv DEF PinStatus
<1>3. RestOK' /\ Live' = Live
  BY <1>0 DEF RestOK, Live
<1>4. ll' = ll /\ ll'.status = [ll.status EXCEPT ![i] = ll.status[i]]
  BY <1>0
<1>5. QED
  BY <1>0, <1>1, <1>2, <1>3, <1>4, OneInode

(* super_block_reclaim puts a sorted batch in front of the list: within    *)
(* the batch every entry leads to a larger one, its last entry to the old  *)
(* first one, and nothing leads to the new first one.                      *)
LEMMA ReclaimStep ==
  ASSUME IInv, super_block_reclaim
  PROVE  IInv'
<1> DEFINE R == {k \in Inodes : /\ \E n \in 1..Len(unclaimed) : unclaimed[n] = k
                               /\ Allocated(k) /\ ll.status[k] = "TO_BE_RECLAIMED"}
           above(k) == {j \in R : j > k}
           st == [k \in Inodes |-> IF k \in R THEN "RECLAIMED" ELSE ll.status[k]]
           nx == [k \in Inodes |-> IF k \notin R THEN ll.next[k]
                                   ELSE IF above(k) = {} THEN head.first_reclaimed
                                   ELSE Min(above(k))]
           f == IF R = {} THEN head.first_reclaimed ELSE Min(R)
           l == IF R = {} \/ head.last_reclaimed # 0 THEN head.last_reclaimed ELSE Max(R)
           n == head.num_reclaimed + Cardinality(R)
<1>0. /\ LLInv(ll) /\ PLInv(pl) /\ RemovedIsQuiet /\ RestOK /\ head \in HeadRec
      /\ ll.status \in [Inodes -> Status] /\ pl.status \in [Inodes -> PinStatus]
      /\ sp \in SPRec /\ head.num_active = Cardinality(Live)
      /\ RInv(ll, head.first_reclaimed, head.num_reclaimed)
  BY Facts
<1>1. /\ ll' = [ll EXCEPT !.status = st, !.next = nx]
      /\ head' = [head EXCEPT !.first_reclaimed = f, !.last_reclaimed = l,
                              !.num_reclaimed = n, !.num_to_be_reclaimed = 0]
      /\ unclaimed' = <<>>
      /\ UNCHANGED <<pl, exists, in_transit, mod_after_in_transit, sp>>
  BY DEF super_block_reclaim
<1>R. /\ R \subseteq Inodes
      /\ \A k \in R : ll.status[k] = "TO_BE_RECLAIMED" /\ Allocated(k)
  OBVIOUS
<1>nat. R \subseteq Nat
  BY <1>R, InodesFinite
<1>abv. \A k \in R : above(k) # {} => Min(above(k)) \in R /\ Min(above(k)) > k
  <2> SUFFICES ASSUME NEW k \in R, above(k) # {} PROVE Min(above(k)) \in above(k)
    OBVIOUS
  <2>1. above(k) \subseteq Inodes
    OBVIOUS
  <2> HIDE DEF above, R
  <2>2. QED
    BY <2>1, MinMax
<1>card. Cardinality(R) \in Nat
  BY <1>R, InodesFinite, FS_Subset, FS_CardinalityType
<1>st. /\ st \in [Inodes -> Status]
       /\ \A k \in Inodes : st[k] = IF k \in R THEN "RECLAIMED" ELSE ll.status[k]
  BY <1>0 DEF Status
<1>lt. ll.next \in [Inodes -> Inode0] /\ ll \in LLRec
  BY <1>0 DEF LLInv, LLRec, Links
<1>nx. /\ nx \in Links
       /\ \A k \in Inodes : k \notin R => nx[k] = ll.next[k]
       /\ \A k \in R : above(k) = {} => nx[k] = head.first_reclaimed
       /\ \A k \in R : above(k) # {} => nx[k] \in R /\ nx[k] = Min(above(k)) /\ nx[k] > k
  <2>1. head.first_reclaimed \in Inode0
    BY <1>0 DEF HeadRec
  <2> HIDE DEF above, R
  <2>2. QED
    BY <2>1, <1>lt, <1>R, <1>abv DEF Links, Inode0
(* Two entries of the batch: the smaller leads at most to the larger.      *)
<1>ord. \A j, k \in R : j < k => nx[j] \in R /\ nx[j] <= k
  <2> SUFFICES ASSUME NEW j \in R, NEW k \in R, j < k PROVE nx[j] \in R /\ nx[j] <= k
    OBVIOUS
  <2>1. above(j) \subseteq Inodes /\ k \in above(j)
    OBVIOUS
  <2> HIDE DEF above, R
  <2>2. Min(above(j)) <= k
    BY <2>1, MinMax
  <2>3. QED
    BY <2>1, <2>2, <1>nx
<1>f. /\ R = {} => f = head.first_reclaimed
      /\ R # {} => f \in R /\ \A k \in R : f <= k
  <2> HIDE DEF above, R
  <2>1. QED
    BY <1>R, MinMax
<1>l. l \in Inode0 /\ f \in Inode0 /\ n \in Nat
  <2>1. head.last_reclaimed \in Inode0 /\ head.first_reclaimed \in Inode0
        /\ head.num_reclaimed \in Nat
    BY <1>0 DEF HeadRec
  <2>2. R # {} => Max(R) \in Inodes
    <3> HIDE DEF above, R
    <3>1. QED
      BY <1>R, MinMax
  <2>3. f \in Inode0
    BY <2>1, <1>f, <1>R DEF Inode0
  <2> HIDE DEF above, R, f
  <2>4. QED
    BY <2>1, <2>2, <2>3, <1>card DEF Inode0
<1> HIDE DEF R, above, st, nx, f, l, n
<1>2. /\ ll' \in LLRec /\ ll'.status = st /\ ll'.next = nx
      /\ ll'.prev = ll.prev /\ ll'.first = ll.first /\ ll'.last = ll.last
      /\ ll'.num = ll.num /\ ll'.order = ll.order
  BY <1>1, <1>lt, <1>st, <1>nx DEF LLRec
<1>3. LLInv(ll')
  <2>1. /\ \A k \in Inodes : ll.status[k] \in Queue
              => ll'.status[k] = ll.status[k] /\ ll'.next[k] = ll.next[k] /\ ll'.prev[k] = ll.prev[k]
        /\ \A k \in Inodes : ll.status[k] \notin Queue => ll'.status[k] \notin Queue
    BY <1>2, <1>st, <1>nx, <1>R DEF Queue
  <2>2. QED
    BY <1>0, <1>2, <2>1, LLFrame
<1>4. head' \in HeadRec
  BY <1>0, <1>1, <1>l DEF HeadRec
<1>5. /\ head'.num_active = head.num_active /\ head'.num_total = head.num_total
      /\ head'.first_reclaimed = f /\ head'.num_reclaimed = n
  BY <1>0, <1>1 DEF HeadRec
<1>6. RInv(ll', f, n)
  <2>1. Reclaimed(ll') = Reclaimed(ll) \cup R
    BY <1>2, <1>st, <1>R DEF Reclaimed
  <2>2. \A k \in Reclaimed(ll) : k \in Inodes /\ k \notin R /\ ll'.next[k] = ll.next[k]
    BY <1>2, <1>R, <1>nx DEF Reclaimed
  <2>3. n > 0 => f # 0
    <3>1. CASE R = {}
      BY <3>1, <1>0, <1>f, FS_EmptySet DEF RInv, n, HeadRec
    <3>2. CASE R # {}
      BY <3>2, <1>f, <1>R, InodesFinite
    <3>3. QED
      BY <3>1, <3>2
  <2>4. f # 0 => f \in Reclaimed(ll')
    BY <2>1, <1>0, <1>f DEF RInv
  <2>5. ASSUME NEW k \in Reclaimed(ll'), ll'.next[k] # 0
        PROVE  ll'.next[k] \in Reclaimed(ll') /\ ll'.next[k] # f
    <3>1. CASE k \in Reclaimed(ll)
      <4>1. ll.next[k] \in Reclaimed(ll) /\ ll.next[k] # head.first_reclaimed
        BY <2>2, <2>5, <3>1, <1>0 DEF RInv
      <4>2. QED
        BY <4>1, <3>1, <2>1, <2>2, <1>f
    <3>2. CASE k \in R /\ above(k) = {}
      <4>1. ll'.next[k] = head.first_reclaimed
        BY <3>2, <1>nx, <1>2
      <4>2. head.first_reclaimed \in Reclaimed(ll)
        BY <4>1, <2>5, <1>0 DEF RInv
      <4>3. QED
        BY <3>2, <4>1, <4>2, <2>1, <2>2, <1>f
    <3>3. CASE k \in R /\ above(k) # {}
      <4>1. nx[k] \in R /\ nx[k] > k /\ f <= k /\ f \in R
        BY <3>3, <1>nx, <1>f
      <4>2. nx[k] # f
        BY <4>1, <3>3, <1>nat
      <4>3. QED
        BY <4>1, <4>2, <1>2, <2>1
    <3>4. QED
      BY <2>1, <3>1, <3>2, <3>3
  <2>6. ASSUME NEW j \in Reclaimed(ll'), NEW k \in Reclaimed(ll'), j # k,
               ll'.next[j] = ll'.next[k]
        PROVE  ll'.next[j] = 0
    (* One of the batch and one from before.                               *)
    <3>1. ASSUME NEW a \in R, NEW b \in Reclaimed(ll), ll'.next[a] = ll'.next[b]
          PROVE  ll'.next[a] = 0
      <4>1. ll.next[b] # 0 => ll.next[b] \in Reclaimed(ll) /\ ll.next[b] # head.first_reclaimed
        BY <1>0 DEF RInv
      <4>2. CASE above(a) = {}
        BY <4>1, <4>2, <3>1, <1>nx, <1>2, <2>2
      <4>3. CASE above(a) # {}
        BY <4>1, <4>3, <3>1, <1>nx, <1>2, <2>2, <1>R, InodesFinite
      <4>4. QED
        BY <4>2, <4>3
    (* Both of the batch.                                                  *)
    <3>2. ASSUME NEW a \in R, NEW b \in R, a < b, ll'.next[a] = ll'.next[b]
          PROVE  ll'.next[a] = 0
      <4>1. nx[a] \in R /\ nx[a] <= b
        BY <3>2, <1>ord
      <4>2. CASE above(b) = {}
        <5>1. nx[b] = head.first_reclaimed
          BY <4>2, <1>nx
        <5>2. nx[b] # 0 => nx[b] \in Reclaimed(ll)
          BY <5>1, <1>0 DEF RInv
        <5>3. QED
          BY <5>2, <4>1, <3>2, <1>2, <2>2
      <4>3. CASE above(b) # {}
        <5>1. nx[b] > b /\ nx[b] \in R
          BY <4>3, <1>nx
        <5>2. b \in Nat /\ nx[a] \in Nat /\ nx[b] \in Nat
          BY <5>1, <4>1, <1>nat
        <5>z. nx[a] # nx[b]
          BY <5>1, <5>2, <4>1
        <5>3. QED
          BY <5>z, <3>2, <1>2
      <4>4. QED
        BY <4>2, <4>3
    <3>3. CASE j \in Reclaimed(ll) /\ k \in Reclaimed(ll)
      BY <3>3, <2>6, <2>2, <1>0 DEF RInv
    <3>4. CASE j \in R /\ k \in R
      <4>1. j < k \/ k < j
        BY <3>4, <2>6, <1>nat
      <4>2. QED
        BY <4>1, <3>2, <3>4, <2>6
    <3>5. QED
      BY <2>1, <2>6, <3>1, <3>3, <3>4
  <2>7. QED
    BY <2>3, <2>4, <2>5, <2>6 DEF RInv
<1>7. RestOK'
  BY <1>0, <1>1, <1>4 DEF RestOK
<1>8. pl' = pl /\ Live' = Live /\ exists' = exists /\ in_transit' = in_transit
  BY <1>1 DEF Live
<1>9. \A k \in Inodes : Allocated(k)' <=> Allocated(k)
  BY <1>5 DEF Allocated
<1>10. RemovedIsQuiet'
  BY <1>0, <1>2, <1>st, <1>R, <1>8, <1>9 DEF RemovedIsQuiet
<1>11. (\A k \in Inodes : ~Allocated(k) => ll.status[k] = "NO_LL")'
  BY <1>2, <1>st, <1>R, <1>9 DEF IInv
<1>12. QED
  BY <1>0, <1>3, <1>5, <1>6, <1>7, <1>8, <1>10, <1>11 DEF IInv

(* super_block_set_syncpoint and super_block_cancel_syncpoint.             *)
LEMMA SyncPointStep ==
  ASSUME IInv, super_block_set_syncpoint \/ super_block_cancel_syncpoint
  PROVE  IInv'
<1>0. LLInv(ll) /\ RestOK /\ sp \in SPRec
  BY Facts
<1>1. sp' \in SPRec
  <2>1. CASE super_block_set_syncpoint
    <3>1. ll.last \in [Queue -> Inode0]
      BY <1>0 DEF LLInv, LLRec
    <3>2. [q \in Queue |-> IF ll.last[q] # 0 THEN ll.last[q] ELSE sp.point[q]]
             \in [Queue -> Inode0]
      BY <3>1, <1>0 DEF SPRec
    <3>3. [q \in Queue |-> ll.last[q] = 0] \in [Queue -> BOOLEAN]
      OBVIOUS
    <3>4. QED
      BY <2>1, <3>2, <3>3, SuperBlockAssumption DEF super_block_set_syncpoint, SPRec
  <2>2. CASE super_block_cancel_syncpoint
    BY <2>2 DEF super_block_cancel_syncpoint, NoSyncPoint, SPRec, Inode0
  <2>3. QED
    BY <2>1, <2>2
<1>2. UNCHANGED <<ll, pl, exists, in_transit, mod_after_in_transit, head, unclaimed>>
  BY DEF super_block_set_syncpoint, super_block_cancel_syncpoint
<1>3. RestOK'
  BY <1>0, <1>1, <1>2 DEF RestOK
<1>4. QED
  BY <1>2, <1>3 DEF IInv, Live, RemovedIsQuiet, Allocated

(* A step that changes nothing.                                            *)
LEMMA StutterStep ==
  ASSUME IInv, UNCHANGED vars
  PROVE  IInv'
<1>1. UNCHANGED <<ll, pl, exists, in_transit, mod_after_in_transit, head, unclaimed, sp>>
  BY DEF vars
<1>2. RestOK'
  BY <1>1 DEF IInv, RestOK
<1>3. QED
  BY <1>1, <1>2 DEF IInv, Live, RemovedIsQuiet, Allocated

(* Every step keeps the invariant.                                         *)
LEMMA NextInv == IInv /\ [Next]_vars => IInv'
<1> SUFFICES ASSUME IInv, [Next]_vars PROVE IInv'
  OBVIOUS
<1>1. ASSUME NEW pin \in {"ST_PIN", "ST_UNPIN"}, NewReclaimedInode(pin) \/ NewAppendedInode(pin)
      PROVE  IInv'
  BY <1>1, NewReclaimedStep, NewAppendedStep
<1>2. ASSUME NEW i \in Inodes,
             \/ super_block_update_stat(i)
             \/ super_block_mark_dirty(i)
             \/ BeginTransit(i)
             \/ \E incomplete \in BOOLEAN : super_block_update_transit(i, incomplete)
             \/ \E enqueue_now \in BOOLEAN : super_block_to_delete(i, enqueue_now)
             \/ super_block_enqueue_delete(i)
             \/ super_block_delete(i)
             \/ \E isreg \in BOOLEAN : super_block_mark_pin(i, isreg)
             \/ super_block_mark_unpin(i)
             \/ super_block_finish_pinning(i)
      PROVE  IInv'
  BY <1>2, UpdateStatStep, MarkDirtyStep, BeginTransitStep, UpdateTransitStep, ToDeleteStep,
     EnqueueDeleteStep, DeleteStep, MarkPinStep, MarkUnpinStep, FinishPinningStep
<1>3. CASE super_block_reclaim
  BY <1>3, ReclaimStep
<1>4. CASE super_block_set_syncpoint \/ super_block_cancel_syncpoint
  BY <1>4, SyncPointStep
<1>5. CASE UNCHANGED vars
  BY <1>5, StutterStep
<1>6. QED
  BY <1>1, <1>2, <1>3, <1>4, <1>5 DEF Next

-----------------------------------------------------------------------------
(* The inductive invariant holds in every reachable state of the super     *)
(* block, for any number of inodes and any trigger and retry constants.    *)
THEOREM SuperBlockInvariant == Spec => []IInv
<1>1. Init => IInv
  BY InitInv
<1>2. IInv /\ [Next]_vars => IInv'
  BY NextInv
<1>3. QED
  BY <1>1, <1>2, PTL DEF Spec

(* Every field of the super block keeps its type; in particular none of    *)
(* the counters that ll_dequeue, pin_ll_dequeue and super_block_to_delete  *)
(* decrement goes below zero.                                              *)
THEOREM SuperBlockTypeCorrect == Spec => []TypeOK
<1>1. IInv => TypeOK
  BY DEF IInv, TypeOK, RestOK, LLInv, PLInv, LLRec, PLRec, SPRec, HeadRec
<1>2. QED
  BY <1>1, SuperBlockInvariant, PTL

(* The dirty queue and the to-delete queue are FIFO queues of exactly the  *)
(* entries whose status says so.                                           *)
THEOREM SuperBlockQueues == Spec => []QueuesFIFO
<1>1. IInv => QueuesFIFO
  BY DEF IInv, LLInv, QueuesFIFO
<1>2. QED
  BY <1>1, SuperBlockInvariant, PTL

(* The pinning queue is a FIFO queue of exactly the ST_PINNING entries.    *)
THEOREM SuperBlockPinQueue == Spec => []PinQueueFIFO
<1>1. IInv => PinQueueFIFO
  BY DEF IInv, PLInv, Pinning, PinQueueFIFO
<1>2. QED
  BY <1>1, SuperBlockInvariant, PTL

(* The head's counters count the entries they stand for.                   *)
THEOREM SuperBlockCounts == Spec => []CountsOK
<1>1. IInv => CountsOK
  BY DEF IInv, LLInv, PLInv, Pinning, Live, CountsOK
<1>2. QED
  BY <1>1, SuperBlockInvariant, PTL

(* The corruption checks of ll_enqueue and ll_dequeue never fire.          *)
THEOREM SuperBlockNeverRebuilds == Spec => []NeverRebuilds
<1>1. IInv => NeverRebuilds
  <2> SUFFICES ASSUME IInv PROVE NeverRebuilds
    OBVIOUS
  <2> DEFINE mem == Members(ll, "IS_DIRTY")
             first == ll.first["IS_DIRTY"]
             last == ll.last["IS_DIRTY"]
  <2>1. FIFO(mem, ll.next, ll.prev, first, last, ll.order)
    BY DEF IInv, LLInv, Queue
  <2>2. /\ EndsOK(mem, first, last, ll.order)
        /\ LinksOK(mem, ll.next, ll.prev, first, last, ll.order)
    BY <2>1 DEF FIFO
  <2>3. \A i \in Inodes : ll.status[i] = "IS_DIRTY" => ~DequeueNeedsRebuild(ll, i)
    BY <2>2 DEF LinksOK, Members, DequeueNeedsRebuild
  <2>4. ~EnqueueNeedsRebuild(ll)
    BY <2>2 DEF LinksOK, EndsOK, EnqueueNeedsRebuild
  <2>5. QED
    BY <2>3, <2>4 DEF NeverRebuilds
<1>2. QED
  BY <1>1, SuperBlockInvariant, PTL

(* A removed inode is in no upload or pinning queue, and a live one is     *)
(* neither waiting for deletion nor for reclaiming.                        *)
THEOREM SuperBlockRemovedIsQuiet == Spec => []RemovedIsQuiet
<1>1. IInv => RemovedIsQuiet
  BY DEF IInv
<1>2. QED
  BY <1>1, SuperBlockInvariant, PTL

-----------------------------------------------------------------------------
(***************************************************************************)
(* The sync point.                                                         *)
(***************************************************************************)
(* What the sync point S says of the queues L.                             *)
Covered(S, L, q) ==
  IF S.set /\ ~S.done[q]
  THEN /\ S.point[q] \in Members(L, q)
       /\ S.owed \cap Members(L, q) =
            {k \in Members(L, q) : k = S.point[q] \/ <<k, S.point[q]>> \in L.order}
  ELSE S.owed \cap Members(L, q) = {}

Covers(S, L) ==
  /\ ~S.set => S.owed = {}
  /\ S.set => \E q \in Queue : ~S.done[q]
  /\ \A q \in Queue : Covered(S, L, q)
  /\ \A i \in S.owed : L.status[i] \in Queue

(* It only looks at the members and at their order of arrival.             *)
LEMMA CoversFrame ==
  ASSUME NEW S \in SPRec, NEW L, NEW N, Covers(S, L), N.order = L.order,
         \A k \in Inodes : L.status[k] \in Queue \/ N.status[k] \in Queue => N.status[k] = L.status[k]
  PROVE  Covers(S, N)
<1>1. \A q \in Queue : Members(N, q) = Members(L, q)
  BY DEF Members
<1>2. \A i \in S.owed : N.status[i] \in Queue
  BY DEF Covers, SPRec
<1>3. QED
  BY <1>1, <1>2 DEF Covers, Covered

(* An entry that arrives is younger than the point.                        *)
LEMMA CoversEnqueue ==
  ASSUME NEW S \in SPRec, NEW L, LLInv(L), Covers(S, L), NEW i \in Inodes, NEW q \in Queue,
         L.status[i] \notin Queue
  PROVE  Covers(S, ll_enqueue(L, i, q))
<1>1. PICK N : N = ll_enqueue(L, i, q)
  OBVIOUS
<1>2. L.status \in [Inodes -> Status] /\ N.status = [L.status EXCEPT ![i] = q]
      /\ N.order = L.order \cup {<<k, i>> : k \in Members(L, q)}
  BY <1>1 DEF LLInv, LLRec, ll_enqueue, AppendOrder
<1>3. \A r \in Queue : Members(N, r) = IF r = q THEN Members(L, r) \cup {i} ELSE Members(L, r)
  BY <1>2 DEF Members
<1>4. i \notin S.owed /\ S.owed \subseteq Inodes /\ \A r \in Queue : i \notin Members(L, r)
  BY DEF Covers, SPRec, Members
<1>5. \A k \in Inodes : <<i, k>> \notin L.order
  BY DEF LLInv
<1>6. \A r \in Queue : Covered(S, N, r)
  <2> SUFFICES ASSUME NEW r \in Queue PROVE Covered(S, N, r)
    OBVIOUS
  <2>1. S.owed \cap Members(N, r) = S.owed \cap Members(L, r)
    BY <1>3, <1>4
  <2>2. CASE S.set /\ ~S.done[r]
    <3>1. PICK p : p = S.point[r]
      OBVIOUS
    <3>2. p \in Members(L, r) /\ p \in Inodes /\ p # i
      BY <2>2, <1>4, <3>1 DEF Covers, Covered, Members
    <3>3. \A k \in Members(N, r) : <<k, p>> \in N.order <=> <<k, p>> \in L.order
      BY <1>2, <3>2
    <3>4. \A k \in Members(N, r) : k = p \/ <<k, p>> \in N.order <=> k \in Members(L, r) /\ (k = p \/ <<k, p>> \in L.order)
      BY <1>3, <1>5, <3>2, <3>3
    <3>5. S.owed \cap Members(L, r) = {k \in Members(L, r) : k = p \/ <<k, p>> \in L.order}
      BY <2>2, <3>1 DEF Covers, Covered
    <3>6. S.owed \cap Members(N, r) = {k \in Members(N, r) : k = p \/ <<k, p>> \in N.order}
      BY <1>3, <2>1, <3>4, <3>5
    <3>7. QED
      BY <1>3, <2>2, <3>1, <3>2, <3>6 DEF Covered
  <2>3. CASE ~(S.set /\ ~S.done[r])
    BY <2>1, <2>3 DEF Covers, Covered
  <2>4. QED
    BY <2>2, <2>3
<1>7. \A k \in S.owed : N.status[k] \in Queue
  BY <1>2, <1>4 DEF Covers
<1>8. QED
  BY <1>1, <1>6, <1>7 DEF Covers

(* A point set on the youngest member owes every member.                   *)
LEMMA YoungestCovers ==
  ASSUME NEW L, LLInv(L), NEW q \in Queue, L.last[q] # 0
  PROVE  /\ L.last[q] \in Members(L, q)
         /\ \A k \in Members(L, q) : k = L.last[q] \/ <<k, L.last[q]>> \in L.order
BY DEF LLInv, FIFO, EndsOK

(* The point in front of the one that leaves.                              *)
LEMMA PointMoves ==
  ASSUME NEW L, LLInv(L), NEW q \in Queue, NEW i \in Members(L, q)
  PROVE  /\ L.prev[i] = 0 => \A k \in Members(L, q) : <<k, i>> \notin L.order
         /\ L.prev[i] # 0 =>
              /\ L.prev[i] \in Members(L, q) /\ L.prev[i] # i
              /\ \A k \in Members(L, q) \ {i} :
                    <<k, i>> \in L.order <=> k = L.prev[i] \/ <<k, L.prev[i]>> \in L.order
<1>1. PICK mem, next, prev, first, last, ord :
         /\ mem = Members(L, q) /\ next = L.next /\ prev = L.prev /\ first = L.first[q]
         /\ last = L.last[q] /\ ord = L.order
  OBVIOUS
<1>2. TotalOn(mem, ord) /\ EndsOK(mem, first, last, ord) /\ LinksOK(mem, next, prev, first, last, ord)
  BY <1>1 DEF LLInv, FIFO
<1>3. i \in mem
  BY <1>1
<1>4. prev[i] = 0 => \A k \in mem : <<k, i>> \notin ord
  BY <1>2, <1>3 DEF TotalOn, EndsOK, LinksOK
<1>5. ASSUME prev[i] # 0
      PROVE  /\ prev[i] \in mem /\ prev[i] # i
             /\ \A k \in mem \ {i} : <<k, i>> \in ord <=> k = prev[i] \/ <<k, prev[i]>> \in ord
  <2>1. PICK p : p = prev[i]
    OBVIOUS
  <2>2. p \in mem /\ next[p] = i
    BY <1>2, <1>3, <1>5, <2>1 DEF LinksOK
  <2>3. i # 0
    BY <1>1, InodesFinite DEF Members
  <2>4. <<p, i>> \in ord /\ \A k \in mem : <<p, k>> \in ord => k = i \/ <<i, k>> \in ord
    BY <1>2, <2>2, <2>3 DEF LinksOK
  <2>5. p # i
    BY <1>2, <1>3, <2>4 DEF TotalOn
  <2>6. ASSUME NEW k \in mem \ {i} PROVE <<k, i>> \in ord <=> k = p \/ <<k, p>> \in ord
    <3>1. ASSUME <<k, i>> \in ord, k # p PROVE <<k, p>> \in ord
      <4>1. <<i, k>> \notin ord
        BY <1>2, <1>3, <3>1 DEF TotalOn
      <4>2. <<p, k>> \notin ord
        BY <2>4, <4>1
      <4>3. QED
        BY <1>2, <2>2, <3>1, <4>2 DEF TotalOn
    <3>2. ASSUME <<k, p>> \in ord PROVE <<k, i>> \in ord
      BY <1>2, <1>3, <2>2, <2>4, <3>2 DEF TotalOn
    <3>3. QED
      BY <2>4, <3>1, <3>2
  <2>7. QED
    BY <2>1, <2>2, <2>5, <2>6
<1>6. QED
  BY <1>1, <1>4, <1>5

(* The fields of the sync point once a round is over: set again on what is *)
(* still queued, or gone.                                                  *)
LEMMA RoundEnds ==
  ASSUME NEW S \in SPRec, NEW L, LLInv(L), NEW i \in Inodes, NEW q \in Queue, L.status[i] = q,
         L.prev[i] = 0, NEW N, N = ll_dequeue(L, i), S.set, \A r \in Queue : S.done[r], S.owed = {}
  PROVE  Covers(check_sync_complete(S, L, q, i), N)
<1>1. /\ \A r \in Queue : Members(N, r) = IF r = q THEN Members(L, r) \ {i} ELSE Members(L, r)
      /\ N.order = UnlinkOrder(L.order, i) /\ N.status = [L.status EXCEPT ![i] = "NO_LL"]
      /\ L.status \in [Inodes -> Status]
  BY DEF LLInv, LLRec, ll_dequeue, Members, Queue
<1>2. CASE S.retry > 0 /\ \E r \in Queue : StillQueued(L, q, i, r)
  <2>1. PICK T : T = check_sync_complete(S, L, q, i)
    OBVIOUS
  <2>2. /\ T.set = S.set /\ T.owed = {k \in Inodes : L.status[k] \in Queue /\ k # i}
        /\ T.point = [r \in Queue |-> IF StillQueued(L, q, i, r) THEN L.last[r] ELSE S.point[r]]
        /\ T.done = [r \in Queue |-> ~StillQueued(L, q, i, r)]
    BY <1>2, <2>1 DEF check_sync_complete, SPRec
  <2>3. ASSUME NEW r \in Queue PROVE Covered(T, N, r)
    <3>1. T.owed \cap Members(N, r) = Members(N, r)
      BY <1>1, <2>2 DEF Members
    <3>2. FIFO(Members(L, r), L.next, L.prev, L.first[r], L.last[r], L.order)
      BY DEF LLInv
    <3>3. CASE StillQueued(L, q, i, r)
      <4>1. L.last[r] # 0
        BY <3>2, <3>3 DEF StillQueued, FIFO, EndsOK, Members
      <4>2. L.last[r] \in Members(L, r) /\ \A k \in Members(L, r) : k = L.last[r] \/ <<k, L.last[r]>> \in L.order
        BY <4>1, YoungestCovers
      <4>3. L.last[r] # i
        BY <3>3, <4>2 DEF StillQueued, Members
      <4>4. \A k \in Members(N, r) : k = L.last[r] \/ <<k, L.last[r]>> \in N.order
        BY <1>1, <4>2, <4>3 DEF UnlinkOrder, Members
      <4>5. L.last[r] \in Members(N, r) /\ T.point[r] = L.last[r] /\ ~T.done[r]
        BY <1>1, <2>2, <3>3, <4>2, <4>3
      <4>6. QED
        BY <2>2, <3>1, <4>4, <4>5 DEF Covered
    <3>4. CASE ~StillQueued(L, q, i, r)
      <4>1. T.done[r]
        BY <2>2, <3>4
      <4>2. Members(N, r) = {}
        <5>1. CASE r = q
          <6>1. L.last[q] = i
            BY <3>4, <5>1 DEF StillQueued
          <6>2. i # 0 /\ i \in Members(L, q)
            BY InodesFinite DEF Members
          <6>3. L.next[i] = 0 /\ \A k \in Members(L, q) : k # i => <<k, i>> \in L.order
            BY <3>2, <5>1, <6>1, <6>2 DEF FIFO, EndsOK, LinksOK
          <6>4. \A k \in Members(L, q) : <<k, i>> \notin L.order
            BY <6>2, PointMoves
          <6>5. QED
            BY <1>1, <5>1, <6>3, <6>4
        <5>2. CASE r # q
          BY <1>1, <3>2, <3>4, <5>2 DEF StillQueued, FIFO, EndsOK
        <5>3. QED
          BY <5>1, <5>2
      <4>3. QED
        BY <4>1, <4>2 DEF Covered
    <3>5. QED
      BY <3>3, <3>4
  <2>4. \A k \in T.owed : N.status[k] \in Queue
    BY <1>1, <2>2
  <2>5. T.set /\ \E r \in Queue : ~T.done[r]
    BY <1>2, <2>2
  <2>6. QED
    BY <2>1, <2>3, <2>4, <2>5 DEF Covers
<1>3. CASE ~(S.retry > 0 /\ \E r \in Queue : StillQueued(L, q, i, r))
  <2>1. PICK T : T = check_sync_complete(S, L, q, i)
    OBVIOUS
  <2>2. ~T.set /\ T.owed = {}
    BY <1>3, <2>1 DEF check_sync_complete, NoSyncPoint
  <2>3. QED
    BY <2>1, <2>2 DEF Covers, Covered
<1>4. QED
  BY <1>2, <1>3

(* ll_dequeue: the point moves to the entry before the one that leaves, or *)
(* the round ends.                                                         *)
LEMMA CoversDequeue ==
  ASSUME NEW S \in SPRec, NEW L, LLInv(L), Covers(S, L), NEW i \in Inodes
  PROVE  Covers(dequeue_sync_point(S, L, i), ll_dequeue(L, i))
<1>1. CASE L.status[i] \notin Queue
  BY <1>1 DEF dequeue_sync_point, ll_dequeue
<1>2. CASE L.status[i] \in Queue
  <2>1. PICK q \in Queue : q = L.status[i]
    BY <1>2
  <2>2. PICK N : N = ll_dequeue(L, i)
    OBVIOUS
  <2>3. /\ \A r \in Queue : Members(N, r) = IF r = q THEN Members(L, r) \ {i} ELSE Members(L, r)
        /\ N.order = UnlinkOrder(L.order, i) /\ N.status = [L.status EXCEPT ![i] = "NO_LL"]
        /\ L.status \in [Inodes -> Status]
    BY <1>2, <2>1, <2>2 DEF LLInv, LLRec, ll_dequeue, Members, Queue
  <2>4. dequeue_sync_point(S, L, i) = move_sync_point(S, L, q, i)
    BY <1>2, <2>1 DEF dequeue_sync_point
  <2>5. i \in Members(L, q) /\ i # 0 /\ S.owed \subseteq Inodes
    BY <2>1, InodesFinite DEF Members, SPRec
  <2>6. CASE ~S.set
    <3>1. move_sync_point(S, L, q, i) = S /\ S.owed = {}
      BY <2>6 DEF move_sync_point, Covers
    <3>2. QED
      BY <2>2, <2>4, <2>6, <3>1 DEF Covers, Covered
  <2>7. CASE S.set
    <3> DEFINE hit == ~S.done[q] /\ S.point[q] = i
               p == IF hit THEN L.prev[i] ELSE S.point[q]
               fin == ~S.done[q] /\ p = 0
               S1 == [S EXCEPT !.point[q] = p, !.done[q] = @ \/ fin, !.owed = @ \ {i}]
    <3>a. move_sync_point(S, L, q, i) = IF hit \/ fin THEN check_sync_complete(S1, L, q, i) ELSE S1
      BY <2>7 DEF move_sync_point
    <3>2. p \in Inode0
      BY DEF SPRec, LLInv, LLRec, Links
    <3>1. /\ hit <=> ~S.done[q] /\ S.point[q] = i
          /\ p = IF hit THEN L.prev[i] ELSE S.point[q]
          /\ fin <=> ~S.done[q] /\ p = 0
          /\ S1 = [S EXCEPT !.point[q] = p, !.done[q] = S.done[q] \/ fin, !.owed = S.owed \ {i}]
          /\ move_sync_point(S, L, q, i) = IF hit \/ fin THEN check_sync_complete(S1, L, q, i) ELSE S1
      BY <3>a DEF SPRec
    <3> HIDE DEF hit, p, fin, S1
    <3>3. /\ S1 \in SPRec /\ S1.set /\ S1.owed = S.owed \ {i} /\ S1.point[q] = p
          /\ S1.done[q] <=> (S.done[q] \/ fin)
          /\ \A r \in Queue \ {q} : S1.point[r] = S.point[r] /\ (S1.done[r] <=> S.done[r])
      BY <2>7, <3>1, <3>2 DEF SPRec
    <3>4. \A k \in S1.owed : N.status[k] \in Queue
      BY <2>3, <2>5, <3>3 DEF Covers
    <3>5. \A r \in Queue \ {q} : Covered(S1, N, r)
      <4> SUFFICES ASSUME NEW r \in Queue \ {q} PROVE Covered(S1, N, r)
        OBVIOUS
      <4>1. Members(N, r) = Members(L, r) /\ i \notin Members(L, r) /\ Covered(S, L, r)
        BY <2>1, <2>3 DEF Members, Covers
      <4>2. S1.owed \cap Members(N, r) = S.owed \cap Members(L, r)
        BY <3>3, <4>1
      <4>3. CASE S.set /\ ~S.done[r]
        <5>1. PICK x : x = S.point[r]
          OBVIOUS
        <5>2. x \in Members(L, r) /\ x # i
              /\ S.owed \cap Members(L, r) = {k \in Members(L, r) : k = x \/ <<k, x>> \in L.order}
          BY <4>1, <4>3, <5>1 DEF Covered
        <5>3. \A k \in Members(L, r) : <<k, x>> \in N.order <=> <<k, x>> \in L.order
          BY <2>3, <4>1, <5>2 DEF UnlinkOrder
        <5>4. QED
          BY <2>7, <3>3, <4>1, <4>2, <4>3, <5>1, <5>2, <5>3 DEF Covered
      <4>4. CASE ~(S.set /\ ~S.done[r])
        BY <2>7, <3>3, <4>1, <4>2, <4>4 DEF Covered
      <4>5. QED
        BY <4>3, <4>4
    <3>6. CASE S.done[q]
      <4>1. ~hit /\ ~fin /\ S1.done[q]
        BY <3>1, <3>3, <3>6
      <4>2. Covered(S1, N, q)
        BY <2>3, <3>3, <3>6, <4>1 DEF Covered, Covers
      <4>3. \E r \in Queue : ~S1.done[r]
        BY <2>7, <3>3, <3>6 DEF Covers
      <4>4. Covers(S1, N)
        BY <3>3, <3>4, <3>5, <4>2, <4>3 DEF Covers
      <4>5. QED
        BY <2>2, <2>4, <3>1, <4>1, <4>4
    <3>7. CASE ~S.done[q] /\ S.point[q] # i
      <4>1. PICK x : x = S.point[q]
        OBVIOUS
      <4>2. /\ x \in Members(L, q) /\ x # i
            /\ S.owed \cap Members(L, q) = {k \in Members(L, q) : k = x \/ <<k, x>> \in L.order}
        BY <2>7, <3>7, <4>1 DEF Covers, Covered
      <4>3. x # 0
        BY <4>2, InodesFinite DEF Members
      <4>4. ~hit /\ ~fin /\ p = x /\ ~S1.done[q]
        BY <3>1, <3>3, <3>7, <4>1, <4>3
      <4>5. \A k \in Members(N, q) : <<k, x>> \in N.order <=> <<k, x>> \in L.order
        BY <2>3, <4>2 DEF UnlinkOrder
      <4>6. S1.owed \cap Members(N, q) = {k \in Members(N, q) : k = x \/ <<k, x>> \in N.order}
        BY <2>3, <3>3, <4>2, <4>5
      <4>7. Covered(S1, N, q)
        BY <2>3, <3>3, <4>2, <4>4, <4>6 DEF Covered
      <4>8. Covers(S1, N)
        BY <3>3, <3>4, <3>5, <4>4, <4>7 DEF Covers
      <4>9. QED
        BY <2>2, <2>4, <3>1, <4>4, <4>8
    <3>8. CASE ~S.done[q] /\ S.point[q] = i /\ L.prev[i] # 0
      <4>1. hit /\ p = L.prev[i] /\ p # 0 /\ ~fin /\ ~S1.done[q]
        BY <3>1, <3>3, <3>8
      <4>2. /\ p \in Members(L, q) /\ p # i
            /\ \A k \in Members(L, q) \ {i} : <<k, i>> \in L.order <=> k = p \/ <<k, p>> \in L.order
        BY <2>5, <3>8, <4>1, PointMoves
      <4>3. S.owed \cap Members(L, q) = {k \in Members(L, q) : k = i \/ <<k, i>> \in L.order}
        BY <2>7, <3>8 DEF Covers, Covered
      <4>4. \A k \in Members(N, q) : <<k, p>> \in N.order <=> <<k, p>> \in L.order
        BY <2>3, <4>2 DEF UnlinkOrder
      <4>5. S1.owed \cap Members(N, q) = {k \in Members(N, q) : k = p \/ <<k, p>> \in N.order}
        BY <2>3, <3>3, <4>2, <4>3, <4>4
      <4>6. Covered(S1, N, q)
        BY <2>3, <3>3, <4>1, <4>2, <4>5 DEF Covered
      <4>7. Covers(S1, N)
        BY <3>3, <3>4, <3>5, <4>1, <4>6 DEF Covers
      <4>8. check_sync_complete(S1, L, q, i) = S1
        BY <4>1 DEF check_sync_complete
      <4>9. QED
        BY <2>2, <2>4, <3>1, <4>1, <4>7, <4>8
    <3>9. CASE ~S.done[q] /\ S.point[q] = i /\ L.prev[i] = 0
      <4>1. hit /\ p = 0 /\ fin /\ S1.done[q]
        BY <3>1, <3>3, <3>9
      <4>2. S.owed \cap Members(L, q) = {k \in Members(L, q) : k = i \/ <<k, i>> \in L.order}
        BY <2>7, <3>9 DEF Covers, Covered
      <4>3. S1.owed \cap Members(L, q) = {}
        BY <2>5, <3>3, <3>9, <4>2, PointMoves, ZenonT(60)
      <4>4. CASE \E r \in Queue : ~S1.done[r]
        <5>1. Covered(S1, N, q)
          BY <2>3, <4>1, <4>3 DEF Covered
        <5>2. Covers(S1, N)
          BY <3>3, <3>4, <3>5, <4>4, <5>1 DEF Covers
        <5>3. check_sync_complete(S1, L, q, i) = S1
          BY <4>4 DEF check_sync_complete
        <5>4. QED
          BY <2>2, <2>4, <3>1, <4>1, <5>2, <5>3
      <4>5. CASE \A r \in Queue : S1.done[r]
        <5>1. \A r \in Queue \ {q} : S1.owed \cap Members(N, r) = {}
          BY <3>5, <4>5 DEF Covered
        <5>2. S1.owed \subseteq Inodes /\ \A k \in S1.owed : \E r \in Queue : k \in Members(L, r) \cap Members(N, r)
          BY <2>3, <2>5, <3>3, <3>4 DEF Members
        <5>3. S1.owed = {}
          BY <4>3, <5>1, <5>2
        <5>4. L.status[i] = q
          BY <2>1
        <5>5. Covers(check_sync_complete(S1, L, q, i), N)
          BY <2>2, <3>3, <3>9, <4>5, <5>3, <5>4, RoundEnds
        <5>6. QED
          BY <2>2, <2>4, <3>1, <4>1, <5>5
      <4>6. QED
        BY <4>4, <4>5
    <3>10. QED
      BY <3>6, <3>7, <3>8, <3>9
  <2>8. QED
    BY <2>6, <2>7
<1>3. QED
  BY <1>1, <1>2

(* Every step keeps the sync point on the youngest inode still owed.       *)
LEMMA CoversStep ==
  ASSUME IInv, Covers(sp, ll), [Next]_vars
  PROVE  Covers(sp', ll')
<1>0. LLInv(ll) /\ sp \in SPRec /\ ll.status \in [Inodes -> Status]
  BY DEF IInv, RestOK, LLInv, LLRec
<1>same. ASSUME UNCHANGED <<ll, sp>> PROVE Covers(sp', ll')
  BY <1>same
<1>requeue. ASSUME NEW i \in Inodes, NEW q \in Queue, ll' = ll_enqueue(ll_dequeue(ll, i), i, q),
                   sp' = dequeue_sync_point(sp, ll, i)
            PROVE  Covers(sp', ll')
  <2>1. PICK D : D = ll_dequeue(ll, i)
    OBVIOUS
  <2>a. /\ LLInv(D)
        /\ D.status = [ll.status EXCEPT ![i] = IF ll.status[i] \in Queue THEN "NO_LL" ELSE ll.status[i]]
    BY <1>0, <2>1, DequeueInv
  <2>2. LLInv(D) /\ D.status[i] \notin Queue
    BY <1>0, <2>a DEF Queue
  <2>3. Covers(sp', D) /\ sp' \in SPRec
    BY <1>0, <1>requeue, <2>1, CoversDequeue, SyncType
  <2>4. QED
    BY <1>requeue, <2>1, <2>2, <2>3, CoversEnqueue
<1>drop. ASSUME NEW i \in Inodes, ll' = ll_dequeue(ll, i), sp' = dequeue_sync_point(sp, ll, i)
         PROVE  Covers(sp', ll')
  BY <1>0, <1>drop, CoversDequeue
<1>add. ASSUME NEW i \in Inodes, NEW q \in Queue, ll.status[i] = "NO_LL", ll' = ll_enqueue(ll, i, q), sp' = sp
        PROVE  Covers(sp', ll')
  BY <1>0, <1>add, CoversEnqueue DEF Queue
<1>dirty. "IS_DIRTY" \in Queue /\ "TO_BE_DELETED" \in Queue
  BY DEF Queue
<1>1. ASSUME NEW pin \in {"ST_PIN", "ST_UNPIN"}, NewReclaimedInode(pin) \/ NewAppendedInode(pin)
      PROVE  Covers(sp', ll')
  <2>1. PICK i \in Inodes : ll.status[i] \notin Queue /\ FreshEntry(i, pin)
    <3>1. CASE NewReclaimedInode(pin)
      BY <3>1 DEF IInv, NewReclaimedInode, RInv, Reclaimed, Queue, RestOK, HeadRec
    <3>2. CASE NewAppendedInode(pin)
      <4>1. head.num_total + 2 \in Inodes /\ ~Allocated(head.num_total + 2)
        BY <3>2, SuperBlockAssumption DEF IInv, RestOK, HeadRec, NewAppendedInode, Inodes, Allocated
      <4>2. ll.status[head.num_total + 2] \notin Queue
        BY <4>1 DEF IInv, Queue
      <4>3. QED
        BY <3>2, <4>1, <4>2 DEF NewAppendedInode
    <3>3. QED
      BY <1>1, <3>1, <3>2
  <2>2. ll' = [ll EXCEPT !.status[i] = "NO_LL", !.next[i] = 0, !.prev[i] = 0] /\ sp' = sp
    BY <2>1 DEF FreshEntry
  <2>3. ll'.order = ll.order /\ ll'.status = [ll.status EXCEPT ![i] = "NO_LL"]
    BY <1>0, <2>2 DEF LLInv, LLRec
  <2>4. \A k \in Inodes : ll.status[k] \in Queue \/ ll'.status[k] \in Queue => ll'.status[k] = ll.status[k]
    BY <1>0, <2>1, <2>3 DEF Queue
  <2>a. ll'.order = ll.order
    BY <2>3
  <2>b. sp' = sp
    BY <2>2
  <2>c. Covers(sp, ll')
    BY <1>0, <2>4, <2>a, CoversFrame
  <2>5. QED
    BY <2>b, <2>c
<1>2. ASSUME NEW i \in Inodes, super_block_update_stat(i) PROVE Covers(sp', ll')
  BY <1>2, <1>same, <1>requeue, <1>dirty DEF super_block_update_stat
<1>3. ASSUME NEW i \in Inodes, super_block_mark_dirty(i) PROVE Covers(sp', ll')
  BY <1>3, <1>same, <1>add, <1>dirty DEF super_block_mark_dirty
<1>4. ASSUME NEW i \in Inodes, NEW incomplete \in BOOLEAN, super_block_update_transit(i, incomplete)
      PROVE  Covers(sp', ll')
  BY <1>4, <1>same, <1>requeue, <1>drop, <1>dirty DEF super_block_update_transit
<1>5. ASSUME NEW i \in Inodes, NEW enqueue_now \in BOOLEAN, super_block_to_delete(i, enqueue_now)
      PROVE  Covers(sp', ll')
  BY <1>5, <1>requeue, <1>drop, <1>dirty DEF super_block_to_delete
<1>6. ASSUME NEW i \in Inodes, super_block_enqueue_delete(i) PROVE Covers(sp', ll')
  BY <1>6, <1>add, <1>dirty DEF super_block_enqueue_delete
<1>7. ASSUME NEW i \in Inodes, super_block_delete(i) PROVE Covers(sp', ll')
  <2>1. PICK D : D = ll_dequeue(ll, i)
    OBVIOUS
  <2>a. /\ LLInv(D)
        /\ D.status = [ll.status EXCEPT ![i] = IF ll.status[i] \in Queue THEN "NO_LL" ELSE ll.status[i]]
    BY <1>0, <2>1, DequeueInv
  <2>2. LLInv(D) /\ D.status[i] \notin Queue /\ D.status \in [Inodes -> Status]
    BY <1>0, <2>a DEF Queue, LLInv, LLRec
  <2>3. Covers(sp', D) /\ sp' \in SPRec
    BY <1>0, <1>7, <2>1, CoversDequeue, SyncType DEF super_block_delete
  <2>4. ll' = [D EXCEPT !.status[i] = "TO_BE_RECLAIMED"]
    BY <1>7, <2>1 DEF super_block_delete
  <2>5. ll'.order = D.order /\ ll'.status = [D.status EXCEPT ![i] = "TO_BE_RECLAIMED"]
    BY <2>2, <2>4 DEF LLInv, LLRec
  <2>6. QED
    BY <2>2, <2>3, <2>5, CoversFrame DEF Queue
<1>8. CASE super_block_reclaim
  <2>1. PICK R : /\ \A k \in R : ll.status[k] = "TO_BE_RECLAIMED"
                 /\ \E x : ll' = [ll EXCEPT !.status = [k \in Inodes |-> IF k \in R THEN "RECLAIMED" ELSE ll.status[k]],
                                           !.next = x]
    BY <1>8 DEF super_block_reclaim
  <2>2. ll'.order = ll.order /\ ll'.status = [k \in Inodes |-> IF k \in R THEN "RECLAIMED" ELSE ll.status[k]]
    BY <1>0, <2>1 DEF LLInv, LLRec
  <2>3. sp' = sp
    BY <1>8 DEF super_block_reclaim
  <2>4. \A k \in Inodes : ll.status[k] \in Queue \/ ll'.status[k] \in Queue => ll'.status[k] = ll.status[k]
    BY <1>0, <2>1, <2>2 DEF Queue
  <2>5. QED
    BY <1>0, <2>2, <2>3, <2>4, CoversFrame
<1>9. CASE super_block_set_syncpoint
  <2>1. /\ ll' = ll /\ sp'.set /\ sp'.owed = {k \in Inodes : ll.status[k] \in Queue}
        /\ sp'.point = [q \in Queue |-> IF ll.last[q] # 0 THEN ll.last[q] ELSE sp.point[q]]
        /\ sp'.done = [q \in Queue |-> ll.last[q] = 0] /\ \E q \in Queue : ll.last[q] # 0
    BY <1>9 DEF super_block_set_syncpoint
  <2>2. ASSUME NEW q \in Queue PROVE Covered(sp', ll, q)
    <3>1. sp'.owed \cap Members(ll, q) = Members(ll, q)
      BY <2>1 DEF Members
    <3>2. CASE ll.last[q] = 0
      <4>1. Members(ll, q) = {} /\ sp'.done[q]
        BY <1>0, <2>1, <3>2 DEF LLInv, FIFO, EndsOK
      <4>2. QED
        BY <4>1 DEF Covered
    <3>3. CASE ll.last[q] # 0
      <4>a. sp'.point = [r \in Queue |-> IF ll.last[r] # 0 THEN ll.last[r] ELSE sp.point[r]]
        BY <2>1
      <4>b. sp'.done = [r \in Queue |-> ll.last[r] = 0]
        BY <2>1
      <4>c. sp'.point[q] = ll.last[q]
        BY <3>3, <4>a
      <4>d. ~sp'.done[q]
        BY <3>3, <4>b, Zenon
      <4>1. sp'.point[q] = ll.last[q] /\ ~sp'.done[q]
        BY <4>c, <4>d
      <4>2. /\ ll.last[q] \in Members(ll, q)
            /\ \A k \in Members(ll, q) : k = ll.last[q] \/ <<k, ll.last[q]>> \in ll.order
        BY <1>0, <3>3, YoungestCovers
      <4>3. QED
        BY <2>1, <3>1, <4>1, <4>2 DEF Covered
    <3>4. QED
      BY <3>2, <3>3
  <2>3. QED
    BY <2>1, <2>2 DEF Covers
<1>10. CASE super_block_cancel_syncpoint
  BY <1>10 DEF super_block_cancel_syncpoint, NoSyncPoint, Covers, Covered
<1>11. ASSUME NEW i \in Inodes,
              \/ BeginTransit(i)
              \/ \E isreg \in BOOLEAN : super_block_mark_pin(i, isreg)
              \/ super_block_mark_unpin(i)
              \/ super_block_finish_pinning(i)
       PROVE  Covers(sp', ll')
  BY <1>11, <1>same DEF BeginTransit, super_block_mark_pin, super_block_mark_unpin, super_block_finish_pinning
<1>12. CASE UNCHANGED vars
  BY <1>12, <1>same DEF vars
<1>13. QED
  BY <1>1, <1>2, <1>3, <1>4, <1>5, <1>6, <1>7, <1>8, <1>9, <1>10, <1>11, <1>12 DEF Next

(* The completion event of a sync point is only sent when every inode that *)
(* was queued when the round began has left its queue, whatever arrives,   *)
(* leaves or is queued again meanwhile.                                    *)
THEOREM SuperBlockSyncPoint == Spec => []SyncPointCovers
<1>1. SyncPointCovers <=> Covers(sp, ll)
  BY DEF SyncPointCovers, Covers, Covered
<1>2. Init => SyncPointCovers
  BY <1>1 DEF Init, NoSyncPoint, Covers, Covered
<1>3. IInv /\ SyncPointCovers /\ [Next]_vars => SyncPointCovers'
  <2> SUFFICES ASSUME IInv, SyncPointCovers, [Next]_vars PROVE SyncPointCovers'
    OBVIOUS
  <2>1. Covers(sp, ll)
    BY <1>1
  <2>2. Covers(sp', ll')
    BY <2>1, CoversStep
  <2>3. QED
    BY <2>2 DEF SyncPointCovers, Covers, Covered
<1>4. QED
  BY <1>2, <1>3, SuperBlockInvariant, PTL DEF Spec

-----------------------------------------------------------------------------
(***************************************************************************)
(* The reclaimed and the unclaimed list.                                   *)
(***************************************************************************)
(* A list does not notice changes at entries that are not its members.     *)
LEMMA ListedFrame ==
  ASSUME NEW mem, NEW next, NEW new, NEW first, NEW last,
         Listed(mem, next, first, last), \A k \in mem : new[k] = next[k]
  PROVE  Listed(mem, new, first, last)
<1>1. PICK ord \in SUBSET (mem \X mem) :
        TotalOn(mem, ord) /\ EndsOK(mem, first, last, ord) /\ NextOK(mem, next, last, ord)
  BY DEF Listed
<1>2. NextOK(mem, new, last, ord)
  BY <1>1 DEF NextOK
<1> QED
  BY <1>1, <1>2 DEF Listed

(* The first entry is taken off a list.                                    *)
LEMMA ListedPop ==
  ASSUME NEW mem, NEW next, NEW new, NEW first \in mem, NEW last, 0 \notin mem,
         Listed(mem, next, first, last), \A k \in mem \ {first} : new[k] = next[k]
  PROVE  /\ Listed(mem \ {first}, new, next[first], IF next[first] = 0 THEN 0 ELSE last)
         /\ next[first] = 0 => mem \ {first} = {}
<1> DEFINE rest == mem \ {first}
           n == next[first]
           l == IF n = 0 THEN 0 ELSE last
<1>1. PICK ord \in SUBSET (mem \X mem) :
        TotalOn(mem, ord) /\ EndsOK(mem, first, last, ord) /\ NextOK(mem, next, last, ord)
  BY DEF Listed
<1>2. PICK sub : sub = ord \cap (rest \X rest)
  OBVIOUS
<1>3. \A a, b \in rest : <<a, b>> \in sub <=> <<a, b>> \in ord
  BY <1>2
<1>4. TotalOn(rest, sub)
  <2>1. \A a, b \in rest : a # b => (<<a, b>> \in sub \/ <<b, a>> \in sub)
    BY <1>1, <1>3 DEF TotalOn
  <2>2. \A a, b \in rest : <<a, b>> \in sub => <<b, a>> \notin sub
    BY <1>1, <1>3 DEF TotalOn
  <2>3. \A a, b, c \in rest : <<a, b>> \in sub /\ <<b, c>> \in sub => <<a, c>> \in sub
    BY <1>1, <1>3 DEF TotalOn
  <2> QED
    BY <2>1, <2>2, <2>3 DEF TotalOn
<1>5. \A k \in rest : <<first, k>> \in ord /\ <<k, first>> \notin ord
  BY <1>1 DEF EndsOK, TotalOn
<1>6. n = 0 => rest = {}
  <2>1. n = 0 => first = last
    BY <1>1 DEF NextOK
  <2>2. first = last => \A k \in rest : <<k, first>> \in ord
    BY <1>1 DEF EndsOK
  <2> QED
    BY <2>1, <2>2, <1>5
<1>7. n # 0 => /\ n \in rest /\ \A k \in rest : k # n => <<n, k>> \in ord
               /\ last \in rest /\ \A k \in rest : k # last => <<k, last>> \in ord
  <2> SUFFICES ASSUME n # 0
               PROVE  /\ n \in rest /\ \A k \in rest : k # n => <<n, k>> \in ord
                      /\ last \in rest /\ \A k \in rest : k # last => <<k, last>> \in ord
    OBVIOUS
  <2>1. n \in mem /\ <<first, n>> \in ord /\ first # last
    BY <1>1 DEF NextOK
  <2>2. n # first
    BY <1>1, <2>1 DEF TotalOn
  <2>3. \A k \in mem : <<first, k>> \in ord => k = n \/ <<n, k>> \in ord
    BY <1>1 DEF NextOK
  <2>4. last \in mem /\ \A k \in mem : k # last => <<k, last>> \in ord
    BY <1>1 DEF EndsOK
  <2> QED
    BY <2>1, <2>2, <2>3, <2>4, <1>5
<1>8. EndsOK(rest, n, l, sub)
  <2>1. CASE n = 0
    BY <2>1, <1>6 DEF EndsOK
  <2>2. CASE n # 0
    <3>1. /\ n \in rest /\ \A k \in rest : k # n => <<n, k>> \in sub
          /\ last \in rest /\ \A k \in rest : k # last => <<k, last>> \in sub
      BY <2>2, <1>7, <1>3
    <3>2. l = last /\ last # 0 /\ rest # {}
      BY <2>2, <3>1
    <3> HIDE DEF rest, n, l
    <3> QED
      BY <2>2, <3>1, <3>2 DEF EndsOK
  <2> QED
    BY <2>1, <2>2
<1>9. NextOK(rest, new, l, sub)
  <2> SUFFICES ASSUME NEW i \in rest
               PROVE  /\ new[i] = 0 <=> i = l
                      /\ new[i] # 0 => /\ new[i] \in rest
                                       /\ <<i, new[i]>> \in sub
                                       /\ \A k \in rest : <<i, k>> \in sub =>
                                            k = new[i] \/ <<new[i], k>> \in sub
    BY DEF NextOK
  <2>1. l = last /\ new[i] = next[i]
    BY <1>6
  <2>2. /\ next[i] = 0 <=> i = last
        /\ next[i] # 0 => /\ next[i] \in mem
                          /\ <<i, next[i]>> \in ord
                          /\ \A k \in mem : <<i, k>> \in ord =>
                               k = next[i] \/ <<next[i], k>> \in ord
    BY <1>1 DEF NextOK
  <2>3. next[i] # 0 => next[i] \in rest
    BY <2>2, <1>5
  <2> QED
    BY <2>1, <2>2, <2>3, <1>3
<1>10. sub \in SUBSET (rest \X rest)
  BY <1>2
<1> HIDE DEF rest, n, l
<1>11. Listed(rest, new, n, l)
  BY <1>4, <1>8, <1>9, <1>10 DEF Listed
<1> QED
  BY <1>6, <1>11 DEF rest, n, l

(* The numbers of R, linked by next from the least, f, to the greatest, m, *)
(* and from there to first.                                                *)
Sorted(R, next, f, m, first) ==
  /\ f \in R /\ \A k \in R : f <= k
  /\ m \in R /\ \A k \in R : k <= m
  /\ \A k \in R : (\A j \in R : ~(j > k)) => next[k] = first
  /\ \A k \in R : (\E j \in R : j > k) =>
       next[k] \in R /\ next[k] > k /\ \A j \in R : j > k => next[k] <= j

(* A sorted batch goes in front of a list.                                 *)
LEMMA ListedBatch ==
  ASSUME NEW mem, NEW next, NEW new, NEW first, NEW last, 0 \notin mem,
         Listed(mem, next, first, last), \A k \in mem : new[k] = next[k],
         NEW R, R \subseteq Nat, 0 \notin R, R \cap mem = {},
         NEW f, NEW m, Sorted(R, new, f, m, first),
         NEW l, l = IF last # 0 THEN last ELSE m
  PROVE  Listed(mem \cup R, new, f, l)
<1>s. /\ f \in R /\ \A k \in R : f <= k
      /\ m \in R /\ \A k \in R : k <= m
      /\ \A k \in R : (\A j \in R : ~(j > k)) => new[k] = first
      /\ \A k \in R : (\E j \in R : j > k) =>
           new[k] \in R /\ new[k] > k /\ \A j \in R : j > k => new[k] <= j
  BY DEF Sorted
<1> DEFINE all == mem \cup R
<1>1. PICK ord \in SUBSET (mem \X mem) :
        TotalOn(mem, ord) /\ EndsOK(mem, first, last, ord) /\ NextOK(mem, next, last, ord)
  BY DEF Listed
<1>2. PICK sup : sup = {e \in all \X all :
                          \/ e[1] \in mem /\ e[2] \in mem /\ e \in ord
                          \/ e[1] \in R /\ e[2] \in R /\ e[1] < e[2]
                          \/ e[1] \in R /\ e[2] \in mem}
  OBVIOUS
<1>3. /\ \A a, b \in mem : <<a, b>> \in sup <=> <<a, b>> \in ord
      /\ \A a, b \in R : <<a, b>> \in sup <=> a < b
      /\ \A a \in R, b \in mem : <<a, b>> \in sup
      /\ \A a \in mem, b \in R : <<a, b>> \notin sup
      /\ sup \in SUBSET (all \X all)
  BY <1>2
<1>n. /\ \A a, b \in R : a # b => a < b \/ b < a
      /\ \A a, b \in R : a < b => ~(b < a)
      /\ \A a \in R : a # f => f < a
      /\ \A a \in R : a # m => a < m
      /\ \A a, b \in R : a > b => b < a /\ a # b
      /\ \A a, b \in R : a <= b => a = b \/ a < b
  <2>1. \A a, b \in R : a \in Nat /\ b \in Nat
    OBVIOUS
  <2> QED
    BY <2>1, <1>s
<1>4. TotalOn(all, sup)
  <2>1. \A a, b \in all : a # b => (<<a, b>> \in sup \/ <<b, a>> \in sup)
    <3>1. \A a, b \in mem : a # b => (<<a, b>> \in sup \/ <<b, a>> \in sup)
      BY <1>1, <1>3 DEF TotalOn
    <3>2. \A a, b \in R : a # b => (<<a, b>> \in sup \/ <<b, a>> \in sup)
      BY <1>n, <1>3
    <3> QED
      BY <3>1, <3>2, <1>3
  <2>2. \A a, b \in all : <<a, b>> \in sup => <<b, a>> \notin sup
    <3>1. \A a, b \in mem : <<a, b>> \in sup => <<b, a>> \notin sup
      BY <1>1, <1>3 DEF TotalOn
    <3>2. \A a, b \in R : <<a, b>> \in sup => <<b, a>> \notin sup
      BY <1>n, <1>3
    <3> QED
      BY <3>1, <3>2, <1>3
  <2>3. ASSUME NEW a \in all, NEW b \in all, NEW c \in all, <<a, b>> \in sup, <<b, c>> \in sup
        PROVE  <<a, c>> \in sup
    <3>1. CASE a \in mem
      BY <3>1, <2>3, <1>1, <1>3 DEF TotalOn
    <3>2. CASE a \in R /\ b \in mem
      BY <3>2, <2>3, <1>3
    <3>3. CASE a \in R /\ b \in R
      BY <3>3, <2>3, <1>3
    <3> QED
      BY <3>1, <3>2, <3>3
  <2> QED
    BY <2>1, <2>2, <2>3 DEF TotalOn
<1>5. EndsOK(all, f, l, sup)
  <2>1. f # 0 /\ m # 0 /\ f \in all /\ all # {} /\ l # 0
    BY <1>s
  <2>2. \A k \in all : k # f => <<f, k>> \in sup
    BY <1>3, <1>n, <1>s
  <2>3. l \in all /\ \A k \in all : k # l => <<k, l>> \in sup
    <3>1. CASE last = 0
      <4>1. mem = {}
        BY <3>1, <1>1 DEF EndsOK
      <4> QED
        BY <3>1, <4>1, <1>3, <1>n, <1>s
    <3>2. CASE last # 0
      <4>1. last \in mem /\ \A k \in mem : k # last => <<k, last>> \in ord
        BY <3>2, <1>1 DEF EndsOK
      <4> QED
        BY <3>2, <4>1, <1>3
    <3> QED
      BY <3>1, <3>2
  <2> HIDE DEF all
  <2> QED
    BY <2>1, <2>2, <2>3 DEF EndsOK
<1>6. NextOK(all, new, l, sup)
  <2> SUFFICES ASSUME NEW i \in all
               PROVE  /\ new[i] = 0 <=> i = l
                      /\ new[i] # 0 => /\ new[i] \in all
                                       /\ <<i, new[i]>> \in sup
                                       /\ \A k \in all : <<i, k>> \in sup =>
                                            k = new[i] \/ <<new[i], k>> \in sup
    BY DEF NextOK
  <2>1. CASE i \in mem
    <3>1. last # 0 /\ l = last /\ new[i] = next[i]
      BY <2>1, <1>1 DEF EndsOK
    <3>2. /\ next[i] = 0 <=> i = last
          /\ next[i] # 0 => /\ next[i] \in mem
                            /\ <<i, next[i]>> \in ord
                            /\ \A k \in mem : <<i, k>> \in ord =>
                                 k = next[i] \/ <<next[i], k>> \in ord
      BY <2>1, <1>1 DEF NextOK
    <3> QED
      BY <2>1, <3>1, <3>2, <1>3
  <2>2. CASE i \in R /\ \A j \in R : ~(j > i)
    <3>1. new[i] = first /\ i = m
      BY <2>2, <1>s, <1>n
    <3>2. CASE first = 0
      <4>1. mem = {} /\ last = 0
        BY <3>2, <1>1 DEF EndsOK
      <4> QED
        BY <3>1, <3>2, <4>1
    <3>3. CASE first # 0
      <4>1. /\ first \in mem /\ \A k \in mem : k # first => <<first, k>> \in ord
            /\ last # 0 /\ last \in mem
        BY <3>3, <1>1 DEF EndsOK
      <4>2. i # l /\ new[i] \in all /\ <<i, new[i]>> \in sup
        BY <2>2, <3>1, <4>1, <1>3
      <4>3. \A k \in all : <<i, k>> \in sup => k \in mem
        BY <2>2, <1>3
      <4>4. \A k \in mem : k = new[i] \/ <<new[i], k>> \in sup
        BY <3>1, <4>1, <1>3
      <4> QED
        BY <3>1, <3>3, <4>2, <4>3, <4>4
    <3> QED
      BY <3>2, <3>3
  <2>3. CASE i \in R /\ \E j \in R : j > i
    <3>1. new[i] \in R /\ new[i] > i /\ \A j \in R : j > i => new[i] <= j
      BY <2>3, <1>s
    <3>2. i # m /\ new[i] # 0 /\ new[i] \in all /\ <<i, new[i]>> \in sup
      <4>1. i < new[i] /\ i # new[i] /\ new[i] # 0
        BY <2>3, <3>1, <1>n
      <4>2. i # m
        <5>1. PICK j \in R : j > i
          BY <2>3
        <5>2. j <= m /\ i \in Nat /\ j \in Nat /\ m \in Nat
          BY <2>3, <1>s
        <5> QED
          BY <5>1, <5>2
      <4> QED
        BY <2>3, <3>1, <4>1, <4>2, <1>3
    <3>3. i # l
      <4>1. last # 0 => last \in mem
        BY <1>1 DEF EndsOK
      <4> QED
        BY <2>3, <3>2, <4>1
    <3>4. \A k \in all : <<i, k>> \in sup => k = new[i] \/ <<new[i], k>> \in sup
      <4> TAKE k \in all
      <4>1. CASE k \in mem
        BY <4>1, <3>1, <1>3
      <4>2. CASE k \in R
        <5>1. i < k => k > i
          BY <2>3, <4>2
        <5>2. i < k => new[i] = k \/ new[i] < k
          BY <5>1, <4>2, <3>1, <1>n
        <5> QED
          BY <4>2, <5>2, <2>3, <3>1, <1>3
      <4> QED
        BY <4>1, <4>2
    <3> QED
      BY <3>2, <3>3, <3>4
  <2> QED
    BY <2>1, <2>2, <2>3
<1> HIDE DEF all
<1>7. Listed(all, new, f, l)
  BY <1>3, <1>4, <1>5, <1>6 DEF Listed
<1> QED
  BY <1>7 DEF all

(* A step that leaves the numbers on both lists where they are.            *)
LEMMA ListsKept ==
  ASSUME ReclaimListExact, UNCHANGED unclaimed,
         Reclaimed(ll') = Reclaimed(ll), Parked(ll') = Parked(ll),
         \A k \in Reclaimed(ll) : ll'.next[k] = ll.next[k],
         head'.first_reclaimed = head.first_reclaimed, head'.last_reclaimed = head.last_reclaimed,
         head'.num_reclaimed = head.num_reclaimed,
         head'.num_to_be_reclaimed = head.num_to_be_reclaimed
  PROVE  ReclaimListExact'
<1>1. Listed(Reclaimed(ll), ll'.next, head.first_reclaimed, head.last_reclaimed)
  BY ListedFrame DEF ReclaimListExact
<1> QED
  BY <1>1 DEF ReclaimListExact

(* The status of an inode that is on neither list changes.                 *)
LEMMA ListsKeptBy ==
  ASSUME ReclaimListExact, NEW i \in Inodes, NEW s, ll.status \in [Inodes -> Status],
         ll.status[i] \notin {"RECLAIMED", "TO_BE_RECLAIMED"}, s \notin {"RECLAIMED", "TO_BE_RECLAIMED"},
         ll'.status = [ll.status EXCEPT ![i] = s], UNCHANGED unclaimed,
         \A k \in Inodes : ll.status[k] \notin Queue /\ k # i => ll'.next[k] = ll.next[k],
         head'.first_reclaimed = head.first_reclaimed, head'.last_reclaimed = head.last_reclaimed,
         head'.num_reclaimed = head.num_reclaimed,
         head'.num_to_be_reclaimed = head.num_to_be_reclaimed
  PROVE  ReclaimListExact'
<1>1. Reclaimed(ll') = Reclaimed(ll) /\ Parked(ll') = Parked(ll)
  BY DEF Reclaimed, Parked
<1>2. \A k \in Reclaimed(ll) : ll'.next[k] = ll.next[k]
  BY DEF Reclaimed, Queue
<1> QED
  BY <1>1, <1>2, ListsKept

(* super_block_new_inode takes the first number off the reclaimed list.    *)
LEMMA NewReclaimedLists ==
  ASSUME IInv, ReclaimListExact, NEW pin \in {"ST_PIN", "ST_UNPIN"}, NewReclaimedInode(pin)
  PROVE  ReclaimListExact'
<1> DEFINE i == head.first_reclaimed
           n == ll.next[i]
<1>0. /\ LLInv(ll) /\ PLInv(pl) /\ RemovedIsQuiet /\ RestOK /\ head \in HeadRec
      /\ ll.status \in [Inodes -> Status]
      /\ RInv(ll, head.first_reclaimed, head.num_reclaimed)
  BY Facts
<1>t. ll.next \in [Inodes -> Inode0] /\ head.num_reclaimed \in Nat
  BY <1>0 DEF LLInv, LLRec, Links, HeadRec
<1>1. i \in Inodes /\ ll.status[i] = "RECLAIMED" /\ i \in Reclaimed(ll)
  BY <1>0 DEF NewReclaimedInode, RInv, Reclaimed, HeadRec
<1>2. FreshEntry(i, pin) /\ ~exists[i] /\ ll.status[i] \notin Queue
  BY <1>0, <1>1 DEF NewReclaimedInode, RemovedIsQuiet, Queue
<1>3. /\ ll'.status = [ll.status EXCEPT ![i] = "NO_LL"]
      /\ ll'.next = [ll.next EXCEPT ![i] = 0]
  BY <1>0, <1>1, <1>2, FreshInv
<1>4. /\ head'.first_reclaimed = n
      /\ head'.last_reclaimed = IF n = 0 THEN 0 ELSE head.last_reclaimed
      /\ head'.num_reclaimed = IF n = 0 THEN 0 ELSE head.num_reclaimed - 1
      /\ head'.num_to_be_reclaimed = head.num_to_be_reclaimed
  BY <1>0 DEF NewReclaimedInode, HeadRec
<1>5. Reclaimed(ll') = Reclaimed(ll) \ {i} /\ Parked(ll') = Parked(ll)
  BY <1>0, <1>1, <1>3 DEF Reclaimed, Parked
<1>6. \A k \in Reclaimed(ll) \ {i} : ll'.next[k] = ll.next[k]
  BY <1>t, <1>3 DEF Reclaimed
<1>7. 0 \notin Reclaimed(ll) /\ IsFiniteSet(Reclaimed(ll))
  BY InodesFinite, FS_Subset DEF Reclaimed
<1>8. Listed(Reclaimed(ll), ll.next, i, head.last_reclaimed)
  BY DEF ReclaimListExact
<1> HIDE DEF i, n
<1>9. /\ Listed(Reclaimed(ll) \ {i}, ll'.next, ll.next[i], IF ll.next[i] = 0 THEN 0 ELSE head.last_reclaimed)
      /\ ll.next[i] = 0 => Reclaimed(ll) \ {i} = {}
  <2> DEFINE mem == Reclaimed(ll)
             next == ll.next
             new == ll'.next
             last == head.last_reclaimed
  <2>1. /\ i \in mem /\ 0 \notin mem /\ Listed(mem, next, i, last)
        /\ \A k \in mem \ {i} : new[k] = next[k]
    BY <1>1, <1>6, <1>7, <1>8
  <2> HIDE DEF mem, next, new, last
  <2>2. /\ Listed(mem \ {i}, new, next[i], IF next[i] = 0 THEN 0 ELSE last)
        /\ next[i] = 0 => mem \ {i} = {}
    BY <2>1, ListedPop
  <2> QED
    BY <2>2 DEF mem, next, new, last
<1>10. Cardinality(Reclaimed(ll) \ {i}) = Cardinality(Reclaimed(ll)) - 1
  BY <1>1, <1>7, FS_RemoveElement
<1>11. Cardinality(Reclaimed(ll')) = head'.num_reclaimed
  <2>1. Cardinality(Reclaimed(ll)) = head.num_reclaimed
    BY DEF ReclaimListExact
  <2>2. CASE n = 0
    BY <2>2, <1>4, <1>5, <1>9, FS_EmptySet DEF n
  <2>3. CASE n # 0
    BY <2>1, <2>3, <1>4, <1>5, <1>10
  <2> QED
    BY <2>2, <2>3
<1>12. unclaimed' = unclaimed
  BY <1>2 DEF FreshEntry
<1> QED
  BY <1>4, <1>5, <1>9, <1>11, <1>12 DEF ReclaimListExact, n

(* super_block_delete parks the number on the unclaimed list.              *)
LEMMA DeleteLists ==
  ASSUME IInv, ReclaimListExact, NEW i \in Inodes, super_block_delete(i)
  PROVE  ReclaimListExact'
<1>0. /\ LLInv(ll) /\ RestOK /\ head \in HeadRec /\ ll.status \in [Inodes -> Status]
      /\ unclaimed \in Seq(Inodes)
  BY Facts DEF RestOK
<1>1. ll.status[i] \in {"NO_LL", "TO_BE_DELETED"}
  BY DEF super_block_delete, Deleting
<1>2. PICK D : D = ll_dequeue(ll, i)
  OBVIOUS
<1>3. /\ LLInv(D)
      /\ D.status = [ll.status EXCEPT ![i] = IF ll.status[i] \in Queue THEN "NO_LL" ELSE ll.status[i]]
      /\ \A k \in Inodes : ll.status[k] \notin Queue => D.next[k] = ll.next[k]
  BY <1>0, <1>2, DequeueInv
<1>4. ll' = [D EXCEPT !.status[i] = "TO_BE_RECLAIMED"]
  BY <1>2 DEF super_block_delete
<1>5. ll'.status = [ll.status EXCEPT ![i] = "TO_BE_RECLAIMED"] /\ ll'.next = D.next
  <2>1. D \in LLRec
    BY <1>3 DEF LLInv
  <2>2. ll'.status = [D.status EXCEPT ![i] = "TO_BE_RECLAIMED"] /\ ll'.next = D.next
    BY <1>4, <2>1 DEF LLRec
  <2> QED
    BY <2>2, <1>0, <1>3
<1>6. Reclaimed(ll') = Reclaimed(ll) /\ Parked(ll') = Parked(ll) \cup {i} /\ i \notin Parked(ll)
  BY <1>0, <1>1, <1>5 DEF Reclaimed, Parked
<1>7. \A k \in Reclaimed(ll) : ll'.next[k] = ll.next[k]
  BY <1>3, <1>5 DEF Reclaimed, Queue
<1>8. /\ head'.first_reclaimed = head.first_reclaimed /\ head'.last_reclaimed = head.last_reclaimed
      /\ head'.num_reclaimed = head.num_reclaimed
      /\ head'.num_to_be_reclaimed = head.num_to_be_reclaimed + 1
      /\ unclaimed' = Append(unclaimed, i)
  BY <1>0 DEF super_block_delete, HeadRec
<1>9. Listed(Reclaimed(ll), ll'.next, head.first_reclaimed, head.last_reclaimed)
  BY <1>7, ListedFrame DEF ReclaimListExact
<1>10. Cardinality(Parked(ll')) = Cardinality(Parked(ll)) + 1
  <2>1. IsFiniteSet(Parked(ll))
    BY InodesFinite, FS_Subset DEF Parked
  <2> QED
    BY <2>1, <1>6, FS_AddElement
<1>11. Len(unclaimed') = Len(unclaimed) + 1 /\ Entries(unclaimed') = Entries(unclaimed) \cup {i}
  <2>1. /\ Len(unclaimed') = Len(unclaimed) + 1 /\ Len(unclaimed) \in Nat
        /\ \A k \in 1..Len(unclaimed) : unclaimed'[k] = unclaimed[k]
        /\ unclaimed'[Len(unclaimed) + 1] = i
    BY <1>0, <1>8
  <2>2. 1..Len(unclaimed') = (1..Len(unclaimed)) \cup {Len(unclaimed) + 1}
    BY <2>1
  <2>3. {unclaimed'[k] : k \in 1..Len(unclaimed')} = {unclaimed[k] : k \in 1..Len(unclaimed)} \cup {i}
    BY <2>1, <2>2
  <2> QED
    BY <2>1, <2>3 DEF Entries
<1> QED
  BY <1>6, <1>8, <1>9, <1>10, <1>11 DEF ReclaimListExact

(* super_block_reclaim moves every parked number to the reclaimed list.    *)
LEMMA ReclaimLists ==
  ASSUME IInv, ReclaimListExact, super_block_reclaim
  PROVE  ReclaimListExact'
<1> DEFINE R == {k \in Inodes : /\ \E n \in 1..Len(unclaimed) : unclaimed[n] = k
                               /\ Allocated(k) /\ ll.status[k] = "TO_BE_RECLAIMED"}
           above(k) == {j \in R : j > k}
           st == [k \in Inodes |-> IF k \in R THEN "RECLAIMED" ELSE ll.status[k]]
           nx == [k \in Inodes |-> IF k \notin R THEN ll.next[k]
                                   ELSE IF above(k) = {} THEN head.first_reclaimed
                                   ELSE Min(above(k))]
           f == IF R = {} THEN head.first_reclaimed ELSE Min(R)
           l == IF R = {} \/ head.last_reclaimed # 0 THEN head.last_reclaimed ELSE Max(R)
           n == head.num_reclaimed + Cardinality(R)
<1>0. /\ LLInv(ll) /\ ll \in LLRec /\ head \in HeadRec /\ ll.status \in [Inodes -> Status]
      /\ \A k \in Inodes : ~Allocated(k) => ll.status[k] = "NO_LL"
  BY Facts DEF LLInv, IInv
<1>1. /\ ll' = [ll EXCEPT !.status = st, !.next = nx]
      /\ head' = [head EXCEPT !.first_reclaimed = f, !.last_reclaimed = l,
                              !.num_reclaimed = n, !.num_to_be_reclaimed = 0]
      /\ unclaimed' = <<>>
  BY DEF super_block_reclaim
<1>2. R = Parked(ll)
  BY <1>0 DEF ReclaimListExact, Parked, Entries
<1>3. R \subseteq Inodes /\ R \subseteq Nat /\ 0 \notin R /\ IsFiniteSet(R)
  BY InodesFinite, FS_Subset
<1>4. \A k \in R : above(k) # {} =>
         Min(above(k)) \in R /\ Min(above(k)) > k /\ \A j \in R : j > k => Min(above(k)) <= j
  <2> SUFFICES ASSUME NEW k \in R, above(k) # {}
               PROVE  Min(above(k)) \in above(k) /\ \A j \in above(k) : Min(above(k)) <= j
    OBVIOUS
  <2>1. above(k) \subseteq Inodes
    OBVIOUS
  <2> HIDE DEF above, R
  <2> QED
    BY <2>1, MinMax
<1>5. R # {} => Min(R) \in R /\ Max(R) \in R /\ \A k \in R : Min(R) <= k /\ k <= Max(R)
  <2> HIDE DEF R
  <2> QED
    BY <1>3, MinMax
<1>6. \A k \in R : (above(k) = {} <=> \A j \in R : ~(j > k)) /\ (above(k) # {} <=> \E j \in R : j > k)
  OBVIOUS
<1> HIDE DEF R, above
<1>7. /\ \A k \in Inodes : k \notin R => nx[k] = ll.next[k]
      /\ \A k \in R : above(k) = {} => nx[k] = head.first_reclaimed
      /\ \A k \in R : above(k) # {} => nx[k] = Min(above(k))
  BY <1>3
<1> HIDE DEF nx, st, f, l, n
<1>8. ll'.status = st /\ ll'.next = nx
  BY <1>0, <1>1 DEF LLRec
<1>9. /\ head'.first_reclaimed = f /\ head'.last_reclaimed = l /\ head'.num_reclaimed = n
      /\ head'.num_to_be_reclaimed = 0
  BY <1>0, <1>1 DEF HeadRec
<1>10. Reclaimed(ll') = Reclaimed(ll) \cup R /\ Parked(ll') = {} /\ R \cap Reclaimed(ll) = {}
  BY <1>0, <1>2, <1>8 DEF Reclaimed, Parked, st
<1>11. 0 \notin Reclaimed(ll) /\ Reclaimed(ll) \subseteq Inodes /\ IsFiniteSet(Reclaimed(ll))
  BY InodesFinite, FS_Subset DEF Reclaimed
<1>12. Listed(Reclaimed(ll), ll.next, head.first_reclaimed, head.last_reclaimed)
  BY DEF ReclaimListExact
<1>13. Listed(Reclaimed(ll) \cup R, nx, f, l)
  <2>1. CASE R = {}
    BY <2>1, <1>7, <1>11, <1>12, ListedFrame DEF f, l
  <2>2. CASE R # {}
    <3>1. f \in R /\ \A k \in R : f <= k
      BY <2>2, <1>5 DEF f
    <3>2. PICK m \in R : m = Max(R) /\ \A k \in R : k <= m
      BY <2>2, <1>5
    <3>3. l = IF head.last_reclaimed # 0 THEN head.last_reclaimed ELSE m
      BY <2>2, <3>2 DEF l
    <3>4. \A k \in Reclaimed(ll) : nx[k] = ll.next[k]
      BY <1>7, <1>10, <1>11
    <3>5. \A k \in R : (\A j \in R : ~(j > k)) => nx[k] = head.first_reclaimed
      BY <1>6, <1>7
    <3>6. \A k \in R : (\E j \in R : j > k) =>
             nx[k] \in R /\ nx[k] > k /\ \A j \in R : j > k => nx[k] <= j
      BY <1>4, <1>6, <1>7
    <3>7. R \cap Reclaimed(ll) = {}
      BY <1>10
    <3>8. R \subseteq Nat /\ 0 \notin R /\ 0 \notin Reclaimed(ll)
      BY <1>3, <1>11
    <3>9. Sorted(R, nx, f, m, head.first_reclaimed)
      BY <3>1, <3>2, <3>5, <3>6 DEF Sorted
    <3> QED
      BY <1>12, <3>3, <3>4, <3>7, <3>8, <3>9, ListedBatch
  <2> QED
    BY <2>1, <2>2
<1>14. Cardinality(Reclaimed(ll')) = head'.num_reclaimed
  <2>1. Cardinality(Reclaimed(ll)) = head.num_reclaimed
    BY DEF ReclaimListExact
  <2>2. Cardinality(Reclaimed(ll) \cup R) = Cardinality(Reclaimed(ll)) + Cardinality(R)
    <3>1. Cardinality(Reclaimed(ll) \cap R) = 0
      <4>1. Reclaimed(ll) \cap R = {}
        BY <1>10
      <4> QED
        BY <4>1, FS_EmptySet
    <3>2. Cardinality(Reclaimed(ll) \cup R)
            = Cardinality(Reclaimed(ll)) + Cardinality(R) - Cardinality(Reclaimed(ll) \cap R)
      BY <1>3, <1>11, FS_Union
    <3>3. Cardinality(Reclaimed(ll)) \in Nat /\ Cardinality(R) \in Nat
      BY <1>3, <1>11, FS_CardinalityType
    <3> QED
      BY <3>1, <3>2, <3>3
  <2> QED
    BY <2>1, <2>2, <1>9, <1>10 DEF n
<1>15. Entries(unclaimed') = {} /\ Len(unclaimed') = 0 /\ Cardinality(Parked(ll')) = 0
  <2>1. Len(unclaimed') = 0 /\ 1..0 = {}
    BY <1>1
  <2> QED
    BY <2>1, <1>10, FS_EmptySet DEF Entries
<1> QED
  BY <1>8, <1>9, <1>10, <1>13, <1>14, <1>15 DEF ReclaimListExact

(* Every step keeps both lists exact.                                      *)
LEMMA ListsStep ==
  ASSUME IInv, ReclaimListExact, [Next]_vars
  PROVE  ReclaimListExact'
<1>0. /\ LLInv(ll) /\ RestOK /\ head \in HeadRec /\ RemovedIsQuiet
      /\ ll.status \in [Inodes -> Status]
  BY Facts
<1>same. ASSUME UNCHANGED <<ll, head, unclaimed>> PROVE ReclaimListExact'
  BY <1>same DEF ReclaimListExact
<1>head. ASSUME head' = head \/ head' = [head EXCEPT !.num_active = @ + 1, !.num_total = @ + 1]
                \/ head' = [head EXCEPT !.num_active = @ - 1]
         PROVE  /\ head'.first_reclaimed = head.first_reclaimed
                /\ head'.last_reclaimed = head.last_reclaimed
                /\ head'.num_reclaimed = head.num_reclaimed
                /\ head'.num_to_be_reclaimed = head.num_to_be_reclaimed
  BY <1>0, <1>head DEF HeadRec
<1>requeue. ASSUME NEW i \in Inodes, NEW q \in Queue, ll' = ll_enqueue(ll_dequeue(ll, i), i, q),
                   ll.status[i] \notin {"RECLAIMED", "TO_BE_RECLAIMED"}, unclaimed' = unclaimed,
                   head' = head \/ head' = [head EXCEPT !.num_active = @ - 1]
            PROVE  ReclaimListExact'
  <2>1. /\ ll'.status = [ll.status EXCEPT ![i] = q]
        /\ \A k \in Inodes : ll.status[k] \notin Queue /\ k # i => ll'.next[k] = ll.next[k]
    BY <1>0, <1>requeue, RequeueInv
  <2>2. q \notin {"RECLAIMED", "TO_BE_RECLAIMED"}
    BY DEF Queue
  <2> QED
    BY <1>0, <1>requeue, <1>head, <2>1, <2>2, ListsKeptBy
<1>drop. ASSUME NEW i \in Inodes, ll' = ll_dequeue(ll, i),
                ll.status[i] \notin {"RECLAIMED", "TO_BE_RECLAIMED"}, unclaimed' = unclaimed,
                head' = head \/ head' = [head EXCEPT !.num_active = @ - 1]
         PROVE  ReclaimListExact'
  <2> DEFINE s == IF ll.status[i] \in Queue THEN "NO_LL" ELSE ll.status[i]
  <2>1. /\ ll'.status = [ll.status EXCEPT ![i] = s]
        /\ \A k \in Inodes : ll.status[k] \notin Queue => ll'.next[k] = ll.next[k]
    BY <1>0, <1>drop, DequeueInv
  <2>2. s \notin {"RECLAIMED", "TO_BE_RECLAIMED"}
    BY <1>drop
  <2> HIDE DEF s
  <2> QED
    BY <1>0, <1>drop, <1>head, <2>1, <2>2, ListsKeptBy
<1>add. ASSUME NEW i \in Inodes, NEW q \in Queue, ll.status[i] = "NO_LL", ll' = ll_enqueue(ll, i, q),
               unclaimed' = unclaimed, head' = head
        PROVE  ReclaimListExact'
  <2>1. /\ ll'.status = [ll.status EXCEPT ![i] = q]
        /\ \A k \in Inodes : ll.status[k] \notin Queue /\ k # i => ll'.next[k] = ll.next[k]
    <3>1. ll.status[i] \notin Queue
      BY <1>add DEF Queue
    <3> QED
      BY <1>0, <1>add, <3>1, EnqueueInv
  <2>2. q \notin {"RECLAIMED", "TO_BE_RECLAIMED"} /\ ll.status[i] \notin {"RECLAIMED", "TO_BE_RECLAIMED"}
    BY <1>add DEF Queue
  <2> QED
    BY <1>0, <1>add, <2>1, <2>2, ListsKeptBy
<1>queues. "IS_DIRTY" \in Queue /\ "TO_BE_DELETED" \in Queue
  BY DEF Queue
<1>live. \A i \in Inodes : exists[i] \/ ll.status[i] = "IS_DIRTY"
                            => ll.status[i] \notin {"RECLAIMED", "TO_BE_RECLAIMED"}
  BY <1>0 DEF RemovedIsQuiet
<1>1. ASSUME NEW pin \in {"ST_PIN", "ST_UNPIN"}, NewAppendedInode(pin) PROVE ReclaimListExact'
  <2>1. PICK i \in Inodes : i = head.num_total + 2
    BY <1>0, <1>1, SuperBlockAssumption DEF NewAppendedInode, Inodes, HeadRec
  <2>2. ll.status[i] = "NO_LL"
    BY <1>0, <2>1 DEF IInv, Allocated, HeadRec
  <2>3. /\ ll' = [ll EXCEPT !.status[i] = "NO_LL", !.next[i] = 0, !.prev[i] = 0]
        /\ head' = [head EXCEPT !.num_active = @ + 1, !.num_total = @ + 1] /\ unclaimed' = unclaimed
    BY <1>1, <2>1 DEF NewAppendedInode, FreshEntry
  <2>4. ll'.status = [ll.status EXCEPT ![i] = "NO_LL"] /\ ll'.next = [ll.next EXCEPT ![i] = 0]
    BY <1>0, <2>3 DEF LLInv, LLRec
  <2>5. \A k \in Inodes : ll.status[k] \notin Queue /\ k # i => ll'.next[k] = ll.next[k]
    BY <1>0, <2>4 DEF LLInv, LLRec, Links
  <2> QED
    BY <1>0, <1>head, <2>2, <2>3, <2>4, <2>5, ListsKeptBy
<1>2. ASSUME NEW i \in Inodes, super_block_update_stat(i) PROVE ReclaimListExact'
  BY <1>2, <1>same, <1>requeue, <1>queues, <1>live DEF super_block_update_stat
<1>3. ASSUME NEW i \in Inodes, super_block_mark_dirty(i) PROVE ReclaimListExact'
  BY <1>3, <1>same, <1>add, <1>queues DEF super_block_mark_dirty
<1>4. ASSUME NEW i \in Inodes, NEW incomplete \in BOOLEAN, super_block_update_transit(i, incomplete)
      PROVE  ReclaimListExact'
  BY <1>4, <1>same, <1>requeue, <1>drop, <1>queues, <1>live DEF super_block_update_transit
<1>5. ASSUME NEW i \in Inodes, NEW enqueue_now \in BOOLEAN, super_block_to_delete(i, enqueue_now)
      PROVE  ReclaimListExact'
  BY <1>5, <1>requeue, <1>drop, <1>queues, <1>live DEF super_block_to_delete
<1>6. ASSUME NEW i \in Inodes, super_block_enqueue_delete(i) PROVE ReclaimListExact'
  BY <1>6, <1>add, <1>queues DEF super_block_enqueue_delete
<1>7. ASSUME NEW i \in Inodes,
             \/ BeginTransit(i)
             \/ \E isreg \in BOOLEAN : super_block_mark_pin(i, isreg)
             \/ super_block_mark_unpin(i)
             \/ super_block_finish_pinning(i)
      PROVE  ReclaimListExact'
  BY <1>7, <1>same DEF BeginTransit, super_block_mark_pin, super_block_mark_unpin, super_block_finish_pinning
<1>8. CASE super_block_set_syncpoint \/ super_block_cancel_syncpoint
  BY <1>8, <1>same DEF super_block_set_syncpoint, super_block_cancel_syncpoint
<1>9. CASE UNCHANGED vars
  BY <1>9, <1>same DEF vars
<1> QED
  BY <1>1, <1>2, <1>3, <1>4, <1>5, <1>6, <1>7, <1>8, <1>9, NewReclaimedLists, DeleteLists, ReclaimLists
     DEF Next

(* No inode number is lost and none is handed out twice: the reclaimed     *)
(* list that super_block_new_inode pops from holds each RECLAIMED number   *)
(* once, the unclaimed list each TO_BE_RECLAIMED one, and the head counts  *)
(* both.                                                                   *)
THEOREM SuperBlockReclaimLists == Spec => []ReclaimListExact
<1>1. Init => ReclaimListExact
  <2> SUFFICES ASSUME Init PROVE ReclaimListExact
    OBVIOUS
  <2>1. Reclaimed(ll) = {} /\ Parked(ll) = {}
    BY DEF Init, Reclaimed, Parked
  <2>2. Listed({}, ll.next, 0, 0)
    <3>1. {} \in SUBSET ({} \X {})
      OBVIOUS
    <3>2. TotalOn({}, {}) /\ EndsOK({}, 0, 0, {}) /\ NextOK({}, ll.next, 0, {})
      BY DEF TotalOn, EndsOK, NextOK
    <3> QED
      BY <3>1, <3>2 DEF Listed
  <2>3. Len(unclaimed) = 0 /\ 1..0 = {}
    BY DEF Init
  <2>4. Entries(unclaimed) = {}
    BY <2>3 DEF Entries
  <2>5. head.first_reclaimed = 0 /\ head.last_reclaimed = 0 /\ head.num_reclaimed = 0
        /\ head.num_to_be_reclaimed = 0
    BY DEF Init
  <2> QED
    BY <2>1, <2>2, <2>3, <2>4, <2>5, FS_EmptySet DEF ReclaimListExact
<1>2. IInv /\ ReclaimListExact /\ [Next]_vars => ReclaimListExact'
  BY ListsStep
<1> QED
  BY <1>1, <1>2, SuperBlockInvariant, PTL DEF Spec
=============================================================================
