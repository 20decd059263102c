-------------------------- MODULE LinkedListProofs --------------------------
(***************************************************************************)
(* The pointer assignments of ll_enqueue, ll_dequeue, pin_ll_enqueue and   *)
(* pin_ll_dequeue keep a queue what FIFO says it is, for any number of     *)
(* entries: appending puts the new entry last, unlinking closes the gap,   *)
(* and a queue that shares the pointer arrays is not disturbed.            *)
(***************************************************************************)
EXTENDS LinkedList, SequencesExt, SequenceTheorems, TLAPS

(* What is common to the lemmas: S is the set of entry numbers, 0 is none. *)
Arrays(S, mem, next, prev) ==
  /\ 0 \notin S /\ mem \subseteq S
  /\ next \in [S -> S \cup {0}] /\ prev \in [S -> S \cup {0}]

(* FIFO only reads the pointers and the order of the members.              *)
LEMMA FIFOFrame ==
  ASSUME NEW mem, NEW next, NEW prev, NEW next2, NEW prev2,
         NEW first, NEW last, NEW ord, NEW ord2,
         FIFO(mem, next, prev, first, last, ord),
         \A k \in mem : next2[k] = next[k] /\ prev2[k] = prev[k],
         \A a, b \in mem : <<a, b>> \in ord2 <=> <<a, b>> \in ord
  PROVE  FIFO(mem, next2, prev2, first, last, ord2)
<1>1. TotalOn(mem, ord2)
  BY DEF FIFO, TotalOn
<1>2. EndsOK(mem, first, last, ord2)
  BY DEF FIFO, EndsOK
<1>3. LinksOK(mem, next2, prev2, first, last, ord2)
  BY DEF FIFO, LinksOK
<1>4. QED
  BY <1>1, <1>2, <1>3 DEF FIFO

-----------------------------------------------------------------------------
(* Appending an entry that is in no queue makes it the last one.           *)
LEMMA AppendFIFO ==
  ASSUME NEW S, NEW mem, NEW next, NEW prev, NEW first, NEW last, NEW ord,
         NEW i \in S, Arrays(S, mem, next, prev),
         FIFO(mem, next, prev, first, last, ord),
         i \notin mem,
         \A k \in S : <<i, k>> \notin ord /\ <<k, i>> \notin ord
  PROVE  FIFO(mem \cup {i}, AppendNext(next, first, last, i),
              AppendPrev(prev, first, last, i), AppendFirst(first, i), i,
              AppendOrder(ord, mem, i))
<1> DEFINE M == mem \cup {i}
           nx == AppendNext(next, first, last, i)
           pv == AppendPrev(prev, first, last, i)
           fi == AppendFirst(first, i)
           od == AppendOrder(ord, mem, i)
<1> USE DEF Arrays
<1>ord. /\ \A a, b \in mem : <<a, b>> \in od <=> <<a, b>> \in ord
        /\ \A a \in mem : <<a, i>> \in od /\ <<i, a>> \notin od
        /\ <<i, i>> \notin od
  BY DEF AppendOrder
<1>nx. /\ nx[i] = 0
       /\ \A k \in mem : k = last => nx[k] = i
       /\ \A k \in mem : k # last => nx[k] = next[k]
  BY DEF AppendNext, FIFO, EndsOK
<1>pv. /\ pv[i] = IF mem = {} THEN 0 ELSE last
       /\ \A k \in mem : pv[k] = prev[k]
  BY DEF AppendPrev, FIFO, EndsOK
<1>fi. fi = IF mem = {} THEN i ELSE first
  BY DEF AppendFirst, FIFO, EndsOK
<1> HIDE DEF nx, pv, fi, od
<1>1. TotalOn(M, od)
  BY <1>ord DEF FIFO, TotalOn
<1>2. EndsOK(M, fi, i, od)
  BY <1>ord, <1>fi DEF FIFO, EndsOK
<1>3. LinksOK(M, nx, pv, fi, i, od)
  <2>1. CASE mem = {}
    BY <2>1, <1>ord, <1>nx, <1>pv, <1>fi DEF LinksOK
  <2>2. CASE mem # {}
    <3>1. last \in mem /\ last # 0 /\ first \in mem /\ first # 0
      BY <2>2 DEF FIFO, EndsOK
    <3> SUFFICES ASSUME NEW k \in M
                 PROVE  /\ nx[k] = 0 <=> k = i
                        /\ pv[k] = 0 <=> k = fi
                        /\ nx[k] # 0 => /\ nx[k] \in M
                                        /\ pv[nx[k]] = k
                                        /\ <<k, nx[k]>> \in od
                                        /\ \A m \in M : <<k, m>> \in od =>
                                              m = nx[k] \/ <<nx[k], m>> \in od
                        /\ pv[k] # 0 => pv[k] \in M /\ nx[pv[k]] = k
      BY DEF LinksOK
    <3>2. CASE k = i
      BY <2>2, <3>1, <3>2, <1>ord, <1>nx, <1>pv, <1>fi
    <3>3. CASE k \in mem /\ k = last
      <4>1. nx[k] = i /\ pv[k] = prev[k] /\ fi = first /\ pv[i] = k /\ i # 0 /\ k # i
        BY <2>2, <3>3, <1>nx, <1>pv, <1>fi
      <4>2. /\ prev[k] = 0 <=> k = first
            /\ prev[k] # 0 => prev[k] \in mem /\ next[prev[k]] = k
            /\ next[k] = 0 /\ k # 0
        <5>1. LinksOK(mem, next, prev, first, last, ord)
          BY DEF FIFO
        <5>2. /\ prev[k] = 0 <=> k = first
              /\ prev[k] # 0 => prev[k] \in mem /\ next[prev[k]] = k
              /\ next[k] = 0 <=> k = last
          BY <5>1, <3>3, Zenon DEF LinksOK
        <5>3. k # 0
          BY <3>1, <3>3, Zenon
        <5>4. QED
          BY <5>2, <5>3, <3>3, Zenon
      <4>3. prev[k] # 0 => nx[prev[k]] = k
        BY <3>3, <4>2, <1>nx
      <4>4. \A m \in M : <<k, m>> \in od => m = i
        <5>1. \A m \in mem : m # k => <<m, k>> \in ord
          BY <3>1, <3>3 DEF FIFO, EndsOK
        <5>2. \A m \in mem : <<k, m>> \notin ord
          BY <5>1, <3>3 DEF FIFO, TotalOn
        <5>3. QED
          BY <5>2, <3>3, <1>ord
      <4>5. QED
        BY <3>3, <4>1, <4>2, <4>3, <4>4, <1>ord
    <3>4. CASE k \in mem /\ k # last
      <4>1. nx[k] = next[k] /\ pv[k] = prev[k] /\ fi = first
        BY <2>2, <3>4, <1>nx, <1>pv, <1>fi
      <4>2. /\ next[k] # 0 /\ next[k] \in mem /\ prev[next[k]] = k
            /\ <<k, next[k]>> \in ord
            /\ \A m \in mem : <<k, m>> \in ord =>
                  m = next[k] \/ <<next[k], m>> \in ord
            /\ prev[k] = 0 <=> k = first
            /\ prev[k] # 0 => prev[k] \in mem /\ next[prev[k]] = k
        BY <3>4 DEF FIFO, LinksOK
      <4>3. prev[k] # 0 => nx[prev[k]] = k
        <5>1. next[last] = 0 /\ k # 0
          <6>1. LinksOK(mem, next, prev, first, last, ord)
            BY DEF FIFO
          <6>2. next[last] = 0 <=> last = last
            BY <6>1, <3>1, Zenon DEF LinksOK
          <6>3. k # 0
            BY <3>4
          <6>4. QED
            BY <6>2, <6>3, Zenon
        <5>2. QED
          BY <5>1, <4>2, <1>nx
      <4>4. pv[next[k]] = k /\ <<k, next[k]>> \in od /\ k # i
        BY <3>4, <4>2, <1>pv, <1>ord
      <4>5. \A m \in M : <<k, m>> \in od => m = next[k] \/ <<next[k], m>> \in od
        BY <3>4, <4>2, <1>ord
      <4>6. QED
        BY <4>1, <4>2, <4>3, <4>4, <4>5
    <3>5. QED
      BY <3>2, <3>3, <3>4
  <2>3. QED
    BY <2>1, <2>2
<1>4. QED
  BY <1>1, <1>2, <1>3 DEF FIFO, nx, pv, fi, od

-----------------------------------------------------------------------------
(* Unlinking a member leaves the others in their order.                    *)
LEMMA UnlinkFIFO ==
  ASSUME NEW S, NEW mem, NEW next, NEW prev, NEW first, NEW last, NEW ord,
         NEW i \in mem, Arrays(S, mem, next, prev),
         FIFO(mem, next, prev, first, last, ord)
  PROVE  FIFO(mem \ {i}, UnlinkNext(next, prev, i), UnlinkPrev(next, prev, i),
              UnlinkFirst(next, prev, first, i), UnlinkLast(next, prev, last, i),
              UnlinkOrder(ord, i))
<1> DEFINE M == mem \ {i}
           nx == UnlinkNext(next, prev, i)
           pv == UnlinkPrev(next, prev, i)
           fi == UnlinkFirst(next, prev, first, i)
           la == UnlinkLast(next, prev, last, i)
           od == UnlinkOrder(ord, i)
<1> USE DEF Arrays
<1>ord. \A a, b \in M : <<a, b>> \in od <=> <<a, b>> \in ord
  BY DEF UnlinkOrder
<1>nx. \A k \in M : nx[k] = IF k = prev[i] THEN next[i] ELSE next[k]
  BY DEF UnlinkNext
<1>pv. \A k \in M : pv[k] = IF k = next[i] THEN prev[i] ELSE prev[k]
  BY DEF UnlinkPrev
<1>fi. fi = IF i = first THEN next[i] ELSE first
  BY DEF UnlinkFirst, FIFO, LinksOK
<1>la. la = IF i = last THEN prev[i] ELSE last
  BY DEF UnlinkLast, FIFO, LinksOK
<1>old. /\ TotalOn(mem, ord) /\ EndsOK(mem, first, last, ord)
        /\ LinksOK(mem, next, prev, first, last, ord)
  BY DEF FIFO
<1>zero. 0 \notin mem
  OBVIOUS
<1> HIDE DEF nx, pv, fi, la, od
<1>ends. /\ first \in mem /\ last \in mem /\ first # 0 /\ last # 0
         /\ \A k \in mem : k # first => <<first, k>> \in ord
         /\ \A k \in mem : k # last => <<k, last>> \in ord
  BY <1>old DEF EndsOK
(* The neighbours of i are members other than i, when i has them.          *)
<1>nb. /\ next[i] # 0 => next[i] \in M /\ prev[next[i]] = i
       /\ prev[i] # 0 => prev[i] \in M /\ next[prev[i]] = i
       /\ next[i] = 0 <=> i = last
       /\ prev[i] = 0 <=> i = first
  BY <1>old, <1>zero DEF LinksOK, TotalOn
<1>1. TotalOn(M, od)
  BY <1>ord, <1>old DEF TotalOn
(* Nothing lies between prev[i] and i, nor between i and next[i].          *)
<1>2. prev[i] # 0 => \A k \in M : k # prev[i] => (<<k, prev[i]>> \in ord \/ <<i, k>> \in ord)
  <2> SUFFICES ASSUME prev[i] # 0, NEW k \in M, k # prev[i], <<k, prev[i]>> \notin ord
               PROVE  <<i, k>> \in ord
    OBVIOUS
  <2>1. prev[i] \in mem /\ next[prev[i]] = i /\ i # 0
    BY <1>nb, <1>zero
  <2>2. <<prev[i], k>> \in ord
    BY <2>1, <1>old DEF TotalOn
  <2>3. k = next[prev[i]] \/ <<next[prev[i]], k>> \in ord
    BY <2>1, <2>2, <1>old DEF LinksOK
  <2>4. QED
    BY <2>1, <2>3
<1>3. next[i] # 0 => \A k \in M : <<i, k>> \in ord => k = next[i] \/ <<next[i], k>> \in ord
  BY <1>old DEF LinksOK
<1>4. EndsOK(M, fi, la, od)
  <2>1. fi = 0 <=> M = {}
    <3>1. CASE i = first /\ i = last
      BY <3>1, <1>old, <1>ends, <1>nb, <1>fi DEF TotalOn
    <3>2. CASE i # first
      BY <3>2, <1>ends, <1>fi
    <3>3. CASE i = first /\ i # last
      BY <3>3, <1>ends, <1>fi, <1>nb
    <3>4. QED
      BY <3>1, <3>2, <3>3
  <2>2. la = 0 <=> M = {}
    <3>1. CASE i = first /\ i = last
      BY <3>1, <1>old, <1>ends, <1>nb, <1>la DEF TotalOn
    <3>2. CASE i # last
      BY <3>2, <1>ends, <1>la
    <3>3. CASE i # first /\ i = last
      BY <3>3, <1>ends, <1>la, <1>nb
    <3>4. QED
      BY <3>1, <3>2, <3>3
  <2>3. fi # 0 => fi \in M /\ \A k \in M : k # fi => <<fi, k>> \in ord
    BY <1>ends, <1>fi, <1>nb, <1>3
  <2>4. la # 0 => la \in M /\ \A k \in M : k # la => <<k, la>> \in ord
    BY <1>old, <1>ends, <1>la, <1>nb, <1>2 DEF TotalOn
  <2>5. QED
    BY <2>1, <2>2, <2>3, <2>4, <1>ord DEF EndsOK
<1>5. ASSUME NEW k \in M
      PROVE  /\ nx[k] = 0 <=> k = la
             /\ pv[k] = 0 <=> k = fi
             /\ nx[k] # 0 => /\ nx[k] \in M
                             /\ pv[nx[k]] = k
                             /\ <<k, nx[k]>> \in ord
                             /\ \A m \in M : <<k, m>> \in ord =>
                                   m = nx[k] \/ <<nx[k], m>> \in ord
             /\ pv[k] # 0 => pv[k] \in M /\ nx[pv[k]] = k
  <2>1. /\ next[k] = 0 <=> k = last
        /\ prev[k] = 0 <=> k = first
        /\ next[k] # 0 => /\ next[k] \in mem /\ prev[next[k]] = k
                          /\ <<k, next[k]>> \in ord
                          /\ \A m \in mem : <<k, m>> \in ord =>
                                m = next[k] \/ <<next[k], m>> \in ord
        /\ prev[k] # 0 => prev[k] \in mem /\ next[prev[k]] = k
    BY <1>old DEF LinksOK
  <2>2. nx[k] = 0 <=> k = la
    BY <2>1, <1>nb, <1>nx, <1>la, <1>zero
  <2>3. pv[k] = 0 <=> k = fi
    BY <2>1, <1>nb, <1>pv, <1>fi, <1>zero
  <2>4. nx[k] # 0 => nx[k] \in M /\ pv[nx[k]] = k
    BY <2>1, <1>nb, <1>nx, <1>pv, <1>zero
  <2>5. pv[k] # 0 => pv[k] \in M /\ nx[pv[k]] = k
    BY <2>1, <1>nb, <1>nx, <1>pv, <1>zero
  <2>6. ASSUME nx[k] # 0
        PROVE  /\ <<k, nx[k]>> \in ord
               /\ \A m \in M : <<k, m>> \in ord => m = nx[k] \/ <<nx[k], m>> \in ord
    <3>1. CASE k = prev[i]
      <4>1. next[i] # 0 /\ nx[k] = next[i] /\ next[k] = i
        BY <2>6, <3>1, <1>nx, <1>nb, <1>zero
      <4>2. <<k, i>> \in ord /\ <<i, next[i]>> \in ord
        BY <4>1, <2>1, <1>old, <1>zero DEF LinksOK
      <4>3. QED
        BY <4>1, <4>2, <2>1, <1>old, <1>nb, <1>3, <1>zero DEF TotalOn
    <3>2. CASE k # prev[i]
      BY <3>2, <2>6, <2>1, <1>nx
    <3>3. QED
      BY <3>1, <3>2
  <2>7. QED
    BY <2>2, <2>3, <2>4, <2>5, <2>6
<1>6. LinksOK(M, nx, pv, fi, la, od)
  BY <1>5, <1>ord DEF LinksOK
<1>7. QED
  BY <1>1, <1>4, <1>6 DEF FIFO, nx, pv, fi, la, od

(* The arrays keep their type.                                             *)
LEMMA AppendType ==
  ASSUME NEW S, NEW mem, NEW next, NEW prev, NEW first, NEW last \in S \cup {0},
         NEW i \in S, Arrays(S, mem, next, prev)
  PROVE  /\ AppendNext(next, first, last, i) \in [S -> S \cup {0}]
         /\ AppendPrev(prev, first, last, i) \in [S -> S \cup {0}]
  BY DEF Arrays, AppendNext, AppendPrev

(* The arrays keep their type.                                             *)
LEMMA UnlinkType ==
  ASSUME NEW S, NEW mem, NEW next, NEW prev, NEW i \in S,
         Arrays(S, mem, next, prev)
  PROVE  /\ UnlinkNext(next, prev, i) \in [S -> S \cup {0}]
         /\ UnlinkPrev(next, prev, i) \in [S -> S \cup {0}]
  BY DEF Arrays, UnlinkNext, UnlinkPrev
-----------------------------------------------------------------------------
(* Queues and buckets that a module writes as sequences without            *)
(* repetitions.                                                            *)

(* An element taken out of a sequence without repetitions.                 *)
LEMMA RemoveAtProperties ==
  ASSUME NEW S, NEW s \in Seq(S), IsInjective(s), NEW k \in DOMAIN s
  PROVE  /\ RemoveAt(s, k) \in Seq(S) /\ IsInjective(RemoveAt(s, k))
         /\ ToSet(RemoveAt(s, k)) = ToSet(s) \ {s[k]}
<1> DEFINE a == SubSeq(s, 1, k - 1)
           b == SubSeq(s, k + 1, Len(s))
           n == RemoveAt(s, k)
<1>1. k \in 1..Len(s) /\ Len(s) \in Nat /\ DOMAIN s = 1..Len(s)
  OBVIOUS
<1>2. a \in Seq(S) /\ Len(a) = k - 1 /\ \A x \in 1..(k - 1) : a[x] = s[x]
  BY <1>1
<1>3. b \in Seq(S) /\ Len(b) = Len(s) - k /\ \A x \in 1..(Len(s) - k) : b[x] = s[k + x]
  BY <1>1
<1> HIDE DEF a, b
<1>4. n = a \o b
  BY DEF RemoveAt, a, b
<1>5. /\ n \in Seq(S) /\ Len(n) = Len(a) + Len(b)
      /\ \A x \in 1..(Len(a) + Len(b)) : n[x] = IF x <= Len(a) THEN a[x] ELSE b[x - Len(a)]
  BY <1>2, <1>3, <1>4, ConcatProperties
<1> HIDE DEF n
<1>6. DOMAIN n = 1..(Len(s) - 1)
  BY <1>1, <1>2, <1>3, <1>5
<1>7. \A x \in 1..(Len(s) - 1) : n[x] = IF x < k THEN s[x] ELSE s[x + 1]
  <2> SUFFICES ASSUME NEW x \in 1..(Len(s) - 1) PROVE n[x] = IF x < k THEN s[x] ELSE s[x + 1]
    OBVIOUS
  <2>1. CASE x < k
    BY <1>1, <1>2, <1>3, <1>5, <2>1
  <2>2. CASE ~(x < k)
    <3>1. x - (k - 1) \in 1..(Len(s) - k) /\ k + (x - (k - 1)) = x + 1
      BY <1>1, <2>2
    <3>2. b[x - (k - 1)] = s[x + 1]
      BY <1>3, <3>1
    <3>3. x \in 1..(Len(a) + Len(b)) /\ ~(x <= Len(a)) /\ x - Len(a) = x - (k - 1)
      BY <1>1, <1>2, <1>3, <2>2
    <3>4. n[x] = b[x - (k - 1)]
      BY <1>5, <3>3
    <3> QED
      BY <2>2, <3>2, <3>4
  <2> QED
    BY <2>1, <2>2
<1>8. IsInjective(n)
  <2> SUFFICES ASSUME NEW x \in 1..(Len(s) - 1), NEW y \in 1..(Len(s) - 1), n[x] = n[y] PROVE x = y
    BY <1>6 DEF IsInjective
  <2>1. PICK u \in 1..Len(s), w \in 1..Len(s) : /\ u = IF x < k THEN x ELSE x + 1
                                                /\ w = IF y < k THEN y ELSE y + 1
    BY <1>1
  <2>2. s[u] = s[w]
    BY <1>7, <2>1
  <2>3. u = w
    BY <1>1, <2>2 DEF IsInjective
  <2> QED
    BY <1>1, <2>1, <2>3
<1>9. ASSUME NEW x \in DOMAIN n PROVE n[x] \in ToSet(s) /\ n[x] # s[k]
  <2>1. PICK u \in 1..Len(s) : u = (IF x < k THEN x ELSE x + 1) /\ u # k
    BY <1>1, <1>6
  <2>2. n[x] = s[u]
    BY <1>6, <1>7, <2>1
  <2> QED
    BY <1>1, <2>1, <2>2 DEF ToSet, IsInjective
<1>10. ASSUME NEW u \in 1..Len(s), u # k PROVE s[u] \in ToSet(n)
  <2>1. PICK x \in 1..(Len(s) - 1) : x = IF u < k THEN u ELSE u - 1
    BY <1>1, <1>10
  <2>2. n[x] = s[u]
    BY <1>1, <1>7, <1>10, <2>1
  <2> QED
    BY <1>6, <2>2 DEF ToSet
<1>11. ToSet(n) = ToSet(s) \ {s[k]}
  <2>1. ASSUME NEW e \in ToSet(n) PROVE e \in ToSet(s) \ {s[k]}
    <3>1. PICK x \in DOMAIN n : e = n[x]
      BY <2>1 DEF ToSet
    <3> QED
      BY <1>9, <3>1
  <2>2. ASSUME NEW e \in ToSet(s) \ {s[k]} PROVE e \in ToSet(n)
    <3>1. PICK u \in 1..Len(s) : e = s[u]
      BY <1>1, <2>2 DEF ToSet
    <3> QED
      BY <1>10, <2>2, <3>1
  <2> QED
    BY <2>1, <2>2
<1> QED
  BY <1>5, <1>8, <1>11 DEF n

(* An element put in front of a sequence that does not hold it.            *)
LEMMA ConsProperties ==
  ASSUME NEW S, NEW s \in Seq(S), NEW e \in S, IsInjective(s), e \notin ToSet(s)
  PROVE  /\ <<e>> \o s \in Seq(S) /\ IsInjective(<<e>> \o s)
         /\ ToSet(<<e>> \o s) = ToSet(s) \cup {e}
<1> DEFINE n == <<e>> \o s
<1>1. n \in Seq(S) /\ Len(n) = Len(s) + 1 /\ Len(s) \in Nat
  OBVIOUS
<1>2. n[1] = e /\ \A x \in 1..Len(s) : n[x + 1] = s[x]
  OBVIOUS
<1> HIDE DEF n
<1>3. DOMAIN s = 1..Len(s) /\ DOMAIN n = 1..(Len(s) + 1)
  BY <1>1
<1>4. \A x \in DOMAIN n : x # 1 => n[x] = s[x - 1] /\ x - 1 \in DOMAIN s
  <2> SUFFICES ASSUME NEW x \in DOMAIN n, x # 1 PROVE n[x] = s[x - 1] /\ x - 1 \in DOMAIN s
    OBVIOUS
  <2>1. x - 1 \in 1..Len(s) /\ (x - 1) + 1 = x
    BY <1>1, <1>3
  <2> QED
    BY <1>2, <1>3, <2>1
<1>5. IsInjective(n)
  <2> SUFFICES ASSUME NEW x \in DOMAIN n, NEW y \in DOMAIN n, n[x] = n[y] PROVE x = y
    BY DEF IsInjective
  <2>1. CASE x = 1 \/ y = 1
    BY <1>2, <1>4, <2>1 DEF ToSet
  <2>2. CASE x # 1 /\ y # 1
    <3>1. x - 1 = y - 1
      BY <1>4, <2>2 DEF IsInjective
    <3> QED
      BY <1>1, <1>3, <3>1
  <2> QED
    BY <2>1, <2>2
<1>6. ToSet(n) = ToSet(s) \cup {e}
  <2>1. ASSUME NEW z \in ToSet(n) PROVE z \in ToSet(s) \cup {e}
    BY <1>2, <1>4 DEF ToSet
  <2>2. ASSUME NEW x \in DOMAIN s PROVE s[x] \in ToSet(n)
    <3>1. x + 1 \in DOMAIN n
      BY <1>1, <1>3
    <3> QED
      BY <1>2, <1>3, <3>1 DEF ToSet
  <2>3. e \in ToSet(n)
    BY <1>1, <1>2, <1>3 DEF ToSet
  <2> QED
    BY <2>1, <2>2, <2>3 DEF ToSet
<1> QED
  BY <1>1, <1>5, <1>6 DEF n
=============================================================================
