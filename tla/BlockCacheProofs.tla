-------------------------- MODULE BlockCacheProofs --------------------------
(***************************************************************************)
(* The invariant of BlockCacheReadProofs for writes, truncations and the   *)
(* upload, and the theorems about the blocks of a file.                    *)
(***************************************************************************)
EXTENDS BlockCacheReadProofs

-----------------------------------------------------------------------------
(***************************************************************************)
(* Steps that modify a block, number it or let the file's number advance.  *)
(***************************************************************************)
FinStep ==
  \/ meta'.fin = meta.fin /\ meta'.inc = meta.inc
  \/ meta.inc /\ ~meta'.inc /\ meta'.fin = meta.fin + 1
QuietAt(c) ==
  /\ Num(c)' = Num(c) /\ (Writing(c)' <=> Writing(c)) /\ disk'.to[c] = disk.to[c]
  /\ gh'.cur[c] = gh.cur[c] /\ gh'.snap[c] = gh.snap[c] /\ gh'.cloud[c] = gh.cloud[c]
  /\ St(c)' = St(c) \/ (St(c) \in InCloud /\ St(c)' \in InCloud)

(* The numbers are numbers.                                                *)
LEMMA NumbersAre ==
  ASSUME Types
  PROVE  /\ meta.fin \in Nat /\ up.cur \in Nat
         /\ \A b \in Blocks : /\ Num(b) \in Nat /\ cloud.meta[b].seq \in Nat
                              /\ up.snap[b].seq \in Nat /\ up.snap[b].back \in Nat
<1>1. meta.fin \in 0..MaxSeq /\ up.cur \in 0..MaxSeq
  BY DEF Types, MetaSet, UpSet
<1> SUFFICES ASSUME NEW b \in Blocks
             PROVE  /\ Num(b) \in Nat /\ cloud.meta[b].seq \in Nat
                    /\ up.snap[b].seq \in Nat /\ up.snap[b].back \in Nat
  BY <1>1
<1>2. meta.blk[b] \in Entry /\ cloud.meta[b] \in CloudEntry /\ up.snap[b] \in ShotSet
  BY DEF Types, MetaSet, CloudSet, UpSet
<1>3. /\ Num(b) \in 0..MaxSeq /\ cloud.meta[b].seq \in 0..MaxSeq
      /\ up.snap[b].seq \in 0..MaxSeq /\ up.snap[b].back \in 0..MaxSeq
  BY <1>2 DEF Entry, CloudEntry, ShotSet, Num
<1> QED
  BY <1>3

(* The number of the file and that of the upload.                          *)
LEMMA NumbersKept ==
  ASSUME Types, Core, up' = up, FinStep
  PROVE  NumbersI'
<1>1. NumbersI /\ meta.fin \in Nat /\ up.cur \in Nat
  BY NumbersAre DEF Core
<1>2. CASE meta'.fin = meta.fin /\ meta'.inc = meta.inc
  BY <1>1, <1>2 DEF NumbersI
<1>3. CASE meta.inc /\ ~meta'.inc /\ meta'.fin = meta.fin + 1
  <2>1. up.pc # "idle" => meta'.fin > up.cur
    BY <1>1, <1>3 DEF NumbersI
  <2> QED
    BY <1>3, <2>1 DEF NumbersI
<1> QED
  BY <1>2, <1>3 DEF FinStep

(* The metadata in the cloud has an older number than the file.            *)
LEMMA CloudFin ==
  ASSUME Types, Core, cloud' = cloud, FinStep, NEW b \in Blocks
  PROVE  cloud'.meta[b].seq <= meta'.fin /\ (~meta'.inc => cloud'.meta[b].seq < meta'.fin)
<1>1. /\ cloud.meta[b].seq <= meta.fin /\ (~meta.inc => cloud.meta[b].seq < meta.fin)
      /\ meta.fin \in Nat /\ cloud.meta[b].seq \in Nat
  BY NumbersAre DEF Core, UpI, CloudI
<1>2. CASE meta'.fin = meta.fin /\ meta'.inc = meta.inc
  BY <1>1, <1>2
<1>3. CASE meta.inc /\ ~meta'.inc /\ meta'.fin = meta.fin + 1
  BY <1>1, <1>3
<1> QED
  BY <1>2, <1>3 DEF FinStep

(* What the invariant says of the upload of a block that is left alone.    *)
LEMMA UploadKept ==
  ASSUME Types, Core, cloud' = cloud, up' = up, FinStep, NEW b \in Blocks, QuietAt(b)
  PROVE  UpI(b)'
<1>1. /\ Num(b)' = Num(b) /\ (Writing(b)' <=> Writing(b))
      /\ St(b)' = St(b) \/ (St(b) \in InCloud /\ St(b)' \in InCloud)
      /\ disk'.to[b] = disk.to[b] /\ gh'.cur[b] = gh.cur[b] /\ gh'.snap[b] = gh.snap[b]
      /\ gh'.cloud[b] = gh.cloud[b]
  BY DEF QuietAt
<1>2. UpI(b)
  BY DEF Core
<1>3. /\ St(b)' \in Dirty <=> St(b) \in Dirty
      /\ St(b)' \in Gone <=> St(b) \in Gone
      /\ St(b)' = "LDISK" <=> St(b) = "LDISK"
      /\ St(b)' = "LtoC" <=> St(b) = "LtoC"
  BY <1>1 DEF InCloud, Remote, Dirty, Gone
<1>4. ShotI(b) => ShotI(b)'
  BY <1>1 DEF ShotI, Active, SendsIn
<1>5. SeqI(b) => SeqI(b)'
  BY <1>1, <1>3 DEF SeqI
<1>6. CopyI(b) => CopyI(b)'
  BY <1>1, <1>3 DEF CopyI, Active, SendsIn
<1>7. StoredI(b) => StoredI(b)'
  BY <1>1 DEF StoredI, Active, SendsIn
<1>8. LaterI(b) => LaterI(b)'
  BY <1>1, <1>3 DEF LaterI, Active
<1>9. CloudI(b) => CloudI(b)'
  <2>1. cloud'.meta[b].seq <= meta'.fin /\ (~meta'.inc => cloud'.meta[b].seq < meta'.fin)
    BY CloudFin
  <2> QED
    BY <1>1, <1>3, <2>1 DEF CloudI, Active
<1> QED
  BY <1>2, <1>4, <1>5, <1>6, <1>7, <1>8, <1>9 DEF UpI

(* The status of a block that is left alone.                               *)
LEMMA StatusKept ==
  ASSUME Types, Core, cloud' = cloud, FinStep, NEW c \in Blocks, SameAt(c), Writing(c)' <=> Writing(c)
  PROVE  StatusI(c)'
<1>1. StatusI(c)
  BY DEF Core
<1>2. /\ St(c)' = St(c) /\ Num(c)' = Num(c) /\ Path(c)' = Path(c) /\ gh'.cur[c] = gh.cur[c]
      /\ Path(c) # 0 => disk'.data[Path(c)] = disk.data[Path(c)]
  BY DEF SameAt, St, Num
<1>3. Num(c) <= meta'.fin
  <2>1. Num(c) \in Nat /\ meta.fin \in Nat /\ Num(c) <= meta.fin
    BY <1>1, NumbersAre DEF StatusI
  <2>2. CASE meta'.fin = meta.fin
    BY <2>1, <2>2
  <2>3. CASE meta'.fin = meta.fin + 1
    BY <2>1, <2>3
  <2> QED
    BY <2>2, <2>3 DEF FinStep
<1> QED
  BY <1>1, <1>2, <1>3 DEF StatusI, Data, Local, Remote, Gone

(* A step of handle h: its own part of the invariant and the blocks are    *)
(* left to show.                                                           *)
LEMMA ByHandle ==
  ASSUME Types, Types', Core, NEW h \in Handles, Others(h), NEW b,
         \A c \in Blocks \ {b} : Path(c)' = Path(c),
         \A c \in Blocks : GentleAt(h, c) /\ StatusI(c)' /\ UpI(c)',
         \A f \in Files : GentleData(f),
         \A f \in Files, q \in Procs \ {h} : disk.flock[f] = q => disk'.flock[f] = q,
         \A g \in Handles \ {h} : g \in gh.loose => g \in gh'.loose,
         GentleInside(h), LockStep(h), OpensSafely(h), FillsSafely(h), CountI', NumbersI',
         ReqI(h)', CachedI(h)', ReadI(h)'
  PROVE  Core'
<1>1. Gentle(h)
  BY DEF Gentle
<1>2. \A g \in Handles \ {h} : ReqI(g)' /\ CachedI(g)' /\ ReadI(g)'
  BY <1>1, OtherRequests DEF Others
<1>3. \A l \in Loaders : JobI(l)'
  BY <1>1, OtherJobs, ConstantFacts DEF Others
<1>4. LockI' /\ NoReader'
  BY LockKept, NoReaderKept DEF Core
<1>5. PathsI'
  <2>1. b \in Blocks => KeepsPath(b)
    BY DEF GentleAt
  <2> QED
    BY <2>1, PathsKept DEF Core
<1> QED
  BY <1>2, <1>3, <1>4, <1>5 DEF Core

(* A step of neither a handle nor a download.                              *)
LEMMA ByNoOne ==
  ASSUME Types, Types', Core, th' = th, dl' = dl, NEW b,
         \A c \in Blocks \ {b} : Path(c)' = Path(c),
         \A c \in Blocks : GentleAt(NoOne, c) /\ StatusI(c)' /\ UpI(c)',
         \A f \in Files : GentleData(f), disk'.flock = disk.flock,
         \A g \in Handles : g \in gh.loose => g \in gh'.loose,
         GentleInside(NoOne), meta'.lock = meta.lock, CountI', NumbersI'
  PROVE  Core'
<1>1. Gentle(NoOne) /\ NoOne \notin Handles /\ NoOne \notin Loaders
  BY ConstantFacts DEF Gentle
<1>2. \A g \in Handles : T(g)' = T(g) /\ X(g)' = X(g)
  BY DEF T, X
<1>3. \A g \in Handles : ReqI(g)' /\ CachedI(g)' /\ ReadI(g)'
  BY <1>1, <1>2, OtherRequests
<1>4. \A l \in Loaders : JobI(l)'
  BY <1>1, OtherJobs
<1>5. LockI' /\ NoReader'
  BY <1>2 DEF Core, LockI, NoReader
<1>6. PathsI'
  <2>1. b \in Blocks => KeepsPath(b)
    BY DEF GentleAt
  <2> QED
    BY <2>1, PathsKept DEF Core
<1> QED
  BY <1>3, <1>4, <1>5, <1>6 DEF Core

-----------------------------------------------------------------------------
(***************************************************************************)
(* Writes and truncations.                                                 *)
(***************************************************************************)
(* The start of a write or a truncation.                                   *)
LEMMA BeginStep ==
  ASSUME BlockInv, NEW h \in Handles, NEW b \in Blocks, NEW op \in {"w", "cut", "del"}, Begin(h, b, op)
  PROVE  BlockInv'
<1> USE DEF BlockInv
<1>m. PICK m : m = Mod
  OBVIOUS
<1>n. PICK n : n = meta'.fin
  OBVIOUS
<1>u. PICK u : u = [IdleTh EXCEPT !.op = op, !.pc = op, !.b = b, !.m = m, !.now = n]
  OBVIOUS
<1>1. /\ T(h).pc = "idle" /\ left.mod > 0 /\ MetaFree /\ meta' = Lock(update_meta_seq(meta))
      /\ Go(h, u, X(h)) /\ Spend("mod")
      /\ disk' = disk /\ cloud' = cloud /\ dl' = dl /\ up' = up /\ gh' = gh
  BY <1>m, <1>n, <1>u DEF Begin, At, T
<1>2. X(h) \in CachedSet /\ ReqOK(T(h), X(h)) /\ \A c \in Blocks : gh.ver[c] \in Nat
  BY HandleIs
<1>3. /\ left' \in LeftSet /\ left'.mod = left.mod - 1 /\ left'.page = left.page
      /\ left.mod \in 0..MaxMod /\ MaxMod \in Nat
  BY <1>1, SpendIs, ConstantFacts DEF Types, LeftSet
<1>4. meta.fin \in Nat /\ meta.fin <= 1 + (MaxMod - left.mod)
  BY NumbersAre DEF Types, Counters
<1>5. meta.fin + 1 \in 0..MaxSeq /\ meta.fin + 1 <= 1 + (MaxMod - left'.mod) /\ m \in 0..MaxMod
  BY <1>1, <1>3, <1>4, <1>m, ConstantFacts DEF Mod
<1>6. /\ meta' \in MetaSet /\ meta'.blk = meta.blk /\ meta'.lock = 0 /\ ~meta'.inc
      /\ meta.inc => n = meta.fin + 1
      /\ ~meta.inc => n = meta.fin
  <2> PICK M : M = update_meta_seq(meta)
    OBVIOUS
  <2>1. /\ M \in MetaSet /\ M.blk = meta.blk /\ ~M.inc
        /\ meta.inc => M.fin = meta.fin + 1
        /\ ~meta.inc => M.fin = meta.fin
    BY <1>5, MetaSeqIs DEF Types
  <2>2. /\ Lock(M) \in MetaSet /\ Lock(M).lock = 0 /\ Lock(M).blk = M.blk /\ Lock(M).fin = M.fin
        /\ Lock(M).inc = M.inc
    BY <2>1, LockIs
  <2> QED
    BY <1>1, <1>n, <2>1, <2>2
<1>7. n \in 0..MaxSeq /\ n <= 1 + (MaxMod - left'.mod) /\ meta.fin <= n
  <2>1. n \in {meta.fin, meta.fin + 1}
    BY <1>6
  <2>2. meta.fin \in 0..MaxSeq /\ meta.fin <= 1 + (MaxMod - left'.mod)
    BY <1>3, <1>4, <1>5, ConstantFacts
  <2>3. CASE n = meta.fin
    BY <1>4, <2>2, <2>3
  <2>4. CASE n = meta.fin + 1
    BY <1>4, <1>5, <2>4
  <2> QED
    BY <2>1, <2>3, <2>4
<1>8. /\ u \in ReqSet /\ u.pc = op /\ u.op = op /\ u.b = b /\ u.f = 0 /\ u.now = n /\ u.res = {} /\ u.ver = 0
  <2>1. op \in ReqPCs /\ op \in {"", "read", "w", "cut", "del"} /\ b \in Blocks \cup {0}
    BY DEF ReqPCs, Inside
  <2>2. {} \in Marks /\ 0 \in Nat /\ 0 \in Files \cup {0} /\ 0 \in 0..MaxSeq /\ 0 \in 0..MaxPage
    BY ConstantFacts DEF Marks
  <2>3. u = [pc |-> op, op |-> op, b |-> b, f |-> 0, seq |-> 0, cnt |-> 0,
             now |-> n, m |-> m, res |-> {}, ver |-> 0]
    BY <1>u DEF IdleTh
  <2> QED
    BY ONLY <1>5, <1>7, <2>1, <2>2, <2>3 DEF ReqSet
<1>9. ReqOK(u, X(h))
  BY <1>2, <1>8, ConstantFacts DEF ReqOK, RFile, WFile
<1>10. Types'
  <2>1. disk' \in DiskSet /\ gh' \in GhSet
    BY <1>1 DEF Types
  <2>2. \A c \in Blocks : Cnt(c)' <= MaxPage - left'.page
    BY <1>3, <1>6 DEF Types, Counters, Cnt
  <2>3. meta'.fin <= 1 + (MaxMod - left'.mod) /\ meta.fin <= meta'.fin /\ u.now <= meta'.fin
    BY <1>7, <1>8, <1>n
  <2> QED
    BY <1>1, <1>2, <1>3, <1>6, <1>8, <1>9, <2>1, <2>2, <2>3, TypesByHandle
<1>11. ASSUME Clean' PROVE Core'
  <2>1. Core
    BY <1>1, <1>11 DEF Clean
  <2>2. T(h)' = u /\ X(h)' = X(h) /\ Others(h)
    BY <1>1, <1>2, <1>8, GoIs DEF Types, Others
  <2>3. FinStep
    <3>1. meta.inc \in BOOLEAN /\ meta'.inc \in BOOLEAN
      BY <1>6 DEF Types, MetaSet
    <3>2. CASE meta.inc
      BY <1>6, <1>n, <3>2 DEF FinStep
    <3>3. CASE ~meta.inc
      <4>1. meta'.inc = meta.inc
        BY <1>6, <3>1, <3>3
      <4> QED
        BY <1>6, <1>n, <3>3, <4>1 DEF FinStep
    <3> QED
      BY <3>2, <3>3
  <2>4. \A c \in Blocks : SameAt(c) /\ QuietAt(c) /\ (Writing(c)' <=> Writing(c))
    <3>1. \A c \in Blocks : Writing(c)' <=> Writing(c)
      BY <1>1, <1>8, <2>2 DEF Writing, Others
    <3> QED
      BY <1>1, <1>6, <3>1 DEF SameAt, QuietAt, St, Num, Path
  <2>5. \A c \in Blocks : GentleAt(h, c) /\ StatusI(c)' /\ UpI(c)' /\ Path(c)' = Path(c)
    <3>1. Types /\ cloud' = cloud /\ up' = up
      BY <1>1
    <3> QED
      BY ONLY <2>1, <2>3, <2>4, <3>1, SameIsGentle, StatusKept, UploadKept DEF SameAt
  <2>6. NumbersI'
    BY <1>1, <2>1, <2>3, NumbersKept
  <2>7. ReqI(h)'
    BY <1>8, <2>2 DEF ReqI, RFile, WFile
  <2>8. CachedI(h)'
    BY <1>1, <1>6, <2>1, <2>2, SameCached DEF Core
  <2>9. ReadI(h)'
    BY <1>1, <1>2, <1>8, <2>2 DEF ReadI
  <2>10. LockStep(h) /\ OpensSafely(h) /\ FillsSafely(h) /\ GentleInside(h)
    <3>1. GentleInside(h)
      BY <1>1, <2>1, FreeInside
    <3> QED
      BY <1>1, <1>2, <1>6, <1>8, <2>2, <3>1, ConstantFacts DEF LockStep, OpensSafely, FillsSafely, MetaFree
  <2>11. CountI'
    <3>1. CountI /\ (\A c \in Blocks : St(c)' = St(c)) /\ disk'.cache = disk.cache /\ dl' = dl
      BY <1>1, <1>6, <2>1 DEF Core, St
    <3> QED
      BY <3>1, CountSame
  <2>12. /\ \A f \in Files : GentleData(f)
         /\ \A f \in Files, q \in Procs \ {h} : disk.flock[f] = q => disk'.flock[f] = q
         /\ \A g \in Handles \ {h} : g \in gh.loose => g \in gh'.loose
    BY <1>1 DEF GentleData
  <2> QED
    BY <1>10, <2>1, <2>2, <2>5, <2>6, <2>7, <2>8, <2>9, <2>10, <2>11, <2>12, ByHandle
<1> QED
  BY <1>10, <1>11

(* The cached file after the check at the start of a read or a write.      *)
LEMMA RecheckIs ==
  ASSUME Types, NEW h \in Handles, NEW b \in Blocks, NEW x, x = Recheck(X(h), b, meta.blk[b])
  PROVE  /\ x \in CachedSet /\ x \in {X(h), Close(X(h))}
         /\ x.open \in Blocks => x.file \in Files
         /\ x.open = -1 => x.file = 0
         /\ x.open = b => x = X(h) /\ (St(b) \in Local => x.cnt = Cnt(b))
<1>1. X(h) \in CachedSet /\ ReqOK(T(h), X(h))
  BY HandleIs
<1>2. Close(X(h)) \in CachedSet /\ Close(X(h)).open = -1 /\ Close(X(h)).file = 0
  BY <1>1, CachedIs
<1>3. x \in {X(h), Close(X(h))}
  BY DEF Recheck
<1>4. x.open = b => x = X(h) /\ (St(b) \in Local => x.cnt = Cnt(b))
  BY <1>2, ConstantFacts DEF Recheck, St, Cnt
<1> QED
  BY <1>1, <1>2, <1>3, <1>4, ConstantFacts DEF ReqOK

(* The wait for room in the cache.                                         *)
LEMMA WaitStep ==
  ASSUME BlockInv, NEW h \in Handles, write_wait_full_cache(h)
  PROVE  BlockInv'
<1> USE DEF BlockInv
<1>b. PICK b : b = T(h).b
  OBVIOUS
<1>u. PICK u : u = [T(h) EXCEPT !.pc = "sleep"]
  OBVIOUS
<1>y. PICK y : y = IF T(h).pc = "w" THEN Close(X(h)) ELSE X(h)
  OBVIOUS
<1>1. /\ T(h).pc \in {"w", "cut"} /\ left.sleep > 0 /\ Go(h, u, y) /\ Spend("sleep") /\ meta' = Unlock(meta)
      /\ disk' = disk /\ cloud' = cloud /\ dl' = dl /\ up' = up /\ gh' = gh
  BY <1>u, <1>y DEF write_wait_full_cache, At, T
<1>2. /\ T(h) \in ReqSet /\ X(h) \in CachedSet /\ b \in Blocks /\ T(h).f = 0 /\ ReqOK(T(h), X(h))
      /\ T(h).now <= meta.fin /\ T(h).res = {} /\ T(h).op \in {"w", "cut"}
  BY <1>1, <1>b, HandleIs DEF ReqOK, RFile, WFile
<1>3. /\ u \in ReqSet /\ u.pc = "sleep" /\ u.op = T(h).op /\ u.b = b /\ u.f = 0 /\ u.now = T(h).now
      /\ u.res = {} /\ u.ver = T(h).ver
  <2>1. "sleep" \in ReqPCs
    BY DEF ReqPCs
  <2> QED
    BY <1>2, <1>b, <1>u, <2>1, MovedIs
<1>4. y \in CachedSet /\ (y = X(h) \/ (y.open = -1 /\ y.file = 0))
  BY <1>2, <1>y, CachedIs
<1>5. ReqOK(u, y)
  BY <1>2, <1>3, <1>4, ConstantFacts DEF ReqOK, RFile, WFile
<1>6. /\ meta' \in MetaSet /\ meta'.lock = 1 /\ meta'.blk = meta.blk /\ meta'.fin = meta.fin
      /\ meta'.inc = meta.inc
  BY <1>1, LockIs DEF Types
<1>7. left' \in LeftSet /\ left'.mod = left.mod /\ left'.page = left.page
  BY <1>1, SpendIs DEF Types
<1>8. Types'
  <2>1. disk' \in DiskSet /\ gh' \in GhSet /\ SameCounters
    BY <1>1, <1>6, <1>7 DEF Types, SameCounters, Cnt
  <2> QED
    BY <1>1, <1>2, <1>3, <1>4, <1>5, <1>6, <1>7, <2>1, TypesByQuietHandle
<1>9. ASSUME Clean' PROVE Core'
  <2>1. Core
    BY <1>1, <1>9 DEF Clean
  <2>2. T(h)' = u /\ X(h)' = y /\ Others(h)
    BY <1>1, <1>3, <1>4, GoIs DEF Types, Others
  <2>3. Still
    BY <1>1, <1>6 DEF Still
  <2>4. ReqI(h)'
    BY <1>3, <2>2 DEF ReqI, RFile, WFile
  <2>5. CachedI(h)'
    <3>1. CASE y = X(h)
      BY <1>1, <1>6, <2>1, <2>2, <3>1, SameCached DEF Core
    <3>2. CASE y.open = -1
      BY <2>2, <3>2, ConstantFacts DEF CachedI
    <3> QED
      BY <1>4, <3>1, <3>2
  <2>6. ReadI(h)'
    <3>1. T(h).ver <= gh.ver[b]
      BY <1>1, <1>b, <2>1 DEF Core, ReadI
    <3> QED
      BY <1>1, <1>3, <2>2, <3>1 DEF ReadI
  <2>7. LockStep(h) /\ OpensSafely(h) /\ FillsSafely(h)
    BY <1>1, <1>2, <1>3, <1>4, <2>2, ConstantFacts DEF LockStep, OpensSafely, FillsSafely, Inside
  <2>8. T(h).pc # "w_lock" /\ T(h)'.pc # "w_lock"
    BY <1>1, <1>3, <2>2
  <2> QED
    BY <1>1, <1>8, <2>1, <2>2, <2>3, <2>4, <2>5, <2>6, <2>7, <2>8, StillByHandle
<1> QED
  BY <1>8, <1>9

(* The wait is over.                                                       *)
LEMMA WakeStep ==
  ASSUME BlockInv, NEW h \in Handles, Wake(h)
  PROVE  BlockInv'
<1> USE DEF BlockInv
<1>b. PICK b : b = T(h).b
  OBVIOUS
<1>o. PICK op : op = T(h).op
  OBVIOUS
<1>u. PICK u : u = [T(h) EXCEPT !.pc = op]
  OBVIOUS
<1>1. /\ T(h).pc = "sleep" /\ MetaFree /\ Go(h, u, X(h)) /\ meta' = Lock(meta)
      /\ disk' = disk /\ cloud' = cloud /\ dl' = dl /\ up' = up /\ gh' = gh /\ left' = left
  BY <1>o, <1>u DEF Wake, At, T
<1>2. /\ T(h) \in ReqSet /\ X(h) \in CachedSet /\ b \in Blocks /\ T(h).f = 0 /\ ReqOK(T(h), X(h))
      /\ T(h).now <= meta.fin /\ T(h).res = {} /\ op \in {"w", "cut"}
  BY <1>1, <1>b, <1>o, HandleIs DEF ReqOK, RFile, WFile
<1>3. /\ u \in ReqSet /\ u.pc = op /\ u.op = op /\ u.b = b /\ u.f = 0 /\ u.now = T(h).now
      /\ u.res = {} /\ u.ver = T(h).ver
  <2>1. op \in ReqPCs
    BY <1>2 DEF ReqPCs, Inside
  <2> QED
    BY <1>2, <1>b, <1>o, <1>u, <2>1, MovedIs
<1>4. ReqOK(u, X(h))
  BY <1>2, <1>3, ConstantFacts DEF ReqOK, RFile, WFile
<1>5. /\ meta' \in MetaSet /\ meta'.lock = 0 /\ meta'.blk = meta.blk /\ meta'.fin = meta.fin
      /\ meta'.inc = meta.inc
  BY <1>1, LockIs DEF Types
<1>6. Types'
  <2>1. disk' \in DiskSet /\ gh' \in GhSet /\ left' \in LeftSet /\ SameCounters
    BY <1>1, <1>5 DEF Types, SameCounters, Cnt
  <2> QED
    BY <1>1, <1>2, <1>3, <1>4, <1>5, <2>1, TypesByQuietHandle
<1>7. ASSUME Clean' PROVE Core'
  <2>1. Core
    BY <1>1, <1>7 DEF Clean
  <2>2. T(h)' = u /\ X(h)' = X(h) /\ Others(h)
    BY <1>1, <1>2, <1>3, GoIs DEF Types, Others
  <2>3. Still
    BY <1>1, <1>5 DEF Still
  <2>4. ReqI(h)'
    BY <1>2, <1>3, <2>2 DEF ReqI, RFile, WFile
  <2>5. CachedI(h)'
    BY <1>1, <1>5, <2>1, <2>2, SameCached DEF Core
  <2>6. ReadI(h)'
    <3>1. T(h).ver <= gh.ver[b]
      BY <1>1, <1>b, <2>1 DEF Core, ReadI
    <3> QED
      BY <1>1, <1>2, <1>3, <2>2, <3>1 DEF ReadI
  <2>7. LockStep(h) /\ OpensSafely(h) /\ FillsSafely(h)
    BY <1>1, <1>2, <1>3, <1>5, <2>2, ConstantFacts DEF LockStep, OpensSafely, FillsSafely, MetaFree
  <2>8. T(h).pc # "w_lock" /\ T(h)'.pc # "w_lock"
    BY <1>1, <1>2, <1>3, <2>2
  <2> QED
    BY <1>1, <1>6, <2>1, <2>2, <2>3, <2>4, <2>5, <2>6, <2>7, <2>8, StillByHandle
<1> QED
  BY <1>6, <1>7

(* The wait fails, and the lock is given up a second time.                 *)
LEMMA WakeFailedStep ==
  ASSUME BlockInv, NEW h \in Handles, WakeFailed(h)
  PROVE  BlockInv'
<1> USE DEF BlockInv
<1>1. /\ T(h).pc = "sleep" /\ left.fail > 0 /\ Go(h, IdleTh, X(h)) /\ meta' = Unlock(meta)
      /\ gh' = Met("unlock", ~MetaFree) /\ Spend("fail")
      /\ disk' = disk /\ cloud' = cloud /\ dl' = dl /\ up' = up
  BY DEF WakeFailed, UnlockAgain, At, T
<1>2. X(h) \in CachedSet /\ ReqOK(T(h), X(h))
  BY HandleIs
<1>3. /\ IdleTh \in ReqSet /\ IdleTh.pc = "idle" /\ IdleTh.now = 0 /\ ReqOK(IdleTh, X(h)) /\ 0 <= meta.fin
  <2>1. meta.fin \in Nat
    BY NumbersAre
  <2> QED
    BY <1>2, <2>1, IdleIs, ConstantFacts DEF ReqOK, RFile, WFile
<1>4. /\ meta' \in MetaSet /\ meta'.lock = 1 /\ meta'.blk = meta.blk /\ meta'.fin = meta.fin
      /\ meta'.inc = meta.inc
  BY <1>1, LockIs DEF Types
<1>5. left' \in LeftSet /\ left'.mod = left.mod /\ left'.page = left.page
  BY <1>1, SpendIs DEF Types
<1>6. /\ gh' \in GhSet /\ SameHistory(gh') /\ gh'.loose = gh.loose
      /\ gh'.known = {} => gh.known = {} /\ MetaFree
  BY <1>1, MetIs DEF Types, Hazards
<1>7. Types'
  <2>1. disk' \in DiskSet /\ SameCounters
    BY <1>1, <1>4, <1>5 DEF Types, SameCounters, Cnt
  <2> QED
    BY <1>1, <1>2, <1>3, <1>4, <1>5, <1>6, <2>1, TypesByQuietHandle
<1>8. ASSUME Clean' PROVE Core'
  <2>1. Core /\ MetaFree
    BY <1>6, <1>8 DEF Clean
  <2>2. T(h)' = IdleTh /\ X(h)' = X(h) /\ Others(h)
    BY <1>1, <1>2, <1>3, GoIs DEF Types, Others
  <2>3. Still
    BY <1>1, <1>4, <1>6 DEF Still, SameHistory
  <2>4. ReqI(h)' /\ ReadI(h)'
    BY <2>2, IdleRequest
  <2>5. CachedI(h)'
    BY <1>1, <1>4, <1>6, <2>1, <2>2, SameCached DEF Core
  <2>6. LockStep(h) /\ OpensSafely(h) /\ FillsSafely(h)
    BY <1>2, <1>3, <1>4, <2>1, <2>2, ConstantFacts DEF LockStep, OpensSafely, FillsSafely, Inside, MetaFree
  <2>7. T(h).pc # "w_lock" /\ T(h)'.pc # "w_lock"
    BY <1>1, <1>3, <2>2
  <2> QED
    BY <1>1, <1>6, <1>7, <2>1, <2>2, <2>3, <2>4, <2>5, <2>6, <2>7, StillByHandle
<1> QED
  BY <1>7, <1>8

(* The wait for room for a copy.                                           *)
LEMMA CopyWaitStep ==
  ASSUME BlockInv, NEW h \in Handles, _check_sync_wait_full_cache(h)
  PROVE  BlockInv'
<1> USE DEF BlockInv
<1>b. PICK b : b = T(h).b
  OBVIOUS
<1>n. PICK n : n = Num(b)
  OBVIOUS
<1>x. PICK x : x = IF T(h).pc = "w" THEN Recheck(X(h), b, meta.blk[b]) ELSE X(h)
  OBVIOUS
<1>u. PICK u : u = [T(h) EXCEPT !.pc = "copy", !.seq = n]
  OBVIOUS
<1>y. PICK y : y = IF T(h).op = "w" /\ x.open # b THEN Close(x) ELSE x
  OBVIOUS
<1>1. /\ T(h).pc \in {"w", "again", "cut", "del"} /\ left.sleep > 0 /\ Go(h, u, y) /\ Spend("sleep")
      /\ meta' = Unlock(meta) /\ disk' = disk /\ cloud' = cloud /\ dl' = dl /\ up' = up /\ gh' = gh
  BY <1>b, <1>n, <1>x, <1>u, <1>y DEF _check_sync_wait_full_cache, At, T, Num
<1>2. /\ T(h) \in ReqSet /\ X(h) \in CachedSet /\ b \in Blocks /\ T(h).f = 0 /\ ReqOK(T(h), X(h))
      /\ T(h).now <= meta.fin /\ T(h).res = {} /\ T(h).op \in {"w", "cut", "del"}
  BY <1>1, <1>b, HandleIs DEF ReqOK, RFile, WFile
<1>3. /\ u \in ReqSet /\ u.pc = "copy" /\ u.op = T(h).op /\ u.b = b /\ u.f = 0 /\ u.now = T(h).now
      /\ u.res = {} /\ u.ver = T(h).ver
  <2>1. "copy" \in ReqPCs /\ n \in 0..MaxSeq
    BY <1>2, <1>n, PathIs DEF ReqPCs
  <2> QED
    BY ONLY <1>2, <1>b, <1>u, <2>1 DEF ReqSet
<1>4. y \in CachedSet /\ (y = X(h) \/ (y.open = -1 /\ y.file = 0))
  <2>1. x \in CachedSet /\ x \in {X(h), Close(X(h))}
    BY <1>2, <1>x, RecheckIs
  <2> QED
    BY <1>2, <1>y, <2>1, CachedIs
<1>5. ReqOK(u, y)
  BY <1>2, <1>3, <1>4, ConstantFacts DEF ReqOK, RFile, WFile
<1>6. /\ meta' \in MetaSet /\ meta'.lock = 1 /\ meta'.blk = meta.blk /\ meta'.fin = meta.fin
      /\ meta'.inc = meta.inc
  BY <1>1, LockIs DEF Types
<1>7. left' \in LeftSet /\ left'.mod = left.mod /\ left'.page = left.page
  BY <1>1, SpendIs DEF Types
<1>8. Types'
  <2>1. disk' \in DiskSet /\ gh' \in GhSet /\ SameCounters
    BY <1>1, <1>6, <1>7 DEF Types, SameCounters, Cnt
  <2> QED
    BY <1>1, <1>2, <1>3, <1>4, <1>5, <1>6, <1>7, <2>1, TypesByQuietHandle
<1>9. ASSUME Clean' PROVE Core'
  <2>1. Core
    BY <1>1, <1>9 DEF Clean
  <2>2. T(h)' = u /\ X(h)' = y /\ Others(h)
    BY <1>1, <1>3, <1>4, GoIs DEF Types, Others
  <2>3. Still
    BY <1>1, <1>6 DEF Still
  <2>4. ReqI(h)'
    BY <1>3, <2>2 DEF ReqI, RFile, WFile
  <2>5. CachedI(h)'
    <3>1. CASE y = X(h)
      BY <1>1, <1>6, <2>1, <2>2, <3>1, SameCached DEF Core
    <3>2. CASE y.open = -1
      BY <2>2, <3>2, ConstantFacts DEF CachedI
    <3> QED
      BY <1>4, <3>1, <3>2
  <2>6. ReadI(h)'
    <3>1. T(h).ver <= gh.ver[b]
      BY <1>1, <1>b, <2>1 DEF Core, ReadI
    <3> QED
      BY <1>1, <1>3, <2>2, <3>1 DEF ReadI
  <2>7. LockStep(h) /\ OpensSafely(h) /\ FillsSafely(h)
    BY <1>1, <1>2, <1>3, <1>4, <2>2, ConstantFacts DEF LockStep, OpensSafely, FillsSafely, Inside
  <2>8. T(h).pc # "w_lock" /\ T(h)'.pc # "w_lock"
    BY <1>1, <1>3, <2>2
  <2> QED
    BY <1>1, <1>8, <2>1, <2>2, <2>3, <2>4, <2>5, <2>6, <2>7, <2>8, StillByHandle
<1> QED
  BY <1>8, <1>9

(* The wait for room for a copy fails.                                     *)
LEMMA CopyGivenUpStep ==
  ASSUME BlockInv, NEW h \in Handles, CopyGivenUp(h)
  PROVE  BlockInv'
<1> USE DEF BlockInv
<1>1. /\ T(h).pc = "copy" /\ left.fail > 0 /\ Go(h, IdleTh, X(h)) /\ Spend("fail")
      /\ meta' = meta /\ gh' = gh /\ disk' = disk /\ cloud' = cloud /\ dl' = dl /\ up' = up
  BY DEF CopyGivenUp, At, T
<1>2. X(h) \in CachedSet /\ ReqOK(T(h), X(h))
  BY HandleIs
<1>3. /\ IdleTh \in ReqSet /\ IdleTh.pc = "idle" /\ IdleTh.now = 0 /\ ReqOK(IdleTh, X(h)) /\ 0 <= meta.fin
  <2>1. meta.fin \in Nat
    BY NumbersAre
  <2> QED
    BY <1>2, <2>1, IdleIs, ConstantFacts DEF ReqOK, RFile, WFile
<1>4. left' \in LeftSet /\ left'.mod = left.mod /\ left'.page = left.page
  BY <1>1, SpendIs DEF Types
<1>5. Types'
  <2>1. meta' \in MetaSet /\ gh' \in GhSet /\ disk' \in DiskSet /\ SameCounters
    BY <1>1, <1>4 DEF Types, SameCounters, Cnt
  <2> QED
    BY <1>1, <1>2, <1>3, <1>4, <2>1, TypesByQuietHandle
<1>6. ASSUME Clean' PROVE Core'
  <2>1. Core
    BY <1>1, <1>6 DEF Clean
  <2>2. T(h)' = IdleTh /\ X(h)' = X(h) /\ Others(h)
    BY <1>1, <1>2, <1>3, GoIs DEF Types, Others
  <2>3. Still
    BY <1>1 DEF Still
  <2>4. ReqI(h)' /\ ReadI(h)'
    BY <2>2, IdleRequest
  <2>5. CachedI(h)'
    BY <1>1, <2>1, <2>2, SameCached DEF Core
  <2>6. LockStep(h) /\ OpensSafely(h) /\ FillsSafely(h)
    BY <1>1, <1>2, <1>3, <2>2, ConstantFacts DEF LockStep, OpensSafely, FillsSafely, Inside
  <2>7. T(h).pc # "w_lock" /\ T(h)'.pc # "w_lock"
    BY <1>1, <1>3, <2>2
  <2> QED
    BY <1>1, <1>5, <2>1, <2>2, <2>3, <2>4, <2>5, <2>6, <2>7, StillByHandle
<1> QED
  BY <1>5, <1>6

(* fopen of the block's path for a write.                                  *)
LEMMA OpenForWriteIs ==
  ASSUME Types, NEW h \in Handles, NEW b \in Blocks, b = T(h).b, T(h).res = {}, NEW M \in MetaSet,
         NEW D \in DiskSet, NEW x \in CachedSet, NEW G \in GhSet, OpenForWrite(h, M, D, x, G)
  PROVE  \E u \in ReqSet, y \in CachedSet :
           /\ Go(h, u, y) /\ ReqOK(u, y) /\ u.now <= meta.fin
           /\ meta' \in MetaSet /\ meta'.blk = M.blk /\ meta'.fin = M.fin /\ meta'.inc = M.inc
           /\ gh' \in GhSet /\ gh'.known = G.known /\ gh'.cur = G.cur /\ gh'.snap = G.snap
           /\ gh'.cloud = G.cloud /\ gh'.ver = G.ver
           /\ \A g \in Handles \ {h} : g \in G.loose => g \in gh'.loose
           /\ D.path[b] = 0 => u = IdleTh /\ y = X(h) /\ meta'.lock = 1 /\ gh' = G
           /\ D.path[b] # 0 => /\ u.pc = "w_lock" /\ u.b = b /\ u.f = 0 /\ u.ver = T(h).ver
                               /\ y.open = b /\ y.file = D.path[b] /\ y.cnt = M.blk[b].cnt
                               /\ meta' = M /\ h \notin gh'.loose
<1>1. T(h) \in ReqSet /\ X(h) \in CachedSet /\ ReqOK(T(h), X(h)) /\ T(h).now <= meta.fin
  BY HandleIs
<1>2. CASE D.path[b] = 0
  <2>1. Go(h, IdleTh, X(h)) /\ meta' = Unlock(M) /\ gh' = G
    BY <1>2 DEF OpenForWrite, Leave
  <2>2. IdleTh \in ReqSet /\ ReqOK(IdleTh, X(h)) /\ IdleTh.now <= meta.fin
    <3>1. meta.fin \in Nat
      BY NumbersAre
    <3> QED
      BY <1>1, <3>1, IdleIs, ConstantFacts DEF ReqOK, RFile, WFile
  <2>3. /\ Unlock(M) \in MetaSet /\ Unlock(M).lock = 1 /\ Unlock(M).blk = M.blk /\ Unlock(M).fin = M.fin
        /\ Unlock(M).inc = M.inc
    BY LockIs
  <2> QED
    BY <1>1, <1>2, <2>1, <2>2, <2>3
<1>3. CASE D.path[b] # 0
  <2>f. PICK f : f = D.path[b]
    OBVIOUS
  <2>n. PICK n : n = M.blk[b].cnt
    OBVIOUS
  <2>u. PICK u : u = [T(h) EXCEPT !.pc = "w_lock", !.f = 0]
    OBVIOUS
  <2>y. PICK y : y = [OpenAs(x, b, f) EXCEPT !.cnt = n]
    OBVIOUS
  <2>L. PICK L : L = G.loose \ {h}
    OBVIOUS
  <2>1. Go(h, u, y) /\ meta' = M /\ gh' = [G EXCEPT !.loose = L]
    BY <1>3, <2>f, <2>n, <2>u, <2>y, <2>L DEF OpenForWrite
  <2>2. f \in Files /\ n \in 0..MaxPage
    BY <1>3, <2>f, <2>n DEF DiskSet, MetaSet, Entry
  <2>3. /\ u \in ReqSet /\ u.pc = "w_lock" /\ u.b = b /\ u.f = 0 /\ u.ver = T(h).ver /\ u.res = {}
        /\ u.now = T(h).now
    <3>1. "w_lock" \in ReqPCs
      BY DEF ReqPCs, Inside
    <3>2. b = T(h).b /\ T(h).res = {} /\ 0 \in Files \cup {0}
      OBVIOUS
    <3> QED
      BY ONLY <1>1, <2>u, <3>1, <3>2 DEF ReqSet
  <2>4. y \in CachedSet /\ y.open = b /\ y.file = f /\ y.cnt = n
    <3>1. /\ OpenAs(x, b, f) \in CachedSet /\ OpenAs(x, b, f).open = b
          /\ OpenAs(x, b, f).file = f
      BY <2>2, CachedIs
    <3> QED
      BY ONLY <2>2, <2>y, <3>1 DEF CachedSet
  <2>5. ReqOK(u, y)
    BY <2>2, <2>3, <2>4, ConstantFacts DEF ReqOK, RFile, WFile
  <2>6. /\ gh' \in GhSet /\ gh'.known = G.known /\ gh'.cur = G.cur /\ gh'.snap = G.snap
        /\ gh'.cloud = G.cloud /\ gh'.ver = G.ver /\ gh'.loose = L
    <3>1. L \in SUBSET Handles
      BY <2>L DEF GhSet
    <3>2. gh' = [G EXCEPT !.loose = L]
      BY <2>1
    <3> QED
      BY ONLY G \in GhSet, <3>1, <3>2 DEF GhSet
  <2>7. h \notin gh'.loose /\ \A g \in Handles \ {h} : g \in G.loose => g \in gh'.loose
    BY <2>6, <2>L
  <2> QED
    BY <1>1, <1>3, <2>1, <2>3, <2>4, <2>5, <2>6, <2>7, <2>f, <2>n
<1> QED
  BY <1>2, <1>3

(* A write or a truncation of a block that is in the cloud only.           *)
LEMMA FetchFirstStep ==
  ASSUME BlockInv, NEW h \in Handles, NEW b \in Blocks, b = T(h).b, T(h).pc \in {"w", "again", "cut"},
         St(b) \in Remote, NEW x, x \in {X(h), Close(X(h))}, FetchFirst(h, b, x),
         cloud' = cloud, dl' = dl, up' = up, left' = left
  PROVE  BlockInv'
<1> USE DEF BlockInv
<1>n. PICK n : n = Path(b)'
  OBVIOUS
<1>u. PICK u : u = [T(h) EXCEPT !.pc = "wf_lock", !.f = n]
  OBVIOUS
<1>1. CanCreate(b) /\ disk' = Create(b) /\ Go(h, u, x) /\ meta' = meta /\ gh' = gh
  BY <1>n, <1>u DEF FetchFirst, Path
<1>2. /\ T(h) \in ReqSet /\ X(h) \in CachedSet /\ ReqOK(T(h), X(h))
      /\ T(h).now <= meta.fin /\ T(h).res = {} /\ T(h).op \in {"w", "cut"}
  BY HandleIs DEF ReqOK
<1>3. /\ disk' \in DiskSet /\ disk'.flock = disk.flock /\ disk'.to = disk.to /\ disk'.cache = disk.cache
      /\ n \in Files
      /\ PathsI => \A c \in Blocks : Path(c)' = n => c = b
  BY <1>1, <1>n, CreatedIs DEF Path
<1>4. /\ u \in ReqSet /\ u.pc = "wf_lock" /\ u.b = b /\ u.f = n /\ u.now = T(h).now /\ u.res = {}
      /\ u.ver = T(h).ver /\ u.op = T(h).op
  <2>1. "wf_lock" \in ReqPCs /\ b = T(h).b
    BY DEF ReqPCs, WFile
  <2>2. n \in Files \cup {0}
    BY <1>3
  <2> QED
    BY ONLY <1>2, <1>u, <2>1, <2>2 DEF ReqSet
<1>5. x \in CachedSet /\ (x = X(h) \/ (x.open = -1 /\ x.file = 0))
  BY <1>2, CachedIs
<1>6. ReqOK(u, x)
  BY <1>2, <1>3, <1>4, <1>5, ConstantFacts DEF ReqOK, RFile, WFile
<1>7. Types'
  <2>1. meta' \in MetaSet /\ left' \in LeftSet /\ gh' \in GhSet /\ SameCounters
    BY <1>1 DEF Types, SameCounters, Cnt
  <2> QED
    BY <1>1, <1>2, <1>3, <1>4, <1>5, <1>6, <2>1, TypesByQuietHandle
<1>8. ASSUME Clean' PROVE Core'
  <2>1. Core
    BY <1>1, <1>8 DEF Clean
  <2>2. T(h)' = u /\ X(h)' = x /\ Others(h)
    BY <1>1, <1>4, <1>5, GoIs DEF Types, Others
  <2>3. Quiet
    <3>1. \A c \in Blocks : Writing(c)' <=> Writing(c)
      BY <1>4, <2>2 DEF Writing, Others
    <3> QED
      BY <1>1, <1>3, <3>1 DEF Quiet, Num, St
  <2>4. /\ \A c \in Blocks \ {b} : SameAt(c)
        /\ GentleAt(h, b) /\ GentleInside(h) /\ StatusI(b)'
        /\ \A f \in Files : GentleData(f)
    BY <1>1, <2>1, <2>3, CreateGentle
  <2>5. ReqI(h)'
    <3>1. Own(b, n)' /\ St(b)' \in Remote /\ n = Path(b)'
      BY <1>1, <1>3, <1>n, <2>1 DEF Core, Own, St
    <3> QED
      BY <1>4, <2>2, <3>1 DEF ReqI
  <2>6. CachedI(h)'
    <3>1. CASE x = X(h)
      <4>1. \A c \in Blocks : GentleAt(h, c)
        BY <2>4, SameIsGentle
      <4> QED
        BY <1>1, <1>7, <2>1, <2>2, <3>1, <4>1, CachedKept
    <3>2. CASE x.open = -1
      BY <2>2, <3>2, ConstantFacts DEF CachedI
    <3> QED
      BY <1>5, <3>1, <3>2
  <2>7. ReadI(h)'
    <3>1. u.ver <= gh.ver[b]
      BY <1>4, <2>1 DEF Core, ReadI
    <3> QED
      BY <1>1, <1>4, <2>2, <3>1 DEF ReadI
  <2>8. LockStep(h) /\ OpensSafely(h) /\ FillsSafely(h)
    BY <1>1, <1>2, <1>4, <1>5, <2>2, ConstantFacts DEF LockStep, OpensSafely, FillsSafely, Inside
  <2>9. CountI'
    <3>1. CountI /\ (\A c \in Blocks : St(c)' = St(c)) /\ disk'.cache = disk.cache /\ dl' = dl
      BY <1>1, <1>3, <2>1 DEF Core, St
    <3> QED
      BY <3>1, CountSame
  <2> QED
    BY <1>1, <1>3, <1>7, <2>1, <2>2, <2>3, <2>4, <2>5, <2>6, <2>7, <2>8, <2>9, QuietByHandle
<1> QED
  BY <1>7, <1>8

(* The flock of the file, and the mark.                                    *)
LEMMA WriteFetchLockStep ==
  ASSUME BlockInv, NEW h \in Handles, WriteFetchLock(h)
  PROVE  BlockInv'
<1> USE DEF BlockInv
<1>b. PICK b : b = T(h).b
  OBVIOUS
<1>f. PICK f : f = T(h).f
  OBVIOUS
<1>1. /\ T(h).pc = "wf_lock" /\ cloud' = cloud /\ dl' = dl /\ up' = up /\ left' = left
  BY DEF WriteFetchLock, At, T
<1>2. /\ T(h) \in ReqSet /\ X(h) \in CachedSet /\ ReqOK(T(h), X(h)) /\ b \in Blocks /\ f \in Files
      /\ T(h).now <= meta.fin /\ T(h).res = {} /\ T(h).op \in {"w", "cut"}
  BY <1>1, <1>b, <1>f, HandleIs DEF ReqOK, WFile
<1>3. CASE St(b) \in Remote
  <2>n. PICK n : n = Num(b)
    OBVIOUS
  <2>u. PICK u : u = [T(h) EXCEPT !.pc = "wf_get", !.seq = n]
    OBVIOUS
  <2>1. /\ meta' = Unlock(SetSt(meta, b, "CtoL")) /\ disk' = Flock(disk, f, h) /\ Go(h, u, X(h)) /\ gh' = gh
    BY <1>3, <1>b, <1>f, <2>n, <2>u DEF WriteFetchLock, St, Num
  <2>2. n \in 0..MaxSeq
    BY <1>2, <2>n, PathIs
  <2>3. /\ u \in ReqSet /\ u.pc = "wf_get" /\ u.b = b /\ u.f = f /\ u.seq = n /\ u.now = T(h).now
        /\ u.res = {} /\ u.ver = T(h).ver /\ u.op = T(h).op
    <3>1. "wf_get" \in ReqPCs
      BY DEF ReqPCs, WFile
    <3> QED
      BY ONLY <1>2, <1>b, <1>f, <2>2, <2>u, <3>1 DEF ReqSet
  <2>4. ReqOK(u, X(h))
    BY <1>2, <2>3, ConstantFacts DEF ReqOK, RFile, WFile
  <2>5. /\ meta' \in MetaSet /\ meta'.fin = meta.fin /\ meta'.inc = meta.inc /\ meta'.lock = 1
        /\ St(b)' = "CtoL" /\ Num(b)' = Num(b) /\ Cnt(b)' = Cnt(b)
        /\ \A c \in Blocks \ {b} : meta'.blk[c] = meta.blk[c]
    <3> PICK M : M = SetSt(meta, b, "CtoL")
      OBVIOUS
    <3>1. /\ M \in MetaSet /\ M.fin = meta.fin /\ M.inc = meta.inc
          /\ M.blk[b].st = "CtoL" /\ M.blk[b].seq = meta.blk[b].seq /\ M.blk[b].cnt = meta.blk[b].cnt
          /\ \A c \in Blocks \ {b} : M.blk[c] = meta.blk[c]
      BY <1>2, SetStIs DEF Types, Statuses, Remote
    <3>2. /\ Unlock(M) \in MetaSet /\ Unlock(M).lock = 1 /\ Unlock(M).blk = M.blk /\ Unlock(M).fin = M.fin
          /\ Unlock(M).inc = M.inc
      BY <3>1, LockIs
    <3>3. meta' = Unlock(M)
      BY <2>1
    <3> QED
      BY ONLY <3>1, <3>2, <3>3 DEF St, Num, Cnt
  <2>6. /\ disk' \in DiskSet /\ disk'.path = disk.path /\ disk'.data = disk.data
        /\ disk'.to = disk.to /\ disk'.cache = disk.cache /\ disk'.flock[f] = h
        /\ \A g \in Files \ {f} : disk'.flock[g] = disk.flock[g]
    BY <1>2, <2>1, FlockIs, ConstantFacts DEF Types
  <2>7. disk.flock[f] \in {NoOne, h}
    BY <1>f DEF WriteFetchLock, Free
  <2>8. Types'
    <3>1. gh' \in GhSet /\ left' \in LeftSet /\ SameCounters
      BY <1>1, <2>1, <2>5 DEF Types, SameCounters, Cnt
    <3> QED
      BY <1>1, <1>2, <2>1, <2>3, <2>4, <2>5, <2>6, <3>1, TypesByQuietHandle
  <2>9. ASSUME Clean' PROVE Core'
    <3>1. Core
      BY <2>1, <2>9 DEF Clean
    <3>2. T(h)' = u /\ X(h)' = X(h) /\ Others(h)
      BY <1>1, <1>2, <2>1, <2>3, GoIs DEF Types, Others
    <3>3. f = Path(b) /\ Own(b, f)
      BY <1>1, <1>b, <1>f, <3>1 DEF Core, ReqI, WFile
    <3>4. Quiet
      <4>1. \A c \in Blocks : Writing(c)' <=> Writing(c)
        BY <1>1, <2>3, <3>2 DEF Writing, Others
      <4>2. \A c \in Blocks : Num(c)' = Num(c) /\ (St(c)' = St(c) \/ (St(c) \in InCloud /\ St(c)' \in InCloud))
        BY <1>3, <2>5 DEF Num, St, InCloud, Remote
      <4> QED
        BY <1>1, <2>1, <2>5, <2>6, <4>1, <4>2 DEF Quiet
    <3>5. /\ \A c \in Blocks \ {b} : SameAt(c)
          /\ GentleAt(h, b) /\ StatusI(b)'
          /\ \A g \in Files : GentleData(g)
      <4>1. Types /\ disk'.path = disk.path /\ disk'.data = disk.data /\ St(b)' = "CtoL" /\ Cnt(b)' = Cnt(b)
        BY <2>5, <2>6
      <4>2. \A c \in Blocks \ {b} : meta'.blk[c] = meta.blk[c]
        BY <2>5
      <4> QED
        BY ONLY <1>2, <1>3, <3>1, <3>4, <4>1, <4>2, MarkKeeps
    <3>6. ReqI(h)'
      <4>1. Own(b, f)' /\ Marked(b, f, n)' /\ disk'.flock[f] = h
        BY <2>5, <2>6, <2>n, <3>3 DEF Own, Marked, Path
      <4> QED
        BY <2>3, <3>2, <4>1 DEF ReqI
    <3>7. CachedI(h)'
      <4>1. (\A c \in Blocks : GentleAt(h, c)) /\ (h \in gh.loose => h \in gh'.loose)
        BY <2>1, <3>5, SameIsGentle
      <4> QED
        BY <2>8, <3>1, <3>2, <4>1, CachedKept
    <3>8. ReadI(h)'
      <4>1. u.ver <= gh.ver[b]
        BY <1>1, <1>b, <2>3, <3>1 DEF Core, ReadI
      <4> QED
        BY <2>1, <2>3, <3>2, <4>1 DEF ReadI
    <3>9. LockStep(h) /\ OpensSafely(h) /\ FillsSafely(h) /\ GentleInside(h)
      <4>1. ~Cached(f)
        BY <1>2, <1>3, <3>1, <3>3, NotCached
      <4>2. GentleInside(h)
        BY <1>1, <3>1 DEF GentleInside, Core, LockI, Inside
      <4> QED
        BY <1>1, <1>2, <2>3, <3>2, <4>1, <4>2, ConstantFacts DEF LockStep, OpensSafely, FillsSafely, Inside
    <3>10. CountI'
      <4>1. CountI /\ disk'.cache = disk.cache /\ dl' = dl
        BY <1>1, <2>6, <3>1 DEF Core
      <4>2. \A c \in Blocks : St(c)' \in Local <=> St(c) \in Local
        BY <1>3, <2>5 DEF St, Local, Remote
      <4> QED
        BY <4>1, <4>2, CountSame
    <3>11. \A g \in Files, q \in Procs \ {h} : disk.flock[g] = q => disk'.flock[g] = q
      BY <2>6, <2>7, ConstantFacts
    <3>12. \A g \in Handles \ {h} : g \in gh.loose => g \in gh'.loose
      BY <2>1
    <3> QED
      BY <2>8, <3>1, <3>2, <3>4, <3>5, <3>6, <3>7, <3>8, <3>9, <3>10, <3>11, <3>12, QuietByHandle
  <2> QED
    BY <2>8, <2>9
<1>4. CASE St(b) \notin Remote
  <2>M. PICK M : M = IF Path(b) = 0 THEN meta ELSE SetSt(meta, b, "LDISK")
    OBVIOUS
  <2>1. disk' = disk /\ OpenForWrite(h, M, disk, X(h), gh)
    BY <1>4, <1>b, <2>M DEF WriteFetchLock, St, Path
  <2>2. /\ M \in MetaSet /\ M.fin = meta.fin /\ M.inc = meta.inc
        /\ \A c \in Blocks : M.blk[c].cnt = Cnt(c)
    <3>1. meta \in MetaSet /\ "LDISK" \in Statuses
      BY DEF Types, Statuses, Local
    <3>2. /\ SetSt(meta, b, "LDISK") \in MetaSet /\ SetSt(meta, b, "LDISK").fin = meta.fin
          /\ SetSt(meta, b, "LDISK").inc = meta.inc
          /\ SetSt(meta, b, "LDISK").blk[b].cnt = meta.blk[b].cnt
          /\ \A c \in Blocks \ {b} : SetSt(meta, b, "LDISK").blk[c] = meta.blk[c]
      BY <1>2, <3>1, SetStIs
    <3> QED
      BY <2>M, <3>1, <3>2 DEF Cnt
  <2>3. PICK u \in ReqSet, y \in CachedSet :
          /\ Go(h, u, y) /\ ReqOK(u, y) /\ u.now <= meta.fin
          /\ meta' \in MetaSet /\ meta'.blk = M.blk /\ meta'.fin = M.fin
          /\ gh' \in GhSet /\ gh'.known = gh.known
    <3>1. Types /\ b = T(h).b /\ T(h).res = {} /\ disk \in DiskSet /\ gh \in GhSet
      BY <1>2, <1>b DEF Types
    <3> QED
      BY <1>2, <2>1, <2>2, <3>1, OpenForWriteIs
  <2>4. Types'
    <3>1. disk' \in DiskSet /\ left' \in LeftSet /\ SameCounters
      BY <1>1, <2>1, <2>2, <2>3 DEF Types, SameCounters, Cnt
    <3> QED
      BY <1>1, <2>2, <2>3, <3>1, TypesByQuietHandle
  <2>5. ~Clean'
    <3>1. Core => St(b) \in Remote
      BY <1>1, <1>b DEF Core, ReqI
    <3> QED
      BY <1>4, <2>3, <3>1 DEF Clean
  <2> QED
    BY <2>4, <2>5
<1> QED
  BY <1>3, <1>4

(* The transfer of the writer.                                             *)
LEMMA WriteFetchGetStep ==
  ASSUME BlockInv, NEW h \in Handles, WriteFetchGet(h)
  PROVE  BlockInv'
<1> USE DEF BlockInv
<1>b. PICK b : b = T(h).b
  OBVIOUS
<1>f. PICK f : f = T(h).f
  OBVIOUS
<1>n. PICK n : n = T(h).seq
  OBVIOUS
<1>u. PICK u : u = [T(h) EXCEPT !.pc = "wf_done"]
  OBVIOUS
<1>k. PICK ok \in BOOLEAN : ok = TRUE
  OBVIOUS
<1>1. /\ T(h).pc = "wf_get" /\ fetch_from_cloud(b, n, ok) /\ Go(h, u, X(h))
      /\ disk' = Fetched(b, n, f, ok)
      /\ meta' = meta /\ cloud' = cloud /\ dl' = dl /\ up' = up /\ gh' = gh
  BY <1>b, <1>f, <1>k, <1>n, <1>u DEF WriteFetchGet, At, T
<1>2. /\ T(h) \in ReqSet /\ X(h) \in CachedSet /\ ReqOK(T(h), X(h)) /\ b \in Blocks
      /\ f \in Files /\ n \in 0..MaxSeq /\ T(h).now <= meta.fin /\ T(h).res = {} /\ T(h).op \in {"w", "cut"}
  BY <1>1, <1>b, <1>f, <1>n, HandleIs DEF ReqOK, WFile
<1>3. /\ u \in ReqSet /\ u.pc = "wf_done" /\ u.b = b /\ u.f = f /\ u.seq = n /\ u.now = T(h).now /\ u.res = {}
      /\ u.ver = T(h).ver /\ u.op = T(h).op
  <2>1. "wf_done" \in ReqPCs
    BY DEF ReqPCs, WFile
  <2> QED
    BY <1>2, <1>b, <1>f, <1>n, <1>u, <2>1, MovedIs
<1>4. ReqOK(u, X(h))
  BY <1>2, <1>3, ConstantFacts DEF ReqOK, RFile, WFile
<1>5. /\ left' \in LeftSet /\ left'.mod = left.mod /\ left'.page = left.page
      /\ disk' \in DiskSet /\ disk'.path = disk.path /\ disk'.flock = disk.flock /\ disk'.to = disk.to
      /\ disk'.cache = disk.cache /\ disk'.data[f] = cloud.obj[b][n]
      /\ \A g \in Files \ {f} : disk'.data[g] = disk.data[g]
  <2>1. /\ left' \in LeftSet /\ left'.mod = left.mod /\ left'.page = left.page
        /\ disk' \in DiskSet /\ disk'.path = disk.path /\ disk'.flock = disk.flock /\ disk'.to = disk.to
        /\ disk'.cache = disk.cache
        /\ ok => disk'.data[f] = cloud.obj[b][n]
        /\ \A g \in Files \ {f} : disk'.data[g] = disk.data[g]
    BY <1>1, <1>2, FetchIs
  <2> QED
    BY <1>k, <2>1
<1>6. Types'
  <2>1. meta' \in MetaSet /\ gh' \in GhSet /\ SameCounters
    BY <1>1, <1>5 DEF Types, SameCounters, Cnt
  <2> QED
    BY <1>1, <1>2, <1>3, <1>4, <1>5, <2>1, TypesByQuietHandle
<1>7. ASSUME Clean' PROVE Core'
  <2>1. Core
    BY <1>1, <1>7 DEF Clean
  <2>2. T(h)' = u /\ X(h)' = X(h) /\ Others(h)
    BY <1>1, <1>2, <1>3, GoIs DEF Types, Others
  <2>3. Own(b, f) /\ Marked(b, f, n) /\ disk.flock[f] = h
    BY <1>1, <1>b, <1>f, <1>n, <2>1 DEF Core, ReqI, WFile
  <2>4. ~Cached(f)
    BY <1>1, <1>f, <2>1 DEF Core, NoReader, Cached
  <2>5. Quiet
    <3>1. \A c \in Blocks : Writing(c)' <=> Writing(c)
      BY <1>1, <1>3, <2>2 DEF Writing, Others
    <3> QED
      BY <1>1, <1>5, <3>1 DEF Quiet, Num, St
  <2>6. /\ \A c \in Blocks \ {b} : SameAt(c)
        /\ GentleAt(h, b) /\ StatusI(b)'
        /\ \A g \in Files : GentleData(g)
        /\ Own(b, f)' /\ Marked(b, f, n)'
        /\ disk'.data[f] = cloud.obj[b][n] => Got(b, f)'
    <3>1. Types /\ meta' = meta /\ disk'.path = disk.path
      BY <1>1, <1>5
    <3>2. \A g \in Files \ {f} : disk'.data[g] = disk.data[g]
      BY <1>5
    <3> QED
      BY ONLY <1>2, <2>1, <2>3, <2>4, <2>5, <3>1, <3>2, FillKeeps, SMTT(30)
  <2>7. ReqI(h)'
    <3>1. Got(b, f)' /\ disk'.flock[f] = h
      BY <1>5, <2>3, <2>6
    <3> QED
      BY <1>3, <2>2, <2>6, <3>1 DEF ReqI
  <2>8. CachedI(h)'
    BY <1>1, <1>5, <2>1, <2>2, SameCached DEF Core
  <2>9. ReadI(h)'
    <3>1. T(h).ver <= gh.ver[b]
      BY <1>1, <1>b, <2>1 DEF Core, ReadI
    <3> QED
      BY <1>1, <1>3, <2>2, <3>1 DEF ReadI
  <2>10. LockStep(h) /\ OpensSafely(h) /\ FillsSafely(h) /\ GentleInside(h)
    <3>1. GentleInside(h)
      BY <1>1, <1>5 DEF GentleInside, St, Path
    <3> QED
      BY <1>1, <1>2, <1>3, <2>2, <2>4, <3>1, ConstantFacts DEF LockStep, OpensSafely, FillsSafely, Inside
  <2>11. CountI'
    <3>1. CountI /\ (\A c \in Blocks : St(c)' = St(c)) /\ disk'.cache = disk.cache /\ dl' = dl
      BY <1>1, <1>5, <2>1 DEF Core, St
    <3> QED
      BY <3>1, CountSame
  <2>12. /\ \A g \in Files, q \in Procs \ {h} : disk.flock[g] = q => disk'.flock[g] = q
         /\ \A g \in Handles \ {h} : g \in gh.loose => g \in gh'.loose
    BY <1>1, <1>5
  <2> QED
    BY <1>6, <2>1, <2>2, <2>5, <2>6, <2>7, <2>8, <2>9, <2>10, <2>11, <2>12, QuietByHandle
<1> QED
  BY <1>6, <1>7

(* A failed transfer of the writer: the lock is given up a second time.    *)
LEMMA WriteFetchFailStep ==
  ASSUME BlockInv, NEW h \in Handles, WriteFetchFail(h)
  PROVE  BlockInv'
<1> USE DEF BlockInv
<1>b. PICK b : b = T(h).b
  OBVIOUS
<1>f. PICK f : f = T(h).f
  OBVIOUS
<1>n. PICK n : n = T(h).seq
  OBVIOUS
<1>k. PICK ok \in BOOLEAN : ok = FALSE
  OBVIOUS
<1>D. PICK D : D = Fetched(b, n, f, ok)
  OBVIOUS
<1>1. /\ T(h).pc = "wf_get" /\ fetch_from_cloud(b, n, ok) /\ Go(h, IdleTh, X(h))
      /\ disk' = Funlock(D, h) /\ meta' = Unlock(meta) /\ gh' = Met("unlock", ~MetaFree)
      /\ cloud' = cloud /\ dl' = dl /\ up' = up
  BY <1>b, <1>f, <1>k, <1>n, <1>D DEF WriteFetchFail, UnlockAgain, At, T
<1>2. X(h) \in CachedSet /\ ReqOK(T(h), X(h)) /\ b \in Blocks /\ f \in Files /\ n \in 0..MaxSeq
  BY <1>1, <1>b, <1>f, <1>n, HandleIs DEF ReqOK, WFile
<1>3. /\ IdleTh \in ReqSet /\ IdleTh.pc = "idle" /\ IdleTh.now = 0 /\ ReqOK(IdleTh, X(h)) /\ 0 <= meta.fin
  <2>1. meta.fin \in Nat
    BY NumbersAre
  <2> QED
    BY <1>2, <2>1, IdleIs, ConstantFacts DEF ReqOK, RFile, WFile
<1>4. /\ meta' \in MetaSet /\ meta'.lock = 1 /\ meta'.blk = meta.blk /\ meta'.fin = meta.fin
      /\ meta'.inc = meta.inc
  BY <1>1, LockIs DEF Types
<1>5. /\ left' \in LeftSet /\ left'.mod = left.mod /\ left'.page = left.page
      /\ D \in DiskSet /\ D.path = disk.path /\ D.flock = disk.flock /\ D.to = disk.to
      /\ D.cache = disk.cache
      /\ \A g \in Files \ {f} : D.data[g] = disk.data[g]
  BY <1>1, <1>2, <1>D, <1>k, FetchIs
<1>6. /\ disk' \in DiskSet /\ disk'.path = disk.path /\ disk'.to = disk.to
      /\ disk'.cache = disk.cache
      /\ \A g \in Files \ {f} : disk'.data[g] = disk.data[g]
      /\ \A g \in Files : disk.flock[g] # h => disk'.flock[g] = disk.flock[g]
  <2>1. /\ Funlock(D, h) \in DiskSet
        /\ Funlock(D, h).path = D.path /\ Funlock(D, h).data = D.data
        /\ Funlock(D, h).to = D.to /\ Funlock(D, h).cache = D.cache
        /\ \A g \in Files : D.flock[g] # h => Funlock(D, h).flock[g] = D.flock[g]
    BY <1>5, FunlockIs, ConstantFacts
  <2> QED
    BY <1>1, <1>5, <2>1
<1>7. /\ gh' \in GhSet /\ SameHistory(gh') /\ gh'.loose = gh.loose
      /\ gh'.known = {} => gh.known = {} /\ MetaFree
  BY <1>1, MetIs DEF Types, Hazards
<1>8. Types'
  <2>1. SameCounters
    BY <1>4, <1>5 DEF SameCounters, Cnt
  <2> QED
    BY <1>1, <1>2, <1>3, <1>4, <1>5, <1>6, <1>7, <2>1, TypesByQuietHandle
<1>9. ASSUME Clean' PROVE Core'
  <2>1. Core /\ MetaFree
    BY <1>7, <1>9 DEF Clean
  <2>2. T(h)' = IdleTh /\ X(h)' = X(h) /\ Others(h)
    BY <1>1, <1>2, <1>3, GoIs DEF Types, Others
  <2>3. Own(b, f) /\ Marked(b, f, n) /\ disk.flock[f] = h
    BY <1>1, <1>b, <1>f, <1>n, <2>1 DEF Core, ReqI, WFile
  <2>4. ~Cached(f)
    BY <1>1, <1>f, <2>1 DEF Core, NoReader, Cached
  <2>5. Quiet
    <3>1. \A c \in Blocks : Writing(c)' <=> Writing(c)
      BY <1>1, <1>3, <2>2 DEF Writing, Others
    <3> QED
      BY <1>1, <1>4, <1>6, <1>7, <3>1 DEF Quiet, Num, St, SameHistory
  <2>6. meta' = meta
    BY <1>1, <2>1 DEF Unlock, MetaFree, Types, MetaSet
  <2>7. /\ \A c \in Blocks \ {b} : SameAt(c)
        /\ GentleAt(h, b) /\ StatusI(b)'
        /\ \A g \in Files : GentleData(g)
    <3>1. Types /\ disk'.path = disk.path
      BY <1>6
    <3>2. \A g \in Files \ {f} : disk'.data[g] = disk.data[g]
      BY <1>6
    <3> QED
      BY ONLY <1>2, <2>1, <2>3, <2>4, <2>5, <2>6, <3>1, <3>2, FillKeeps
  <2>8. ReqI(h)' /\ ReadI(h)'
    BY <2>2, IdleRequest
  <2>9. CachedI(h)'
    BY <1>4, <1>6, <1>7, <2>1, <2>2, SameCached DEF Core
  <2>10. LockStep(h) /\ OpensSafely(h) /\ FillsSafely(h) /\ GentleInside(h)
    <3>1. GentleInside(h)
      BY <2>1, FreeInside
    <3> QED
      BY <1>2, <1>3, <1>4, <2>1, <2>2, <3>1, ConstantFacts
         DEF LockStep, OpensSafely, FillsSafely, Inside, MetaFree
  <2>11. CountI'
    <3>1. CountI /\ (\A c \in Blocks : St(c)' = St(c)) /\ disk'.cache = disk.cache /\ dl' = dl
      BY <1>1, <1>4, <1>6, <2>1 DEF Core, St
    <3> QED
      BY <3>1, CountSame
  <2>12. /\ \A g \in Files, q \in Procs \ {h} : disk.flock[g] = q => disk'.flock[g] = q
         /\ \A g \in Handles \ {h} : g \in gh.loose => g \in gh'.loose
    BY <1>6, <1>7
  <2> QED
    BY <1>8, <2>1, <2>2, <2>5, <2>7, <2>8, <2>9, <2>10, <2>11, <2>12, QuietByHandle
<1> QED
  BY <1>8, <1>9

(* A block that is still to be uploaded has its copy.                      *)
CopyMade(b) ==
  /\ up.pc = "idle" => disk'.to[b] = disk.to[b]
  /\ Active /\ up.snap[b].st \in Dirty /\ b \in up.todo /\ ~up.snap[b].fin => disk'.to[b] = gh.snap[b]

(* It has had one before if it is not dirty, or being written.             *)
LEMMA CopyThere ==
  ASSUME Types, Core, NEW b \in Blocks, disk'.to[b] = disk.to[b], St(b) \notin Dirty \/ Writing(b)
  PROVE  CopyMade(b)
<1>1. CopyI(b)
  BY DEF Core, UpI
<1> QED
  BY <1>1 DEF CopyI, CopyMade

(* meta_cache_check_uploading touches nothing but the copy.                *)
LEMMA CheckUploadingIs ==
  ASSUME NEW D \in DiskSet, NEW b \in Blocks, NEW n, NEW E, E = meta_cache_check_uploading(D, b, n)
  PROVE  /\ E \in DiskSet /\ E.path = D.path /\ E.flock = D.flock /\ E.data = D.data /\ E.cache = D.cache
         /\ \A c \in Blocks \ {b} : E.to[c] = D.to[c]
<1>1. CASE MustCopy(b, n)
  <2>1. E = check_and_copy_file(D, b)
    BY <1>1 DEF meta_cache_check_uploading
  <2> QED
    BY <2>1, CheckCopyIs
<1>2. CASE ~MustCopy(b, n)
  BY <1>2 DEF meta_cache_check_uploading
<1> QED
  BY <1>1, <1>2

(* After meta_cache_check_uploading there is a copy.                       *)
LEMMA CopyChecked ==
  ASSUME Types, Core, NEW b \in Blocks, NEW n, n = Num(b) \/ (up.pc # "idle" => n <= up.cur),
         NEW E, E = meta_cache_check_uploading(disk, b, n), disk'.to[b] = E.to[b]
  PROVE  CopyMade(b)
<1>1. CopyI(b) /\ StatusI(b)
  BY DEF Core, UpI
<1>2. ASSUME up.pc = "idle" PROVE disk'.to[b] = disk.to[b]
  BY <1>2 DEF meta_cache_check_uploading, MustCopy
<1>3. ASSUME Active, up.snap[b].st \in Dirty, b \in up.todo, ~up.snap[b].fin
      PROVE  disk'.to[b] = gh.snap[b]
  <2>1. up.pc # "idle"
    BY <1>3 DEF Active, Sending
  <2>2. ShotI(b)
    BY <2>1 DEF Core, UpI
  <2>3. up.snap[b].seq <= up.cur /\ gh.snap[b] # {}
    BY <1>3, <2>2 DEF ShotI, Dirty, Gone
  <2>4. disk \in DiskSet /\ gh.snap[b] \in Marks
    BY DEF Types, GhSet
  <2>5. CASE disk.to[b] = Absent
    <3>1. St(b) \in Dirty /\ Num(b) = up.snap[b].seq /\ gh.cur[b] = gh.snap[b]
      BY <1>1, <1>3, <2>5 DEF CopyI
    <3>2. MustCopy(b, n)
      BY <1>3, <2>1, <2>3, <3>1 DEF MustCopy, Num, block_finish_uploading
    <3>3. E = check_and_copy_file(disk, b)
      BY <3>2 DEF meta_cache_check_uploading
    <3>4. Path(b) # 0 /\ disk.data[disk.path[b]] = gh.cur[b]
      BY <1>1, <3>1 DEF StatusI, Dirty, Local, Data, Path
    <3>5. disk.to[b] \in {Absent, {}} /\ disk.path[b] # 0
      BY <2>5, <3>4 DEF Path
    <3>6. E.to[b] = disk.data[disk.path[b]]
      BY <2>4, <3>3, <3>5, CheckCopyIs
    <3> QED
      BY <3>1, <3>4, <3>6
  <2>6. CASE disk.to[b] # Absent
    <3>1. disk.to[b] = gh.snap[b] /\ disk.to[b] \notin {Absent, {}}
      BY <1>1, <1>3, <2>3, <2>6 DEF CopyI
    <3>2. CASE MustCopy(b, n)
      <4>1. E = check_and_copy_file(disk, b)
        BY <3>2 DEF meta_cache_check_uploading
      <4>2. E.to[b] = disk.to[b]
        BY <2>4, <3>1, <4>1, CheckCopyIs
      <4> QED
        BY <3>1, <4>2
    <3>3. CASE ~MustCopy(b, n)
      BY <3>1, <3>3 DEF meta_cache_check_uploading
    <3> QED
      BY <3>2, <3>3
  <2> QED
    BY <2>5, <2>6
<1> QED
  BY <1>2, <1>3 DEF CopyMade

(* A copy that is made early does no harm to the upload.                    *)
LEMMA CopyKept ==
  ASSUME Types, Core, cloud' = cloud, up' = up, FinStep, NEW b \in Blocks, NEW n,
         NEW E, E = meta_cache_check_uploading(disk, b, n), disk'.to[b] = E.to[b],
         Num(b)' = Num(b), Writing(b)' <=> Writing(b), St(b)' = St(b),
         gh'.cur[b] = gh.cur[b], gh'.snap[b] = gh.snap[b], gh'.cloud[b] = gh.cloud[b]
  PROVE  UpI(b)'
<1>1. UpI(b) /\ StatusI(b)
  BY DEF Core
<1>2. up.pc = "idle" => disk'.to[b] = disk.to[b]
  BY DEF meta_cache_check_uploading, MustCopy
<1>3. ASSUME Active, up.snap[b].st \in Dirty, b \in up.todo, ~up.snap[b].fin
      PROVE  disk'.to[b] \in {disk.to[b], gh.snap[b]} /\ gh.snap[b] # Absent
  <2>1. up.pc # "idle"
    BY <1>3 DEF Active, Sending
  <2>2. ShotI(b) /\ CopyI(b)
    BY <1>1, <2>1 DEF UpI
  <2>3. gh.snap[b] # {}
    BY <1>3, <2>2 DEF ShotI, Dirty, Gone
  <2>4. disk \in DiskSet /\ gh.snap[b] \in Marks
    BY DEF Types, GhSet
  <2>5. gh.snap[b] # Absent
    BY <2>4, ConstantFacts
  <2>6. CASE ~MustCopy(b, n)
    BY <2>5, <2>6 DEF meta_cache_check_uploading
  <2>7. CASE MustCopy(b, n) /\ disk.to[b] = Absent
    <3>1. St(b) \in Dirty /\ gh.cur[b] = gh.snap[b]
      BY <1>3, <2>2, <2>7 DEF CopyI
    <3>2. disk.path[b] # 0 /\ disk.data[disk.path[b]] = gh.cur[b]
      BY <1>1, <3>1 DEF StatusI, Dirty, Local, Data, Path
    <3>3. E = check_and_copy_file(disk, b) /\ disk.to[b] \in {Absent, {}}
      BY <2>7 DEF meta_cache_check_uploading
    <3>4. E.to[b] = disk.data[disk.path[b]]
      BY <2>4, <3>2, <3>3, CheckCopyIs
    <3> QED
      BY <2>5, <3>1, <3>2, <3>4
  <2>8. CASE MustCopy(b, n) /\ disk.to[b] # Absent
    <3>1. disk.to[b] \notin {Absent, {}}
      BY <1>3, <2>2, <2>3, <2>8 DEF CopyI
    <3>2. E = check_and_copy_file(disk, b)
      BY <2>8 DEF meta_cache_check_uploading
    <3>3. E.to[b] = disk.to[b]
      BY <2>4, <3>1, <3>2, CheckCopyIs
    <3> QED
      BY <2>5, <3>3
  <2> QED
    BY <2>6, <2>7, <2>8
<1>4. up.pc # "idle" => ShotI(b)' /\ SeqI(b)'
  BY <1>1 DEF UpI, ShotI, SeqI, Active, SendsIn
<1>5. CopyI(b)'
  BY <1>1, <1>3 DEF UpI, CopyI, Active, SendsIn
<1>6. StoredI(b)' /\ LaterI(b)'
  BY <1>1 DEF UpI, StoredI, LaterI, Active, SendsIn
<1>7. CloudI(b)'
  <2>1. cloud'.meta[b].seq <= meta'.fin /\ (~meta'.inc => cloud'.meta[b].seq < meta'.fin)
    BY CloudFin
  <2> QED
    BY <1>1, <1>2, <2>1 DEF UpI, CloudI, Active
<1> QED
  BY <1>4, <1>5, <1>6, <1>7 DEF UpI

(* The invariant when a step of handle h does no more than such a copy.    *)
LEMMA CopiesOnly ==
  ASSUME Types, Types', Core, NEW h \in Handles, Others(h), NEW b \in Blocks, NEW n,
         disk' = meta_cache_check_uploading(disk, b, n),
         meta'.blk = meta.blk, meta'.fin = meta.fin, meta'.inc = meta.inc,
         cloud' = cloud, up' = up, gh' = gh, X(h)' = X(h),
         T(h).pc # "w_lock", T(h)'.pc \notin {"w_lock"} \cup RFile \cup WFile,
         LockStep(h), ReqI(h)', ReadI(h)'
  PROVE  Core'
<1>E. PICK E : E = meta_cache_check_uploading(disk, b, n)
  OBVIOUS
<1>1. /\ E.path = disk.path /\ E.flock = disk.flock /\ E.data = disk.data /\ E.cache = disk.cache
      /\ \A c \in Blocks \ {b} : E.to[c] = disk.to[c]
  <2>1. disk \in DiskSet
    BY DEF Types
  <2> QED
    BY <1>E, <2>1, CheckUploadingIs
<1>2. /\ disk'.path = disk.path /\ disk'.flock = disk.flock /\ disk'.data = disk.data
      /\ disk'.cache = disk.cache /\ disk'.to[b] = E.to[b]
      /\ \A c \in Blocks \ {b} : disk'.to[c] = disk.to[c]
  BY <1>1, <1>E
<1>3. FinStep
  BY DEF FinStep
<1>4. \A c \in Blocks : SameAt(c) /\ (Writing(c)' <=> Writing(c)) /\ St(c)' = St(c) /\ Num(c)' = Num(c)
  BY <1>2 DEF SameAt, Path, St, Num, Writing, Others
<1>5. \A c \in Blocks \ {b} : QuietAt(c)
  BY <1>2, <1>4 DEF QuietAt
<1>6. UpI(b)'
  BY <1>2, <1>3, <1>4, <1>E, CopyKept
<1>7. \A c \in Blocks : GentleAt(h, c) /\ StatusI(c)' /\ UpI(c)' /\ Path(c)' = Path(c)
  BY <1>3, <1>4, <1>5, <1>6, SameIsGentle, StatusKept, UploadKept DEF SameAt
<1>8. NumbersI'
  BY <1>3, NumbersKept
<1>9. CachedI(h)'
  BY <1>2, SameCached DEF Core
<1>10. OpensSafely(h) /\ FillsSafely(h) /\ GentleInside(h)
  BY <1>4, <1>7 DEF OpensSafely, FillsSafely, GentleInside, RFile, WFile
<1>11. CountI'
  <2>1. CountI /\ dl' = dl
    BY DEF Core, Others
  <2> QED
    BY <1>2, <1>4, <2>1, CountSame
<1>12. /\ \A f \in Files : GentleData(f)
       /\ \A f \in Files, q \in Procs \ {h} : disk.flock[f] = q => disk'.flock[f] = q
       /\ \A g \in Handles \ {h} : g \in gh.loose => g \in gh'.loose
  BY <1>2 DEF GentleData
<1> QED
  BY <1>7, <1>8, <1>9, <1>10, <1>11, <1>12, ByHandle

(* The wait for room for a copy is over.                                   *)
LEMMA CopyAgainStep ==
  ASSUME BlockInv, NEW h \in Handles, CopyAgain(h)
  PROVE  BlockInv'
<1> USE DEF BlockInv
<1>b. PICK b : b = T(h).b
  OBVIOUS
<1>n. PICK n : n = T(h).seq
  OBVIOUS
<1>p. PICK pc : pc = IF T(h).op = "w" THEN "again" ELSE "del"
  OBVIOUS
<1>u. PICK u : u = [T(h) EXCEPT !.pc = pc]
  OBVIOUS
<1>1. /\ T(h).pc = "copy" /\ T(h).op \in {"w", "del"} /\ MetaFree /\ Go(h, u, X(h)) /\ meta' = Lock(meta)
      /\ disk' = meta_cache_check_uploading(disk, b, n)
      /\ cloud' = cloud /\ dl' = dl /\ up' = up /\ gh' = gh /\ left' = left
  BY <1>b, <1>n, <1>p, <1>u DEF CopyAgain, At, T
<1>2. /\ T(h) \in ReqSet /\ X(h) \in CachedSet /\ b \in Blocks /\ T(h).f = 0 /\ ReqOK(T(h), X(h))
      /\ T(h).now <= meta.fin /\ T(h).res = {}
  BY <1>1, <1>b, HandleIs DEF ReqOK, RFile, WFile
<1>3. /\ u \in ReqSet /\ u.pc = pc /\ u.op = T(h).op /\ u.b = b /\ u.f = 0 /\ u.now = T(h).now
      /\ u.res = {} /\ u.ver = T(h).ver /\ pc \in {"again", "del"}
  <2>1. pc \in ReqPCs /\ pc \in {"again", "del"}
    BY <1>p DEF ReqPCs, Inside
  <2> QED
    BY <1>2, <1>b, <1>u, <2>1, MovedIs
<1>4. ReqOK(u, X(h))
  BY <1>1, <1>2, <1>3, <1>p, ConstantFacts DEF ReqOK, RFile, WFile
<1>5. /\ meta' \in MetaSet /\ meta'.lock = 0 /\ meta'.blk = meta.blk /\ meta'.fin = meta.fin
      /\ meta'.inc = meta.inc
  BY <1>1, LockIs DEF Types
<1>6. Types'
  <2>1. gh' \in GhSet /\ left' \in LeftSet /\ SameCounters /\ disk \in DiskSet
    BY <1>1, <1>5 DEF Types, SameCounters, Cnt
  <2>E. PICK E : E = meta_cache_check_uploading(disk, b, n)
    OBVIOUS
  <2>2. E \in DiskSet
    BY <1>2, <2>1, <2>E, CheckUploadingIs
  <2>3. disk' \in DiskSet
    BY <1>1, <2>2, <2>E
  <2> QED
    BY <1>1, <1>2, <1>3, <1>4, <1>5, <2>1, <2>3, TypesByQuietHandle
<1>7. ASSUME Clean' PROVE Core'
  <2>1. Core
    BY <1>1, <1>7 DEF Clean
  <2>2. T(h)' = u /\ X(h)' = X(h) /\ Others(h)
    BY <1>1, <1>2, <1>3, GoIs DEF Types, Others
  <2>3. ReqI(h)'
    BY <1>3, <2>2 DEF ReqI, RFile, WFile
  <2>4. ReadI(h)'
    <3>1. T(h).ver <= gh.ver[b]
      BY <1>1, <1>b, <2>1 DEF Core, ReadI
    <3> QED
      BY <1>1, <1>3, <2>2, <3>1 DEF ReadI
  <2>5. LockStep(h)
    BY <1>1, <1>5 DEF LockStep, MetaFree
  <2>6. T(h).pc # "w_lock" /\ T(h)'.pc \notin {"w_lock"} \cup RFile \cup WFile
    BY <1>1, <1>3, <2>2 DEF RFile, WFile
  <2> QED
    BY <1>1, <1>2, <1>5, <1>6, <2>1, <2>2, <2>3, <2>4, <2>5, <2>6, CopiesOnly
<1> QED
  BY <1>6, <1>7

(* A truncation within a block whose file is gone: the copy, and no more.  *)
LEMMA CutNothingStep ==
  ASSUME BlockInv, NEW h \in Handles, NEW b \in Blocks,
         T(h).pc = "cut" \/ (T(h).pc = "copy" /\ MetaFree), NEW n,
         disk' = meta_cache_check_uploading(disk, b, n), Leave(h, meta), gh' = gh,
         cloud' = cloud, dl' = dl, up' = up, left' = left
  PROVE  BlockInv'
<1> USE DEF BlockInv
<1>1. meta' = Unlock(meta) /\ Go(h, IdleTh, X(h))
  BY DEF Leave
<1>2. X(h) \in CachedSet /\ ReqOK(T(h), X(h))
  BY HandleIs
<1>3. /\ meta' \in MetaSet /\ meta'.lock = 1 /\ meta'.blk = meta.blk /\ meta'.fin = meta.fin
      /\ meta'.inc = meta.inc
  BY <1>1, LockIs DEF Types
<1>4. Types'
  <2>1. gh' \in GhSet /\ left' \in LeftSet /\ SameCounters /\ disk \in DiskSet
    BY <1>3 DEF Types, SameCounters, Cnt
  <2>E. PICK E : E = meta_cache_check_uploading(disk, b, n)
    OBVIOUS
  <2>2. E \in DiskSet
    BY <2>1, <2>E, CheckUploadingIs
  <2>3. disk' \in DiskSet
    BY <2>2, <2>E
  <2>4. IdleTh \in ReqSet /\ IdleTh.now <= meta.fin
    BY IdleIs, NumbersAre
  <2>5. ReqOK(IdleTh, X(h))
    BY <1>2, IdleIs, ConstantFacts DEF ReqOK, RFile, WFile
  <2> QED
    BY <1>1, <1>2, <1>3, <2>1, <2>3, <2>4, <2>5, TypesByQuietHandle
<1>5. ASSUME Clean' PROVE Core'
  <2>1. Core
    BY <1>5 DEF Clean
  <2>2. T(h)' = IdleTh /\ X(h)' = X(h) /\ Others(h)
    BY <1>1, <1>2, IdleIs, GoIs DEF Types, Others
  <2>3. ReqI(h)' /\ ReadI(h)'
    BY <2>2, IdleRequest
  <2>4. LockStep(h)
    BY <1>3, <2>2, IdleIs DEF LockStep, Inside, MetaFree
  <2>5. T(h).pc # "w_lock" /\ T(h)'.pc \notin {"w_lock"} \cup RFile \cup WFile
    BY <2>2, IdleIs DEF RFile, WFile
  <2> QED
    BY <1>3, <1>4, <2>1, <2>2, <2>3, <2>4, <2>5, CopiesOnly
<1> QED
  BY <1>4, <1>5

(* What the invariant says of the upload of a block that changes.          *)
LEMMA ChangedUpload ==
  ASSUME Types, Types', Core, cloud' = cloud, up' = up, FinStep, NEW b \in Blocks, CopyMade(b),
         gh'.snap[b] = gh.snap[b], gh'.cloud[b] = gh.cloud[b],
         \/ Writing(b)'
         \/ St(b)' \in Gone
         \/ St(b)' = "LDISK" /\ Num(b)' = meta'.fin /\ ~meta'.inc
  PROVE  UpI(b)'
<1>1. UpI(b)
  BY DEF Core
<1>2. /\ meta'.fin \in Nat /\ up.cur \in Nat /\ cloud.meta[b].seq \in Nat /\ up.snap[b].seq \in Nat
      /\ gh.snap[b] \in Marks
  <2>1. meta'.fin \in 0..MaxSeq
    BY DEF Types, MetaSet
  <2> QED
    BY <2>1, NumbersAre DEF Types, GhSet
<1>3. gh.snap[b] # Absent
  BY <1>2, ConstantFacts
<1>4. cloud.meta[b].seq <= meta'.fin /\ (~meta'.inc => cloud.meta[b].seq < meta'.fin)
  BY CloudFin
<1>5. up.pc # "idle" => (~meta'.inc => meta'.fin > up.cur)
  BY NumbersKept DEF NumbersI
<1>6. up.pc # "idle" => ShotI(b) /\ ShotI(b)'
  BY <1>1 DEF UpI, ShotI, Active, SendsIn
<1>7. up.pc # "idle" => SeqI(b)'
  BY <1>5 DEF SeqI, Gone
<1>8. CopyI(b)'
  <2>1. ASSUME Active, up.snap[b].st \in Dirty, b \in up.todo
        PROVE  /\ ~up.snap[b].fin => disk'.to[b] = gh.snap[b]
               /\ ~(St(b)' \notin Gone /\ ~Writing(b)' /\ Num(b)' = up.snap[b].seq)
    <3>1. up.pc # "idle"
      BY <2>1 DEF Active, Sending
    <3>2. up.snap[b].seq <= up.cur
      BY <1>6, <3>1 DEF ShotI
    <3>3. ~meta'.inc => up.snap[b].seq # meta'.fin
      BY <1>2, <1>5, <3>1, <3>2
    <3> QED
      BY <2>1, <3>3 DEF CopyMade, Gone
  <2> QED
    BY <1>3, <2>1 DEF CopyI, Active
<1>9. StoredI(b)'
  BY <1>1 DEF UpI, StoredI, Active, SendsIn
<1>10. LaterI(b)'
  <2>1. Active => up.pc # "idle"
    BY DEF Active, Sending
  <2> QED
    BY <1>5, <2>1 DEF LaterI, Active, Dirty, Gone
<1>11. CloudI(b)'
  <2>1. CloudI(b)
    BY <1>1 DEF UpI
  <2>2. St(b)' \in Dirty /\ ~Writing(b)' => cloud.meta[b].seq # Num(b)'
    BY <1>2, <1>4 DEF Dirty, Gone
  <2> QED
    BY <1>4, <2>1, <2>2 DEF CloudI, CopyMade, Active
<1> QED
  BY <1>6, <1>7, <1>8, <1>9, <1>10, <1>11 DEF UpI

(* The invariant when handle h has opened block b for a write.             *)
LEMMA OpensBlock ==
  ASSUME Types, Types', Core, NEW h \in Handles, NEW b \in Blocks, Others(h),
         T(h).pc # "w_lock", T(h).pc # "idle", T(h).b = b,
         T(h)'.pc = "w_lock", T(h)'.b = b, T(h)'.f = 0, T(h)'.ver = T(h).ver,
         X(h)'.open = b, X(h)'.file = Path(b)', h \notin gh'.loose => X(h)'.cnt <= Cnt(b),
         cloud' = cloud, up' = up, meta'.fin = meta.fin, meta'.inc = meta.inc, SameHistory(gh'),
         \A c \in Blocks \ {b} : SameAt(c) /\ disk'.to[c] = disk.to[c],
         St(b)' = "LDISK", Num(b)' = Num(b), Cnt(b)' = Cnt(b), CopyMade(b),
         Path(b)' # 0, disk'.data[Path(b)'] = gh.cur[b],
         Path(b) # 0 => Path(b)' = Path(b) /\ disk'.data[Path(b)] = disk.data[Path(b)],
         Path(b) = 0 => Path(b)' \notin Used,
         \A f \in Files \ {Path(b)'} : disk'.data[f] = disk.data[f],
         St(b) # "CtoL" \/ disk.flock[Path(b)] = h, ~Filling(h, Path(b)'),
         \A f \in Files, q \in Procs \ {h} : disk.flock[f] = q => disk'.flock[f] = q,
         \A g \in Handles \ {h} : g \in gh.loose => g \in gh'.loose,
         GentleInside(h), LockStep(h), CountI'
  PROVE  Core'
<1>1. FinStep
  BY DEF FinStep
<1>2. \A c \in Blocks \ {b} : Writing(c)' <=> Writing(c)
  BY DEF Writing, Others
<1>3. Writing(b)'
  BY DEF Writing
<1>4. \A c \in Blocks \ {b} : QuietAt(c)
  BY <1>2 DEF QuietAt, SameAt, SameHistory, St, Num
<1>5. UpI(b)'
  <2>1. gh'.snap[b] = gh.snap[b] /\ gh'.cloud[b] = gh.cloud[b]
    BY DEF SameHistory
  <2> QED
    BY <1>1, <1>3, <2>1, ChangedUpload
<1>6. \A c \in Blocks \ {b} : UpI(c)' /\ StatusI(c)'
  BY <1>1, <1>2, <1>4, UploadKept, StatusKept
<1>7. StatusI(b)'
  <2>1. Num(b) <= meta.fin
    BY DEF Core, StatusI
  <2> QED
    BY <1>3, <2>1 DEF StatusI, SameHistory, Local, Remote, Gone, Data
<1>8. GentleAt(h, b)
  <2>1. \A g \in Handles : X(g).open = b => X(g).file # 0
    BY ConstantFacts DEF Types, ReqOK
  <2> QED
    BY <2>1 DEF GentleAt, KeepsPath, KeepsVersion, KeepsDownload, KeepsCached, KeepsRead, SameHistory, Remote
<1>9. \A f \in Files : GentleData(f)
  <2>1. CASE Path(b) # 0
    BY <2>1 DEF GentleData
  <2>2. CASE Path(b) = 0
    <3>1. ~Cached(Path(b)')
      BY <2>2 DEF Cached, Used, X
    <3> QED
      BY <3>1, FillGentle
  <2> QED
    BY <2>1, <2>2
<1>10. \A c \in Blocks \ {b} : Path(c)' = Path(c)
  BY DEF SameAt
<1>11. ReqI(h)'
  BY DEF ReqI, RFile, WFile
<1>12. CachedI(h)'
  <2>p. PICK p : p = Path(b)'
    OBVIOUS
  <2>1. Own(b, p)'
    <3> SUFFICES ASSUME NEW c \in Blocks, Path(c)' = p PROVE c = b
      BY DEF Own
    <3>1. PathsI
      BY DEF Core
    <3> QED
      BY <1>10, <2>p, <3>1 DEF PathsI, Used, Path
  <2>2. Cnt(b) \in 0..MaxPage
    BY PathIs
  <2>3. X(h)'.file = p
    BY <2>p
  <2>4. Own(X(h).open, X(h).file)'
    BY <2>1, <2>3 DEF Own
  <2> QED
    BY <2>2, <2>4 DEF CachedI, Remote
<1>13. ReadI(h)'
  <2>1. T(h).ver <= gh.ver[b]
    BY DEF Core, ReadI
  <2> QED
    BY <2>1 DEF ReadI, SameHistory
<1>14. OpensSafely(h) /\ FillsSafely(h)
  BY DEF OpensSafely, FillsSafely
<1>15. NumbersI'
  BY <1>1, NumbersKept
<1>16. \A c \in Blocks : GentleAt(h, c) /\ StatusI(c)' /\ UpI(c)'
  <2>1. \A c \in Blocks \ {b} : GentleAt(h, c)
    BY SameIsGentle
  <2> QED
    BY <1>5, <1>6, <1>7, <1>8, <2>1
<1> QED
  BY <1>9, <1>10, <1>11, <1>12, <1>13, <1>14, <1>15, <1>16, ByHandle

(* A write to a block that is on local disk: the copy, the status, the     *)
(* open file.                                                              *)
LEMMA WriteLocalStep ==
  ASSUME BlockInv, NEW h \in Handles, NEW b \in Blocks, b = T(h).b, St(b) \in Local, NEW x,
         (T(h).pc = "w" /\ x = Recheck(X(h), b, meta.blk[b])) \/ (T(h).pc = "again" /\ x = X(h)),
         WriteLocal(h, b, x),
         cloud' = cloud, dl' = dl, up' = up, left' = left
  PROVE  BlockInv'
<1> USE DEF BlockInv
<1>w. PICK w : w = Stale(h, x, b)
  OBVIOUS
<1>v. PICK v : v = (T(h).pc = "again" /\ x.open = b /\ x.file # Path(b))
  OBVIOUS
<1>G. PICK G : G = Unsure(h, x, b)
  OBVIOUS
<1>n. PICK n : n = Num(b)
  OBVIOUS
<1>M. PICK M : M = SetSt(meta, b, "LDISK")
  OBVIOUS
<1>1. /\ disk' = IF St(b) = "BOTH" THEN disk ELSE meta_cache_check_uploading(disk, b, n)
      /\ \/ x.open = b /\ meta' = M /\ Go(h, [T(h) EXCEPT !.pc = "w_lock"], x) /\ gh' = G
         \/ x.open # b /\ OpenForWrite(h, M, disk', x, G)
  BY <1>G, <1>M, <1>n DEF WriteLocal, St, Num
<1>2. /\ T(h) \in ReqSet /\ X(h) \in CachedSet /\ ReqOK(T(h), X(h)) /\ T(h).f = 0
      /\ T(h).now <= meta.fin /\ T(h).res = {}
  BY HandleIs DEF ReqOK, RFile, WFile
<1>3. /\ x \in CachedSet /\ x \in {X(h), Close(X(h))}
      /\ x.open \in Blocks => x.file \in Files
      /\ x.open = -1 => x.file = 0
      /\ x.open = b => x = X(h) /\ (T(h).pc = "w" => x.cnt = Cnt(b))
  <2>1. CASE T(h).pc = "w" /\ x = Recheck(X(h), b, meta.blk[b])
    BY <2>1, RecheckIs
  <2>2. CASE T(h).pc = "again" /\ x = X(h)
    BY <1>2, <2>2 DEF ReqOK
  <2> QED
    BY <2>1, <2>2
<1>4. /\ disk' \in DiskSet /\ disk'.path = disk.path /\ disk'.flock = disk.flock /\ disk'.data = disk.data
      /\ disk'.cache = disk.cache /\ \A c \in Blocks \ {b} : disk'.to[c] = disk.to[c]
  <2>1. disk \in DiskSet
    BY DEF Types
  <2> QED
    BY <1>1, <2>1, CheckUploadingIs
<1>5. /\ G \in GhSet /\ SameHistory(G) /\ G.loose = gh.loose
      /\ G.known = {} => gh.known = {} /\ ~w /\ ~v
  <2>1. G = BothMet("handle", w, "slept", v)
    BY <1>G, <1>w, <1>v DEF Unsure, At, T, Path, BothMet
  <2>2. gh \in GhSet /\ "handle" \in Hazards /\ "slept" \in Hazards
    BY DEF Types, Hazards
  <2> QED
    BY ONLY <2>1, <2>2, BothMetIs
<1>6. /\ M \in MetaSet /\ M.fin = meta.fin /\ M.inc = meta.inc /\ M.lock = meta.lock
      /\ M.blk[b].st = "LDISK" /\ M.blk[b].seq = Num(b) /\ M.blk[b].cnt = Cnt(b)
      /\ \A c \in Blocks \ {b} : M.blk[c] = meta.blk[c]
  <2>1. meta \in MetaSet /\ "LDISK" \in Statuses
    BY DEF Types, Statuses, Local
  <2> QED
    BY <1>M, <2>1, SetStIs DEF Num, Cnt
<1>7. PICK u \in ReqSet, y \in CachedSet :
        /\ Go(h, u, y) /\ ReqOK(u, y) /\ u.now <= meta.fin
        /\ meta' \in MetaSet /\ meta'.blk = M.blk /\ meta'.fin = M.fin /\ meta'.inc = M.inc
        /\ gh' \in GhSet /\ SameHistory(gh') /\ gh'.known = G.known
        /\ \A g \in Handles \ {h} : g \in G.loose => g \in gh'.loose
        /\ Path(b) # 0 => /\ u.pc = "w_lock" /\ u.b = b /\ u.f = 0 /\ u.ver = T(h).ver /\ y.open = b
                          /\ \/ y = X(h) /\ gh'.loose = gh.loose /\ x.open = b /\ x.file = y.file
                             \/ y.file = Path(b) /\ y.cnt = Cnt(b)
                          /\ meta'.lock = meta.lock
  <2>1. CASE x.open = b
    <3>u. PICK u : u = [T(h) EXCEPT !.pc = "w_lock"]
      OBVIOUS
    <3>1. meta' = M /\ Go(h, u, x) /\ gh' = G
      BY <1>1, <2>1, <3>u
    <3>2. "w_lock" \in ReqPCs
      BY DEF ReqPCs, Inside
    <3>3. /\ u \in ReqSet /\ u.pc = "w_lock" /\ u.b = b /\ u.f = 0 /\ u.ver = T(h).ver /\ u.res = {}
          /\ u.now = T(h).now
      BY <1>2, <3>2, <3>u, MovedIs
    <3>4. ReqOK(u, x)
      BY <1>2, <1>3, <2>1, <3>3, ConstantFacts DEF ReqOK, RFile, WFile
    <3> QED
      BY <1>2, <1>3, <1>5, <1>6, <2>1, <3>1, <3>3, <3>4
  <2>2. CASE x.open # b
    <3>1. OpenForWrite(h, M, disk', x, G) /\ Types /\ b = T(h).b
      BY <1>1, <2>2
    <3>D. PICK D : D = disk'
      OBVIOUS
    <3>2. OpenForWrite(h, M, D, x, G) /\ D \in DiskSet /\ D.path[b] = Path(b)
      BY <1>4, <3>1, <3>D DEF Path
    <3>3. PICK u \in ReqSet, y \in CachedSet :
           /\ Go(h, u, y) /\ ReqOK(u, y) /\ u.now <= meta.fin
           /\ meta' \in MetaSet /\ meta'.blk = M.blk /\ meta'.fin = M.fin /\ meta'.inc = M.inc
           /\ gh' \in GhSet /\ gh'.known = G.known /\ gh'.cur = G.cur /\ gh'.snap = G.snap
           /\ gh'.cloud = G.cloud /\ gh'.ver = G.ver
           /\ \A g \in Handles \ {h} : g \in G.loose => g \in gh'.loose
           /\ D.path[b] = 0 => u = IdleTh /\ y = X(h) /\ meta'.lock = 1 /\ gh' = G
           /\ D.path[b] # 0 => /\ u.pc = "w_lock" /\ u.b = b /\ u.f = 0 /\ u.ver = T(h).ver
                               /\ y.open = b /\ y.file = D.path[b] /\ y.cnt = M.blk[b].cnt
                               /\ meta' = M /\ h \notin gh'.loose
      BY <1>2, <1>3, <1>5, <1>6, <3>1, <3>2, OpenForWriteIs
    <3>4. SameHistory(gh')
      BY <1>5, <3>3 DEF SameHistory
    <3>5. Path(b) # 0 => meta'.lock = meta.lock
      BY <1>6, <3>2, <3>3
    <3> QED
      BY <1>6, <3>2, <3>3, <3>4, <3>5
  <2> QED
    BY <2>1, <2>2
<1>8. /\ \A c \in Blocks \ {b} : meta'.blk[c] = meta.blk[c]
      /\ St(b)' = "LDISK" /\ Num(b)' = Num(b) /\ Cnt(b)' = Cnt(b)
  BY <1>6, <1>7 DEF St, Num, Cnt
<1>9. Types'
  <2>1. left' \in LeftSet /\ SameCounters
    BY <1>6, <1>7, <1>8 DEF Types, SameCounters, Cnt
  <2> QED
    BY <1>4, <1>7, <2>1, TypesByQuietHandle
<1>10. ASSUME Clean' PROVE Core'
  <2>1. Core /\ ~w /\ ~v
    BY <1>5, <1>7, <1>10 DEF Clean
  <2>2. T(h)' = u /\ X(h)' = y /\ Others(h)
    BY <1>7, GoIs DEF Types, Others
  <2>3. Path(b) # 0 /\ Data(Path(b)) = gh.cur[b]
    BY <2>1 DEF Core, StatusI
  <2>4. y.file = Path(b)
    <3>1. CASE y = X(h) /\ gh'.loose = gh.loose /\ x.open = b /\ x.file = y.file
      <4>1. x = X(h) /\ (T(h).pc = "w" => x.cnt = Cnt(b)) /\ CachedI(h)
        BY <1>3, <2>1, <3>1 DEF Core
      <4>2. CASE T(h).pc = "again"
        BY <1>v, <2>1, <3>1, <4>2
      <4>3. CASE T(h).pc = "w" /\ h \in gh.loose
        BY <1>w, <2>1, <3>1, <4>3 DEF Stale, Path
      <4>4. CASE T(h).pc = "w" /\ h \notin gh.loose
        BY <3>1, <4>1, <4>4 DEF CachedI
      <4> QED
        BY <4>2, <4>3, <4>4
    <3> QED
      BY <1>7, <2>3, <3>1
  <2>5. CopyMade(b)
    <3>1. CASE St(b) = "BOTH"
      <4>1. disk'.to[b] = disk.to[b] /\ St(b) \notin Dirty
        BY <1>1, <3>1 DEF Dirty
      <4> QED
        BY <2>1, <4>1, CopyThere
    <3>2. CASE St(b) # "BOTH"
      <4>1. PICK E : E = meta_cache_check_uploading(disk, b, n)
        OBVIOUS
      <4>2. disk'.to[b] = E.to[b]
        BY <1>1, <3>2, <4>1
      <4> QED
        BY <1>n, <2>1, <4>1, <4>2, CopyChecked
    <3> QED
      BY <3>1, <3>2
  <2>6. \A c \in Blocks : Path(c)' = Path(c)
    BY <1>4 DEF Path
  <2>7. \A c \in Blocks \ {b} : SameAt(c) /\ disk'.to[c] = disk.to[c]
    BY <1>4, <1>7, <1>8, <2>6 DEF SameAt, SameHistory
  <2>8. St(b) # "CtoL" /\ ~Filling(h, Path(b))
    <3>1. St(b) # "CtoL"
      BY DEF Local
    <3> QED
      BY <2>1, <2>3, <3>1, NotFilling
  <2>9. GentleInside(h) /\ LockStep(h)
    <3>1. T(h).pc \in Inside
      BY DEF Inside
    <3> QED
      BY <1>7, <2>1, <2>2, <2>3, <3>1 DEF GentleInside, LockStep, Core, LockI
  <2>10. CountI'
    <3>1. CountI /\ disk'.cache = disk.cache /\ dl' = dl
      BY <1>4, <2>1 DEF Core
    <3>2. \A c \in Blocks : St(c)' \in Local <=> St(c) \in Local
      BY <1>8 DEF St, Local
    <3> QED
      BY <3>1, <3>2, CountSame
  <2>11. /\ T(h).pc # "w_lock" /\ T(h).pc # "idle" /\ T(h).b = b
         /\ T(h)'.pc = "w_lock" /\ T(h)'.b = b /\ T(h)'.f = 0 /\ T(h)'.ver = T(h).ver
         /\ X(h)'.open = b /\ X(h)'.file = Path(b)' /\ (h \notin gh'.loose => X(h)'.cnt <= Cnt(b))
    <3>1. Cnt(b) <= Cnt(b)
      BY PathIs, ConstantFacts
    <3>2. h \notin gh'.loose => y.cnt <= Cnt(b)
      <4>1. CASE y = X(h) /\ gh'.loose = gh.loose /\ x.open = b /\ x.file = y.file
        <5>1. CachedI(h) /\ X(h).open = b
          BY <1>3, <2>1, <4>1 DEF Core
        <5> QED
          BY <4>1, <5>1 DEF CachedI
      <4>2. CASE y.cnt = Cnt(b)
        BY <3>1, <4>2
      <4> QED
        BY <1>7, <2>3, <4>1, <4>2
    <3> QED
      BY <1>7, <2>2, <2>3, <2>4, <2>6, <3>2
  <2>12. /\ meta'.fin = meta.fin /\ meta'.inc = meta.inc /\ Path(b)' # 0
         /\ disk'.data[Path(b)'] = gh.cur[b]
         /\ Path(b) # 0 => Path(b)' = Path(b) /\ disk'.data[Path(b)] = disk.data[Path(b)]
         /\ \A f \in Files \ {Path(b)'} : disk'.data[f] = disk.data[f]
         /\ \A f \in Files, q \in Procs \ {h} : disk.flock[f] = q => disk'.flock[f] = q
         /\ \A g \in Handles \ {h} : g \in gh.loose => g \in gh'.loose
    BY <1>4, <1>5, <1>6, <1>7, <2>3, <2>6 DEF Data
  <2> QED
    BY <1>7, <1>8, <1>9, <2>1, <2>2, <2>3, <2>5, <2>6, <2>7, <2>8, <2>9, <2>10, <2>11, <2>12, OpensBlock
<1> QED
  BY <1>9, <1>10

(* A write to a block that has no content: a new file, counted at once.    *)
LEMMA WriteNewStep ==
  ASSUME BlockInv, NEW h \in Handles, NEW b \in Blocks, b = T(h).b, T(h).pc \in {"w", "again"},
         St(b) \in Gone, NEW x, x \in {X(h), Close(X(h))}, CanCreate(b), disk' = Counted(Create(b)),
         OpenForWrite(h, SetSt(meta, b, "LDISK"), disk', x, gh),
         cloud' = cloud, dl' = dl, up' = up, left' = left
  PROVE  BlockInv'
<1> USE DEF BlockInv
<1>M. PICK M : M = SetSt(meta, b, "LDISK")
  OBVIOUS
<1>D. PICK D : D = disk'
  OBVIOUS
<1>C. PICK C : C = Create(b)
  OBVIOUS
<1>1. OpenForWrite(h, M, D, x, gh) /\ D = Counted(C)
  BY <1>M, <1>D, <1>C
<1>2. /\ T(h) \in ReqSet /\ X(h) \in CachedSet /\ ReqOK(T(h), X(h)) /\ T(h).f = 0
      /\ T(h).now <= meta.fin /\ T(h).res = {}
  BY HandleIs DEF ReqOK, RFile, WFile
<1>3. x \in CachedSet
  BY <1>2, CachedIs
<1>4. /\ C \in DiskSet /\ C.flock = disk.flock /\ C.to = disk.to /\ C.cache = disk.cache
      /\ C.path[b] \in Files
      /\ \A c \in Blocks \ {b} : C.path[c] = Path(c) /\ (Path(c) # 0 => C.data[Path(c)] = Data(Path(c)))
      /\ Path(b) # 0 => C = disk
      /\ Path(b) = 0 => /\ C.path[b] \notin Used /\ C.data[C.path[b]] = {}
                        /\ \A f \in Files \ {C.path[b]} : C.data[f] = Data(f)
  BY <1>C, CreatedIs
<1>5. /\ D \in DiskSet /\ D.path = C.path /\ D.flock = C.flock /\ D.data = C.data /\ D.to = C.to
      /\ D.cache = C.cache + 1
  BY <1>1, <1>4, CountedIs
<1>6. /\ M \in MetaSet /\ M.fin = meta.fin /\ M.inc = meta.inc /\ M.lock = meta.lock
      /\ M.blk[b].st = "LDISK" /\ M.blk[b].seq = Num(b) /\ M.blk[b].cnt = Cnt(b)
      /\ \A c \in Blocks \ {b} : M.blk[c] = meta.blk[c]
  <2>1. meta \in MetaSet /\ "LDISK" \in Statuses
    BY DEF Types, Statuses, Local
  <2> QED
    BY <1>M, <2>1, SetStIs DEF Num, Cnt
<1>7. D.path[b] \in Files /\ D.path[b] # 0
  BY <1>4, <1>5, ConstantFacts
<1>8. PICK u \in ReqSet, y \in CachedSet :
        /\ Go(h, u, y) /\ ReqOK(u, y) /\ u.now <= meta.fin
        /\ meta' = M /\ gh' \in GhSet /\ gh'.known = gh.known /\ SameHistory(gh')
        /\ \A g \in Handles \ {h} : g \in gh.loose => g \in gh'.loose
        /\ u.pc = "w_lock" /\ u.b = b /\ u.f = 0 /\ u.ver = T(h).ver
        /\ y.open = b /\ y.file = D.path[b] /\ y.cnt = Cnt(b)
  <2>1. Types /\ gh \in GhSet
    BY DEF Types
  <2>2. PICK u \in ReqSet, y \in CachedSet :
          /\ Go(h, u, y) /\ ReqOK(u, y) /\ u.now <= meta.fin
          /\ gh' \in GhSet /\ gh'.known = gh.known /\ gh'.cur = gh.cur /\ gh'.snap = gh.snap
          /\ gh'.cloud = gh.cloud /\ gh'.ver = gh.ver
          /\ \A g \in Handles \ {h} : g \in gh.loose => g \in gh'.loose
          /\ D.path[b] # 0 => /\ u.pc = "w_lock" /\ u.b = b /\ u.f = 0 /\ u.ver = T(h).ver
                              /\ y.open = b /\ y.file = D.path[b] /\ y.cnt = M.blk[b].cnt
                              /\ meta' = M
    BY <1>1, <1>2, <1>3, <1>5, <1>6, <2>1, OpenForWriteIs
  <2> QED
    BY <1>6, <1>7, <2>2 DEF SameHistory
<1>9. /\ \A c \in Blocks \ {b} : meta'.blk[c] = meta.blk[c]
      /\ St(b)' = "LDISK" /\ Num(b)' = Num(b) /\ Cnt(b)' = Cnt(b)
  BY <1>6, <1>8 DEF St, Num, Cnt
<1>10. Types'
  <2>1. left' \in LeftSet /\ SameCounters /\ disk' \in DiskSet /\ meta' \in MetaSet
    BY <1>5, <1>6, <1>8, <1>9, <1>D DEF Types, SameCounters, Cnt
  <2> QED
    BY <1>8, <2>1, TypesByQuietHandle
<1>11. ASSUME Clean' PROVE Core'
  <2>1. Core
    BY <1>8, <1>11 DEF Clean
  <2>2. T(h)' = u /\ X(h)' = y /\ Others(h)
    BY <1>8, GoIs DEF Types, Others
  <2>3. gh.cur[b] = {} /\ (Path(b) # 0 => Data(Path(b)) = {})
    BY <2>1 DEF Core, StatusI
  <2>4. Path(b)' = D.path[b] /\ Path(b)' \in Files /\ Path(b)' # 0
    BY <1>7, <1>D DEF Path
  <2>5. CopyMade(b)
    <3>1. disk'.to[b] = disk.to[b] /\ St(b) \notin Dirty
      BY <1>4, <1>5, <1>D DEF Dirty, Gone
    <3> QED
      BY <2>1, <3>1, CopyThere
  <2>6. \A c \in Blocks \ {b} : SameAt(c) /\ disk'.to[c] = disk.to[c]
    BY <1>4, <1>5, <1>8, <1>9, <1>D DEF SameAt, SameHistory, Path, Data
  <2>7. /\ Path(b) # 0 => Path(b)' = Path(b) /\ disk'.data[Path(b)] = disk.data[Path(b)]
        /\ Path(b) = 0 => Path(b)' \notin Used
        /\ \A f \in Files \ {Path(b)'} : disk'.data[f] = disk.data[f]
        /\ disk'.data[Path(b)'] = gh.cur[b]
    BY <1>4, <1>5, <1>D, <2>3, <2>4 DEF Path, Data
  <2>8. ~Filling(h, Path(b)')
    <3>1. CASE Path(b) # 0
      <4>1. St(b) # "CtoL"
        BY DEF Gone
      <4> QED
        BY <2>1, <2>7, <3>1, <4>1, NotFilling
    <3>2. CASE Path(b) = 0
      BY <2>7, <3>2 DEF Filling, Used, T
    <3> QED
      BY <3>1, <3>2
  <2>9. GentleInside(h) /\ LockStep(h)
    <3>1. T(h).pc \in Inside /\ u.pc \in Inside /\ meta'.lock = meta.lock
      BY <1>6, <1>8 DEF Inside
    <3> QED
      BY <2>1, <2>2, <3>1 DEF GentleInside, LockStep, Core, LockI
  <2>10. CountI'
    <3>1. CountI /\ disk'.cache = disk.cache + 1 /\ dl' = dl
      BY <1>4, <1>5, <1>D, <2>1 DEF Core
    <3>2. \A c \in Blocks \ {b} : St(c)' \in Local <=> St(c) \in Local
      BY <1>9 DEF St
    <3>3. St(b) \notin Local /\ St(b)' \in Local
      BY <1>9 DEF Local, Gone
    <3> QED
      BY <3>1, <3>2, <3>3, CountAdds
  <2>11. /\ T(h).pc # "w_lock" /\ T(h).pc # "idle" /\ T(h).b = b
         /\ T(h)'.pc = "w_lock" /\ T(h)'.b = b /\ T(h)'.f = 0 /\ T(h)'.ver = T(h).ver
         /\ X(h)'.open = b /\ X(h)'.file = Path(b)' /\ (h \notin gh'.loose => X(h)'.cnt <= Cnt(b))
    <3>1. Cnt(b) <= Cnt(b)
      BY PathIs, ConstantFacts
    <3> QED
      BY <1>8, <2>2, <2>4, <3>1
  <2>12. /\ meta'.fin = meta.fin /\ meta'.inc = meta.inc /\ SameHistory(gh') /\ St(b) # "CtoL"
         /\ \A f \in Files, q \in Procs \ {h} : disk.flock[f] = q => disk'.flock[f] = q
         /\ \A g \in Handles \ {h} : g \in gh.loose => g \in gh'.loose
    BY <1>4, <1>5, <1>6, <1>8, <1>D DEF Gone
  <2> QED
    BY <1>9, <1>10, <2>1, <2>2, <2>4, <2>5, <2>6, <2>7, <2>8, <2>9, <2>10, <2>11, <2>12, OpensBlock
<1> QED
  BY <1>10, <1>11

(* A write through the cached file of a block that is not local any more.  *)
LEMMA WriteSleptStep ==
  ASSUME BlockInv, NEW h \in Handles, NEW b \in Blocks, b = T(h).b, T(h).pc \in {"w", "again"},
         NEW x, x \in {X(h), Close(X(h))}, x.open = b, Go(h, [T(h) EXCEPT !.pc = "w_lock"], x),
         gh' = Met("slept", TRUE), meta' = meta, disk' = disk,
         cloud' = cloud, dl' = dl, up' = up, left' = left
  PROVE  BlockInv'
<1> USE DEF BlockInv
<1>u. PICK u : u = [T(h) EXCEPT !.pc = "w_lock"]
  OBVIOUS
<1>1. /\ T(h) \in ReqSet /\ X(h) \in CachedSet /\ ReqOK(T(h), X(h)) /\ T(h).f = 0
      /\ T(h).now <= meta.fin /\ T(h).res = {}
  BY HandleIs DEF ReqOK, RFile, WFile
<1>2. x \in CachedSet /\ (x = X(h) \/ (x.open = -1 /\ x.file = 0))
  BY <1>1, CachedIs
<1>3. "w_lock" \in ReqPCs
  BY DEF ReqPCs, Inside
<1>4. u \in ReqSet /\ u.pc = "w_lock" /\ u.b = b /\ u.f = 0 /\ u.res = {} /\ u.now = T(h).now
  BY <1>1, <1>3, <1>u, MovedIs
<1>5. ReqOK(u, x)
  BY <1>1, <1>2, <1>4, ConstantFacts DEF ReqOK, RFile, WFile
<1>6. gh' \in GhSet /\ gh'.known # {}
  <2>1. "slept" \in Hazards /\ gh \in GhSet
    BY DEF Hazards, Types
  <2> QED
    BY <2>1, MetIs
<1>7. meta' \in MetaSet /\ disk' \in DiskSet /\ left' \in LeftSet /\ SameCounters
  BY DEF Types, SameCounters, Cnt
<1>8. Types'
  BY <1>1, <1>2, <1>4, <1>5, <1>6, <1>7, <1>u, TypesByQuietHandle
<1> QED
  BY <1>6, <1>8 DEF Clean

(* The first half of _write_block.                                         *)
LEMMA WriteBlockStep ==
  ASSUME BlockInv, NEW h \in Handles, _write_block(h)
  PROVE  BlockInv'
<1>b. PICK b : b = T(h).b
  OBVIOUS
<1>x. PICK x : x = IF T(h).pc = "w" THEN Recheck(X(h), b, meta.blk[b]) ELSE X(h)
  OBVIOUS
<1>1. T(h).pc \in {"w", "again"} /\ cloud' = cloud /\ dl' = dl /\ up' = up /\ left' = left
  BY DEF _write_block, At, T
<1>2. b \in Blocks /\ St(b) \in Statuses /\ x \in {X(h), Close(X(h))}
  <2>1. Types
    BY DEF BlockInv
  <2>2. b \in Blocks
    BY <1>1, <1>b, <2>1, HandleIs DEF ReqOK
  <2> QED
    BY <1>x, <2>1, <2>2, PathIs, RecheckIs
<1>3. /\ St(b) \in Local => WriteLocal(h, b, x)
      /\ St(b) \notin Local /\ x.open = b => /\ Go(h, [T(h) EXCEPT !.pc = "w_lock"], x)
                                             /\ gh' = Met("slept", TRUE) /\ meta' = meta /\ disk' = disk
      /\ St(b) \in Gone /\ x.open # b => /\ CanCreate(b) /\ disk' = Counted(Create(b))
                                         /\ OpenForWrite(h, SetSt(meta, b, "LDISK"), disk', x, gh)
      /\ St(b) \in Remote /\ x.open # b => FetchFirst(h, b, x)
  BY <1>b, <1>x DEF _write_block, St, Local, Gone, Remote, At, T
<1>4. CASE St(b) \in Local
  <2>1. WriteLocal(h, b, x)
    BY <1>3, <1>4
  <2>2. (T(h).pc = "w" /\ x = Recheck(X(h), b, meta.blk[b])) \/ (T(h).pc = "again" /\ x = X(h))
    BY <1>1, <1>x
  <2> QED
    BY <1>1, <1>2, <1>4, <1>b, <2>1, <2>2, WriteLocalStep
<1>5. CASE St(b) \notin Local /\ x.open = b
  BY <1>1, <1>2, <1>3, <1>5, <1>b, WriteSleptStep
<1>6. CASE St(b) \in Gone /\ x.open # b
  BY <1>1, <1>2, <1>3, <1>6, <1>b, WriteNewStep
<1>7. CASE St(b) \in Remote /\ x.open # b
  <2>1. FetchFirst(h, b, x) /\ T(h).pc \in {"w", "again", "cut"}
    BY <1>1, <1>3, <1>7
  <2> QED
    BY <1>1, <1>2, <1>7, <1>b, <2>1, FetchFirstStep
<1> QED
  BY <1>2, <1>4, <1>5, <1>6, <1>7 DEF Statuses

(***************************************************************************)
(* A modification reaches its block.                                       *)
(***************************************************************************)
Changed(G, b, v) == [G EXCEPT !.cur[b] = v, !.ver[b] = @ + 1]

(* The history after a modification of block b.                            *)
LEMMA ChangedIs ==
  ASSUME NEW G \in GhSet, NEW b \in Blocks, NEW v \in Marks, NEW E, E = Changed(G, b, v)
  PROVE  /\ E \in GhSet /\ E.snap = G.snap /\ E.cloud = G.cloud /\ E.known = G.known /\ E.loose = G.loose
         /\ E.cur[b] = v /\ E.ver[b] = G.ver[b] + 1 /\ G.ver[b] \in Nat
         /\ \A c \in Blocks \ {b} : E.cur[c] = G.cur[c] /\ E.ver[c] = G.ver[c]
<1>C. PICK C : C = [G.cur EXCEPT ![b] = v]
  OBVIOUS
<1>V. PICK V : V = [G.ver EXCEPT ![b] = G.ver[b] + 1]
  OBVIOUS
<1>1. G.cur \in [Blocks -> Marks] /\ G.ver \in [Blocks -> Nat]
  BY DEF GhSet
<1>2. C \in [Blocks -> Marks] /\ C[b] = v /\ \A c \in Blocks \ {b} : C[c] = G.cur[c]
  BY <1>1, <1>C
<1>3. V \in [Blocks -> Nat] /\ V[b] = G.ver[b] + 1 /\ \A c \in Blocks \ {b} : V[c] = G.ver[c]
  BY <1>1, <1>V
<1>4. E = [G EXCEPT !.cur = C, !.ver = V]
  BY <1>C, <1>V DEF Changed, GhSet
<1>F. PICK F : F = [G EXCEPT !.cur = C, !.ver = V]
  OBVIOUS
<1>5. /\ F \in GhSet /\ F.snap = G.snap /\ F.cloud = G.cloud /\ F.known = G.known /\ F.loose = G.loose
      /\ F.cur = C /\ F.ver = V
  BY <1>2, <1>3, <1>F DEF GhSet
<1>6. E = F
  BY <1>4, <1>F
<1> QED
  BY ONLY <1>1, <1>2, <1>3, <1>5, <1>6, b \in Blocks

(* The invariant when a modification of handle h has reached block b in    *)
(* its file, under the number of the file.                                 *)
LEMMA ModifiesBlock ==
  ASSUME Types, Types', Core, NEW h \in Handles, NEW b \in Blocks, Others(h),
         T(h)' = IdleTh, X(h)' = X(h), T(h).pc = "w_lock" => T(h).b = b,
         cloud' = cloud, up' = up, meta'.fin = meta.fin, meta'.inc = meta.inc, ~meta.inc,
         gh'.snap = gh.snap, gh'.cloud = gh.cloud, gh'.loose = gh.loose,
         \A c \in Blocks \ {b} : SameAt(c) /\ disk'.to[c] = disk.to[c],
         St(b)' = "LDISK", Num(b)' = meta.fin, Cnt(b)' = Cnt(b), CopyMade(b),
         Path(b)' = Path(b), Path(b) # 0, disk'.data[Path(b)] = gh'.cur[b], gh'.cur[b] # {},
         gh'.ver[b] > gh.ver[b],
         \A f \in Files \ {Path(b)} : disk'.data[f] = disk.data[f],
         St(b) # "CtoL" \/ disk.flock[Path(b)] = h,
         \A f \in Files, q \in Procs \ {h} : disk.flock[f] = q => disk'.flock[f] = q,
         GentleInside(h), LockStep(h), CountI'
  PROVE  Core'
<1>1. FinStep
  BY DEF FinStep
<1>2. \A c \in Blocks \ {b} : Writing(c)' <=> Writing(c)
  BY IdleIs DEF Writing, Others
<1>3. \A c \in Blocks \ {b} : QuietAt(c)
  BY <1>2 DEF QuietAt, SameAt, St, Num
<1>4. UpI(b)'
  <2>1. gh'.snap[b] = gh.snap[b] /\ gh'.cloud[b] = gh.cloud[b] /\ Num(b)' = meta'.fin /\ ~meta'.inc
    OBVIOUS
  <2> QED
    BY <1>1, <2>1, ChangedUpload
<1>5. \A c \in Blocks \ {b} : UpI(c)' /\ StatusI(c)'
  BY <1>1, <1>2, <1>3, UploadKept, StatusKept
<1>6. StatusI(b)'
  <2>1. meta.fin <= meta.fin
    BY NumbersAre
  <2> QED
    BY <2>1 DEF StatusI, Local, Remote, Gone, Data
<1>7. GentleAt(h, b)
  BY DEF GentleAt, KeepsPath, KeepsVersion, KeepsDownload, KeepsCached, KeepsRead, Remote
<1>8. \A f \in Files : GentleData(f)
  BY DEF GentleData
<1>9. \A c \in Blocks : GentleAt(h, c) /\ StatusI(c)' /\ UpI(c)'
  <2>1. \A c \in Blocks \ {b} : GentleAt(h, c)
    BY SameIsGentle
  <2> QED
    BY <1>4, <1>5, <1>6, <1>7, <2>1
<1>10. \A c \in Blocks \ {b} : Path(c)' = Path(c)
  BY DEF SameAt
<1>11. ReqI(h)' /\ ReadI(h)' /\ CachedI(h)'
  BY <1>9, IdleRequest, CachedKept
<1>12. OpensSafely(h) /\ FillsSafely(h)
  BY IdleIs DEF OpensSafely, FillsSafely
<1>13. NumbersI'
  BY <1>1, NumbersKept
<1>14. \A g \in Handles \ {h} : g \in gh.loose => g \in gh'.loose
  OBVIOUS
<1> QED
  BY <1>8, <1>9, <1>10, <1>11, <1>12, <1>13, <1>14, ByHandle

(* The invariant when handle h has given up its modification, or made one  *)
(* to a block that has no content.                                         *)
LEMMA LeavesBlock ==
  ASSUME Types, Types', Core, NEW h \in Handles, NEW b \in Blocks, Others(h),
         T(h)' = IdleTh, X(h)' = X(h), T(h).pc # "w_lock", St(b) \in Gone,
         cloud' = cloud, up' = up, meta'.fin = meta.fin, meta'.inc = meta.inc,
         SameHistory(gh'), gh'.loose = gh.loose,
         \A c \in Blocks \ {b} : SameAt(c) /\ disk'.to[c] = disk.to[c],
         St(b)' = St(b), Num(b)' <= meta.fin, Cnt(b)' = Cnt(b), CopyMade(b), Path(b)' = Path(b),
         Path(b) # 0 => disk'.data[Path(b)] = disk.data[Path(b)],
         \A f \in Files : GentleData(f),
         \A f \in Files, q \in Procs \ {h} : disk.flock[f] = q => disk'.flock[f] = q,
         LockStep(h), disk'.cache = disk.cache
  PROVE  Core'
<1>1. FinStep
  BY DEF FinStep
<1>2. \A c \in Blocks : Writing(c)' <=> Writing(c)
  BY IdleIs DEF Writing, Others
<1>3. \A c \in Blocks \ {b} : QuietAt(c)
  BY <1>2 DEF QuietAt, SameAt, SameHistory, St, Num
<1>4. UpI(b)'
  <2>1. gh'.snap[b] = gh.snap[b] /\ gh'.cloud[b] = gh.cloud[b] /\ St(b)' \in Gone
    BY DEF SameHistory
  <2> QED
    BY <1>1, <2>1, ChangedUpload
<1>5. \A c \in Blocks \ {b} : UpI(c)' /\ StatusI(c)'
  BY <1>1, <1>2, <1>3, UploadKept, StatusKept
<1>6. StatusI(b)'
  <2>1. StatusI(b)
    BY DEF Core
  <2>2. St(b)' \in Gone /\ St(b)' \notin Local /\ St(b)' \notin Remote \cup {"BOTH"}
    BY DEF Gone, Local, Remote
  <2> QED
    BY <2>1, <2>2 DEF StatusI, Data, SameHistory
<1>7. GentleAt(h, b)
  BY DEF GentleAt, KeepsPath, KeepsVersion, KeepsDownload, KeepsCached, KeepsRead, SameHistory, Gone
<1>8. \A c \in Blocks : GentleAt(h, c) /\ StatusI(c)' /\ UpI(c)'
  <2>1. \A c \in Blocks \ {b} : GentleAt(h, c)
    BY SameIsGentle
  <2> QED
    BY <1>4, <1>5, <1>6, <1>7, <2>1
<1>9. \A c \in Blocks : Path(c)' = Path(c) /\ St(c)' = St(c)
  BY DEF SameAt, St
<1>10. ReqI(h)' /\ ReadI(h)' /\ CachedI(h)'
  BY <1>8, IdleRequest, CachedKept
<1>11. OpensSafely(h) /\ FillsSafely(h) /\ GentleInside(h)
  BY <1>9, IdleIs DEF OpensSafely, FillsSafely, GentleInside
<1>12. NumbersI'
  BY <1>1, NumbersKept
<1>13. CountI'
  <2>1. CountI /\ dl' = dl
    BY DEF Core, Others
  <2> QED
    BY <1>9, <2>1, CountSame
<1>14. (\A g \in Handles \ {h} : g \in gh.loose => g \in gh'.loose) /\ \A c \in Blocks \ {b} : Path(c)' = Path(c)
  BY <1>9
<1> QED
  BY <1>8, <1>10, <1>11, <1>12, <1>13, <1>14, ByHandle

(* The end of _write_block: the data, the number, the lock.                *)
LEMMA WriteStep ==
  ASSUME BlockInv, NEW h \in Handles, Write(h)
  PROVE  BlockInv'
<1> USE DEF BlockInv
<1>b. PICK b : b = T(h).b
  OBVIOUS
<1>f. PICK f : f = X(h).file
  OBVIOUS
<1>v. PICK v : v = disk.data[f] \cup {T(h).m}
  OBVIOUS
<1>c. PICK c : c = gh.cur[b] \cup {T(h).m}
  OBVIOUS
<1>w. PICK w : w = Outdated(T(h))
  OBVIOUS
<1>G. PICK G : G = Met("oldseq", w)
  OBVIOUS
<1>D. PICK D : D = Filled(disk, f, v)
  OBVIOUS
<1>M. PICK M : M = update_block_seq(meta, b, T(h).now)
  OBVIOUS
<1>1. /\ T(h).pc = "w_lock" /\ cloud' = cloud /\ dl' = dl /\ up' = up /\ left' = left
      /\ meta' = Unlock(M) /\ Go(h, IdleTh, X(h)) /\ disk' = Funlock(D, h)
      /\ gh' = [G EXCEPT !.cur[b] = @ \cup {T(h).m}, !.ver[b] = @ + 1]
  BY <1>b, <1>f, <1>v, <1>w, <1>G, <1>D, <1>M DEF Write, At, T, Modify, Leave, Filled
<1>2. /\ T(h) \in ReqSet /\ X(h) \in CachedSet /\ ReqOK(T(h), X(h)) /\ b \in Blocks /\ f \in Files
      /\ T(h).now \in 0..MaxSeq /\ T(h).m \in 0..MaxMod
  BY <1>1, <1>b, <1>f, HandleIs DEF ReqOK
<1>3. v \in Marks /\ c \in Marks /\ c # {}
  BY <1>2, <1>v, <1>c DEF Types, DiskSet, GhSet, Marks
<1>4. /\ G \in GhSet /\ SameHistory(G) /\ G.loose = gh.loose /\ (G.known = {} => gh.known = {} /\ ~w)
  BY <1>G, MetIs DEF Types, Hazards
<1>5. gh' = Changed(G, b, c)
  BY <1>1, <1>4, <1>c DEF Changed, SameHistory
<1>6. /\ gh' \in GhSet /\ gh'.snap = gh.snap /\ gh'.cloud = gh.cloud /\ gh'.known = G.known
      /\ gh'.loose = gh.loose /\ gh'.cur[b] = c /\ gh'.ver[b] > gh.ver[b]
      /\ \A d \in Blocks \ {b} : gh'.cur[d] = gh.cur[d] /\ gh'.ver[d] = gh.ver[d]
  <2>1. /\ gh' \in GhSet /\ gh'.snap = G.snap /\ gh'.cloud = G.cloud /\ gh'.known = G.known
        /\ gh'.loose = G.loose /\ gh'.cur[b] = c /\ gh'.ver[b] = G.ver[b] + 1 /\ G.ver[b] \in Nat
        /\ \A d \in Blocks \ {b} : gh'.cur[d] = G.cur[d] /\ gh'.ver[d] = G.ver[d]
    BY <1>2, <1>3, <1>4, <1>5, ChangedIs
  <2>2. G.snap = gh.snap /\ G.cloud = gh.cloud /\ G.loose = gh.loose /\ G.cur = gh.cur /\ G.ver = gh.ver
    BY <1>4 DEF SameHistory
  <2>3. gh'.ver[b] > G.ver[b]
    BY <2>1
  <2> QED
    BY ONLY <2>1, <2>2, <2>3
<1>7. /\ disk' \in DiskSet /\ disk'.path = disk.path /\ disk'.to = disk.to /\ disk'.cache = disk.cache
      /\ disk'.data[f] = v /\ \A g \in Files \ {f} : disk'.data[g] = disk.data[g]
      /\ \A g \in Files : disk.flock[g] # h => disk'.flock[g] = disk.flock[g]
  <2>1. disk \in DiskSet /\ h \in Procs
    BY ConstantFacts DEF Types
  <2>2. /\ D \in DiskSet /\ D.path = disk.path /\ D.flock = disk.flock /\ D.to = disk.to
        /\ D.cache = disk.cache /\ D.data[f] = v /\ \A g \in Files \ {f} : D.data[g] = disk.data[g]
    BY <1>2, <1>3, <1>D, <2>1, FilledIs
  <2>3. /\ Funlock(D, h) \in DiskSet /\ Funlock(D, h).path = D.path /\ Funlock(D, h).data = D.data
        /\ Funlock(D, h).to = D.to /\ Funlock(D, h).cache = D.cache
        /\ \A g \in Files : D.flock[g] # h => Funlock(D, h).flock[g] = D.flock[g]
    BY <2>1, <2>2, FunlockIs
  <2> QED
    BY ONLY <1>1, <2>2, <2>3
<1>8. /\ meta' \in MetaSet /\ meta'.fin = meta.fin /\ meta'.inc = meta.inc /\ meta'.lock = 1
      /\ St(b)' = St(b) /\ Num(b)' = T(h).now /\ Cnt(b)' = Cnt(b)
      /\ \A d \in Blocks \ {b} : meta'.blk[d] = meta.blk[d]
  <2>1. /\ M \in MetaSet /\ M.fin = meta.fin /\ M.inc = meta.inc
        /\ M.blk[b].st = meta.blk[b].st /\ M.blk[b].seq = T(h).now /\ M.blk[b].cnt = meta.blk[b].cnt
        /\ \A d \in Blocks \ {b} : M.blk[d] = meta.blk[d]
    BY <1>2, <1>M, BlockSeqIs DEF Types
  <2>2. /\ Unlock(M) \in MetaSet /\ Unlock(M).lock = 1 /\ Unlock(M).blk = M.blk /\ Unlock(M).fin = M.fin
        /\ Unlock(M).inc = M.inc
    BY <2>1, LockIs
  <2> QED
    BY ONLY <1>1, <2>1, <2>2 DEF St, Num, Cnt
<1>9. Types'
  <2>1. left' \in LeftSet /\ SameCounters
    BY <1>1, <1>8 DEF Types, SameCounters, Cnt
  <2>2. IdleTh \in ReqSet /\ IdleTh.now <= meta.fin
    BY IdleIs, NumbersAre
  <2>3. ReqOK(IdleTh, X(h))
    BY <1>2, IdleIs, ConstantFacts DEF ReqOK, RFile, WFile
  <2> QED
    BY <1>1, <1>2, <1>6, <1>7, <1>8, <2>1, <2>2, <2>3, TypesByQuietHandle
<1>10. ASSUME Clean' PROVE Core'
  <2>1. Core /\ ~w
    BY <1>4, <1>6, <1>10 DEF Clean
  <2>2. T(h)' = IdleTh /\ X(h)' = X(h) /\ Others(h)
    BY <1>1, <1>2, IdleIs, GoIs DEF Types, Others
  <2>3. St(b) = "LDISK" /\ f = Path(b)
    BY <1>1, <1>b, <1>f, <2>1 DEF Core, ReqI
  <2>4. T(h).now = meta.fin /\ ~meta.inc
    BY <1>w, <2>1 DEF Outdated
  <2>5. Path(b) # 0 /\ Data(Path(b)) = gh.cur[b]
    BY <1>2, <2>1, <2>3 DEF Core, StatusI, Local
  <2>6. v = c
    BY <1>v, <1>c, <2>3, <2>5 DEF Data
  <2>7. CopyMade(b)
    <3>1. Writing(b) /\ disk'.to[b] = disk.to[b]
      BY <1>1, <1>7, <1>b DEF Writing
    <3> QED
      BY <1>2, <2>1, <3>1, CopyThere
  <2>8. \A d \in Blocks \ {b} : SameAt(d) /\ disk'.to[d] = disk.to[d]
    <3>1. \A d \in Blocks \ {b} : Path(d) # 0 => Path(d) # f /\ Path(d) \in Files
      BY <1>2, <2>1, <2>3, PathIs DEF Core, PathsI
    <3> QED
      BY <1>6, <1>7, <1>8, <3>1 DEF SameAt, Path
  <2>9. GentleInside(h) /\ LockStep(h)
    <3>1. T(h).pc \in Inside /\ IdleTh.pc \notin Inside
      BY <1>1, IdleIs DEF Inside
    <3> QED
      BY <2>1, <2>2, <3>1 DEF GentleInside, LockStep, Core, LockI
  <2>10. CountI'
    <3>1. CountI /\ disk'.cache = disk.cache /\ dl' = dl
      BY <1>1, <1>7, <2>1 DEF Core
    <3>2. \A d \in Blocks : St(d)' \in Local <=> St(d) \in Local
      BY <1>8 DEF St
    <3> QED
      BY <3>1, <3>2, CountSame
  <2>11. /\ St(b)' = "LDISK" /\ Num(b)' = meta.fin /\ Path(b)' = Path(b)
         /\ disk'.data[Path(b)] = gh'.cur[b] /\ gh'.cur[b] # {}
         /\ \A g \in Files \ {Path(b)} : disk'.data[g] = disk.data[g]
         /\ St(b) # "CtoL"
         /\ \A g \in Files, q \in Procs \ {h} : disk.flock[g] = q => disk'.flock[g] = q
    BY <1>3, <1>6, <1>7, <1>8, <2>3, <2>4, <2>6 DEF Path
  <2> QED
    BY <1>1, <1>2, <1>6, <1>8, <1>9, <1>b, <2>1, <2>2, <2>4, <2>5, <2>7, <2>8, <2>9, <2>10, <2>11, ModifiesBlock
<1> QED
  BY <1>9, <1>10

(* A truncation within a block that is on local disk.                      *)
LEMMA TruncateLocalStep ==
  ASSUME BlockInv, NEW h \in Handles, NEW b \in Blocks, b = T(h).b,
         T(h).pc = "cut" \/ (T(h).pc = "copy" /\ MetaFree), NEW f, f = Path(b), f # 0,
         NEW n, n = Num(b) \/ (up.pc # "idle" => n <= up.cur),
         NEW E, E = meta_cache_check_uploading(disk, b, n),
         disk' = [E EXCEPT !.data[f] = @ \cup {T(h).m}],
         gh' = [Met("oldseq", Outdated(T(h))) EXCEPT !.cur[b] = @ \cup {T(h).m}, !.ver[b] = @ + 1,
                  !.known = @ \cup If("slept", St(b) \notin Local)],
         Leave(h, update_block_seq(SetSt(meta, b, "LDISK"), b, T(h).now)),
         cloud' = cloud, dl' = dl, up' = up, left' = left
  PROVE  BlockInv'
<1> USE DEF BlockInv
<1>v. PICK v : v = disk.data[f] \cup {T(h).m}
  OBVIOUS
<1>c. PICK c : c = gh.cur[b] \cup {T(h).m}
  OBVIOUS
<1>w. PICK w : w = Outdated(T(h))
  OBVIOUS
<1>r. PICK r : r = (St(b) \notin Local)
  OBVIOUS
<1>G. PICK G : G = [gh EXCEPT !.known = gh.known \cup If("oldseq", w) \cup If("slept", r)]
  OBVIOUS
<1>L. PICK L : L = SetSt(meta, b, "LDISK")
  OBVIOUS
<1>M. PICK M : M = update_block_seq(L, b, T(h).now)
  OBVIOUS
<1>1. /\ meta' = Unlock(M) /\ Go(h, IdleTh, X(h))
  BY <1>L, <1>M DEF Leave
<1>2. /\ T(h) \in ReqSet /\ X(h) \in CachedSet /\ ReqOK(T(h), X(h)) /\ f \in Files
      /\ T(h).now \in 0..MaxSeq /\ T(h).m \in 0..MaxMod
  BY HandleIs, PathIs
<1>3. v \in Marks /\ c \in Marks /\ c # {}
  BY <1>2, <1>v, <1>c DEF Types, DiskSet, GhSet, Marks
<1>4. /\ G \in GhSet /\ SameHistory(G) /\ G.loose = gh.loose /\ (G.known = {} => gh.known = {} /\ ~w /\ ~r)
  <2>1. gh \in GhSet /\ "oldseq" \in Hazards /\ "slept" \in Hazards
    BY DEF Types, Hazards
  <2>2. G = BothMet("oldseq", w, "slept", r)
    BY <1>G DEF BothMet
  <2> QED
    BY ONLY <2>1, <2>2, BothMetIs
<1>5. gh' = Changed(G, b, c)
  <2>1. gh' = [[gh EXCEPT !.known = gh.known \cup If("oldseq", w)] EXCEPT
                 !.cur[b] = @ \cup {T(h).m}, !.ver[b] = @ + 1, !.known = @ \cup If("slept", r)]
    BY <1>w, <1>r DEF Met
  <2>2. gh \in GhSet
    BY DEF Types
  <2> QED
    BY ONLY <1>G, <1>c, <2>1, <2>2 DEF Changed, GhSet
<1>6. /\ gh' \in GhSet /\ gh'.snap = gh.snap /\ gh'.cloud = gh.cloud /\ gh'.known = G.known
      /\ gh'.loose = gh.loose /\ gh'.cur[b] = c /\ gh'.ver[b] > gh.ver[b]
      /\ \A d \in Blocks \ {b} : gh'.cur[d] = gh.cur[d] /\ gh'.ver[d] = gh.ver[d]
  <2>1. /\ gh' \in GhSet /\ gh'.snap = G.snap /\ gh'.cloud = G.cloud /\ gh'.known = G.known
        /\ gh'.loose = G.loose /\ gh'.cur[b] = c /\ gh'.ver[b] = G.ver[b] + 1 /\ G.ver[b] \in Nat
        /\ \A d \in Blocks \ {b} : gh'.cur[d] = G.cur[d] /\ gh'.ver[d] = G.ver[d]
    <3>1. G \in GhSet /\ c \in Marks
      BY ONLY <1>3, <1>4
    <3> QED
      BY ONLY b \in Blocks, <1>5, <3>1, ChangedIs, SMTT(30)
  <2>2. G.snap = gh.snap /\ G.cloud = gh.cloud /\ G.loose = gh.loose /\ G.cur = gh.cur /\ G.ver = gh.ver
    BY <1>4 DEF SameHistory
  <2>3. gh'.ver[b] > G.ver[b]
    BY <2>1
  <2> QED
    BY ONLY <2>1, <2>2, <2>3
<1>e. /\ E \in DiskSet /\ E.path = disk.path /\ E.flock = disk.flock /\ E.data = disk.data
      /\ E.cache = disk.cache /\ \A d \in Blocks \ {b} : E.to[d] = disk.to[d]
  <2>1. disk \in DiskSet
    BY DEF Types
  <2> QED
    BY <2>1, CheckUploadingIs
<1>7. /\ disk' \in DiskSet /\ disk'.path = disk.path /\ disk'.to = E.to /\ disk'.cache = disk.cache
      /\ disk'.data[f] = v /\ \A g \in Files \ {f} : disk'.data[g] = disk.data[g]
      /\ disk'.flock = disk.flock
  <2>N. PICK N : N = disk'
    OBVIOUS
  <2>1. N = Filled(E, f, v)
    BY <1>e, <1>v, <2>N DEF Filled
  <2>2. /\ N \in DiskSet /\ N.path = E.path /\ N.flock = E.flock /\ N.to = E.to /\ N.cache = E.cache
        /\ N.data[f] = v /\ \A g \in Files \ {f} : N.data[g] = E.data[g]
    BY <1>2, <1>3, <1>e, <2>1, FilledIs, SMTT(30)
  <2> QED
    BY ONLY <1>e, <2>2, <2>N
<1>8. /\ meta' \in MetaSet /\ meta'.fin = meta.fin /\ meta'.inc = meta.inc /\ meta'.lock = 1
      /\ St(b)' = "LDISK" /\ Num(b)' = T(h).now /\ Cnt(b)' = Cnt(b)
      /\ \A d \in Blocks \ {b} : meta'.blk[d] = meta.blk[d]
  <2>0. meta \in MetaSet /\ "LDISK" \in Statuses
    BY DEF Types, Statuses, Local
  <2>1. /\ L \in MetaSet /\ L.fin = meta.fin /\ L.inc = meta.inc
        /\ L.blk[b].st = "LDISK" /\ L.blk[b].cnt = meta.blk[b].cnt
        /\ \A d \in Blocks \ {b} : L.blk[d] = meta.blk[d]
    BY <1>L, <2>0, SetStIs
  <2>2. /\ M \in MetaSet /\ M.fin = L.fin /\ M.inc = L.inc
        /\ M.blk[b].st = L.blk[b].st /\ M.blk[b].seq = T(h).now /\ M.blk[b].cnt = L.blk[b].cnt
        /\ \A d \in Blocks \ {b} : M.blk[d] = L.blk[d]
    BY <1>2, <1>M, <2>1, BlockSeqIs
  <2>3. /\ Unlock(M) \in MetaSet /\ Unlock(M).lock = 1 /\ Unlock(M).blk = M.blk /\ Unlock(M).fin = M.fin
        /\ Unlock(M).inc = M.inc
    BY <2>2, LockIs
  <2> QED
    BY ONLY <1>1, <2>1, <2>2, <2>3 DEF St, Num, Cnt
<1>9. Types'
  <2>1. left' \in LeftSet /\ SameCounters
    BY <1>8 DEF Types, SameCounters, Cnt
  <2>2. IdleTh \in ReqSet /\ IdleTh.now <= meta.fin
    BY IdleIs, NumbersAre
  <2>3. ReqOK(IdleTh, X(h))
    BY <1>2, IdleIs, ConstantFacts DEF ReqOK, RFile, WFile
  <2> QED
    BY <1>1, <1>2, <1>6, <1>7, <1>8, <2>1, <2>2, <2>3, TypesByQuietHandle
<1>10. ASSUME Clean' PROVE Core'
  <2>1. Core /\ ~w /\ St(b) \in Local
    BY <1>4, <1>6, <1>10, <1>r DEF Clean
  <2>2. T(h)' = IdleTh /\ X(h)' = X(h) /\ Others(h)
    BY <1>1, <1>2, IdleIs, GoIs DEF Types, Others
  <2>4. T(h).now = meta.fin /\ ~meta.inc
    BY <1>w, <2>1 DEF Outdated
  <2>5. Path(b) # 0 /\ Data(Path(b)) = gh.cur[b]
    BY <2>1 DEF Core, StatusI
  <2>6. v = c
    BY <1>v, <1>c, <2>5 DEF Data
  <2>7. CopyMade(b)
    <3>1. disk'.to[b] = E.to[b]
      BY <1>7
    <3> QED
      BY <2>1, <3>1, CopyChecked
  <2>8. \A d \in Blocks \ {b} : SameAt(d) /\ disk'.to[d] = disk.to[d]
    <3>1. \A d \in Blocks \ {b} : Path(d) # 0 => Path(d) # f /\ Path(d) \in Files
      BY <2>1, PathIs DEF Core, PathsI
    <3>2. ASSUME NEW d \in Blocks \ {b}
          PROVE  /\ meta'.blk[d] = meta.blk[d] /\ gh'.cur[d] = gh.cur[d] /\ gh'.ver[d] = gh.ver[d]
                 /\ Path(d)' = Path(d) /\ disk'.to[d] = disk.to[d]
      BY ONLY <1>6, <1>7, <1>8, <1>e, d \in Blocks \ {b} DEF Path
    <3>3. ASSUME NEW d \in Blocks \ {b}, Path(d) # 0
          PROVE  disk'.data[Path(d)] = disk.data[Path(d)]
      BY <1>7, <3>1, <3>3
    <3> QED
      BY ONLY <3>2, <3>3 DEF SameAt
  <2>9. GentleInside(h) /\ LockStep(h)
    <3>1. CASE T(h).pc = "cut"
      <4>1. T(h).pc \in Inside /\ IdleTh.pc \notin Inside
        BY <3>1, IdleIs DEF Inside
      <4> QED
        BY <2>1, <2>2, <4>1 DEF GentleInside, LockStep, Core, LockI
    <3>2. CASE MetaFree
      BY <1>8, <2>1, <2>2, <3>2, FreeInside, IdleIs DEF LockStep, Inside, MetaFree
    <3> QED
      BY <3>1, <3>2
  <2>10. CountI'
    <3>1. CountI /\ disk'.cache = disk.cache /\ dl' = dl
      BY <1>7, <2>1 DEF Core
    <3>2. \A d \in Blocks : St(d)' \in Local <=> St(d) \in Local
      BY <1>8, <2>1 DEF St, Local
    <3> QED
      BY <3>1, <3>2, CountSame
  <2>11. /\ St(b)' = "LDISK" /\ Num(b)' = meta.fin /\ Path(b)' = Path(b)
         /\ disk'.data[Path(b)] = gh'.cur[b] /\ gh'.cur[b] # {}
         /\ \A g \in Files \ {Path(b)} : disk'.data[g] = disk.data[g]
         /\ St(b) # "CtoL" /\ T(h).pc # "w_lock"
         /\ \A g \in Files, q \in Procs \ {h} : disk.flock[g] = q => disk'.flock[g] = q
    BY <1>3, <1>6, <1>7, <1>8, <2>1, <2>4, <2>6 DEF Path, Local
  <2> QED
    BY <1>6, <1>8, <1>9, <2>1, <2>2, <2>4, <2>5, <2>7, <2>8, <2>9, <2>10, <2>11, ModifiesBlock
<1> QED
  BY <1>9, <1>10

(* A truncation within a block that is not there changes its number.       *)
LEMMA TruncateNothingStep ==
  ASSUME BlockInv, NEW h \in Handles, NEW b \in Blocks, b = T(h).b, T(h).pc = "cut",
         St(b) = "NONE", disk' = disk, NEW n \in 0..MaxSeq, n <= meta.fin,
         NEW M, M = update_block_seq(meta, b, n), Leave(h, M), gh' = gh,
         cloud' = cloud, dl' = dl, up' = up, left' = left
  PROVE  BlockInv'
<1> USE DEF BlockInv
<1>1. meta' = Unlock(M) /\ Go(h, IdleTh, X(h))
  BY DEF Leave
<1>2. T(h) \in ReqSet /\ X(h) \in CachedSet /\ ReqOK(T(h), X(h))
  BY HandleIs
<1>3. /\ disk' \in DiskSet /\ disk'.path = disk.path /\ disk'.flock = disk.flock /\ disk'.data = disk.data
      /\ disk'.cache = disk.cache /\ \A d \in Blocks \ {b} : disk'.to[d] = disk.to[d]
  BY DEF Types
<1>4. /\ meta' \in MetaSet /\ meta'.fin = meta.fin /\ meta'.inc = meta.inc /\ meta'.lock = 1
      /\ St(b)' = St(b) /\ Num(b)' = n /\ Cnt(b)' = Cnt(b)
      /\ \A d \in Blocks \ {b} : meta'.blk[d] = meta.blk[d]
  <2>1. /\ M \in MetaSet /\ M.fin = meta.fin /\ M.inc = meta.inc
        /\ M.blk[b].st = meta.blk[b].st /\ M.blk[b].seq = n /\ M.blk[b].cnt = meta.blk[b].cnt
        /\ \A d \in Blocks \ {b} : M.blk[d] = meta.blk[d]
    BY BlockSeqIs DEF Types
  <2>2. /\ Unlock(M) \in MetaSet /\ Unlock(M).lock = 1 /\ Unlock(M).blk = M.blk /\ Unlock(M).fin = M.fin
        /\ Unlock(M).inc = M.inc
    BY <2>1, LockIs
  <2> QED
    BY ONLY <1>1, <2>1, <2>2 DEF St, Num, Cnt
<1>5. Types'
  <2>1. left' \in LeftSet /\ gh' \in GhSet /\ SameCounters
    BY <1>4 DEF Types, SameCounters, Cnt
  <2>2. IdleTh \in ReqSet /\ IdleTh.now <= meta.fin
    BY IdleIs, NumbersAre
  <2>3. ReqOK(IdleTh, X(h))
    BY <1>2, IdleIs, ConstantFacts DEF ReqOK, RFile, WFile
  <2> QED
    BY <1>1, <1>2, <1>3, <1>4, <2>1, <2>2, <2>3, TypesByQuietHandle
<1>6. ASSUME Clean' PROVE Core'
  <2>1. Core
    BY <1>6 DEF Clean
  <2>2. T(h)' = IdleTh /\ X(h)' = X(h) /\ Others(h)
    BY <1>1, <1>2, IdleIs, GoIs DEF Types, Others
  <2>3. St(b) \in Gone
    BY DEF Gone
  <2>4. CopyMade(b)
    <3>1. disk'.to[b] = disk.to[b] /\ St(b) \notin Dirty
      BY <2>3 DEF Dirty, Gone
    <3> QED
      BY <2>1, <3>1, CopyThere
  <2>5. \A d \in Blocks \ {b} : SameAt(d) /\ disk'.to[d] = disk.to[d]
    BY <1>3, <1>4 DEF SameAt, Path
  <2>6. LockStep(h) /\ T(h).pc # "w_lock"
    BY <2>2, IdleIs DEF LockStep, Inside
  <2>7. /\ SameHistory(gh') /\ gh'.loose = gh.loose /\ Path(b)' = Path(b)
        /\ \A f \in Files : GentleData(f)
        /\ \A f \in Files, q \in Procs \ {h} : disk.flock[f] = q => disk'.flock[f] = q
        /\ Path(b) # 0 => disk'.data[Path(b)] = disk.data[Path(b)]
        /\ disk'.cache = disk.cache
    BY <1>3 DEF SameHistory, Path, GentleData
  <2>8. Num(b)' <= meta.fin
    BY <1>4
  <2> QED
    BY <1>4, <1>5, <2>1, <2>2, <2>3, <2>4, <2>5, <2>6, <2>7, <2>8, LeavesBlock
<1> QED
  BY <1>5, <1>6

(* The end of a truncation within a block taken for local.                 *)
LEMMA CutLocalStep ==
  ASSUME BlockInv, NEW h \in Handles, NEW b \in Blocks, b = T(h).b,
         T(h).pc = "cut" \/ (T(h).pc = "copy" /\ MetaFree),
         NEW n, n = Num(b) \/ (up.pc # "idle" => n <= up.cur),
         CutLocal(h, meta_cache_check_uploading(disk, b, n)),
         cloud' = cloud, dl' = dl, up' = up, left' = left
  PROVE  BlockInv'
<1>f. PICK f : f = Path(b)
  OBVIOUS
<1>E. PICK E : E = meta_cache_check_uploading(disk, b, n)
  OBVIOUS
<1>1. CASE f = 0
  <2>1. Leave(h, meta) /\ disk' = meta_cache_check_uploading(disk, b, n) /\ gh' = gh
    BY <1>1, <1>f DEF CutLocal, Path
  <2> QED
    BY <2>1, CutNothingStep
<1>2. CASE f # 0
  <2>1. /\ disk' = [E EXCEPT !.data[f] = @ \cup {T(h).m}]
        /\ gh' = [Met("oldseq", Outdated(T(h))) EXCEPT !.cur[b] = @ \cup {T(h).m}, !.ver[b] = @ + 1,
                    !.known = @ \cup If("slept", St(b) \notin Local)]
        /\ Leave(h, update_block_seq(SetSt(meta, b, "LDISK"), b, T(h).now))
    BY <1>2, <1>f, <1>E DEF CutLocal, Path, St
  <2> QED
    BY <1>2, <1>f, <1>E, <2>1, TruncateLocalStep
<1> QED
  BY <1>1, <1>2

(* truncate_truncate, before and without a download.                       *)
LEMMA TruncateStep ==
  ASSUME BlockInv, NEW h \in Handles, truncate_truncate(h)
  PROVE  BlockInv'
<1>b. PICK b : b = T(h).b
  OBVIOUS
<1>n. PICK n : n = Num(b)
  OBVIOUS
<1>0. Types
  BY DEF BlockInv
<1>1. T(h).pc = "cut" /\ cloud' = cloud /\ dl' = dl /\ up' = up /\ left' = left
  BY DEF truncate_truncate, At, T
<1>2. b \in Blocks /\ T(h).now \in 0..MaxSeq /\ T(h).now <= meta.fin
  BY <1>0, <1>1, <1>b, HandleIs DEF ReqOK
<1>3. \/ St(b) \in Remote /\ FetchFirst(h, b, X(h))
      \/ St(b) = "NONE" /\ Leave(h, update_block_seq(meta, b, T(h).now)) /\ disk' = disk /\ gh' = gh
      \/ CutLocal(h, meta_cache_check_uploading(disk, b, n))
  BY <1>b, <1>n DEF truncate_truncate, St, Num
<1>4. CASE St(b) \in Remote /\ FetchFirst(h, b, X(h))
  <2>1. T(h).pc \in {"w", "again", "cut"} /\ X(h) \in {X(h), Close(X(h))}
    BY <1>1
  <2> QED
    BY <1>1, <1>2, <1>4, <1>b, <2>1, FetchFirstStep
<1>5. CASE St(b) = "NONE" /\ Leave(h, update_block_seq(meta, b, T(h).now)) /\ disk' = disk /\ gh' = gh
  BY <1>1, <1>2, <1>5, <1>b, TruncateNothingStep
<1>6. CASE CutLocal(h, meta_cache_check_uploading(disk, b, n))
  BY <1>1, <1>2, <1>6, <1>b, <1>n, CutLocalStep
<1> QED
  BY <1>3, <1>4, <1>5, <1>6

(* A truncation that has waited for room for the copy.                     *)
LEMMA CutAfterWaitStep ==
  ASSUME BlockInv, CopyWait, NEW h \in Handles, CutAfterWait(h)
  PROVE  BlockInv'
<1>b. PICK b : b = T(h).b
  OBVIOUS
<1>n. PICK n : n = T(h).seq
  OBVIOUS
<1>1. /\ T(h).pc = "copy" /\ MetaFree /\ CutLocal(h, meta_cache_check_uploading(disk, b, n))
      /\ cloud' = cloud /\ dl' = dl /\ up' = up /\ left' = left
  BY <1>b, <1>n DEF CutAfterWait, At, T
<1>2. b \in Blocks /\ (up.pc # "idle" => n <= up.cur)
  <2>1. Types
    BY DEF BlockInv
  <2> QED
    BY <1>1, <1>b, <1>n, <2>1, HandleIs DEF ReqOK, CopyWait, Waits
<1> QED
  BY <1>1, <1>2, <1>b, CutLocalStep

(* The metadata and the files when the download of a write ends.           *)
LEMMA FetchedIs ==
  ASSUME Types, NEW h \in Handles, NEW b \in Blocks, NEW w \in BOOLEAN, NEW M, NEW D,
         M = Lock(IF w THEN SetSt(meta, b, "LDISK") ELSE meta), D = IF w THEN Counted(disk) ELSE disk
  PROVE  /\ M \in MetaSet /\ M.fin = meta.fin /\ M.inc = meta.inc /\ M.lock = 0
         /\ M.blk[b].seq = Num(b) /\ M.blk[b].cnt = Cnt(b)
         /\ M.blk[b].st = IF w THEN "LDISK" ELSE St(b)
         /\ \A c \in Blocks \ {b} : M.blk[c] = meta.blk[c]
         /\ ~w => M.blk = meta.blk
         /\ D \in DiskSet /\ D.path = disk.path /\ D.flock = disk.flock /\ D.data = disk.data
         /\ D.to = disk.to /\ D.cache = IF w THEN disk.cache + 1 ELSE disk.cache
<1>N. PICK N : N = IF w THEN SetSt(meta, b, "LDISK") ELSE meta
  OBVIOUS
<1>1. meta \in MetaSet /\ disk \in DiskSet /\ "LDISK" \in Statuses
  BY DEF Types, Statuses, Local
<1>2. /\ N \in MetaSet /\ N.fin = meta.fin /\ N.inc = meta.inc
      /\ N.blk[b].seq = Num(b) /\ N.blk[b].cnt = Cnt(b)
      /\ N.blk[b].st = IF w THEN "LDISK" ELSE St(b)
      /\ \A c \in Blocks \ {b} : N.blk[c] = meta.blk[c]
      /\ ~w => N.blk = meta.blk
  <2>1. CASE w
    <3>1. N = SetSt(meta, b, "LDISK")
      BY <1>N, <2>1
    <3> QED
      BY <1>1, <2>1, <3>1, SetStIs DEF Num, Cnt
  <2>2. CASE ~w
    BY <1>1, <1>N, <2>2 DEF Num, Cnt, St
  <2> QED
    BY <2>1, <2>2
<1>3. /\ Lock(N) \in MetaSet /\ Lock(N).lock = 0 /\ Lock(N).blk = N.blk /\ Lock(N).fin = N.fin
      /\ Lock(N).inc = N.inc
  BY <1>2, LockIs
<1>4. M = Lock(N)
  BY <1>N
<1>5. /\ D \in DiskSet /\ D.path = disk.path /\ D.flock = disk.flock /\ D.data = disk.data
      /\ D.to = disk.to /\ D.cache = IF w THEN disk.cache + 1 ELSE disk.cache
  <2>1. CASE w
    <3>1. D = Counted(disk)
      BY <2>1
    <3> QED
      BY <1>1, <2>1, <3>1, CountedIs
  <2>2. CASE ~w
    BY <1>1, <2>2
  <2> QED
    BY <2>1, <2>2
<1> QED
  BY ONLY <1>2, <1>3, <1>4, <1>5

(* The download of a write ends, and the file is opened.                   *)
LEMMA WriteFetchedStep ==
  ASSUME BlockInv, NEW h \in Handles, NEW b \in Blocks, b = T(h).b, NEW f, f = T(h).f,
         T(h).pc = "wf_done", MetaFree, NEW w \in BOOLEAN, w <=> Path(b) # 0, NEW M, NEW D, NEW G,
         M = Lock(IF w THEN SetSt(meta, b, "LDISK") ELSE meta), D = IF w THEN Counted(disk) ELSE disk,
         G = Taken(b, f), disk' = Funlock(D, h), OpenForWrite(h, M, D, X(h), G),
         cloud' = cloud, dl' = dl, up' = up, left' = left
  PROVE  BlockInv'
<1> USE DEF BlockInv
<1>1. /\ T(h) \in ReqSet /\ X(h) \in CachedSet /\ ReqOK(T(h), X(h)) /\ f \in Files
      /\ T(h).res = {} /\ h \in Procs
  BY HandleIs, ConstantFacts DEF ReqOK, WFile
<1>2. /\ M \in MetaSet /\ M.fin = meta.fin /\ M.inc = meta.inc /\ M.lock = 0
      /\ M.blk[b].seq = Num(b) /\ M.blk[b].cnt = Cnt(b)
      /\ M.blk[b].st = IF w THEN "LDISK" ELSE St(b)
      /\ \A c \in Blocks \ {b} : M.blk[c] = meta.blk[c]
      /\ ~w => M.blk = meta.blk
      /\ D \in DiskSet /\ D.path = disk.path /\ D.flock = disk.flock /\ D.data = disk.data
      /\ D.to = disk.to /\ D.cache = IF w THEN disk.cache + 1 ELSE disk.cache
  BY FetchedIs
<1>3. /\ G \in GhSet /\ SameHistory(G) /\ G.loose = gh.loose
      /\ G.known = {} => /\ gh.known = {}
                         /\ Path(b) # 0 => St(b) = "CtoL" /\ Path(b) = f
  BY TakenIs DEF Types
<1>4. /\ disk' \in DiskSet /\ disk'.path = disk.path /\ disk'.data = disk.data
      /\ disk'.to = disk.to /\ disk'.cache = D.cache
      /\ \A g \in Files : disk.flock[g] # h => disk'.flock[g] = disk.flock[g]
  <2>1. /\ Funlock(D, h) \in DiskSet /\ Funlock(D, h).path = D.path /\ Funlock(D, h).data = D.data
        /\ Funlock(D, h).to = D.to /\ Funlock(D, h).cache = D.cache
        /\ \A g \in Files : D.flock[g] # h => Funlock(D, h).flock[g] = D.flock[g]
    BY <1>1, <1>2, FunlockIs
  <2> QED
    BY <1>2, <2>1
<1>5. PICK u \in ReqSet, y \in CachedSet :
        /\ Go(h, u, y) /\ ReqOK(u, y) /\ u.now <= meta.fin
        /\ meta' \in MetaSet /\ meta'.blk = M.blk /\ meta'.fin = M.fin /\ meta'.inc = M.inc
        /\ gh' \in GhSet /\ gh'.known = G.known /\ gh'.cur = G.cur /\ gh'.snap = G.snap
        /\ gh'.cloud = G.cloud /\ gh'.ver = G.ver
        /\ \A g \in Handles \ {h} : g \in G.loose => g \in gh'.loose
        /\ D.path[b] = 0 => u = IdleTh /\ y = X(h) /\ meta'.lock = 1 /\ gh' = G
        /\ D.path[b] # 0 => /\ u.pc = "w_lock" /\ u.b = b /\ u.f = 0 /\ u.ver = T(h).ver
                            /\ y.open = b /\ y.file = D.path[b] /\ y.cnt = M.blk[b].cnt
                            /\ meta' = M /\ h \notin gh'.loose
  <2>1. Types /\ OpenForWrite(h, M, D, X(h), G) /\ b = T(h).b /\ b \in Blocks /\ h \in Handles
    OBVIOUS
  <2> QED
    BY ONLY <1>1, <1>2, <1>3, <2>1, OpenForWriteIs
<1>6. /\ D.path[b] = Path(b) /\ SameHistory(gh') /\ meta'.fin = meta.fin /\ meta'.inc = meta.inc
      /\ \A g \in Handles \ {h} : g \in gh.loose => g \in gh'.loose
      /\ Num(b)' = Num(b) /\ Cnt(b)' = Cnt(b) /\ (w => St(b)' = "LDISK")
      /\ \A c \in Blocks \ {b} : meta'.blk[c] = meta.blk[c]
  BY <1>2, <1>3, <1>5 DEF Path, SameHistory, Num, Cnt, St
<1>7. Types'
  <2>1. left' \in LeftSet /\ SameCounters
    BY <1>6 DEF Types, SameCounters, Cnt
  <2> QED
    BY <1>4, <1>5, <2>1, TypesByQuietHandle
<1>8. ASSUME Clean' PROVE Core'
  <2>1. Core /\ (Path(b) # 0 => St(b) = "CtoL" /\ Path(b) = f)
    BY <1>3, <1>5, <1>8 DEF Clean
  <2>2. T(h)' = u /\ X(h)' = y /\ Others(h)
    BY <1>5, GoIs DEF Types, Others
  <2>3. disk.flock[f] = h /\ Got(b, f)
    BY <2>1 DEF Core, ReqI
  <2>4. \A g \in Files, q \in Procs \ {h} : disk.flock[g] = q => disk'.flock[g] = q
    BY <1>4
  <2>5. CASE Path(b) # 0
    <3>1. Path(b) = f /\ St(b) = "CtoL" /\ w /\ Data(f) = gh.cur[b]
      BY <2>1, <2>3, <2>5 DEF Got
    <3>2. CopyMade(b)
      <4>1. disk'.to[b] = disk.to[b] /\ St(b) \notin Dirty
        BY <1>4, <3>1 DEF Dirty
      <4> QED
        BY <2>1, <4>1, CopyThere
    <3>3. \A c \in Blocks \ {b} : SameAt(c) /\ disk'.to[c] = disk.to[c]
      BY <1>4, <1>6 DEF SameAt, SameHistory, Path
    <3>4. ~Filling(h, Path(b)')
      <4>1. Path(b)' = f
        BY <1>4, <3>1 DEF Path
      <4>2. ~Filling(h, f)
        BY <2>1, <2>3, LockedNotFilling
      <4> QED
        BY <4>1, <4>2 DEF Filling
    <3>5. GentleInside(h) /\ LockStep(h)
      <4>1. meta.lock = 1 /\ meta'.lock = 0
        BY <1>2, <1>5, <1>6, <2>5 DEF MetaFree
      <4> QED
        BY <2>1, <4>1, FreeInside DEF LockStep
    <3>6. CountI'
      <4>1. CountI /\ disk'.cache = disk.cache + 1 /\ dl' = dl
        BY <1>2, <1>4, <2>1, <3>1 DEF Core
      <4>2. \A c \in Blocks \ {b} : St(c)' \in Local <=> St(c) \in Local
        BY <1>6 DEF St
      <4>3. St(b) \notin Local /\ St(b)' \in Local
        BY <1>6, <3>1 DEF Local
      <4> QED
        BY <4>1, <4>2, <4>3, CountAdds
    <3>7. /\ T(h).pc # "w_lock" /\ T(h).pc # "idle" /\ T(h).b = b
          /\ T(h)'.pc = "w_lock" /\ T(h)'.b = b /\ T(h)'.f = 0 /\ T(h)'.ver = T(h).ver
          /\ X(h)'.open = b /\ X(h)'.file = Path(b)' /\ (h \notin gh'.loose => X(h)'.cnt <= Cnt(b))
      <4>1. Cnt(b) <= Cnt(b)
        BY PathIs, ConstantFacts
      <4> QED
        BY <1>2, <1>4, <1>5, <1>6, <2>2, <2>5, <4>1 DEF Path
    <3>8. /\ Path(b)' = Path(b) /\ Path(b)' # 0 /\ disk'.data[Path(b)'] = gh.cur[b]
          /\ disk'.data[Path(b)] = disk.data[Path(b)]
          /\ \A g \in Files \ {Path(b)'} : disk'.data[g] = disk.data[g]
          /\ disk.flock[Path(b)] = h /\ St(b)' = "LDISK"
      BY <1>4, <1>6, <2>3, <2>5, <3>1 DEF Path, Data
    <3> QED
      BY <1>6, <1>7, <2>1, <2>2, <2>4, <2>5, <3>2, <3>3, <3>4, <3>5, <3>6, <3>7, <3>8, OpensBlock
  <2>6. CASE Path(b) = 0
    <3>1. u = IdleTh /\ y = X(h) /\ meta'.lock = 1 /\ gh'.loose = gh.loose /\ ~w
      BY <1>3, <1>5, <1>6, <2>6
    <3>2. Still
      BY <1>2, <1>4, <1>5, <1>6, <3>1 DEF Still, SameHistory
    <3>3. LockStep(h) /\ OpensSafely(h) /\ FillsSafely(h)
      BY <2>2, <3>1, IdleIs DEF LockStep, MetaFree, OpensSafely, FillsSafely, Inside
    <3>4. ReqI(h)' /\ ReadI(h)' /\ CachedI(h)'
      <4>1. CachedI(h)
        BY <2>1 DEF Core
      <4> QED
        BY <2>2, <3>1, <3>2, <4>1, IdleRequest, SameCached DEF Still
    <3>5. T(h)'.pc # "w_lock" /\ T(h).pc # "w_lock"
      BY <2>2, <3>1, IdleIs
    <3> QED
      BY <1>6, <1>7, <2>1, <2>2, <2>4, <3>2, <3>3, <3>4, <3>5, StillByHandle
  <2> QED
    BY <2>5, <2>6
<1> QED
  BY <1>7, <1>8

(* The download of a truncation ends: the file, whatever its path, is cut. *)
LEMMA TruncateFetchedStep ==
  ASSUME BlockInv, NEW h \in Handles, NEW b \in Blocks, b = T(h).b, NEW f, f = T(h).f,
         T(h).pc = "wf_done", MetaFree, NEW w \in BOOLEAN, w <=> Path(b) # 0, NEW M, NEW D, NEW G,
         M = Lock(IF w THEN SetSt(meta, b, "LDISK") ELSE meta), D = IF w THEN Counted(disk) ELSE disk,
         G = Taken(b, f), NEW E, disk' = Funlock(E, h), E = Filled(D, f, D.data[f] \cup {T(h).m}),
         NEW z, z = IF w THEN Outdated(T(h)) ELSE St(b) \in Remote,
         NEW K, K = Flagged(G, If("oldseq", z)),
         gh' = IF w THEN Changed(K, b, K.cur[b] \cup {T(h).m}) ELSE K,
         NEW N, N = update_block_seq(M, b, T(h).now), Leave(h, N),
         cloud' = cloud, dl' = dl, up' = up, left' = left
  PROVE  BlockInv'
<1> USE DEF BlockInv
<1>c. PICK c : c = gh.cur[b] \cup {T(h).m}
  OBVIOUS
<1>v. PICK v : v = disk.data[f] \cup {T(h).m}
  OBVIOUS
<1>1. /\ T(h) \in ReqSet /\ X(h) \in CachedSet /\ ReqOK(T(h), X(h)) /\ f \in Files
      /\ T(h).now \in 0..MaxSeq /\ T(h).m \in 0..MaxMod /\ h \in Procs /\ T(h).now <= meta.fin
  BY HandleIs, ConstantFacts DEF ReqOK, WFile
<1>2. /\ M \in MetaSet /\ M.fin = meta.fin /\ M.inc = meta.inc /\ M.lock = 0
      /\ M.blk[b].seq = Num(b) /\ M.blk[b].cnt = Cnt(b)
      /\ M.blk[b].st = IF w THEN "LDISK" ELSE St(b)
      /\ \A d \in Blocks \ {b} : M.blk[d] = meta.blk[d]
      /\ D \in DiskSet /\ D.path = disk.path /\ D.flock = disk.flock /\ D.data = disk.data
      /\ D.to = disk.to /\ D.cache = IF w THEN disk.cache + 1 ELSE disk.cache
  BY FetchedIs
<1>3. /\ G \in GhSet /\ SameHistory(G) /\ G.loose = gh.loose
      /\ G.known = {} => /\ gh.known = {}
                         /\ Path(b) # 0 => St(b) = "CtoL" /\ Path(b) = f
  BY TakenIs DEF Types
<1>4. v \in Marks /\ c \in Marks /\ c # {}
  BY <1>1, <1>v, <1>c DEF Types, DiskSet, GhSet, Marks
<1>5. /\ disk' \in DiskSet /\ disk'.path = disk.path /\ disk'.to = disk.to /\ disk'.cache = D.cache
      /\ disk'.data[f] = v /\ \A g \in Files \ {f} : disk'.data[g] = disk.data[g]
      /\ \A g \in Files : disk.flock[g] # h => disk'.flock[g] = disk.flock[g]
  <2>0. E = Filled(D, f, v) /\ disk' = Funlock(E, h)
    BY <1>2, <1>v
  <2>2. /\ E \in DiskSet /\ E.path = D.path /\ E.flock = D.flock /\ E.to = D.to
        /\ E.cache = D.cache /\ E.data[f] = v /\ \A g \in Files \ {f} : E.data[g] = D.data[g]
    BY ONLY <1>1, <1>2, <1>4, <2>0, FilledIs, SMTT(30)
  <2>3. /\ Funlock(E, h) \in DiskSet /\ Funlock(E, h).path = E.path /\ Funlock(E, h).data = E.data
        /\ Funlock(E, h).to = E.to /\ Funlock(E, h).cache = E.cache
        /\ \A g \in Files : E.flock[g] # h => Funlock(E, h).flock[g] = E.flock[g]
    <3>1. E \in DiskSet /\ h \in Procs
      BY ONLY <1>1, <2>2
    <3> QED
      BY ONLY <3>1, FunlockIs
  <2> QED
    BY ONLY <1>2, <2>0, <2>2, <2>3
<1>6. /\ meta' \in MetaSet /\ meta'.fin = meta.fin /\ meta'.inc = meta.inc /\ meta'.lock = 1
      /\ Num(b)' = T(h).now /\ Cnt(b)' = Cnt(b) /\ St(b)' = IF w THEN "LDISK" ELSE St(b)
      /\ \A d \in Blocks \ {b} : meta'.blk[d] = meta.blk[d]
      /\ Go(h, IdleTh, X(h))
  <2>0. meta' = Unlock(N) /\ Go(h, IdleTh, X(h))
    BY DEF Leave
  <2>1. /\ N \in MetaSet /\ N.fin = M.fin /\ N.inc = M.inc
        /\ N.blk[b].st = M.blk[b].st /\ N.blk[b].seq = T(h).now /\ N.blk[b].cnt = M.blk[b].cnt
        /\ \A d \in Blocks \ {b} : N.blk[d] = M.blk[d]
    <3>1. M \in MetaSet /\ T(h).now \in 0..MaxSeq /\ N = update_block_seq(M, b, T(h).now)
      BY <1>1, <1>2
    <3> QED
      BY ONLY <3>1, b \in Blocks, BlockSeqIs
  <2>2. /\ Unlock(N) \in MetaSet /\ Unlock(N).lock = 1 /\ Unlock(N).blk = N.blk /\ Unlock(N).fin = N.fin
        /\ Unlock(N).inc = N.inc
    BY <2>1, LockIs
  <2> QED
    BY ONLY <1>2, <2>0, <2>1, <2>2 DEF St, Num, Cnt
<1>7. /\ K \in GhSet /\ SameHistory(K) /\ K.loose = gh.loose
      /\ K.known = {} => G.known = {} /\ ~z
  <2>1. If("oldseq", z) \in SUBSET Hazards /\ (If("oldseq", z) = {} => ~z)
    BY DEF If, Hazards
  <2>2. /\ K \in GhSet /\ K.known = G.known \cup If("oldseq", z)
        /\ K.cur = G.cur /\ K.snap = G.snap /\ K.cloud = G.cloud /\ K.ver = G.ver /\ K.loose = G.loose
    BY <1>3, <2>1, KnownIs
  <2> QED
    BY <1>3, <2>1, <2>2 DEF SameHistory
<1>8. gh' = IF w THEN Changed(K, b, c) ELSE K
  BY <1>7, <1>c DEF SameHistory
<1>9. /\ gh' \in GhSet /\ gh'.snap = gh.snap /\ gh'.cloud = gh.cloud /\ gh'.known = K.known
      /\ gh'.loose = gh.loose
      /\ w => gh'.cur[b] = c /\ gh'.ver[b] > gh.ver[b]
      /\ ~w => SameHistory(gh')
      /\ \A d \in Blocks \ {b} : gh'.cur[d] = gh.cur[d] /\ gh'.ver[d] = gh.ver[d]
  <2>1. CASE w
    <3>1. gh' = Changed(K, b, c)
      BY <1>8, <2>1
    <3>2. /\ gh' \in GhSet /\ gh'.snap = K.snap /\ gh'.cloud = K.cloud /\ gh'.known = K.known
          /\ gh'.loose = K.loose /\ gh'.cur[b] = c /\ gh'.ver[b] = K.ver[b] + 1 /\ K.ver[b] \in Nat
          /\ \A d \in Blocks \ {b} : gh'.cur[d] = K.cur[d] /\ gh'.ver[d] = K.ver[d]
      <4>1. K \in GhSet /\ c \in Marks
        BY ONLY <1>4, <1>7
      <4> QED
        BY ONLY b \in Blocks, <3>1, <4>1, ChangedIs, SMTT(30)
    <3>3. K.snap = gh.snap /\ K.cloud = gh.cloud /\ K.loose = gh.loose /\ K.cur = gh.cur /\ K.ver = gh.ver
      BY <1>7 DEF SameHistory
    <3>n. gh'.ver[b] = K.ver[b] + 1 /\ K.ver[b] \in Nat
      BY ONLY <3>2
    <3>4. gh'.ver[b] > K.ver[b]
      BY ONLY <3>n
    <3> QED
      BY ONLY <2>1, <3>2, <3>3, <3>4
  <2>2. CASE ~w
    <3>1. gh' = K
      BY <1>8, <2>2
    <3> QED
      BY ONLY <1>7, <2>2, <3>1 DEF SameHistory
  <2> QED
    BY <2>1, <2>2
<1>10. Types'
  <2>1. left' \in LeftSet /\ SameCounters
    BY <1>6 DEF Types, SameCounters, Cnt
  <2>2. IdleTh \in ReqSet /\ IdleTh.now <= meta.fin
    BY IdleIs, NumbersAre
  <2>3. ReqOK(IdleTh, X(h))
    BY <1>1, IdleIs, ConstantFacts DEF ReqOK, RFile, WFile
  <2> QED
    BY <1>1, <1>5, <1>6, <1>9, <2>1, <2>2, <2>3, TypesByQuietHandle
<1>11. ASSUME Clean' PROVE Core'
  <2>1. Core /\ (Path(b) # 0 => St(b) = "CtoL" /\ Path(b) = f) /\ ~z
    BY <1>3, <1>7, <1>9, <1>11 DEF Clean
  <2>2. T(h)' = IdleTh /\ X(h)' = X(h) /\ Others(h)
    BY <1>1, <1>6, IdleIs, GoIs DEF Types, Others
  <2>3. disk.flock[f] = h /\ Got(b, f) /\ Own(b, f)
    BY <2>1 DEF Core, ReqI, WFile
  <2>4. \A g \in Files, q \in Procs \ {h} : disk.flock[g] = q => disk'.flock[g] = q
    BY <1>5
  <2>5. \A d \in Blocks \ {b} : SameAt(d) /\ disk'.to[d] = disk.to[d]
    <3>1. \A d \in Blocks \ {b} : Path(d) # 0 => Path(d) # f /\ Path(d) \in Files
      BY <2>3, PathIs DEF Own
    <3> QED
      BY ONLY <1>5, <1>6, <1>9, <3>1 DEF SameAt, Path
  <2>6. LockStep(h)
    BY <1>6, <2>2, IdleIs DEF LockStep, MetaFree, Inside
  <2>7. disk'.to[b] = disk.to[b] /\ Path(b)' = Path(b)
    BY <1>5 DEF Path
  <2>8. CASE Path(b) # 0
    <3>1. Path(b) = f /\ St(b) = "CtoL" /\ w /\ Data(f) = gh.cur[b]
      BY <2>1, <2>3, <2>8 DEF Got
    <3>2. T(h).now = meta.fin /\ ~meta.inc
      BY <2>1, <3>1 DEF Outdated
    <3>3. CopyMade(b)
      <4>1. St(b) \notin Dirty
        BY <3>1 DEF Dirty
      <4> QED
        BY <2>1, <2>7, <4>1, CopyThere
    <3>4. v = c
      BY <1>v, <1>c, <3>1 DEF Data
    <3>5. GentleInside(h)
      BY <2>1, FreeInside
    <3>6. CountI'
      <4>1. CountI /\ disk'.cache = disk.cache + 1 /\ dl' = dl
        BY <1>2, <1>5, <2>1, <3>1 DEF Core
      <4>2. \A d \in Blocks \ {b} : St(d)' \in Local <=> St(d) \in Local
        BY <1>6 DEF St
      <4>3. St(b) \notin Local /\ St(b)' \in Local
        BY <1>6, <3>1 DEF Local
      <4> QED
        BY <4>1, <4>2, <4>3, CountAdds
    <3>7. /\ St(b)' = "LDISK" /\ Num(b)' = meta.fin /\ disk'.data[Path(b)] = gh'.cur[b] /\ gh'.cur[b] # {}
          /\ \A g \in Files \ {Path(b)} : disk'.data[g] = disk.data[g]
          /\ disk.flock[Path(b)] = h /\ T(h).pc # "w_lock" /\ gh'.ver[b] > gh.ver[b]
      <4>1. T(h).pc # "w_lock"
        OBVIOUS
      <4> QED
        BY ONLY <1>4, <1>5, <1>6, <1>9, <2>3, <3>1, <3>2, <3>4, <4>1
    <3> QED
      BY <1>6, <1>9, <1>10, <2>1, <2>2, <2>4, <2>5, <2>6, <2>7, <2>8, <3>2, <3>3, <3>5, <3>6, <3>7, ModifiesBlock
  <2>9. CASE Path(b) = 0
    <3>1. ~w /\ St(b) \notin Remote
      BY <2>1, <2>9
    <3>2. St(b) \in Gone
      <4>1. St(b) \in Statuses
        BY PathIs
      <4>2. St(b) \notin Local
        BY <2>1, <2>9 DEF Core, StatusI
      <4> QED
        BY <3>1, <4>1, <4>2 DEF Statuses
    <3>3. CopyMade(b)
      <4>1. St(b) \notin Dirty
        BY <3>2 DEF Dirty, Gone
      <4> QED
        BY <2>1, <2>7, <4>1, CopyThere
    <3>4. \A g \in Files : GentleData(g)
      <4>1. ~Cached(f)
        BY <2>1 DEF Core, NoReader, Cached
      <4> QED
        BY <1>5, <4>1, FillGentle
    <3>5. /\ SameHistory(gh') /\ gh'.loose = gh.loose /\ St(b)' = St(b) /\ Num(b)' <= meta.fin
          /\ T(h).pc # "w_lock" /\ disk'.cache = disk.cache
      BY <1>1, <1>2, <1>5, <1>6, <1>9, <3>1
    <3> QED
      BY <1>6, <1>10, <2>1, <2>2, <2>4, <2>5, <2>6, <2>7, <2>9, <3>2, <3>3, <3>4, <3>5, LeavesBlock
  <2> QED
    BY <2>8, <2>9
<1> QED
  BY <1>10, <1>11

(* The end of the download of a write or a truncation.                     *)
LEMMA WriteFetchEndStep ==
  ASSUME BlockInv, NEW h \in Handles, _write_fetch_backend(h)
  PROVE  BlockInv'
<1>b. PICK b : b = T(h).b
  OBVIOUS
<1>f. PICK f : f = T(h).f
  OBVIOUS
<1>w. PICK w \in BOOLEAN : w <=> Path(b) # 0
  OBVIOUS
<1>M. PICK M : M = Lock(IF w THEN SetSt(meta, b, "LDISK") ELSE meta)
  OBVIOUS
<1>D. PICK D : D = IF w THEN Counted(disk) ELSE disk
  OBVIOUS
<1>G. PICK G : G = Taken(b, f)
  OBVIOUS
<1>1. T(h).pc = "wf_done" /\ MetaFree /\ cloud' = cloud /\ dl' = dl /\ up' = up /\ left' = left
  BY DEF _write_fetch_backend, At, T
<1>2. b \in Blocks /\ T(h).op \in {"w", "cut"}
  <2>1. Types
    BY DEF BlockInv
  <2> QED
    BY <1>1, <1>b, <2>1, HandleIs DEF ReqOK, WFile
<1>3. CASE T(h).op = "w"
  <2>1. disk' = Funlock(D, h) /\ OpenForWrite(h, M, D, X(h), G)
    BY <1>3, <1>b, <1>f, <1>w, <1>M, <1>D, <1>G DEF _write_fetch_backend, Path
  <2> QED
    BY <1>1, <1>2, <1>b, <1>f, <1>w, <1>M, <1>D, <1>G, <2>1, WriteFetchedStep
<1>4. CASE T(h).op = "cut"
  <2>E. PICK E : E = Filled(D, f, D.data[f] \cup {T(h).m})
    OBVIOUS
  <2>z. PICK z : z = IF w THEN Outdated(T(h)) ELSE St(b) \in Remote
    OBVIOUS
  <2>K. PICK K : K = Flagged(G, If("oldseq", z))
    OBVIOUS
  <2>N. PICK N : N = update_block_seq(M, b, T(h).now)
    OBVIOUS
  <2>1. /\ disk' = Funlock([D EXCEPT !.data[f] = @ \cup {T(h).m}], h)
        /\ gh' = IF w THEN [G EXCEPT !.cur[b] = @ \cup {T(h).m}, !.ver[b] = @ + 1,
                              !.known = @ \cup If("oldseq", Outdated(T(h)))]
                 ELSE [G EXCEPT !.known = @ \cup If("oldseq", St(b) \in Remote)]
        /\ Leave(h, N)
    BY <1>4, <1>b, <1>f, <1>w, <1>M, <1>D, <1>G, <2>N DEF _write_fetch_backend, Path, St
  <2>2. disk' = Funlock(E, h)
    BY <2>1, <2>E DEF Filled
  <2>3. G \in GhSet
    BY <1>G, TakenIs DEF BlockInv, Types
  <2>4. gh' = IF w THEN Changed(K, b, K.cur[b] \cup {T(h).m}) ELSE K
    <3>1. CASE w
      <4>1. gh' = [G EXCEPT !.cur[b] = G.cur[b] \cup {T(h).m}, !.ver[b] = @ + 1, !.known = @ \cup If("oldseq", z)]
        BY <2>1, <2>z, <3>1
      <4>2. K.cur = G.cur
        BY ONLY <2>3, <2>K DEF Flagged, GhSet
      <4>3. Changed(K, b, G.cur[b] \cup {T(h).m})
            = [G EXCEPT !.cur[b] = G.cur[b] \cup {T(h).m}, !.ver[b] = @ + 1, !.known = @ \cup If("oldseq", z)]
        BY ONLY <2>3, <2>K DEF Changed, Flagged, GhSet
      <4> QED
        BY ONLY <3>1, <4>1, <4>2, <4>3
    <3>2. CASE ~w
      BY <2>1, <2>K, <2>z, <3>2 DEF Flagged
    <3> QED
      BY <3>1, <3>2
  <2>5. BlockInv /\ h \in Handles /\ w \in BOOLEAN /\ Leave(h, N)
    BY <2>1
  <2> QED
    BY ONLY <1>1, <1>2, <1>b, <1>f, <1>w, <1>M, <1>D, <1>G, <2>2, <2>4, <2>5, <2>E, <2>z, <2>K, <2>N,
       TruncateFetchedStep
<1> QED
  BY <1>2, <1>3, <1>4

(* Steps that leave the requests and the downloads alone keep the types.   *)
LEMMA TypesByNoOne ==
  ASSUME Types, th' = th, dl' = dl, meta' \in MetaSet, disk' \in DiskSet, cloud' \in CloudSet,
         up' \in UpSet, gh' \in GhSet, left' \in LeftSet, UpOK', meta.fin <= meta'.fin,
         meta'.fin <= 1 + (MaxMod - left'.mod), \A b \in Blocks : Cnt(b)' <= MaxPage - left'.page
  PROVE  Types'
<1>1. /\ ThTypes' /\ DlTypes' /\ (\A h \in Handles : ReqOK(T(h), X(h))')
      /\ (\A l \in Loaders : JobOK(dl[l])')
  BY DEF Types, ThTypes, DlTypes, ReqOK, JobOK, T, X
<1>2. \A h \in Handles : T(h)'.now <= meta'.fin
  <2> SUFFICES ASSUME NEW h \in Handles PROVE T(h)'.now <= meta'.fin
    OBVIOUS
  <2>1. T(h)'.now = T(h).now /\ T(h).now <= meta.fin /\ T(h).now \in 0..MaxSeq
    BY HandleIs DEF T
  <2>2. meta.fin \in Nat /\ meta'.fin \in 0..MaxSeq /\ MaxSeq \in Nat
    BY NumbersAre, ConstantFacts DEF MetaSet
  <2> QED
    BY <2>1, <2>2
<1>3. Counters'
  BY <1>2 DEF Counters
<1> QED
  BY <1>1, <1>3 DEF Types

(* What Dropped leaves.                                                    *)
LEMMA DroppedIs ==
  ASSUME NEW D \in DiskSet, NEW b \in Blocks, NEW s \in Statuses, NEW E, E = Dropped(D, b, s)
  PROVE  /\ E \in DiskSet /\ E.flock = D.flock /\ E.data = D.data /\ E.to = D.to
         /\ \A c \in Blocks \ {b} : E.path[c] = D.path[c]
         /\ s \in Gone \cup {"CLOUD"} => E = D
         /\ s \notin Gone \cup {"CLOUD"} => E.path[b] = 0
         /\ s \in Local /\ D.path[b] # 0 => E.cache = D.cache - 1
         /\ s \notin Local => E.cache = D.cache
<1>1. CASE s \in Gone \cup {"CLOUD"}
  BY <1>1 DEF Dropped, Gone, Local
<1>2. CASE s \notin Gone \cup {"CLOUD"}
  <2>U. PICK U : U = Unlinked(D, b)
    OBVIOUS
  <2>n. PICK n : n = IF s = "LDISK" \/ (s # "CtoL" /\ D.path[b] # 0) THEN U.cache - 1 ELSE U.cache
    OBVIOUS
  <2>1. /\ U \in DiskSet /\ U.flock = D.flock /\ U.data = D.data /\ U.to = D.to /\ U.cache = D.cache
        /\ U.path[b] = 0 /\ \A c \in Blocks \ {b} : U.path[c] = D.path[c]
    BY <2>U, UnlinkedIs
  <2>2. n \in Int
    BY <2>1, <2>n DEF DiskSet
  <2>3. E = [U EXCEPT !.cache = n]
    BY <1>2, <2>U, <2>n DEF Dropped
  <2>4. /\ E \in DiskSet /\ E.flock = U.flock /\ E.data = U.data /\ E.to = U.to /\ E.path = U.path
        /\ E.cache = n
    BY ONLY <2>1, <2>2, <2>3 DEF DiskSet
  <2>5. /\ s \in Local /\ D.path[b] # 0 => n = D.cache - 1
        /\ s \notin Local => n = D.cache
    BY <1>2, <2>1, <2>n DEF Local, Remote, Gone, Statuses
  <2> QED
    BY ONLY <1>2, <2>1, <2>4, <2>5
<1> QED
  BY <1>1, <1>2

(* Truncation to an earlier block.                                         *)
LEMMA DeleteBlockStep ==
  ASSUME BlockInv, NEW h \in Handles, truncate_delete_block(h)
  PROVE  BlockInv'
<1> USE DEF BlockInv
<1>b. PICK b : b = T(h).b
  OBVIOUS
<1>n. PICK n : n = T(h).now
  OBVIOUS
<1>q. PICK q : q = Num(b)
  OBVIOUS
<1>s. PICK s : s = CASE St(b) = "NONE" \/ (St(b) = "LDISK" /\ ~meta.blk[b].up) -> "NONE" [] OTHER -> "TODELETE"
  OBVIOUS
<1>E. PICK E : E = meta_cache_check_uploading(disk, b, q)
  OBVIOUS
<1>D. PICK D : D = IF St(b) = "LtoC" THEN E ELSE disk
  OBVIOUS
<1>w. PICK w : w = (St(b) = "LDISK" /\ MustCopy(b, q))
  OBVIOUS
<1>v. PICK v : v = Outdated(T(h))
  OBVIOUS
<1>G. PICK G : G = [gh EXCEPT !.known = gh.known \cup If("torn", w) \cup If("oldseq", v)]
  OBVIOUS
<1>1. /\ T(h).pc = "del" /\ meta' = Unlock(update_block_seq(SetSt(meta, b, s), b, n)) /\ Go(h, IdleTh, X(h))
      /\ disk' = Dropped(D, b, St(b))
      /\ gh' = [gh EXCEPT !.known = gh.known \cup If("torn", w) \cup If("oldseq", v),
                   !.cur[b] = {}, !.ver[b] = @ + 1, !.loose = @ \cup Holders(b)]
      /\ cloud' = cloud /\ dl' = dl /\ up' = up /\ left' = left
  BY <1>b, <1>n, <1>q, <1>s, <1>E, <1>D, <1>w, <1>v DEF truncate_delete_block, St, Num, Leave, At, T
<1>2. s \in Gone /\ s \in Statuses
  BY <1>s DEF Gone, Statuses
<1>3. X(h) \in CachedSet /\ ReqOK(T(h), X(h)) /\ b \in Blocks /\ n \in 0..MaxSeq /\ n <= meta.fin
  BY <1>1, <1>b, <1>n, HandleIs DEF ReqOK
<1>8. /\ meta' \in MetaSet /\ meta'.fin = meta.fin /\ meta'.inc = meta.inc /\ meta'.lock = 1
      /\ St(b)' = s /\ Num(b)' = n /\ Cnt(b)' = Cnt(b)
      /\ \A c \in Blocks \ {b} : meta'.blk[c] = meta.blk[c]
  <2>N. PICK N : N = SetSt(meta, b, s)
    OBVIOUS
  <2>1. /\ N \in MetaSet /\ N.fin = meta.fin /\ N.inc = meta.inc
        /\ N.blk[b].st = s /\ N.blk[b].cnt = meta.blk[b].cnt
        /\ \A c \in Blocks \ {b} : N.blk[c] = meta.blk[c]
    BY <1>2, <1>3, <2>N, SetStIs DEF Types
  <2>K. PICK K : K = update_block_seq(N, b, n)
    OBVIOUS
  <2>2. /\ K \in MetaSet /\ K.fin = N.fin /\ K.inc = N.inc
        /\ K.blk[b].st = N.blk[b].st /\ K.blk[b].seq = n /\ K.blk[b].cnt = N.blk[b].cnt
        /\ \A c \in Blocks \ {b} : K.blk[c] = N.blk[c]
    BY <1>3, <2>1, <2>K, BlockSeqIs
  <2>3. /\ Unlock(K) \in MetaSet /\ Unlock(K).lock = 1 /\ Unlock(K).blk = K.blk /\ Unlock(K).fin = K.fin
        /\ Unlock(K).inc = K.inc
    BY <2>2, LockIs
  <2>4. meta' = Unlock(K)
    BY <1>1, <2>N, <2>K
  <2> QED
    BY ONLY <2>1, <2>2, <2>3, <2>4 DEF St, Num, Cnt
<1>9. D \in DiskSet /\ D.path = disk.path /\ D.flock = disk.flock /\ D.data = disk.data
      /\ D.cache = disk.cache /\ (\A c \in Blocks \ {b} : D.to[c] = disk.to[c])
  <2>1. disk \in DiskSet
    BY DEF Types
  <2> QED
    BY <1>3, <1>D, <1>E, <2>1, CheckUploadingIs
<1>10. /\ disk' \in DiskSet /\ disk'.flock = disk.flock /\ disk'.data = disk.data /\ disk'.to = D.to
       /\ \A c \in Blocks \ {b} : Path(c)' = Path(c) /\ disk'.to[c] = disk.to[c]
       /\ St(b) \in Gone \cup {"CLOUD"} => Path(b)' = Path(b)
       /\ St(b) \notin Gone \cup {"CLOUD"} => Path(b)' = 0
       /\ St(b) \in Local /\ Path(b) # 0 => disk'.cache = disk.cache - 1
       /\ St(b) \notin Local => disk'.cache = disk.cache
  <2>e. PICK e : e = disk'
    OBVIOUS
  <2>t. PICK t : t = St(b)
    OBVIOUS
  <2>1. t \in Statuses /\ e = Dropped(D, b, t)
    BY <1>1, <1>3, <2>e, <2>t, PathIs
  <2>2. /\ e \in DiskSet /\ e.flock = D.flock /\ e.data = D.data /\ e.to = D.to
        /\ \A c \in Blocks \ {b} : e.path[c] = D.path[c]
        /\ t \in Gone \cup {"CLOUD"} => e = D
        /\ t \notin Gone \cup {"CLOUD"} => e.path[b] = 0
        /\ t \in Local /\ D.path[b] # 0 => e.cache = D.cache - 1
        /\ t \notin Local => e.cache = D.cache
    BY <1>3, <1>9, <2>1, DroppedIs
  <2> QED
    BY ONLY <1>9, <2>2, <2>e, <2>t DEF Path
<1>11. /\ gh' \in GhSet /\ gh'.snap = gh.snap /\ gh'.cloud = gh.cloud
       /\ gh'.known = {} => gh.known = {} /\ ~w /\ ~v
       /\ gh'.loose = gh.loose \cup Holders(b) /\ gh'.cur[b] = {} /\ gh'.ver[b] > gh.ver[b]
       /\ \A c \in Blocks \ {b} : gh'.cur[c] = gh.cur[c] /\ gh'.ver[c] = gh.ver[c]
  <2>1. /\ G \in GhSet /\ SameHistory(G) /\ G.loose = gh.loose /\ (G.known = {} => gh.known = {} /\ ~w /\ ~v)
    <3>1. gh \in GhSet /\ "torn" \in Hazards /\ "oldseq" \in Hazards
      BY DEF Types, Hazards
    <3>2. G = BothMet("torn", w, "oldseq", v)
      BY <1>G DEF BothMet
    <3> QED
      BY ONLY <3>1, <3>2, BothMetIs
  <2>c. PICK c : c = {}
    OBVIOUS
  <2>d. c \in Marks
    BY <2>c DEF Marks
  <2>K. PICK K : K = Changed(G, b, c)
    OBVIOUS
  <2>2. /\ K \in GhSet /\ K.snap = G.snap /\ K.cloud = G.cloud /\ K.known = G.known /\ K.loose = G.loose
        /\ K.cur[b] = c /\ K.ver[b] = G.ver[b] + 1 /\ G.ver[b] \in Nat
        /\ \A d \in Blocks \ {b} : K.cur[d] = G.cur[d] /\ K.ver[d] = G.ver[d]
    BY <1>3, <2>1, <2>d, <2>K, ChangedIs
  <2>L. PICK L : L = G.loose \cup Holders(b)
    OBVIOUS
  <2>3. L \in SUBSET Handles
    BY <2>1, <2>L DEF GhSet, Holders
  <2>4. gh' = [K EXCEPT !.loose = L]
    <3>1. L = gh.loose \cup Holders(b)
      BY <2>1, <2>L
    <3>2. gh' = [gh EXCEPT !.known = gh.known \cup If("torn", w) \cup If("oldseq", v),
                   !.cur[b] = c, !.ver[b] = @ + 1, !.loose = L]
      BY <1>1, <2>c, <3>1
    <3>3. gh \in GhSet
      BY DEF Types
    <3> QED
      BY ONLY <1>G, <2>K, <3>2, <3>3 DEF Changed, GhSet
  <2>5. /\ gh' \in GhSet /\ gh'.snap = K.snap /\ gh'.cloud = K.cloud /\ gh'.known = K.known
        /\ gh'.cur = K.cur /\ gh'.ver = K.ver /\ gh'.loose = L
    BY ONLY <2>2, <2>3, <2>4 DEF GhSet
  <2>6. gh'.ver[b] > gh.ver[b]
    BY ONLY <2>1, <2>2, <2>5 DEF SameHistory
  <2> QED
    BY ONLY <2>1, <2>2, <2>5, <2>6, <2>c, <2>L DEF SameHistory
<1>12. Types'
  <2>1. left' \in LeftSet /\ SameCounters
    BY <1>1, <1>8 DEF Types, SameCounters, Cnt
  <2>2. IdleTh \in ReqSet /\ IdleTh.now <= meta.fin
    BY IdleIs, NumbersAre
  <2>3. ReqOK(IdleTh, X(h))
    BY <1>3, IdleIs, ConstantFacts DEF ReqOK, RFile, WFile
  <2> QED
    BY <1>1, <1>3, <1>8, <1>10, <1>11, <2>1, <2>2, <2>3, TypesByQuietHandle
<1>13. ASSUME Clean' PROVE Core'
  <2>1. Core /\ ~w /\ ~v
    BY <1>11, <1>13 DEF Clean
  <2>2. StatusI(b)
    BY <1>3, <2>1 DEF Core
  <2>t. T(h)' = IdleTh /\ X(h)' = X(h) /\ Others(h)
    BY <1>1, <1>3, IdleIs, GoIs DEF Types, Others
  <2>3. FinStep
    BY <1>8 DEF FinStep
  <2>4. \A c \in Blocks : Writing(c)' <=> Writing(c)
    BY <1>1, <2>t, IdleIs DEF Writing, Others
  <2>5. \A c \in Blocks \ {b} : SameAt(c)
    BY <1>8, <1>10, <1>11 DEF SameAt
  <2>6. \A c \in Blocks \ {b} : QuietAt(c)
    BY <1>8, <1>10, <1>11, <2>4 DEF QuietAt, St, Num
  <2>7. CopyMade(b)
    <3>1. CASE St(b) = "LtoC"
      <4>1. disk'.to[b] = E.to[b]
        BY <1>10, <1>D, <3>1
      <4> QED
        BY <1>3, <1>E, <1>q, <2>1, <4>1, CopyChecked
    <3>2. CASE St(b) = "LDISK"
      <4>1. E = disk
        BY <1>E, <1>w, <2>1, <3>2 DEF meta_cache_check_uploading
      <4>2. disk'.to[b] = E.to[b]
        BY <1>10, <1>D, <3>2, <4>1
      <4> QED
        BY <1>3, <1>E, <1>q, <2>1, <4>2, CopyChecked
    <3>3. CASE St(b) \notin Dirty
      <4>1. disk'.to[b] = disk.to[b]
        BY <1>10, <1>D, <3>3 DEF Dirty
      <4> QED
        BY <1>3, <2>1, <3>3, <4>1, CopyThere
    <3> QED
      BY <3>1, <3>2, <3>3 DEF Dirty
  <2>8. UpI(b)'
    <3>1. gh'.snap[b] = gh.snap[b] /\ gh'.cloud[b] = gh.cloud[b] /\ St(b)' \in Gone
      BY <1>2, <1>8, <1>11
    <3> QED
      BY <1>1, <1>3, <1>12, <2>1, <2>3, <2>7, <3>1, ChangedUpload
  <2>9. StatusI(b)'
    <3>1. Num(b)' <= meta'.fin
      BY <1>3, <1>8
    <3>2. s \notin Local /\ s \notin Remote \cup {"BOTH"}
      BY <1>2 DEF Gone, Local, Remote
    <3>3. Path(b)' # 0 => disk'.data[Path(b)'] = {}
      BY <1>10, <2>2 DEF StatusI, Data
    <3> QED
      BY <1>2, <1>8, <1>11, <3>1, <3>2, <3>3 DEF StatusI, Data
  <2>10. GentleAt(h, b)
    <3>1. Holders(b) \subseteq gh'.loose /\ St(b)' \notin Remote
      BY <1>2, <1>8, <1>11 DEF Gone, Remote
    <3>2. St(b) = "CtoL" => Path(b)' = 0
      BY <1>10 DEF Gone
    <3>3. Path(b)' \in {Path(b), 0}
      BY <1>10
    <3> QED
      BY <1>11, <3>1, <3>2, <3>3 DEF GentleAt, KeepsPath, KeepsVersion, KeepsDownload, KeepsCached, KeepsRead
  <2>11. \A c \in Blocks : GentleAt(h, c) /\ StatusI(c)' /\ UpI(c)'
    <3>1. \A c \in Blocks \ {b} : GentleAt(h, c)
      BY <2>5, SameIsGentle
    <3>2. \A c \in Blocks \ {b} : UpI(c)' /\ StatusI(c)'
      BY <1>1, <2>1, <2>3, <2>4, <2>5, <2>6, UploadKept, StatusKept
    <3> QED
      BY <2>8, <2>9, <2>10, <3>1, <3>2
  <2>12. CountI'
    <3>1. CountI /\ dl' = dl /\ \A c \in Blocks \ {b} : St(c)' \in Local <=> St(c) \in Local
      BY <1>1, <1>8, <2>1 DEF Core, St
    <3>2. St(b)' \notin Local
      BY <1>2, <1>8 DEF Gone, Local
    <3>3. CASE St(b) \in Local
      <4>1. disk'.cache = disk.cache - 1
        BY <1>10, <2>2, <3>3 DEF StatusI
      <4>2. \A l \in Loaders : dl'[l].pc = "both" <=> dl[l].pc = "both"
        BY <3>1
      <4> QED
        BY ONLY <1>3, <3>1, <3>2, <3>3, <4>1, <4>2, CountDrops
    <3>4. CASE St(b) \notin Local
      <4>1. disk'.cache = disk.cache /\ \A c \in Blocks : St(c)' \in Local <=> St(c) \in Local
        BY <1>10, <3>1, <3>2, <3>4
      <4> QED
        BY <3>1, <4>1, CountSame
    <3> QED
      BY <3>3, <3>4
  <2>13. NumbersI'
    BY <1>1, <2>1, <2>3, NumbersKept
  <2>14. /\ \A c \in Blocks \ {b} : Path(c)' = Path(c)
         /\ \A f \in Files : GentleData(f)
         /\ \A f \in Files, p \in Procs \ {h} : disk.flock[f] = p => disk'.flock[f] = p
         /\ \A g \in Handles : g \in gh.loose => g \in gh'.loose
    BY <1>10, <1>11 DEF GentleData
  <2>15. LockStep(h) /\ GentleInside(h) /\ OpensSafely(h) /\ FillsSafely(h)
    <3>1. T(h).pc \in Inside /\ IdleTh.pc \notin Inside
      BY <1>1, IdleIs DEF Inside
    <3> QED
      BY <2>1, <2>t, <3>1, IdleIs DEF LockStep, GentleInside, OpensSafely, FillsSafely, Core, LockI
  <2>16. ReqI(h)' /\ ReadI(h)' /\ CachedI(h)'
    <3>1. h \in gh.loose => h \in gh'.loose
      BY <1>11
    <3> QED
      BY <1>12, <2>1, <2>11, <2>t, <3>1, IdleRequest, CachedKept
  <2> QED
    BY <1>3, <1>12, <2>1, <2>11, <2>12, <2>13, <2>14, <2>15, <2>16, <2>t, ByHandle
<1> QED
  BY <1>12, <1>13

-----------------------------------------------------------------------------
(***************************************************************************)
(* The upload.                                                             *)
(***************************************************************************)
Stepped(U, pc, todo) == [U EXCEPT !.pc = pc, !.todo = todo]

(* The upload moves on.                                                    *)
LEMMA SteppedIs ==
  ASSUME NEW U \in UpSet, NEW pc \in UpPCs, NEW todo \in SUBSET Blocks, NEW V, V = Stepped(U, pc, todo)
  PROVE  /\ V \in UpSet /\ V.pc = pc /\ V.todo = todo /\ V.cur = U.cur /\ V.b = U.b /\ V.snap = U.snap
BY DEF Stepped, UpSet

(* The snapshot of one block changes.                                      *)
LEMMA SnapIs ==
  ASSUME up \in UpSet, NEW b \in Blocks, NEW s \in ShotSet, NEW V, V = SetSnap(b, s)
  PROVE  /\ V \in UpSet /\ V.pc = up.pc /\ V.todo = up.todo /\ V.cur = up.cur /\ V.b = up.b
         /\ V.snap[b] = s /\ \A c \in Blocks \ {b} : V.snap[c] = up.snap[c]
<1>S. PICK S : S = [up.snap EXCEPT ![b] = s]
  OBVIOUS
<1>1. S \in [Blocks -> ShotSet] /\ S[b] = s /\ \A c \in Blocks \ {b} : S[c] = up.snap[c]
  BY <1>S DEF UpSet
<1>2. V = [up EXCEPT !.snap = S]
  BY <1>S DEF SetSnap, UpSet
<1>3. /\ V \in UpSet /\ V.pc = up.pc /\ V.todo = up.todo /\ V.cur = up.cur /\ V.b = up.b /\ V.snap = S
  BY ONLY up \in UpSet, <1>1, <1>2 DEF UpSet
<1> QED
  BY ONLY <1>1, <1>3

(* A failed upload goes back over its blocks.                              *)
LEMMA FailIs ==
  ASSUME up \in UpSet, NEW V, V = Fail(up)
  PROVE  /\ V \in UpSet /\ V.pc = "revert" /\ V.todo = Blocks /\ V.cur = up.cur /\ V.b = up.b
         /\ V.snap = up.snap
<1>1. "revert" \in UpPCs
  BY DEF UpPCs
<1> QED
  BY <1>1 DEF Fail, UpSet

(* One object of the cloud changes.                                        *)
Stored(b, n, v) == [cloud EXCEPT !.obj[b][n] = v]

(* Only the object of that block and number.                               *)
LEMMA StoredIs ==
  ASSUME cloud \in CloudSet, NEW b \in Blocks, NEW n \in 0..MaxSeq, NEW v \in Contents,
         NEW C, C = Stored(b, n, v)
  PROVE  /\ C \in CloudSet /\ C.meta = cloud.meta /\ C.obj[b][n] = v
         /\ \A k \in (0..MaxSeq) \ {n} : C.obj[b][k] = cloud.obj[b][k]
         /\ \A c \in Blocks \ {b} : C.obj[c] = cloud.obj[c]
<1>R. PICK R : R = [cloud.obj[b] EXCEPT ![n] = v]
  OBVIOUS
<1>O. PICK O : O = [cloud.obj EXCEPT ![b] = R]
  OBVIOUS
<1>1. cloud.obj \in [Blocks -> [0..MaxSeq -> Contents]] /\ cloud.obj[b] \in [0..MaxSeq -> Contents]
  BY DEF CloudSet
<1>2. R \in [0..MaxSeq -> Contents] /\ R[n] = v /\ \A k \in (0..MaxSeq) \ {n} : R[k] = cloud.obj[b][k]
  BY <1>1, <1>R
<1>3. /\ O \in [Blocks -> [0..MaxSeq -> Contents]] /\ O[b] = R /\ \A c \in Blocks \ {b} : O[c] = cloud.obj[c]
  BY <1>1, <1>2, <1>O
<1>4. C = [cloud EXCEPT !.obj = O]
  BY <1>1, <1>R, <1>O DEF Stored, CloudSet
<1>5. C \in CloudSet /\ C.meta = cloud.meta /\ C.obj = O
  BY ONLY cloud \in CloudSet, <1>3, <1>4 DEF CloudSet
<1> QED
  BY ONLY <1>2, <1>3, <1>5

(* A step of the upload leaves requests, downloads and block files alone,  *)
(* and changes the entry of a block only under the lock, and only while    *)
(* the block is not in the cloud alone.                                    *)
EntryKept(c) ==
  \/ meta'.blk[c] = meta.blk[c]
  \/ /\ MetaFree /\ St(c) \notin Remote /\ St(c)' \notin Remote /\ (St(c)' \in Local <=> St(c) \in Local)
     /\ Cnt(c)' = Cnt(c) \/ Holders(c) \subseteq gh'.loose
Uploads ==
  /\ th' = th /\ dl' = dl
  /\ disk'.path = disk.path /\ disk'.data = disk.data /\ disk'.flock = disk.flock /\ disk'.cache = disk.cache
  /\ gh'.cur = gh.cur /\ gh'.ver = gh.ver /\ gh.loose \subseteq gh'.loose
  /\ meta'.lock = meta.lock /\ meta'.fin = meta.fin
  /\ \A c \in Blocks : EntryKept(c)

(* What the invariant says of requests and downloads survives such a step. *)
LEMMA ByUpload ==
  ASSUME Types, Types', Core, Uploads, NumbersI', \A c \in Blocks : StatusI(c)' /\ UpI(c)'
  PROVE  Core'
<1>1. \A c \in Blocks : Path(c)' = Path(c)
  BY DEF Uploads, Path
<1>2. ASSUME NEW c \in Blocks PROVE GentleAt(NoOne, c)
  <2>1. CASE meta'.blk[c] = meta.blk[c]
    <3>1. SameAt(c)
      BY <1>1, <2>1 DEF Uploads, SameAt
    <3> QED
      BY <3>1, SameIsGentle
  <2>2. CASE meta'.blk[c] # meta.blk[c]
    <3>1. /\ St(c) \notin Remote /\ St(c)' \notin Remote /\ St(c) # "CtoL"
          /\ Cnt(c)' = Cnt(c) \/ Holders(c) \subseteq gh'.loose
      BY <2>2 DEF Uploads, EntryKept, Remote
    <3>2. gh'.ver[c] = gh.ver[c] /\ gh'.cur[c] = gh.cur[c]
      BY DEF Uploads
    <3> QED
      BY <1>1, <3>1, <3>2 DEF GentleAt, KeepsPath, KeepsVersion, KeepsDownload, KeepsCached, KeepsRead
  <2> QED
    BY <2>1, <2>2
<1>3. GentleInside(NoOne)
  <2>1. CASE MetaFree
    BY <2>1, FreeInside
  <2>2. CASE ~MetaFree
    <3>1. \A c \in Blocks : meta'.blk[c] = meta.blk[c]
      BY <2>2 DEF Uploads, EntryKept
    <3> QED
      BY <1>1, <3>1 DEF GentleInside, St
  <2> QED
    BY <2>1, <2>2
<1>4. CountI'
  <2>1. CountI /\ disk'.cache = disk.cache /\ dl' = dl
    BY DEF Core, Uploads
  <2>2. \A c \in Blocks : St(c)' \in Local <=> St(c) \in Local
    BY DEF Uploads, EntryKept, St
  <2> QED
    BY <2>1, <2>2, CountSame
<1>5. /\ \A f \in Files : GentleData(f)
      /\ \A g \in Handles : g \in gh.loose => g \in gh'.loose
      /\ disk'.flock = disk.flock /\ meta'.lock = meta.lock /\ th' = th /\ dl' = dl
  BY DEF Uploads, GentleData
<1>6. \A c \in Blocks : GentleAt(NoOne, c) /\ StatusI(c)' /\ UpI(c)'
  BY <1>2
<1> QED
  BY <1>1, <1>3, <1>4, <1>5, <1>6, ByNoOne

(* A block the step does not concern.                                      *)
Apart(c) ==
  /\ meta'.blk[c] = meta.blk[c] /\ disk'.to[c] = disk.to[c]
  /\ gh'.snap[c] = gh.snap[c] /\ gh'.cloud[c] = gh.cloud[c]
  /\ cloud'.obj[c] = cloud.obj[c] /\ cloud'.meta[c] = cloud.meta[c]
  /\ up'.snap[c] = up.snap[c]

(* No handle is writing while the metadata is free.                        *)
LEMMA NobodyWrites ==
  ASSUME Core, MetaFree, NEW b
  PROVE  ~Writing(b)
BY DEF Core, LockI, MetaFree, Writing, Inside

(* Who writes does not change by the upload.                               *)
LEMMA WritingSame ==
  ASSUME Uploads, NEW b
  PROVE  Writing(b)' <=> Writing(b)
BY DEF Uploads, Writing, T

(* Such a block keeps its content where it is.                             *)
LEMMA ApartStatus ==
  ASSUME Core, Uploads, NEW c \in Blocks, meta'.blk[c] = meta.blk[c], cloud'.obj[c] = cloud.obj[c]
  PROVE  StatusI(c)'
<1>1. StatusI(c) /\ (Writing(c)' <=> Writing(c))
  BY WritingSame DEF Core
<1>2. /\ St(c)' = St(c) /\ Num(c)' = Num(c) /\ Path(c)' = Path(c) /\ disk'.data = disk.data
      /\ gh'.cur[c] = gh.cur[c] /\ meta'.fin = meta.fin
  BY DEF Uploads, St, Num, Path
<1> QED
  BY <1>1, <1>2 DEF StatusI, Data

(* Such a block, while the upload goes on with another one.                *)
LEMMA ApartUpload ==
  ASSUME Core, Uploads, NEW c \in Blocks, Apart(c), up'.cur = up.cur, meta'.inc = meta.inc,
         up.pc # "idle", up'.pc # "idle", up'.pc = up.pc \/ (Active /\ Active'),
         Active => /\ c \in up'.todo <=> c \in up.todo
                   /\ ~SendsIn(c, Sending) /\ ~SendsIn(c, Sending)'
  PROVE  UpI(c)'
<1>1. /\ ShotI(c) /\ SeqI(c) /\ CopyI(c) /\ StoredI(c) /\ LaterI(c) /\ CloudI(c)
  BY DEF Core, UpI
<1>2. /\ St(c)' = St(c) /\ Num(c)' = Num(c) /\ (Writing(c)' <=> Writing(c)) /\ gh'.cur[c] = gh.cur[c]
      /\ meta'.fin = meta.fin
  BY WritingSame DEF Uploads, Apart, St, Num
<1>3. (Active' <=> Active) /\ (up'.pc = "delete" <=> up.pc = "delete") /\ (up'.pc = "revert" <=> up.pc = "revert")
  BY DEF Active, Sending
<1>4. Active => \A pcs \in SUBSET Sending : ~SendsIn(c, pcs) /\ ~SendsIn(c, pcs)'
  BY DEF SendsIn
<1>5. /\ {"both"} \in SUBSET Sending /\ {"put", "finish"} \in SUBSET Sending /\ {"finish"} \in SUBSET Sending
      /\ Sending \in SUBSET Sending
  BY DEF Sending
<1>6. \A pcs \in SUBSET Sending : SendsIn(c, pcs) => Active
  BY DEF SendsIn, Active
<1>7. \A pcs \in SUBSET Sending : SendsIn(c, pcs)' => Active'
  BY DEF SendsIn, Active
<1>8. ShotI(c)'
  BY <1>1, <1>2, <1>3, <1>4, <1>5, <1>6, <1>7 DEF ShotI, Apart
<1>9. SeqI(c)'
  BY <1>1, <1>2 DEF SeqI, Apart
<1>10. CopyI(c)'
  BY <1>1, <1>2, <1>3, <1>4, <1>5 DEF CopyI, Apart
<1>11. StoredI(c)' /\ LaterI(c)'
  BY <1>1, <1>2, <1>3, <1>4, <1>5 DEF StoredI, LaterI, Apart
<1>12. CloudI(c)'
  BY <1>1, <1>2, <1>3 DEF CloudI, Apart
<1> QED
  BY <1>8, <1>9, <1>10, <1>11, <1>12 DEF UpI

(* A step of the upload keeps the types.                                   *)
LEMMA TypesByUpload ==
  ASSUME Types, th' = th, dl' = dl, meta' \in MetaSet, disk' \in DiskSet, cloud' \in CloudSet,
         up' \in UpSet, gh' \in GhSet, left' \in LeftSet, UpOK', meta'.fin = meta.fin,
         left'.mod = left.mod, left'.page = left.page,
         \A c \in Blocks : Cnt(c)' = Cnt(c) \/ Cnt(c)' = 0
  PROVE  Types'
<1>1. meta.fin \in Nat /\ meta.fin <= 1 + (MaxMod - left.mod)
  BY NumbersAre DEF Types, Counters
<1>2. \A c \in Blocks : Cnt(c)' <= MaxPage - left'.page
  <2> SUFFICES ASSUME NEW c \in Blocks PROVE Cnt(c)' <= MaxPage - left.page
    OBVIOUS
  <2>1. Cnt(c) <= MaxPage - left.page /\ left.page \in 0..MaxPage /\ MaxPage \in Nat
    BY ConstantFacts DEF Types, Counters, LeftSet
  <2>2. 0 <= MaxPage - left.page
    BY <2>1
  <2> QED
    BY <2>1, <2>2
<1>3. meta.fin <= meta'.fin /\ meta'.fin <= 1 + (MaxMod - left'.mod)
  BY <1>1
<1> QED
  BY <1>2, <1>3, TypesByNoOne

(* The snapshot.                                                           *)
LEMMA SnapshotStep ==
  ASSUME BlockInv, meta_cache_set_uploading_info
  PROVE  BlockInv'
<1> USE DEF BlockInv
<1>S. PICK S : S = [b \in Blocks |-> [NoSnap EXCEPT !.st = meta.blk[b].st, !.seq = meta.blk[b].seq,
                                       !.back = IF cloud.meta[b].ex THEN cloud.meta[b].seq ELSE 0]]
  OBVIOUS
<1>U. PICK U : U = [IdleUp EXCEPT !.pc = "check", !.cur = meta.fin, !.todo = Blocks, !.snap = S]
  OBVIOUS
<1>1. /\ up.pc = "idle" /\ left.upload > 0 /\ MetaFree /\ up' = U /\ meta' = [meta EXCEPT !.inc = TRUE]
      /\ gh' = [gh EXCEPT !.snap = gh.cur] /\ Spend("upload")
      /\ disk' = disk /\ cloud' = cloud /\ th' = th /\ dl' = dl
  BY <1>S, <1>U DEF meta_cache_set_uploading_info
<1>2. left' \in LeftSet /\ left'.mod = left.mod /\ left'.page = left.page
  BY <1>1, SpendIs DEF Types
<1>3. /\ meta' \in MetaSet /\ meta'.blk = meta.blk /\ meta'.fin = meta.fin /\ meta'.lock = meta.lock
      /\ meta'.inc = TRUE
  BY <1>1 DEF Types, MetaSet
<1>4. /\ gh' \in GhSet /\ gh'.cur = gh.cur /\ gh'.ver = gh.ver /\ gh'.snap = gh.cur /\ gh'.cloud = gh.cloud
      /\ gh'.known = gh.known /\ gh'.loose = gh.loose
  BY <1>1 DEF Types, GhSet
<1>5. \A b \in Blocks : /\ S[b] \in ShotSet /\ S[b].st = St(b) /\ S[b].seq = Num(b)
                        /\ S[b].toseq = 0 /\ ~S[b].ex /\ ~S[b].fin
                        /\ cloud.meta[b].ex => S[b].back = cloud.meta[b].seq
                        /\ ~cloud.meta[b].ex => S[b].back = 0
  <2> SUFFICES ASSUME NEW b \in Blocks
               PROVE  /\ S[b] \in ShotSet /\ S[b].st = St(b) /\ S[b].seq = Num(b)
                      /\ S[b].toseq = 0 /\ ~S[b].ex /\ ~S[b].fin
                      /\ cloud.meta[b].ex => S[b].back = cloud.meta[b].seq
                      /\ ~cloud.meta[b].ex => S[b].back = 0
    OBVIOUS
  <2>k. PICK k : k = IF cloud.meta[b].ex THEN cloud.meta[b].seq ELSE 0
    OBVIOUS
  <2>1. St(b) \in Statuses /\ Num(b) \in 0..MaxSeq
    BY PathIs
  <2>2. k \in 0..MaxSeq /\ 0 \in 0..MaxSeq
    <3>1. cloud.meta[b].seq \in 0..MaxSeq
      BY DEF Types, CloudSet, CloudEntry
    <3> QED
      BY <2>k, <3>1, ConstantFacts
  <2>3. S[b] = [NoSnap EXCEPT !.st = St(b), !.seq = Num(b), !.back = k]
    BY <1>S, <2>k DEF St, Num
  <2>4. /\ S[b] \in ShotSet /\ S[b].st = St(b) /\ S[b].seq = Num(b) /\ S[b].back = k
        /\ S[b].toseq = 0 /\ ~S[b].ex /\ ~S[b].fin
    BY ONLY <2>1, <2>2, <2>3 DEF NoSnap, ShotSet
  <2> QED
    BY <2>4, <2>k
<1>6. /\ U \in UpSet /\ U.pc = "check" /\ U.cur = meta.fin /\ U.todo = Blocks /\ U.snap = S
  <2>1. S \in [Blocks -> ShotSet]
    BY <1>S, <1>5
  <2>2. meta.fin \in 0..MaxSeq /\ "check" \in UpPCs
    BY DEF Types, MetaSet, UpPCs
  <2> QED
    BY ONLY <1>U, <2>1, <2>2 DEF IdleUp, UpSet
<1>7. Types'
  <2>1. UpOK'
    BY <1>1, <1>6 DEF UpOK, Sending
  <2>2. disk' \in DiskSet /\ cloud' \in CloudSet /\ \A c \in Blocks : Cnt(c)' = Cnt(c)
    BY <1>1, <1>3 DEF Types, Cnt
  <2> QED
    BY <1>1, <1>2, <1>3, <1>4, <1>6, <2>1, <2>2, TypesByUpload
<1>8. ASSUME Clean' PROVE Core'
  <2>1. Core
    BY <1>4, <1>8 DEF Clean
  <2>2. Uploads
    BY <1>1, <1>3, <1>4 DEF Uploads, EntryKept
  <2>3. NumbersI'
    BY <1>1, <1>3, <1>6 DEF NumbersI
  <2>4. \A c \in Blocks : StatusI(c)'
    BY <1>1, <1>3, <2>1, <2>2, ApartStatus
  <2>5. ASSUME NEW b \in Blocks PROVE UpI(b)'
    <3>1. StatusI(b) /\ CloudI(b) /\ ~Writing(b)
      BY <1>1, <2>1, NobodyWrites DEF Core, UpI
    <3>2. ~Writing(b)' /\ St(b)' = St(b) /\ Num(b)' = Num(b)
      BY <1>3, <2>2, <3>1, WritingSame DEF St, Num
    <3>3. meta.fin \in Nat /\ Num(b) \in Nat /\ St(b) \in Statuses
      BY NumbersAre, PathIs
    <3>4. up'.snap[b] = S[b] /\ Active' /\ up'.pc = "check" /\ up'.cur = meta.fin /\ up'.todo = Blocks
      BY <1>1, <1>6 DEF Active
    <3>5. \A pcs \in SUBSET Sending : ~SendsIn(b, pcs)'
      BY <3>4 DEF SendsIn, Sending
    <3>6. {"both"} \in SUBSET Sending /\ {"put", "finish"} \in SUBSET Sending /\ {"finish"} \in SUBSET Sending
          /\ Sending \in SUBSET Sending
      BY DEF Sending
    <3>7. ShotI(b)'
      <4>1. S[b].seq <= meta.fin /\ S[b].back <= meta.fin
        BY <1>5, <3>1, <3>3 DEF StatusI, CloudI
      <4>2. (St(b) \in Gone => gh.cur[b] = {}) /\ (St(b) \notin Gone => gh.cur[b] # {})
        BY <3>1 DEF StatusI
      <4> QED
        BY <1>4, <1>5, <3>4, <3>5, <3>6, <4>1, <4>2 DEF ShotI
    <3>8. SeqI(b)'
      BY <1>4, <1>5, <3>2, <3>4 DEF SeqI
    <3>9. CopyI(b)'
      <4>1. disk'.to[b] = Absent
        BY <1>1, <3>1 DEF CloudI
      <4> QED
        BY <1>4, <1>5, <3>2, <3>4, <3>5, <3>6, <4>1 DEF CopyI
    <3>10. StoredI(b)'
      <4>1. St(b) \notin Gone /\ St(b) \notin Dirty => cloud.obj[b][Num(b)] = gh.cur[b]
        BY <3>1, <3>3 DEF StatusI, Statuses, Local, Dirty
      <4> QED
        BY <1>1, <1>4, <1>5, <3>4, <3>5, <3>6, <4>1 DEF StoredI
    <3>11. LaterI(b)'
      BY <1>5, <3>2, <3>4 DEF LaterI
    <3>12. CloudI(b)'
      BY <1>1, <1>3, <1>4, <1>5, <3>1, <3>2, <3>4 DEF CloudI, Active, Sending
    <3> QED
      BY <3>7, <3>8, <3>9, <3>10, <3>11, <3>12 DEF UpI
  <2> QED
    BY <1>7, <2>1, <2>2, <2>3, <2>4, <2>5, ByUpload
<1> QED
  BY <1>7, <1>8

(* A step of a running upload that concerns block b.                       *)
LEMMA UploadsOne ==
  ASSUME Types, Types', Core, Uploads, NEW b \in Blocks, \A c \in Blocks \ {b} : Apart(c),
         up'.cur = up.cur, meta'.inc = meta.inc, up.pc # "idle", up'.pc # "idle",
         up'.pc = up.pc \/ (Active /\ Active'),
         \A c \in Blocks \ {b} : c \in up'.todo <=> c \in up.todo,
         up.pc \in Sending => up.b = b, up'.pc \in Sending => up'.b = b,
         StatusI(b)', UpI(b)'
  PROVE  Core'
<1>1. NumbersI'
  <2>1. NumbersI /\ meta'.fin = meta.fin
    BY DEF Core, Uploads
  <2> QED
    BY <2>1 DEF NumbersI
<1>2. ASSUME NEW c \in Blocks, c # b PROVE StatusI(c)' /\ UpI(c)'
  <2>1. Apart(c)
    BY <1>2
  <2>2. /\ c \in up'.todo <=> c \in up.todo
        /\ ~SendsIn(c, Sending) /\ ~SendsIn(c, Sending)'
    BY <1>2 DEF SendsIn
  <2>3. StatusI(c)'
    BY <2>1, ApartStatus DEF Apart
  <2>4. UpI(c)'
    BY <2>1, <2>2, ApartUpload
  <2> QED
    BY <2>3, <2>4
<1>3. \A c \in Blocks : StatusI(c)' /\ UpI(c)'
  BY <1>2
<1> QED
  BY <1>1, <1>3, ByUpload

(* The turn of a block that was modified: it is sent.                      *)
LEMMA CheckDirtyStep ==
  ASSUME BlockInv, NEW b \in Blocks, _check_block_sync(b), Snap(b).st \in Dirty
  PROVE  BlockInv'
<1> USE DEF BlockInv
<1>s. PICK s : s = up.snap[b]
  OBVIOUS
<1>U. PICK U : U = [up EXCEPT !.pc = "dispatch", !.b = b]
  OBVIOUS
<1>1. /\ up.pc = "check" /\ b \in up.todo /\ MetaFree /\ up' = U /\ disk' = disk /\ gh' = gh
      /\ meta' = IF St(b) = "LDISK" /\ Num(b) = s.seq THEN SetSt(meta, b, "LtoC") ELSE meta
      /\ cloud' = cloud /\ th' = th /\ dl' = dl /\ left' = left /\ s.st \in Dirty
  <2>1. /\ Snap(b).st \in {"LDISK", "LtoC"} /\ Snap(b).st \notin Gone
        /\ Snap(b).st \notin Remote \cup {"BOTH"} /\ s = Snap(b)
    BY <1>s DEF Dirty, Snap, Gone, Remote
  <2>2. _check_block_sync(b)
    OBVIOUS
  <2> QED
    BY ONLY <2>1, <2>2, <1>U DEF _check_block_sync, St, Num, Dirty
<1>2. /\ meta' \in MetaSet /\ meta'.fin = meta.fin /\ meta'.inc = meta.inc /\ meta'.lock = meta.lock
      /\ \A c \in Blocks \ {b} : meta'.blk[c] = meta.blk[c]
      /\ Num(b)' = Num(b) /\ Cnt(b)' = Cnt(b)
      /\ St(b) = "LDISK" /\ Num(b) = s.seq => St(b)' = "LtoC"
      /\ ~(St(b) = "LDISK" /\ Num(b) = s.seq) => meta'.blk[b] = meta.blk[b] /\ St(b)' = St(b)
  <2>1. meta \in MetaSet /\ "LtoC" \in Statuses
    BY DEF Types, Statuses, Local
  <2>2. CASE St(b) = "LDISK" /\ Num(b) = s.seq
    BY <1>1, <2>1, <2>2, SetStIs DEF St, Num, Cnt
  <2>3. CASE ~(St(b) = "LDISK" /\ Num(b) = s.seq)
    BY <1>1, <2>1, <2>3 DEF St, Num, Cnt
  <2> QED
    BY <2>2, <2>3
<1>3. /\ U \in UpSet /\ U.pc = "dispatch" /\ U.b = b /\ U.todo = up.todo /\ U.cur = up.cur
      /\ U.snap = up.snap
  <2>1. up \in UpSet /\ "dispatch" \in UpPCs
    BY DEF Types, UpPCs, Sending
  <2> QED
    BY <1>U, <2>1 DEF UpSet
<1>4. Types'
  <2>1. UpOK'
    BY <1>1, <1>3, <1>s DEF UpOK
  <2>2. /\ disk' \in DiskSet /\ cloud' \in CloudSet /\ gh' \in GhSet /\ left' \in LeftSet
        /\ \A c \in Blocks : Cnt(c)' = Cnt(c)
    BY <1>1, <1>2 DEF Types, Cnt
  <2> QED
    BY <1>1, <1>2, <1>3, <2>1, <2>2, TypesByUpload
<1>5. ASSUME Clean' PROVE Core'
  <2>1. Core
    BY <1>1, <1>5 DEF Clean
  <2>2. St(b)' \in Local <=> St(b) \in Local
    BY <1>2 DEF Local
  <2>3. St(b)' \in Remote <=> St(b) \in Remote
    BY <1>2 DEF Remote
  <2>4. St(b)' \in Gone <=> St(b) \in Gone
    BY <1>2 DEF Gone
  <2>5. St(b)' \in Dirty <=> St(b) \in Dirty
    BY <1>2 DEF Dirty
  <2>6. (St(b)' = "BOTH" <=> St(b) = "BOTH") /\ (St(b)' = "CLOUD" <=> St(b) = "CLOUD")
    BY <1>2
  <2>7. Uploads
    <3>1. \A c \in Blocks : EntryKept(c)
      BY <1>1, <1>2, <2>2, <2>3 DEF EntryKept, Remote
    <3> QED
      BY <1>1, <1>2, <3>1 DEF Uploads
  <2>8. \A c \in Blocks \ {b} : Apart(c)
    BY <1>1, <1>2, <1>3 DEF Apart
  <2>9. ~Writing(b) /\ ~Writing(b)'
    BY <1>1, <2>1, <2>7, NobodyWrites, WritingSame
  <2>10. StatusI(b)'
    <3>1. StatusI(b)
      BY <2>1 DEF Core
    <3>2. Path(b)' = Path(b) /\ Num(b)' = Num(b) /\ gh' = gh /\ disk' = disk /\ cloud' = cloud /\ meta'.fin = meta.fin
      BY <1>1, <1>2 DEF Path
    <3> QED
      BY <2>2, <2>3, <2>4, <2>6, <2>9, <3>1, <3>2 DEF StatusI, Data
  <2>11. UpI(b)'
    <3>1. ShotI(b) /\ SeqI(b) /\ CopyI(b) /\ StoredI(b) /\ LaterI(b) /\ CloudI(b)
      BY <1>1, <2>1 DEF Core, UpI
    <3>2. /\ up'.snap[b] = s /\ up'.pc = "dispatch" /\ up'.b = b /\ up'.todo = up.todo /\ up'.cur = up.cur
          /\ Active /\ Active' /\ s = up.snap[b]
      BY <1>1, <1>3, <1>s DEF Active, Sending
    <3>3. s.st \notin Gone /\ s.seq \in Nat /\ up.cur \in Nat /\ Num(b) \in Nat
      BY <1>1, <1>s, NumbersAre DEF Gone, Dirty
    <3>4. ~SendsIn(b, {"both"})
      BY <1>1 DEF SendsIn
    <3>5. ~s.fin /\ s.seq <= up.cur
      BY <1>1, <3>1, <3>2, <3>4 DEF ShotI
    <3>6. ~SendsIn(b, {"both"})' /\ ~SendsIn(b, {"put", "finish"})' /\ ~SendsIn(b, {"finish"})'
      BY <3>2 DEF SendsIn
    <3>7. ShotI(b)'
      BY <1>1, <3>1, <3>2, <3>5, <3>6 DEF ShotI
    <3>8. SeqI(b)'
      <4>1. Num(b) > up.cur => Num(b) # s.seq
        BY <3>3, <3>5
      <4> QED
        BY <1>1, <1>2, <2>4, <2>9, <3>1, <3>2, <4>1 DEF SeqI
    <3>9. CopyI(b)'
      <4>1. /\ disk'.to[b] \in {Absent, gh'.snap[b]}
            /\ disk'.to[b] = Absent => St(b) \in Dirty /\ Num(b) = s.seq /\ gh.cur[b] = gh.snap[b]
            /\ St(b) \notin Gone /\ Num(b) = s.seq => St(b) \in Dirty
        BY <1>1, <2>9, <3>1, <3>2, <3>5 DEF CopyI
      <4>2. St(b) \in Dirty /\ Num(b) = s.seq => St(b)' = "LtoC"
        BY <1>2 DEF Dirty
      <4> QED
        BY <1>1, <1>2, <2>4, <2>5, <2>9, <3>2, <3>6, <4>1, <4>2 DEF CopyI
    <3>10. StoredI(b)' /\ LaterI(b)'
      BY <1>1, <3>2, <3>5, <3>6 DEF StoredI, LaterI
    <3>11. CloudI(b)'
      BY <1>1, <1>2, <2>5, <2>9, <3>1, <3>2 DEF CloudI
    <3> QED
      BY <3>7, <3>8, <3>9, <3>10, <3>11 DEF UpI
  <2>12. Active /\ Active' /\ up.pc \notin Sending
    BY <1>1, <1>3 DEF Active, Sending
  <2> QED
    BY <1>1, <1>2, <1>3, <1>4, <2>1, <2>7, <2>8, <2>10, <2>11, <2>12, UploadsOne
<1> QED
  BY <1>4, <1>5

(* The entry of a block is cleared.                                        *)
LEMMA ClearedIs ==
  ASSUME meta \in MetaSet, NEW b \in Blocks, NEW M, M = [meta EXCEPT !.blk[b] = NoEntry]
  PROVE  /\ M \in MetaSet /\ M.fin = meta.fin /\ M.inc = meta.inc /\ M.lock = meta.lock
         /\ M.blk[b] = NoEntry /\ \A c \in Blocks \ {b} : M.blk[c] = meta.blk[c]
<1>B. PICK B : B = [meta.blk EXCEPT ![b] = NoEntry]
  OBVIOUS
<1>1. NoEntry \in Entry
  <2>1. 0 \in 0..MaxSeq /\ 0 \in 0..MaxPage /\ "NONE" \in Local \cup Remote \cup Gone
    BY ConstantFacts DEF Gone
  <2> QED
    BY <2>1 DEF NoEntry, Entry
<1>2. B \in [Blocks -> Entry] /\ B[b] = NoEntry /\ \A c \in Blocks \ {b} : B[c] = meta.blk[c]
  BY <1>1, <1>B DEF MetaSet
<1>3. M = [meta EXCEPT !.blk = B]
  BY <1>B DEF MetaSet
<1>4. M \in MetaSet /\ M.fin = meta.fin /\ M.inc = meta.inc /\ M.lock = meta.lock /\ M.blk = B
  BY ONLY meta \in MetaSet, <1>2, <1>3 DEF MetaSet
<1> QED
  BY ONLY <1>2, <1>4

TurnedOver(V, b) == [V EXCEPT !.todo = V.todo \ {b}]

(* The turn of a block is over.                                            *)
LEMMA TurnOver ==
  ASSUME Types, NEW b \in Blocks, NEW n \in ShotSet, NEW V, V = SetSnap(b, n),
         NEW U, U = TurnedOver(V, b)
  PROVE  /\ U \in UpSet /\ U.pc = up.pc /\ U.cur = up.cur /\ U.b = up.b /\ U.todo = up.todo \ {b}
         /\ U.snap[b] = n /\ \A c \in Blocks \ {b} : U.snap[c] = up.snap[c]
<1>1. up \in UpSet
  BY DEF Types
<1>2. /\ V \in UpSet /\ V.pc = up.pc /\ V.todo = up.todo /\ V.cur = up.cur /\ V.b = up.b
      /\ V.snap[b] = n /\ \A c \in Blocks \ {b} : V.snap[c] = up.snap[c]
  BY <1>1, SnapIs
<1>W. PICK W : W = V.todo \ {b}
  OBVIOUS
<1>3. W \in SUBSET Blocks /\ U = [V EXCEPT !.todo = W]
  BY <1>2, <1>W DEF UpSet, TurnedOver
<1>4. /\ U \in UpSet /\ U.pc = V.pc /\ U.cur = V.cur /\ U.b = V.b /\ U.todo = W /\ U.snap = V.snap
  BY ONLY <1>2, <1>3 DEF UpSet
<1> QED
  BY ONLY <1>2, <1>4, <1>W

(* The turn of a block that did not exist: its entry goes.                 *)
LEMMA CheckGoneStep ==
  ASSUME BlockInv, NEW b \in Blocks, _check_block_sync(b), Snap(b).st \in Gone
  PROVE  BlockInv'
<1> USE DEF BlockInv
<1>s. PICK s : s = up.snap[b]
  OBVIOUS
<1>n. PICK n : n = [s EXCEPT !.fin = TRUE]
  OBVIOUS
<1>V. PICK V : V = SetSnap(b, n)
  OBVIOUS
<1>U. PICK U : U = TurnedOver(V, b)
  OBVIOUS
<1>M. PICK M : M = [meta EXCEPT !.blk[b] = NoEntry]
  OBVIOUS
<1>1. /\ up.pc = "check" /\ b \in up.todo /\ MetaFree /\ up' = U /\ disk' = Copied(disk, b, Absent)
      /\ meta' = IF St(b) = "TODELETE" THEN M ELSE meta
      /\ gh' = IF St(b) = "TODELETE" THEN [gh EXCEPT !.loose = @ \cup Holders(b)] ELSE gh
      /\ cloud' = cloud /\ th' = th /\ dl' = dl /\ left' = left /\ s.st \in Gone
  <2>1. /\ Snap(b).st \notin {"LDISK", "LtoC"} /\ Snap(b).st \in Gone
        /\ Snap(b).st \notin Remote \cup {"BOTH"} /\ s = Snap(b)
    BY <1>s DEF Snap, Gone, Remote
  <2>2. _check_block_sync(b)
    OBVIOUS
  <2> QED
    BY ONLY <2>1, <2>2, <1>n, <1>V, <1>U, <1>M DEF _check_block_sync, St, Copied, TurnedOver
<1>2. /\ meta' \in MetaSet /\ meta'.fin = meta.fin /\ meta'.inc = meta.inc /\ meta'.lock = meta.lock
      /\ \A c \in Blocks \ {b} : meta'.blk[c] = meta.blk[c]
      /\ St(b) = "TODELETE" => St(b)' = "NONE" /\ Num(b)' = 0 /\ Cnt(b)' = 0
      /\ St(b) # "TODELETE" => meta'.blk[b] = meta.blk[b] /\ St(b)' = St(b) /\ Num(b)' = Num(b) /\ Cnt(b)' = Cnt(b)
  <2>1. /\ M \in MetaSet /\ M.fin = meta.fin /\ M.inc = meta.inc /\ M.lock = meta.lock
        /\ M.blk[b] = NoEntry /\ \A c \in Blocks \ {b} : M.blk[c] = meta.blk[c]
    BY <1>M, ClearedIs, ZenonT(30) DEF Types
  <2>2. NoEntry.st = "NONE" /\ NoEntry.seq = 0 /\ NoEntry.cnt = 0
    BY DEF NoEntry
  <2>3. CASE St(b) = "TODELETE"
    BY <1>1, <2>1, <2>2, <2>3 DEF St, Num, Cnt
  <2>4. CASE St(b) # "TODELETE"
    BY <1>1, <2>4 DEF St, Num, Cnt, Types
  <2> QED
    BY <2>3, <2>4
<1>3. /\ gh' \in GhSet /\ gh'.cur = gh.cur /\ gh'.ver = gh.ver /\ gh'.snap = gh.snap /\ gh'.cloud = gh.cloud
      /\ gh'.known = gh.known /\ gh.loose \subseteq gh'.loose
      /\ St(b) = "TODELETE" => Holders(b) \subseteq gh'.loose
  <2>1. gh \in GhSet /\ Holders(b) \subseteq Handles
    BY DEF Types, Holders
  <2>L. PICK L : L = gh.loose \cup Holders(b)
    OBVIOUS
  <2>2. L \in SUBSET Handles
    BY <2>1, <2>L DEF GhSet
  <2>3. CASE St(b) = "TODELETE"
    <3>1. gh' = [gh EXCEPT !.loose = L]
      BY <1>1, <2>L, <2>3
    <3>2. /\ gh' \in GhSet /\ gh'.cur = gh.cur /\ gh'.ver = gh.ver /\ gh'.snap = gh.snap /\ gh'.cloud = gh.cloud
          /\ gh'.known = gh.known /\ gh'.loose = L
      BY ONLY <2>1, <2>2, <3>1 DEF GhSet
    <3> QED
      BY <3>2, <2>L
  <2>4. CASE St(b) # "TODELETE"
    BY <1>1, <2>1, <2>4
  <2> QED
    BY <2>3, <2>4
<1>4. n \in ShotSet /\ n.st = s.st /\ n.seq = s.seq /\ n.back = s.back /\ n.toseq = s.toseq /\ n.ex = s.ex /\ n.fin = TRUE
  <2>1. s \in ShotSet
    BY <1>s DEF Types, UpSet
  <2> QED
    BY <1>n, <2>1 DEF ShotSet
<1>5. /\ U \in UpSet /\ U.pc = up.pc /\ U.cur = up.cur /\ U.b = up.b /\ U.todo = up.todo \ {b}
      /\ U.snap[b] = n /\ \A c \in Blocks \ {b} : U.snap[c] = up.snap[c]
  BY <1>4, <1>V, <1>U, TurnOver
<1>6. /\ disk' \in DiskSet /\ disk'.path = disk.path /\ disk'.flock = disk.flock /\ disk'.data = disk.data
      /\ disk'.cache = disk.cache /\ \A c \in Blocks \ {b} : disk'.to[c] = disk.to[c]
  <2>1. disk \in DiskSet /\ Absent \in Contents
    BY DEF Types, Contents
  <2> QED
    BY <1>1, <2>1, CopiedIs
<1>7. Types'
  <2>1. UpOK'
    BY <1>1, <1>5 DEF UpOK, Sending
  <2>2. /\ cloud' \in CloudSet /\ left' \in LeftSet
        /\ \A c \in Blocks : Cnt(c)' = Cnt(c) \/ Cnt(c)' = 0
    BY <1>1, <1>2 DEF Types, Cnt
  <2> QED
    BY <1>1, <1>2, <1>3, <1>5, <1>6, <2>1, <2>2, TypesByUpload
<1>8. ASSUME Clean' PROVE Core'
  <2>1. Core
    BY <1>3, <1>8 DEF Clean
  <2>2. Uploads
    <3>1. EntryKept(b)
      <4>1. CASE St(b) = "TODELETE"
        BY <1>1, <1>2, <1>3, <4>1 DEF EntryKept, Remote, Local
      <4> QED
        BY <1>2, <4>1 DEF EntryKept
    <3>2. \A c \in Blocks : EntryKept(c)
      BY <1>2, <3>1 DEF EntryKept
    <3> QED
      BY <1>1, <1>2, <1>3, <1>6, <3>2 DEF Uploads
  <2>3. \A c \in Blocks \ {b} : Apart(c)
    BY <1>1, <1>2, <1>3, <1>5, <1>6 DEF Apart
  <2>4. ~Writing(b) /\ ~Writing(b)'
    BY <1>1, <2>1, <2>2, NobodyWrites, WritingSame
  <2>5. StatusI(b)'
    <3>1. StatusI(b) /\ meta.fin \in Nat
      BY <2>1, NumbersAre DEF Core
    <3>2. /\ Path(b)' = Path(b) /\ gh'.cur[b] = gh.cur[b] /\ disk'.data = disk.data /\ cloud' = cloud
          /\ meta'.fin = meta.fin
      BY <1>1, <1>2, <1>3, <1>6 DEF Path
    <3>3. CASE St(b) = "TODELETE"
      <4>1. /\ gh.cur[b] = {} /\ (Path(b) # 0 => Data(Path(b)) = {})
        BY <3>1, <3>3 DEF StatusI, Gone
      <4>2. St(b)' = "NONE" /\ Num(b)' <= meta'.fin
        BY <1>2, <3>1, <3>2, <3>3
      <4> QED
        BY <3>2, <4>1, <4>2 DEF StatusI, Data, Local, Remote, Gone
    <3>4. CASE St(b) # "TODELETE"
      BY <1>2, <2>4, <3>1, <3>2, <3>4 DEF StatusI, Data
    <3> QED
      BY <3>3, <3>4
  <2>6. UpI(b)'
    <3>1. ShotI(b) /\ SeqI(b) /\ CopyI(b) /\ StoredI(b) /\ LaterI(b) /\ CloudI(b)
      BY <1>1, <2>1 DEF Core, UpI
    <3>2. /\ up'.snap[b] = n /\ up'.pc = "check" /\ b \notin up'.todo /\ up'.cur = up.cur
          /\ Active /\ Active' /\ s = up.snap[b]
      BY <1>1, <1>5, <1>s DEF Active, Sending
    <3>3. s.st \notin Dirty /\ n.st \notin Dirty /\ n.st \in Gone
      BY <1>1, <1>4 DEF Gone, Dirty
    <3>4. ~SendsIn(b, {"both"})'
      BY <3>2 DEF SendsIn
    <3>5. ~s.ex /\ s.toseq = 0 /\ s.seq <= up.cur /\ s.back <= up.cur /\ gh.snap[b] = {}
      BY <1>1, <3>1, <3>2 DEF ShotI
    <3>6. St(b)' \notin Gone => St(b)' = St(b) /\ Num(b)' = Num(b) /\ St(b) \notin Gone
      BY <1>2 DEF Gone
    <3>7. St(b)' \in Dirty => St(b)' = St(b) /\ Num(b)' = Num(b)
      BY <1>2 DEF Dirty
    <3>8. ShotI(b)'
      BY <1>1, <1>3, <1>4, <3>2, <3>3, <3>4, <3>5 DEF ShotI
    <3>9. SeqI(b)'
      BY <1>3, <1>4, <2>4, <3>1, <3>2, <3>6 DEF SeqI
    <3>10. CopyI(b)' /\ StoredI(b)'
      BY <3>2, <3>3 DEF CopyI, StoredI
    <3>11. LaterI(b)'
      BY <2>4, <3>1, <3>2, <3>3, <3>7 DEF LaterI
    <3>12. CloudI(b)'
      BY <1>1, <1>2, <1>3, <1>4, <2>4, <3>1, <3>2, <3>3, <3>7 DEF CloudI
    <3> QED
      BY <3>8, <3>9, <3>10, <3>11, <3>12 DEF UpI
  <2>7. /\ up.pc # "idle" /\ up'.pc # "idle" /\ up'.pc = up.pc /\ up.pc \notin Sending /\ up'.pc \notin Sending
        /\ up'.cur = up.cur /\ \A c \in Blocks \ {b} : c \in up'.todo <=> c \in up.todo
    BY <1>1, <1>5 DEF Sending
  <2> QED
    BY <1>2, <1>7, <2>1, <2>2, <2>3, <2>5, <2>6, <2>7, UploadsOne
<1> QED
  BY <1>7, <1>8

(* The turn of a block that the cloud has.                                 *)
LEMMA CheckStoredStep ==
  ASSUME BlockInv, NEW b \in Blocks, _check_block_sync(b), Snap(b).st \in Remote \cup {"BOTH"}
  PROVE  BlockInv'
<1> USE DEF BlockInv
<1>s. PICK s : s = up.snap[b]
  OBVIOUS
<1>n. PICK n : n = [s EXCEPT !.fin = TRUE, !.ex = TRUE, !.toseq = s.seq]
  OBVIOUS
<1>V. PICK V : V = SetSnap(b, n)
  OBVIOUS
<1>U. PICK U : U = TurnedOver(V, b)
  OBVIOUS
<1>1. /\ up.pc = "check" /\ b \in up.todo /\ MetaFree /\ up' = U /\ disk' = Copied(disk, b, Absent)
      /\ meta' = meta /\ gh' = gh
      /\ cloud' = cloud /\ th' = th /\ dl' = dl /\ left' = left /\ s.st \in Remote \cup {"BOTH"}
  <2>1. /\ Snap(b).st \notin {"LDISK", "LtoC"} /\ Snap(b).st \notin Gone
        /\ Snap(b).st \in Remote \cup {"BOTH"} /\ s = Snap(b)
    BY <1>s DEF Snap, Gone, Remote
  <2>2. _check_block_sync(b)
    OBVIOUS
  <2> QED
    BY ONLY <2>1, <2>2, <1>n, <1>V, <1>U DEF _check_block_sync, Copied, TurnedOver
<1>2. n \in ShotSet /\ n.st = s.st /\ n.seq = s.seq /\ n.back = s.back /\ n.toseq = s.seq /\ n.ex = TRUE /\ n.fin = TRUE
  <2>1. s \in ShotSet
    BY <1>s DEF Types, UpSet
  <2> QED
    BY <1>n, <2>1 DEF ShotSet
<1>3. /\ U \in UpSet /\ U.pc = up.pc /\ U.cur = up.cur /\ U.b = up.b /\ U.todo = up.todo \ {b}
      /\ U.snap[b] = n /\ \A c \in Blocks \ {b} : U.snap[c] = up.snap[c]
  BY <1>2, <1>V, <1>U, TurnOver
<1>4. /\ disk' \in DiskSet /\ disk'.path = disk.path /\ disk'.flock = disk.flock /\ disk'.data = disk.data
      /\ disk'.cache = disk.cache /\ \A c \in Blocks \ {b} : disk'.to[c] = disk.to[c]
  <2>1. disk \in DiskSet /\ Absent \in Contents
    BY DEF Types, Contents
  <2> QED
    BY <1>1, <2>1, CopiedIs
<1>5. Types'
  <2>1. UpOK'
    BY <1>1, <1>3 DEF UpOK, Sending
  <2>2. /\ meta' \in MetaSet /\ gh' \in GhSet /\ cloud' \in CloudSet /\ left' \in LeftSet
        /\ \A c \in Blocks : Cnt(c)' = Cnt(c)
    BY <1>1 DEF Types, Cnt
  <2> QED
    BY <1>1, <1>3, <1>4, <2>1, <2>2, TypesByUpload
<1>6. ASSUME Clean' PROVE Core'
  <2>1. Core
    BY <1>1, <1>6 DEF Clean
  <2>2. Uploads
    BY <1>1, <1>4 DEF Uploads, EntryKept
  <2>3. \A c \in Blocks \ {b} : Apart(c)
    BY <1>1, <1>3, <1>4 DEF Apart
  <2>4. ~Writing(b) /\ ~Writing(b)'
    BY <1>1, <2>1, <2>2, NobodyWrites, WritingSame
  <2>5. StatusI(b)'
    BY <1>1, <2>1, <2>2, ApartStatus
  <2>6. UpI(b)'
    <3>1. ShotI(b) /\ SeqI(b) /\ CopyI(b) /\ StoredI(b) /\ LaterI(b) /\ CloudI(b)
      BY <1>1, <2>1 DEF Core, UpI
    <3>2. /\ up'.snap[b] = n /\ up'.pc = "check" /\ b \notin up'.todo /\ up'.cur = up.cur
          /\ Active /\ Active' /\ s = up.snap[b] /\ St(b)' = St(b) /\ Num(b)' = Num(b)
      BY <1>1, <1>3, <1>s DEF Active, Sending, St, Num
    <3>3. s.st \notin Dirty /\ n.st \notin Dirty /\ n.st \notin Gone
      BY <1>1, <1>2 DEF Gone, Dirty, Remote
    <3>4. ~SendsIn(b, {"both"})'
      BY <3>2 DEF SendsIn
    <3>5. ShotI(b)'
      BY <1>1, <1>2, <3>1, <3>2, <3>3, <3>4 DEF ShotI
    <3>6. SeqI(b)'
      BY <1>1, <1>2, <2>4, <3>1, <3>2 DEF SeqI
    <3>7. CopyI(b)'
      BY <3>2, <3>3 DEF CopyI
    <3>8. StoredI(b)'
      BY <1>1, <1>2, <3>1, <3>2, <3>3 DEF StoredI
    <3>9. LaterI(b)'
      BY <2>4, <3>1, <3>2, <3>3 DEF LaterI
    <3>10. CloudI(b)'
      BY <1>1, <1>2, <2>4, <3>1, <3>2, <3>3 DEF CloudI
    <3> QED
      BY <3>5, <3>6, <3>7, <3>8, <3>9, <3>10 DEF UpI
  <2>7. /\ up.pc # "idle" /\ up'.pc # "idle" /\ up'.pc = up.pc /\ up.pc \notin Sending /\ up'.pc \notin Sending
        /\ up'.cur = up.cur /\ \A c \in Blocks \ {b} : c \in up'.todo <=> c \in up.todo
    BY <1>1, <1>3 DEF Sending
  <2> QED
    BY <1>1, <1>5, <2>1, <2>2, <2>3, <2>5, <2>6, <2>7, UploadsOne
<1> QED
  BY <1>5, <1>6

(* The turn of a block.                                                    *)
LEMMA CheckStep ==
  ASSUME BlockInv, NEW b \in Blocks, _check_block_sync(b)
  PROVE  BlockInv'
<1>1. Snap(b).st \in Statuses
  BY DEF BlockInv, Types, UpSet, ShotSet, Snap
<1>2. Snap(b).st \in Dirty \/ Snap(b).st \in Gone \/ Snap(b).st \in Remote \cup {"BOTH"}
  BY <1>1 DEF Statuses, Local, Dirty
<1> QED
  BY <1>2, CheckDirtyStep, CheckGoneStep, CheckStoredStep

(* The upload fails: what the invariant keeps of a block is its snapshot   *)
(* and its entry in the cloud.                                             *)
LEMMA FailStep ==
  ASSUME BlockInv, Active, up' = Fail(up), meta' = meta, gh' = gh, cloud' = cloud, th' = th, dl' = dl,
         left' \in LeftSet, left'.mod = left.mod, left'.page = left.page,
         disk' \in DiskSet, disk'.path = disk.path, disk'.data = disk.data, disk'.flock = disk.flock,
         disk'.cache = disk.cache
  PROVE  BlockInv'
<1> USE DEF BlockInv
<1>1. /\ up' \in UpSet /\ up'.pc = "revert" /\ up'.cur = up.cur /\ up'.snap = up.snap
  BY FailIs DEF Types
<1>2. Types'
  <2>1. UpOK'
    BY <1>1 DEF UpOK, Sending
  <2>2. /\ meta' \in MetaSet /\ gh' \in GhSet /\ cloud' \in CloudSet /\ meta'.fin = meta.fin
        /\ \A c \in Blocks : Cnt(c)' = Cnt(c)
    BY DEF Types, Cnt
  <2> QED
    BY <1>1, <2>1, <2>2, TypesByUpload
<1>3. ASSUME Clean' PROVE Core'
  <2>1. Core /\ up.pc # "idle"
    BY <1>3 DEF Clean, Active, Sending
  <2>2. Uploads
    BY DEF Uploads, EntryKept
  <2>3. NumbersI'
    BY <1>1, <2>1 DEF Core, NumbersI
  <2>4. \A c \in Blocks : StatusI(c)'
    BY <2>1, <2>2, ApartStatus
  <2>5. ASSUME NEW c \in Blocks PROVE UpI(c)'
    <3>1. ShotI(c) /\ SeqI(c) /\ CloudI(c)
      BY <2>1 DEF Core, UpI
    <3>2. /\ up'.snap[c] = up.snap[c] /\ ~Active' /\ St(c)' = St(c) /\ Num(c)' = Num(c)
          /\ (Writing(c)' <=> Writing(c))
      BY <1>1, <2>2, WritingSame DEF Active, Sending, St, Num
    <3>3. ~SendsIn(c, {"both"})'
      BY <1>1 DEF SendsIn
    <3>4. ShotI(c)'
      BY <1>1, <3>1, <3>2, <3>3 DEF ShotI
    <3>5. SeqI(c)'
      BY <1>1, <3>1, <3>2 DEF SeqI
    <3>6. CopyI(c)' /\ StoredI(c)' /\ LaterI(c)'
      BY <1>1, <3>2 DEF CopyI, StoredI, LaterI
    <3>7. CloudI(c)'
      BY <1>1, <3>1, <3>2 DEF CloudI
    <3> QED
      BY <3>4, <3>5, <3>6, <3>7 DEF UpI
  <2> QED
    BY <1>2, <2>1, <2>2, <2>3, <2>4, <2>5, ByUpload
<1> QED
  BY <1>2, <1>3

(* The block the upload is sending.                                        *)
LEMMA SendingIs ==
  ASSUME Types, up.pc \in Sending, NEW b, b = up.b
  PROVE  /\ b \in Blocks /\ b \in up.todo /\ up.snap[b].st \in Dirty /\ up.snap[b].st \notin Gone
         /\ up.snap[b] \in ShotSet /\ up.snap[b].seq \in 0..MaxSeq /\ Active
         /\ Core => /\ ShotI(b) /\ SeqI(b) /\ CopyI(b) /\ StoredI(b) /\ LaterI(b) /\ CloudI(b)
                    /\ StatusI(b) /\ gh.snap[b] # {} /\ gh.snap[b] # Absent
                    /\ up.pc # "both" => ~up.snap[b].fin
<1>1. /\ b \in Blocks /\ b \in up.todo /\ up.snap[b].st \in Dirty /\ up.pc # "idle" /\ Active
  BY DEF Types, UpOK, Active, Sending
<1>2. up.snap[b].st \notin Gone
  BY <1>1 DEF Gone, Dirty
<1>3. up.snap[b] \in ShotSet /\ up.snap[b].seq \in 0..MaxSeq
  BY <1>1 DEF Types, UpSet, ShotSet
<1>4. ASSUME Core
      PROVE  /\ ShotI(b) /\ SeqI(b) /\ CopyI(b) /\ StoredI(b) /\ LaterI(b) /\ CloudI(b) /\ StatusI(b)
             /\ gh.snap[b] # {} /\ gh.snap[b] # Absent
             /\ up.pc # "both" => ~up.snap[b].fin
  <2>1. /\ ShotI(b) /\ SeqI(b) /\ CopyI(b) /\ StoredI(b) /\ LaterI(b) /\ CloudI(b) /\ StatusI(b)
    BY <1>1, <1>4 DEF Core, UpI
  <2>2. gh.snap[b] # {}
    BY <1>2, <2>1 DEF ShotI
  <2>3. gh.snap[b] # Absent
    BY <1>1, ConstantFacts DEF Types, GhSet
  <2>4. ASSUME up.pc # "both" PROVE ~up.snap[b].fin
    <3>1. ~SendsIn(b, {"both"})
      BY <2>4 DEF SendsIn
    <3> QED
      BY <1>1, <2>1, <3>1 DEF ShotI
  <2> QED
    BY <2>1, <2>2, <2>3, <2>4
<1> QED
  BY <1>1, <1>2, <1>3, <1>4

OnTo(pc) == [up EXCEPT !.pc = pc]

(* The upload goes on with the block it is sending.                        *)
LEMMA AtIs ==
  ASSUME Types, NEW pc \in Sending, NEW U, U = OnTo(pc)
  PROVE  U \in UpSet /\ U.pc = pc /\ U.b = up.b /\ U.todo = up.todo /\ U.cur = up.cur /\ U.snap = up.snap
<1>1. up \in UpSet /\ pc \in UpPCs
  BY DEF Types, UpPCs
<1> QED
  BY <1>1 DEF OnTo, UpSet

(* The block is copied, unless a writer did it before.                     *)
LEMMA DispatchStep ==
  ASSUME BlockInv, dispatch_upload_block
  PROVE  BlockInv'
<1> USE DEF BlockInv
<1>b. PICK b : b = up.b
  OBVIOUS
<1>s. PICK s : s = up.snap[b]
  OBVIOUS
<1>1. /\ up.pc = "dispatch" /\ disk' = check_and_copy_file(disk, b)
      /\ up' = IF disk.to[b] \in {Absent, {}} /\ Path(b) = 0 THEN Fail(up) ELSE OnTo("put")
      /\ meta' = meta /\ gh' = gh /\ cloud' = cloud /\ th' = th /\ dl' = dl /\ left' = left
  BY <1>b DEF dispatch_upload_block, OnTo, Path
<1>2. /\ b \in Blocks /\ b \in up.todo /\ s.st \in Dirty /\ s.st \notin Gone /\ Active
      /\ Core => /\ ShotI(b) /\ SeqI(b) /\ CopyI(b) /\ StoredI(b) /\ LaterI(b) /\ CloudI(b)
                 /\ StatusI(b) /\ gh.snap[b] # {} /\ gh.snap[b] # Absent /\ ~s.fin
  BY <1>b, <1>s, <1>1, SendingIs DEF Sending
<1>3. /\ disk' \in DiskSet /\ disk'.path = disk.path /\ disk'.flock = disk.flock /\ disk'.data = disk.data
      /\ disk'.cache = disk.cache
      /\ disk.to[b] \notin {Absent, {}} => disk'.to[b] = disk.to[b]
      /\ disk.to[b] \in {Absent, {}} /\ disk.path[b] # 0 => disk'.to[b] = disk.data[disk.path[b]]
      /\ \A c \in Blocks \ {b} : disk'.to[c] = disk.to[c]
  BY <1>1, <1>2, CheckCopyIs DEF Types
<1>4. CASE disk.to[b] \in {Absent, {}} /\ Path(b) = 0
  <2>1. up' = Fail(up) /\ left' \in LeftSet
    BY <1>1, <1>4 DEF Types
  <2> QED
    BY <1>1, <1>2, <1>3, <2>1, FailStep
<1>5. CASE ~(disk.to[b] \in {Absent, {}} /\ Path(b) = 0)
  <2>1. /\ up' \in UpSet /\ up'.pc = "put" /\ up'.b = b /\ up'.todo = up.todo /\ up'.cur = up.cur
        /\ up'.snap = up.snap
    BY <1>1, <1>5, <1>b, AtIs DEF Sending
  <2>2. Types'
    <3>1. UpOK'
      BY <1>2, <1>s, <2>1 DEF UpOK
    <3>2. /\ meta' \in MetaSet /\ gh' \in GhSet /\ cloud' \in CloudSet /\ left' \in LeftSet
          /\ \A c \in Blocks : Cnt(c)' = Cnt(c)
      BY <1>1 DEF Types, Cnt
    <3> QED
      BY <1>1, <1>3, <2>1, <3>1, <3>2, TypesByUpload
  <2>3. ASSUME Clean' PROVE Core'
    <3>1. Core
      BY <1>1, <2>3 DEF Clean
    <3>2. Uploads
      BY <1>1, <1>3 DEF Uploads, EntryKept
    <3>3. \A c \in Blocks \ {b} : Apart(c)
      BY <1>1, <1>3, <2>1 DEF Apart
    <3>4. StatusI(b)'
      BY <1>1, <1>2, <3>1, <3>2, ApartStatus
    <3>5. UpI(b)'
      <4>1. /\ ShotI(b) /\ SeqI(b) /\ CopyI(b) /\ StoredI(b) /\ LaterI(b) /\ CloudI(b)
            /\ StatusI(b) /\ gh.snap[b] # {} /\ gh.snap[b] # Absent /\ ~s.fin
        BY <1>2, <3>1
      <4>2. /\ up'.snap[b] = s /\ up.snap[b] = s /\ Active' /\ St(b)' = St(b) /\ Num(b)' = Num(b)
            /\ (Writing(b)' <=> Writing(b))
        BY <1>1, <1>s, <2>1, <3>2, WritingSame DEF Active, Sending, St, Num
      <4>3. SendsIn(b, Sending) /\ ~SendsIn(b, {"both"})' /\ ~SendsIn(b, {"finish"})'
        BY <1>1, <1>b, <2>1 DEF SendsIn, Sending
      <4>4. disk'.to[b] = gh.snap[b]
        <5>1. disk.to[b] \in {Absent, gh.snap[b]}
          BY <1>2, <1>s, <4>1 DEF CopyI
        <5>2. CASE disk.to[b] = gh.snap[b]
          BY <1>3, <4>1, <5>2
        <5>3. CASE disk.to[b] = Absent
          <6>1. St(b) \in Local /\ gh.cur[b] = gh.snap[b]
            BY <1>2, <1>s, <4>1, <5>3 DEF CopyI, Local, Dirty
          <6>2. Path(b) # 0 /\ Data(Path(b)) = gh.cur[b]
            BY <4>1, <6>1 DEF StatusI
          <6> QED
            BY <1>3, <5>3, <6>1, <6>2 DEF Path, Data
        <5> QED
          BY <5>1, <5>2, <5>3
      <4>5. ShotI(b)'
        BY <1>1, <1>2, <2>1, <4>1, <4>2, <4>3 DEF ShotI
      <4>6. SeqI(b)'
        BY <1>1, <2>1, <4>1, <4>2 DEF SeqI
      <4>7. CopyI(b)'
        BY <1>1, <1>2, <2>1, <4>1, <4>2, <4>3, <4>4 DEF CopyI
      <4>8. StoredI(b)' /\ LaterI(b)'
        BY <1>2, <2>1, <4>1, <4>2, <4>3 DEF StoredI, LaterI
      <4>9. CloudI(b)'
        BY <1>1, <1>2, <2>1, <4>1, <4>2 DEF CloudI
      <4> QED
        BY <4>5, <4>6, <4>7, <4>8, <4>9 DEF UpI
    <3>6. Active' /\ up.pc # "idle" /\ up'.pc # "idle"
      BY <1>1, <2>1 DEF Active, Sending
    <3> QED
      BY <1>1, <1>2, <1>b, <2>1, <2>2, <3>1, <3>2, <3>3, <3>4, <3>5, <3>6, UploadsOne
  <2> QED
    BY <2>2, <2>3
<1> QED
  BY <1>4, <1>5

(* The block reaches the cloud.                                            *)
LEMMA PutStep ==
  ASSUME BlockInv, con_object_sync(TRUE)
  PROVE  BlockInv'
<1> USE DEF BlockInv
<1>b. PICK b : b = up.b
  OBVIOUS
<1>s. PICK s : s = up.snap[b]
  OBVIOUS
<1>n. PICK n : n = s.seq
  OBVIOUS
<1>v. PICK v : v = disk.to[b]
  OBVIOUS
<1>1. /\ up.pc = "put" /\ cloud' = Stored(b, n, v) /\ up' = OnTo("finish") /\ left' = left
      /\ meta' = meta /\ gh' = gh /\ disk' = disk /\ th' = th /\ dl' = dl
  BY <1>b, <1>s, <1>n, <1>v DEF con_object_sync, OnTo, Stored, Snap
<1>2. /\ b \in Blocks /\ b \in up.todo /\ s.st \in Dirty /\ s.st \notin Gone /\ Active /\ n \in 0..MaxSeq
      /\ Core => /\ ShotI(b) /\ SeqI(b) /\ CopyI(b) /\ StoredI(b) /\ LaterI(b) /\ CloudI(b)
                 /\ StatusI(b) /\ gh.snap[b] # {} /\ gh.snap[b] # Absent /\ ~s.fin
  BY <1>b, <1>s, <1>n, <1>1, SendingIs DEF Sending
<1>3. /\ up' \in UpSet /\ up'.pc = "finish" /\ up'.b = b /\ up'.todo = up.todo /\ up'.cur = up.cur
      /\ up'.snap = up.snap
  BY <1>1, <1>b, AtIs DEF Sending
<1>4. /\ cloud' \in CloudSet /\ cloud'.meta = cloud.meta /\ cloud'.obj[b][n] = v
      /\ \A k \in (0..MaxSeq) \ {n} : cloud'.obj[b][k] = cloud.obj[b][k]
      /\ \A c \in Blocks \ {b} : cloud'.obj[c] = cloud.obj[c]
  <2>1. cloud \in CloudSet /\ v \in Contents
    BY <1>2, <1>v DEF Types, DiskSet
  <2> QED
    BY <1>1, <1>2, <2>1, StoredIs
<1>5. Types'
  <2>1. UpOK'
    BY <1>2, <1>s, <1>3 DEF UpOK
  <2>2. /\ meta' \in MetaSet /\ gh' \in GhSet /\ disk' \in DiskSet /\ left' \in LeftSet
        /\ \A c \in Blocks : Cnt(c)' = Cnt(c)
    BY <1>1 DEF Types, Cnt
  <2> QED
    BY <1>1, <1>3, <1>4, <2>1, <2>2, TypesByUpload
<1>6. ASSUME Clean' PROVE Core'
  <2>1. Core
    BY <1>1, <1>6 DEF Clean
  <2>2. Uploads
    BY <1>1 DEF Uploads, EntryKept
  <2>3. \A c \in Blocks \ {b} : Apart(c)
    BY <1>1, <1>3, <1>4 DEF Apart
  <2>4. /\ ShotI(b) /\ SeqI(b) /\ CopyI(b) /\ StoredI(b) /\ LaterI(b) /\ CloudI(b)
        /\ StatusI(b) /\ gh.snap[b] # {} /\ gh.snap[b] # Absent /\ ~s.fin
    BY <1>2, <2>1
  <2>5. /\ up'.snap[b] = s /\ up.snap[b] = s /\ Active' /\ St(b)' = St(b) /\ Num(b)' = Num(b)
        /\ Path(b)' = Path(b) /\ (Writing(b)' <=> Writing(b))
    BY <1>1, <1>s, <1>3, <2>2, WritingSame DEF Active, Sending, St, Num, Path
  <2>6. /\ SendsIn(b, Sending) /\ SendsIn(b, {"put", "finish"}) /\ ~SendsIn(b, {"both"})'
        /\ SendsIn(b, Sending)' /\ SendsIn(b, {"finish"})'
    BY <1>1, <1>b, <1>3 DEF SendsIn, Sending
  <2>7. v = gh.snap[b] /\ v # Absent
    BY <1>2, <1>v, <2>4, <2>5, <2>6 DEF CopyI
  <2>8. ASSUME St(b) \in Remote \cup {"BOTH"} PROVE Num(b) \in (0..MaxSeq) \ {n}
    <3>1. ~Writing(b)
      BY <2>1, <2>8 DEF Core, ReqI, Writing, Remote
    <3>2. St(b) \notin Dirty /\ St(b) \notin Gone
      BY <2>8 DEF Remote, Dirty, Gone
    <3>3. Num(b) # n
      BY <1>2, <1>n, <2>4, <2>5, <3>1, <3>2 DEF CopyI
    <3> QED
      BY <1>2, <3>3, PathIs
  <2>9. StatusI(b)'
    <3>1. St(b) \in Remote \cup {"BOTH"} => cloud'.obj[b][Num(b)] = cloud.obj[b][Num(b)]
      BY <1>4, <2>8
    <3>2. gh' = gh /\ disk' = disk /\ meta' = meta
      BY <1>1
    <3> QED
      BY <2>4, <2>5, <3>1, <3>2 DEF StatusI, Data
  <2>10. UpI(b)'
    <3>1. ShotI(b)'
      BY <1>1, <1>2, <1>3, <2>4, <2>5, <2>6 DEF ShotI
    <3>2. SeqI(b)'
      BY <1>1, <1>3, <2>4, <2>5 DEF SeqI
    <3>3. CopyI(b)'
      BY <1>1, <1>2, <1>3, <1>v, <2>4, <2>5, <2>6, <2>7 DEF CopyI
    <3>4. StoredI(b)'
      BY <1>1, <1>n, <1>4, <2>5, <2>7 DEF StoredI
    <3>5. LaterI(b)'
      BY <1>2, <1>3, <2>5 DEF LaterI
    <3>6. CloudI(b)'
      <4>1. ASSUME cloud.meta[b].ex PROVE cloud'.obj[b][cloud.meta[b].seq] = cloud.obj[b][cloud.meta[b].seq]
        <5>1. cloud.meta[b].seq # n
          BY <1>2, <1>n, <2>4, <2>5, <4>1 DEF CloudI
        <5>2. cloud.meta[b].seq \in 0..MaxSeq
          BY <1>2 DEF Types, CloudSet, CloudEntry
        <5> QED
          BY <1>4, <5>1, <5>2
      <4> QED
        BY <1>1, <1>2, <1>3, <1>4, <2>4, <2>5, <4>1 DEF CloudI
    <3> QED
      BY <3>1, <3>2, <3>3, <3>4, <3>5, <3>6 DEF UpI
  <2>11. Active' /\ up.pc # "idle" /\ up'.pc # "idle"
    BY <1>1, <1>3 DEF Active, Sending
  <2> QED
    BY <1>1, <1>2, <1>b, <1>3, <1>5, <2>1, <2>2, <2>3, <2>9, <2>10, <2>11, UploadsOne
<1> QED
  BY <1>5, <1>6

(* The block does not reach the cloud.                                     *)
LEMMA PutFailedStep ==
  ASSUME BlockInv, con_object_sync(FALSE)
  PROVE  BlockInv'
<1> USE DEF BlockInv
<1>1. /\ up.pc = "put" /\ left.fail > 0 /\ cloud' = cloud /\ up' = Fail(up) /\ Spend("fail")
      /\ meta' = meta /\ gh' = gh /\ disk' = disk /\ th' = th /\ dl' = dl
  BY DEF con_object_sync
<1>2. left' \in LeftSet /\ left'.mod = left.mod /\ left'.page = left.page
  BY <1>1, SpendIs DEF Types
<1>3. Active /\ disk' \in DiskSet
  BY <1>1 DEF Active, Sending, Types
<1> QED
  BY <1>1, <1>2, <1>3, FailStep

(* The thread of the block has ended.                                      *)
LEMMA TerminateStep ==
  ASSUME BlockInv, _upload_terminate_thread
  PROVE  BlockInv'
<1> USE DEF BlockInv
<1>b. PICK b : b = up.b
  OBVIOUS
<1>s. PICK s : s = up.snap[b]
  OBVIOUS
<1>n. PICK n : n = [s EXCEPT !.fin = TRUE, !.ex = TRUE, !.toseq = s.seq]
  OBVIOUS
<1>V. PICK V : V = SetSnap(b, n)
  OBVIOUS
<1>1. /\ up.pc = "finish" /\ up' = [V EXCEPT !.pc = "both"] /\ disk' = Copied(disk, b, Absent) /\ left' = left
      /\ meta' = meta /\ gh' = gh /\ cloud' = cloud /\ th' = th /\ dl' = dl
  BY <1>b, <1>s, <1>n, <1>V DEF _upload_terminate_thread, Copied, Snap
<1>2. /\ b \in Blocks /\ b \in up.todo /\ s.st \in Dirty /\ s.st \notin Gone /\ Active /\ s \in ShotSet
      /\ Core => /\ ShotI(b) /\ SeqI(b) /\ CopyI(b) /\ StoredI(b) /\ LaterI(b) /\ CloudI(b)
  BY <1>b, <1>s, <1>1, SendingIs DEF Sending
<1>3. n \in ShotSet /\ n.st = s.st /\ n.seq = s.seq /\ n.back = s.back /\ n.toseq = s.seq /\ n.ex = TRUE /\ n.fin = TRUE
  BY <1>n, <1>2 DEF ShotSet
<1>4. /\ V \in UpSet /\ V.todo = up.todo /\ V.cur = up.cur /\ V.b = up.b
      /\ V.snap[b] = n /\ \A c \in Blocks \ {b} : V.snap[c] = up.snap[c]
  BY <1>V, <1>2, <1>3, SnapIs DEF Types
<1>5. /\ up' \in UpSet /\ up'.pc = "both" /\ up'.todo = up.todo /\ up'.cur = up.cur /\ up'.b = b
      /\ up'.snap[b] = n /\ \A c \in Blocks \ {b} : up'.snap[c] = up.snap[c]
  <2>1. "both" \in UpPCs
    BY DEF UpPCs, Sending
  <2>2. up' \in UpSet /\ up'.pc = "both" /\ up'.todo = V.todo /\ up'.cur = V.cur /\ up'.b = V.b /\ up'.snap = V.snap
    BY <1>1, <1>4, <2>1 DEF UpSet
  <2> QED
    BY <1>4, <1>b, <2>2
<1>6. /\ disk' \in DiskSet /\ disk'.path = disk.path /\ disk'.flock = disk.flock /\ disk'.data = disk.data
      /\ disk'.cache = disk.cache /\ \A c \in Blocks \ {b} : disk'.to[c] = disk.to[c]
  <2>1. disk \in DiskSet /\ Absent \in Contents
    BY DEF Types, Contents
  <2> QED
    BY <1>1, <1>2, <2>1, CopiedIs
<1>7. Types'
  <2>1. UpOK'
    BY <1>2, <1>3, <1>5 DEF UpOK
  <2>2. /\ meta' \in MetaSet /\ gh' \in GhSet /\ cloud' \in CloudSet /\ left' \in LeftSet
        /\ \A c \in Blocks : Cnt(c)' = Cnt(c)
    BY <1>1 DEF Types, Cnt
  <2> QED
    BY <1>1, <1>5, <1>6, <2>1, <2>2, TypesByUpload
<1>8. ASSUME Clean' PROVE Core'
  <2>1. Core
    BY <1>1, <1>8 DEF Clean
  <2>2. Uploads
    BY <1>1, <1>6 DEF Uploads, EntryKept
  <2>3. \A c \in Blocks \ {b} : Apart(c)
    BY <1>1, <1>5, <1>6 DEF Apart
  <2>4. StatusI(b)'
    BY <1>1, <1>2, <2>1, <2>2, ApartStatus
  <2>5. UpI(b)'
    <3>1. /\ ShotI(b) /\ SeqI(b) /\ CopyI(b) /\ StoredI(b) /\ LaterI(b) /\ CloudI(b)
      BY <1>2, <2>1
    <3>2. /\ up'.snap[b] = n /\ up.snap[b] = s /\ Active' /\ St(b)' = St(b) /\ Num(b)' = Num(b)
          /\ (Writing(b)' <=> Writing(b))
      BY <1>1, <1>s, <1>5, <2>2, WritingSame DEF Active, Sending, St, Num
    <3>3. /\ SendsIn(b, Sending) /\ SendsIn(b, {"finish"}) /\ SendsIn(b, {"both"})'
      BY <1>1, <1>b, <1>5 DEF SendsIn, Sending
    <3>4. ShotI(b)'
      BY <1>1, <1>2, <1>3, <1>5, <3>1, <3>2, <3>3 DEF ShotI
    <3>5. SeqI(b)'
      BY <1>1, <1>3, <1>5, <3>1, <3>2 DEF SeqI
    <3>6. CopyI(b)'
      BY <1>1, <1>2, <1>3, <3>1, <3>2, <3>3 DEF CopyI
    <3>7. StoredI(b)'
      BY <1>1, <1>2, <1>3, <3>1, <3>2, <3>3 DEF StoredI
    <3>8. LaterI(b)'
      BY <1>2, <1>3, <1>5, <3>2 DEF LaterI
    <3>9. CloudI(b)'
      BY <1>1, <1>2, <1>3, <1>5, <3>1, <3>2 DEF CloudI
    <3> QED
      BY <3>4, <3>5, <3>6, <3>7, <3>8, <3>9 DEF UpI
  <2>6. Active' /\ up.pc # "idle" /\ up'.pc # "idle"
    BY <1>1, <1>5 DEF Active, Sending
  <2> QED
    BY <1>1, <1>2, <1>b, <1>5, <1>7, <2>1, <2>2, <2>3, <2>4, <2>5, <2>6, UploadsOne
<1> QED
  BY <1>7, <1>8

(* A block becomes ST_BOTH.                                                *)
LEMMA BothIs ==
  ASSUME meta \in MetaSet, NEW b \in Blocks, NEW M, M = [SetSt(meta, b, "BOTH") EXCEPT !.blk[b].up = TRUE]
  PROVE  /\ M \in MetaSet /\ M.fin = meta.fin /\ M.inc = meta.inc /\ M.lock = meta.lock
         /\ M.blk[b].st = "BOTH" /\ M.blk[b].seq = Num(b) /\ M.blk[b].cnt = Cnt(b)
         /\ \A c \in Blocks \ {b} : M.blk[c] = meta.blk[c]
<1>S. PICK S : S = SetSt(meta, b, "BOTH")
  OBVIOUS
<1>1. /\ S \in MetaSet /\ S.fin = meta.fin /\ S.inc = meta.inc /\ S.lock = meta.lock
      /\ S.blk[b].st = "BOTH" /\ S.blk[b].seq = Num(b) /\ S.blk[b].cnt = Cnt(b)
      /\ \A c \in Blocks \ {b} : S.blk[c] = meta.blk[c]
  <2>1. "BOTH" \in Statuses
    BY DEF Statuses, Local
  <2> QED
    BY <1>S, <2>1, SetStIs DEF Num, Cnt
<1>e. PICK e : e = [S.blk[b] EXCEPT !.up = TRUE]
  OBVIOUS
<1>B. PICK B : B = [S.blk EXCEPT ![b] = e]
  OBVIOUS
<1>2. S.blk \in [Blocks -> Entry] /\ S.blk[b] \in Entry
  BY <1>1 DEF MetaSet
<1>3. e \in Entry /\ e.st = "BOTH" /\ e.seq = Num(b) /\ e.cnt = Cnt(b)
  BY <1>1, <1>2, <1>e DEF Entry
<1>4. B \in [Blocks -> Entry] /\ B[b] = e /\ \A c \in Blocks \ {b} : B[c] = S.blk[c]
  BY <1>2, <1>3, <1>B
<1>5. M = [S EXCEPT !.blk = B]
  BY <1>S, <1>1, <1>2, <1>e, <1>B DEF MetaSet
<1>6. M \in MetaSet /\ M.fin = S.fin /\ M.inc = S.inc /\ M.lock = S.lock /\ M.blk = B
  BY ONLY <1>1, <1>4, <1>5 DEF MetaSet
<1> QED
  BY ONLY <1>1, <1>3, <1>4, <1>6

(* The block is in both places, unless it was modified again.              *)
LEMMA BothStep ==
  ASSUME BlockInv, change_block_status_to_BOTH
  PROVE  BlockInv'
<1> USE DEF BlockInv
<1>b. PICK b : b = up.b
  OBVIOUS
<1>s. PICK s : s = up.snap[b]
  OBVIOUS
<1>M. PICK M : M = [SetSt(meta, b, "BOTH") EXCEPT !.blk[b].up = TRUE]
  OBVIOUS
<1>W. PICK W : W = up.todo \ {b}
  OBVIOUS
<1>1. /\ up.pc = "both" /\ MetaFree /\ up' = Stepped(up, "check", W) /\ disk' = disk /\ left' = left
      /\ meta' = IF St(b) = "LtoC" /\ Num(b) = s.seq THEN M ELSE meta
      /\ gh' = gh /\ cloud' = cloud /\ th' = th /\ dl' = dl
  BY <1>b, <1>s, <1>M, <1>W DEF change_block_status_to_BOTH, Snap, Stepped, St, Num
<1>2. /\ b \in Blocks /\ b \in up.todo /\ s.st \in Dirty /\ s.st \notin Gone /\ Active
      /\ Core => /\ ShotI(b) /\ SeqI(b) /\ CopyI(b) /\ StoredI(b) /\ LaterI(b) /\ CloudI(b) /\ StatusI(b)
  BY <1>b, <1>s, <1>1, SendingIs DEF Sending
<1>3. /\ meta' \in MetaSet /\ meta'.fin = meta.fin /\ meta'.inc = meta.inc /\ meta'.lock = meta.lock
      /\ \A c \in Blocks \ {b} : meta'.blk[c] = meta.blk[c]
      /\ Num(b)' = Num(b) /\ Cnt(b)' = Cnt(b)
      /\ St(b) = "LtoC" /\ Num(b) = s.seq => St(b)' = "BOTH"
      /\ ~(St(b) = "LtoC" /\ Num(b) = s.seq) => meta'.blk[b] = meta.blk[b] /\ St(b)' = St(b)
  <2>1. meta \in MetaSet
    BY DEF Types
  <2>2. /\ M \in MetaSet /\ M.fin = meta.fin /\ M.inc = meta.inc /\ M.lock = meta.lock
        /\ M.blk[b].st = "BOTH" /\ M.blk[b].seq = Num(b) /\ M.blk[b].cnt = Cnt(b)
        /\ \A c \in Blocks \ {b} : M.blk[c] = meta.blk[c]
    BY <1>2, <1>M, <2>1, BothIs
  <2>3. CASE St(b) = "LtoC" /\ Num(b) = s.seq
    BY <1>1, <2>2, <2>3 DEF St, Num, Cnt
  <2>4. CASE ~(St(b) = "LtoC" /\ Num(b) = s.seq)
    BY <1>1, <2>1, <2>4 DEF St, Num, Cnt
  <2> QED
    BY <2>3, <2>4
<1>4. /\ up' \in UpSet /\ up'.pc = "check" /\ up'.todo = W /\ up'.cur = up.cur /\ up'.b = b /\ up'.snap = up.snap
  <2>1. up \in UpSet /\ "check" \in UpPCs /\ W \in SUBSET Blocks
    BY <1>W DEF Types, UpPCs, UpSet
  <2> QED
    BY <1>1, <1>b, <2>1, SteppedIs
<1>5. Types'
  <2>1. UpOK'
    BY <1>4 DEF UpOK, Sending
  <2>2. /\ disk' \in DiskSet /\ gh' \in GhSet /\ cloud' \in CloudSet /\ left' \in LeftSet
        /\ \A c \in Blocks : Cnt(c)' = Cnt(c)
    BY <1>1, <1>3 DEF Types, Cnt
  <2> QED
    BY <1>1, <1>3, <1>4, <2>1, <2>2, TypesByUpload
<1>6. ASSUME Clean' PROVE Core'
  <2>1. Core
    BY <1>1, <1>6 DEF Clean
  <2>2. Uploads
    <3>1. EntryKept(b)
      BY <1>1, <1>3 DEF EntryKept, Remote, Local
    <3>2. \A c \in Blocks : EntryKept(c)
      BY <1>3, <3>1 DEF EntryKept
    <3> QED
      BY <1>1, <1>3, <3>2 DEF Uploads
  <2>3. \A c \in Blocks \ {b} : Apart(c)
    BY <1>1, <1>3, <1>4 DEF Apart
  <2>4. ~Writing(b) /\ ~Writing(b)'
    BY <1>1, <2>1, <2>2, NobodyWrites, WritingSame
  <2>5. /\ ShotI(b) /\ SeqI(b) /\ CopyI(b) /\ StoredI(b) /\ LaterI(b) /\ CloudI(b) /\ StatusI(b)
    BY <1>2, <2>1
  <2>6. /\ up'.snap[b] = s /\ up.snap[b] = s /\ Active' /\ b \notin up'.todo
        /\ SendsIn(b, {"both"}) /\ SendsIn(b, Sending) /\ ~SendsIn(b, {"both"})'
    BY <1>1, <1>b, <1>s, <1>W, <1>4 DEF Active, Sending, SendsIn
  <2>7. s.fin /\ cloud.obj[b][s.seq] = gh.snap[b]
    BY <1>2, <2>5, <2>6 DEF ShotI, StoredI
  <2>8. ASSUME St(b) = "LtoC" /\ Num(b) = s.seq PROVE StatusI(b)' /\ UpI(b)'
    <3>1. St(b)' = "BOTH" /\ Num(b)' = s.seq
      BY <1>3, <2>8
    <3>2. gh.cur[b] = gh.snap[b] /\ gh.cur[b] # {}
      BY <2>4, <2>5, <2>6, <2>8 DEF SeqI, StatusI, Gone
    <3>3. Path(b) # 0 /\ Data(Path(b)) = gh.cur[b] /\ Num(b) <= meta.fin /\ Path(b)' = Path(b)
      BY <1>1, <2>5, <2>8 DEF StatusI, Local, Path
    <3>4. StatusI(b)'
      BY <1>1, <1>3, <2>7, <2>8, <3>1, <3>2, <3>3 DEF StatusI, Data, Local, Remote, Gone
    <3>5. ShotI(b)'
      BY <1>1, <1>4, <2>5, <2>6, <2>7 DEF ShotI
    <3>6. SeqI(b)'
      BY <1>1, <1>2, <2>6, <3>1, <3>2 DEF SeqI
    <3>7. CopyI(b)' /\ LaterI(b)'
      BY <1>4, <2>6, <3>1 DEF CopyI, LaterI, Dirty
    <3>8. StoredI(b)'
      BY <1>1, <2>6, <2>7 DEF StoredI
    <3>9. CloudI(b)'
      BY <1>1, <1>2, <1>3, <1>4, <2>5, <2>6, <3>1 DEF CloudI, Dirty
    <3> QED
      BY <3>4, <3>5, <3>6, <3>7, <3>8, <3>9 DEF UpI
  <2>9. ASSUME ~(St(b) = "LtoC" /\ Num(b) = s.seq) PROVE StatusI(b)' /\ UpI(b)'
    <3>1. St(b)' = St(b) /\ Num(b)' = Num(b) /\ meta'.blk[b] = meta.blk[b]
      BY <1>3, <2>9
    <3>2. StatusI(b)'
      BY <1>1, <1>2, <2>1, <2>2, <3>1, ApartStatus
    <3>3. ShotI(b)'
      BY <1>1, <1>4, <2>5, <2>6, <2>7 DEF ShotI
    <3>4. SeqI(b)'
      BY <1>1, <1>4, <2>4, <2>5, <2>6, <3>1 DEF SeqI
    <3>5. CopyI(b)'
      BY <2>6 DEF CopyI
    <3>6. StoredI(b)'
      BY <1>1, <2>6, <2>7 DEF StoredI
    <3>7. LaterI(b)'
      <4>1. ASSUME St(b) \in Dirty PROVE Num(b) > up.cur
        <5>1. St(b) \notin Gone
          BY <4>1 DEF Dirty, Gone
        <5>2. Num(b) # s.seq
          BY <1>2, <2>4, <2>5, <2>6, <2>9, <5>1 DEF CopyI
        <5> QED
          BY <2>4, <2>5, <2>6, <5>1, <5>2 DEF SeqI
      <4> QED
        BY <1>4, <3>1, <4>1 DEF LaterI
    <3>8. CloudI(b)'
      BY <1>1, <1>2, <1>3, <1>4, <2>4, <2>5, <2>6, <3>1 DEF CloudI
    <3> QED
      BY <3>2, <3>3, <3>4, <3>5, <3>6, <3>7, <3>8 DEF UpI
  <2>10. StatusI(b)' /\ UpI(b)'
    BY <2>8, <2>9
  <2>11. /\ Active' /\ up.pc # "idle" /\ up'.pc # "idle" /\ up'.pc \notin Sending
         /\ \A c \in Blocks \ {b} : c \in up'.todo <=> c \in up.todo
    BY <1>1, <1>4, <1>W DEF Active, Sending
  <2> QED
    BY <1>2, <1>b, <1>3, <1>4, <1>5, <2>1, <2>2, <2>3, <2>10, <2>11, UploadsOne
<1> QED
  BY <1>5, <1>6

(* The metadata follows its blocks to the cloud.                           *)
LEMMA MetaSyncStep ==
  ASSUME BlockInv, do_meta_sync(TRUE)
  PROVE  BlockInv'
<1> USE DEF BlockInv
<1>E. PICK E : E = [b \in Blocks |-> [ex |-> Snap(b).st \notin Gone,
                                      seq |-> IF Snap(b).st \in Gone THEN 0 ELSE Snap(b).seq]]
  OBVIOUS
<1>1. /\ up.pc = "check" /\ up.todo = {} /\ cloud' = [cloud EXCEPT !.meta = E]
      /\ gh' = [gh EXCEPT !.cloud = gh.snap] /\ up' = Stepped(up, "delete", Blocks)
      /\ left' = left /\ meta' = meta /\ disk' = disk /\ th' = th /\ dl' = dl
  BY <1>E DEF do_meta_sync, Stepped
<1>2. /\ up' \in UpSet /\ up'.pc = "delete" /\ up'.cur = up.cur /\ up'.snap = up.snap
  <2>1. up \in UpSet /\ "delete" \in UpPCs /\ Blocks \in SUBSET Blocks
    BY DEF Types, UpPCs
  <2> QED
    BY <1>1, <2>1, SteppedIs
<1>3. \A b \in Blocks : /\ E[b] \in CloudEntry /\ (E[b].ex <=> up.snap[b].st \notin Gone)
                        /\ E[b].ex => E[b].seq = up.snap[b].seq
                        /\ ~E[b].ex => E[b].seq = 0
  <2> SUFFICES ASSUME NEW b \in Blocks
               PROVE  /\ E[b] \in CloudEntry /\ (E[b].ex <=> up.snap[b].st \notin Gone)
                      /\ E[b].ex => E[b].seq = up.snap[b].seq
                      /\ ~E[b].ex => E[b].seq = 0
    OBVIOUS
  <2>x. PICK x \in BOOLEAN : x <=> up.snap[b].st \notin Gone
    OBVIOUS
  <2>k. PICK k : k = IF up.snap[b].st \in Gone THEN 0 ELSE up.snap[b].seq
    OBVIOUS
  <2>1. k \in 0..MaxSeq
    <3>1. up.snap[b].seq \in 0..MaxSeq /\ 0 \in 0..MaxSeq
      BY ConstantFacts DEF Types, UpSet, ShotSet
    <3> QED
      BY <2>k, <3>1
  <2>2. E[b] = [ex |-> x, seq |-> k]
    BY <1>E, <2>x, <2>k DEF Snap
  <2>3. E[b] \in CloudEntry /\ E[b].ex = x /\ E[b].seq = k
    BY <2>1, <2>2 DEF CloudEntry
  <2> QED
    BY <2>3, <2>x, <2>k
<1>4. cloud' \in CloudSet /\ cloud'.meta = E /\ cloud'.obj = cloud.obj
  <2>1. E \in [Blocks -> CloudEntry] /\ cloud \in CloudSet
    BY <1>E, <1>3 DEF Types
  <2> QED
    BY ONLY <1>1, <2>1 DEF CloudSet
<1>5. /\ gh' \in GhSet /\ gh'.cur = gh.cur /\ gh'.ver = gh.ver /\ gh'.snap = gh.snap /\ gh'.cloud = gh.snap
      /\ gh'.known = gh.known /\ gh'.loose = gh.loose
  BY <1>1 DEF Types, GhSet
<1>6. Types'
  <2>1. UpOK'
    BY <1>2 DEF UpOK, Sending
  <2>2. /\ disk' \in DiskSet /\ meta' \in MetaSet /\ left' \in LeftSet
        /\ \A c \in Blocks : Cnt(c)' = Cnt(c)
    BY <1>1 DEF Types, Cnt
  <2> QED
    BY <1>1, <1>2, <1>4, <1>5, <2>1, <2>2, TypesByUpload
<1>7. ASSUME Clean' PROVE Core'
  <2>1. Core
    BY <1>5, <1>7 DEF Clean
  <2>2. Uploads
    BY <1>1, <1>5 DEF Uploads, EntryKept
  <2>3. NumbersI' /\ NumbersI
    BY <1>1, <1>2, <2>1 DEF Core, NumbersI
  <2>4. \A c \in Blocks : StatusI(c)'
    BY <1>1, <1>4, <2>1, <2>2, ApartStatus
  <2>5. ASSUME NEW b \in Blocks PROVE UpI(b)'
    <3>s. PICK s : s = up.snap[b]
      OBVIOUS
    <3>1. ShotI(b) /\ SeqI(b) /\ StoredI(b) /\ LaterI(b) /\ CloudI(b)
      BY <1>1, <2>1 DEF Core, UpI
    <3>2. /\ up'.snap[b] = s /\ ~Active' /\ Active /\ St(b)' = St(b) /\ Num(b)' = Num(b)
          /\ (Writing(b)' <=> Writing(b)) /\ b \notin up.todo
      BY <1>1, <1>2, <2>2, <3>s, WritingSame DEF Active, Sending, St, Num
    <3>3. ~SendsIn(b, {"both"})'
      BY <1>2 DEF SendsIn
    <3>4. s.fin
      BY <3>1, <3>2, <3>s DEF ShotI
    <3>5. /\ s.st \notin Gone => cloud.obj[b][s.seq] = gh.snap[b]
          /\ s.st \in Gone => gh.snap[b] = {}
      BY <3>1, <3>2, <3>4, <3>s DEF ShotI, StoredI
    <3>6. St(b) \in Dirty /\ ~Writing(b) => Num(b) > up.cur
      BY <3>1, <3>2 DEF LaterI
    <3>7. s.seq <= up.cur /\ s.seq \in Nat /\ up.cur \in Nat /\ meta.fin \in Nat /\ Num(b) \in Nat
      BY <3>1, <3>s, NumbersAre DEF ShotI
    <3>8. (meta.inc => meta.fin = up.cur) /\ (~meta.inc => meta.fin > up.cur)
      BY <1>1, <2>3 DEF NumbersI
    <3>9. /\ E[b].seq <= meta.fin /\ (~meta.inc => E[b].seq < meta.fin)
          /\ St(b) \in Dirty /\ ~Writing(b) /\ E[b].ex => E[b].seq # Num(b)
      <4>1. E[b].seq = s.seq \/ E[b].seq = 0
        BY <1>3, <3>s
      <4>2. E[b].seq \in Nat /\ E[b].seq <= up.cur
        BY <3>7, <4>1
      <4>3. CASE meta.inc
        BY <3>6, <3>7, <3>8, <4>2, <4>3
      <4>4. CASE ~meta.inc
        BY <3>6, <3>7, <3>8, <4>2, <4>4
      <4> QED
        BY <4>3, <4>4
    <3>10. ShotI(b)'
      BY <1>2, <1>5, <3>1, <3>2, <3>3, <3>4, <3>s DEF ShotI
    <3>11. SeqI(b)'
      BY <1>2, <1>5, <3>1, <3>2, <3>s DEF SeqI
    <3>12. CopyI(b)' /\ StoredI(b)'
      BY <3>2 DEF CopyI, StoredI
    <3>13. LaterI(b)'
      BY <1>2, <3>2, <3>6 DEF LaterI
    <3>14. CloudI(b)'
      <4>1. /\ cloud'.meta[b] = E[b] /\ (E[b].ex <=> s.st \notin Gone) /\ (E[b].ex => E[b].seq = s.seq)
            /\ meta'.fin = meta.fin /\ meta'.inc = meta.inc /\ cloud'.obj = cloud.obj /\ gh'.cloud = gh.snap
        BY <1>1, <1>3, <1>4, <1>5, <3>s
      <4> QED
        BY <1>2, <3>2, <3>5, <3>9, <4>1 DEF CloudI
    <3> QED
      BY <3>10, <3>11, <3>12, <3>13, <3>14 DEF UpI
  <2> QED
    BY <1>6, <2>1, <2>2, <2>3, <2>4, <2>5, ByUpload
<1> QED
  BY <1>6, <1>7

(* The metadata does not reach the cloud.                                  *)
LEMMA MetaSyncFailedStep ==
  ASSUME BlockInv, do_meta_sync(FALSE)
  PROVE  BlockInv'
<1> USE DEF BlockInv
<1>1. /\ up.pc = "check" /\ left.fail > 0 /\ cloud' = cloud /\ up' = Fail(up) /\ Spend("fail")
      /\ meta' = meta /\ gh' = gh /\ disk' = disk /\ th' = th /\ dl' = dl
  BY DEF do_meta_sync
<1>2. left' \in LeftSet /\ left'.mod = left.mod /\ left'.page = left.page
  BY <1>1, SpendIs DEF Types
<1>3. Active /\ disk' \in DiskSet
  BY <1>1 DEF Active, Types
<1> QED
  BY <1>1, <1>2, <1>3, FailStep

(* Objects of the version before the upload go once its metadata is there. *)
LEMMA DeleteBackendStep ==
  ASSUME BlockInv, NEW b \in Blocks, delete_backend_blocks(b)
  PROVE  BlockInv'
<1> USE DEF BlockInv
<1>s. PICK s : s = up.snap[b]
  OBVIOUS
<1>W. PICK W : W = up.todo \ {b}
  OBVIOUS
<1>x. PICK x \in BOOLEAN : x <=> s.back # 0 /\ s.toseq # s.back
  OBVIOUS
<1>1. /\ up.pc = "delete" /\ b \in up.todo /\ up' = Stepped(up, "delete", W)
      /\ cloud' = IF x THEN Stored(b, s.back, Absent) ELSE cloud
      /\ left' = left /\ meta' = meta /\ disk' = disk /\ th' = th /\ dl' = dl /\ gh' = gh
  <2>1. up' = Stepped(up, "delete", W)
    BY <1>W DEF delete_backend_blocks, Stepped, Types, UpSet
  <2> QED
    BY <1>s, <1>x, <2>1 DEF delete_backend_blocks, _choose_deleted_block, Snap, Stored
<1>2. /\ up' \in UpSet /\ up'.pc = "delete" /\ up'.cur = up.cur /\ up'.snap = up.snap /\ up'.todo = W
  <2>1. up \in UpSet /\ "delete" \in UpPCs /\ W \in SUBSET Blocks
    BY <1>W DEF Types, UpPCs, UpSet
  <2> QED
    BY <1>1, <2>1, SteppedIs
<1>3. /\ cloud' \in CloudSet /\ cloud'.meta = cloud.meta
      /\ \A k \in 0..MaxSeq : ~x \/ k # s.back => cloud'.obj[b][k] = cloud.obj[b][k]
      /\ \A c \in Blocks \ {b} : cloud'.obj[c] = cloud.obj[c]
  <2>1. cloud \in CloudSet /\ Absent \in Contents /\ s.back \in 0..MaxSeq
    BY <1>s DEF Types, Contents, UpSet, ShotSet
  <2>2. CASE x
    BY <1>1, <2>1, <2>2, StoredIs
  <2>3. CASE ~x
    BY <1>1, <2>1, <2>3
  <2> QED
    BY <2>2, <2>3
<1>4. Types'
  <2>1. UpOK'
    BY <1>2 DEF UpOK, Sending
  <2>2. /\ disk' \in DiskSet /\ meta' \in MetaSet /\ gh' \in GhSet /\ left' \in LeftSet
        /\ \A c \in Blocks : Cnt(c)' = Cnt(c)
    BY <1>1 DEF Types, Cnt
  <2> QED
    BY <1>1, <1>2, <1>3, <2>1, <2>2, TypesByUpload
<1>5. ASSUME Clean' PROVE Core'
  <2>1. Core
    BY <1>1, <1>5 DEF Clean
  <2>2. Uploads
    BY <1>1 DEF Uploads, EntryKept
  <2>3. \A c \in Blocks \ {b} : Apart(c)
    BY <1>1, <1>2, <1>3 DEF Apart
  <2>4. ShotI(b) /\ SeqI(b) /\ CopyI(b) /\ StoredI(b) /\ LaterI(b) /\ CloudI(b) /\ StatusI(b)
    BY <1>1, <2>1 DEF Core, UpI
  <2>5. /\ up'.snap[b] = s /\ up.snap[b] = s /\ ~Active /\ ~Active' /\ St(b)' = St(b) /\ Num(b)' = Num(b)
        /\ (Writing(b)' <=> Writing(b)) /\ Path(b)' = Path(b)
    BY <1>1, <1>2, <1>s, <2>2, WritingSame DEF Active, Sending, St, Num, Path
  <2>6. s.st \notin Gone => s.toseq = s.seq
    BY <1>1, <2>4, <2>5 DEF ShotI
  <2>7. ASSUME St(b) \in Remote \cup {"BOTH"} PROVE cloud'.obj[b][Num(b)] = cloud.obj[b][Num(b)]
    <3>1. ~Writing(b)
      BY <2>1, <2>7 DEF Core, ReqI, Writing, Remote
    <3>2. St(b) \notin Gone /\ St(b) # "LDISK"
      BY <2>7 DEF Remote, Gone
    <3>3. Num(b) = s.seq /\ s.st \notin Gone
      BY <2>4, <2>5, <3>1, <3>2 DEF SeqI
    <3>4. Num(b) \in 0..MaxSeq
      BY PathIs
    <3> QED
      BY <1>3, <1>x, <2>6, <3>3, <3>4
  <2>8. StatusI(b)'
    <3>1. gh' = gh /\ disk' = disk /\ meta' = meta
      BY <1>1
    <3> QED
      BY <2>4, <2>5, <2>7, <3>1 DEF StatusI, Data
  <2>9. UpI(b)'
    <3>1. ~SendsIn(b, {"both"})'
      BY <1>2 DEF SendsIn
    <3>2. ShotI(b)'
      BY <1>1, <1>2, <2>4, <2>5, <3>1 DEF ShotI
    <3>3. SeqI(b)' /\ LaterI(b)'
      BY <1>1, <1>2, <2>4, <2>5 DEF SeqI, LaterI
    <3>4. CopyI(b)' /\ StoredI(b)'
      BY <2>5 DEF CopyI, StoredI
    <3>5. CloudI(b)'
      <4>1. ASSUME cloud.meta[b].ex PROVE cloud'.obj[b][cloud.meta[b].seq] = cloud.obj[b][cloud.meta[b].seq]
        <5>1. s.st \notin Gone /\ cloud.meta[b].seq = s.seq
          BY <1>1, <2>4, <2>5, <4>1 DEF CloudI
        <5>2. cloud.meta[b].seq \in 0..MaxSeq
          BY DEF Types, CloudSet, CloudEntry
        <5> QED
          BY <1>3, <1>x, <2>6, <5>1, <5>2
      <4> QED
        BY <1>1, <1>2, <1>3, <2>4, <2>5, <4>1 DEF CloudI
    <3> QED
      BY <3>2, <3>3, <3>4, <3>5 DEF UpI
  <2>10. /\ up.pc # "idle" /\ up'.pc # "idle" /\ up'.pc = up.pc /\ up.pc \notin Sending /\ up'.pc \notin Sending
         /\ up'.cur = up.cur /\ \A c \in Blocks \ {b} : c \in up'.todo <=> c \in up.todo
    BY <1>1, <1>2, <1>W DEF Sending
  <2> QED
    BY <1>1, <1>4, <2>1, <2>2, <2>3, <2>8, <2>9, <2>10, UploadsOne
<1> QED
  BY <1>4, <1>5

(* After a failure a block the upload stored is taken back.                *)
LEMMA RevertStep ==
  ASSUME BlockInv, NEW b \in Blocks, _revert_block_status(b)
  PROVE  BlockInv'
<1> USE DEF BlockInv
<1>s. PICK s : s = up.snap[b]
  OBVIOUS
<1>W. PICK W : W = up.todo \ {b}
  OBVIOUS
<1>x. PICK x \in BOOLEAN : x <=> s.fin /\ s.ex /\ s.toseq # s.back
  OBVIOUS
<1>1. /\ up.pc = "revert" /\ b \in up.todo /\ MetaFree /\ up' = Stepped(up, "revert", W)
      /\ meta' = IF x /\ St(b) \in {"BOTH", "LtoC"} THEN SetSt(meta, b, "LDISK") ELSE meta
      /\ cloud' = IF x /\ St(b) \notin Remote THEN Stored(b, s.toseq, Absent) ELSE cloud
      /\ left' = left /\ disk' = disk /\ th' = th /\ dl' = dl /\ gh' = gh
  <2>1. up' = Stepped(up, "revert", W)
    BY <1>W DEF _revert_block_status, Stepped, Types, UpSet
  <2> QED
    BY <1>s, <1>x, <2>1 DEF _revert_block_status, _choose_deleted_block, Snap, Stored, St
<1>2. /\ up' \in UpSet /\ up'.pc = "revert" /\ up'.cur = up.cur /\ up'.snap = up.snap /\ up'.todo = W
  <2>1. up \in UpSet /\ "revert" \in UpPCs /\ W \in SUBSET Blocks
    BY <1>W DEF Types, UpPCs, UpSet
  <2> QED
    BY <1>1, <2>1, SteppedIs
<1>3. /\ cloud' \in CloudSet /\ cloud'.meta = cloud.meta
      /\ \A k \in 0..MaxSeq : ~(x /\ St(b) \notin Remote) \/ k # s.toseq => cloud'.obj[b][k] = cloud.obj[b][k]
      /\ \A c \in Blocks \ {b} : cloud'.obj[c] = cloud.obj[c]
  <2>1. cloud \in CloudSet /\ Absent \in Contents /\ s.toseq \in 0..MaxSeq
    BY <1>s DEF Types, Contents, UpSet, ShotSet
  <2>2. CASE x /\ St(b) \notin Remote
    BY <1>1, <2>1, <2>2, StoredIs
  <2>3. CASE ~(x /\ St(b) \notin Remote)
    BY <1>1, <2>1, <2>3
  <2> QED
    BY <2>2, <2>3
<1>4. /\ meta' \in MetaSet /\ meta'.fin = meta.fin /\ meta'.inc = meta.inc /\ meta'.lock = meta.lock
      /\ \A c \in Blocks \ {b} : meta'.blk[c] = meta.blk[c]
      /\ Num(b)' = Num(b) /\ Cnt(b)' = Cnt(b)
      /\ x /\ St(b) \in {"BOTH", "LtoC"} => St(b)' = "LDISK"
      /\ ~(x /\ St(b) \in {"BOTH", "LtoC"}) => meta'.blk[b] = meta.blk[b] /\ St(b)' = St(b)
  <2>1. "LDISK" \in Statuses
    BY DEF Statuses, Local
  <2>2. /\ meta' \in MetaSet /\ meta'.fin = meta.fin /\ meta'.inc = meta.inc
        /\ meta'.lock = meta.lock /\ Num(b)' = Num(b) /\ Cnt(b)' = Cnt(b)
        /\ \A c \in Blocks \ {b} : meta'.blk[c] = meta.blk[c]
        /\ x /\ St(b) \in {"BOTH", "LtoC"} => St(b)' = "LDISK"
        /\ ~(x /\ St(b) \in {"BOTH", "LtoC"}) => meta' = meta
    BY <1>1, <2>1, MaySetSt
  <2> QED
    BY <2>2 DEF St
<1>5. Types'
  <2>1. UpOK'
    BY <1>2 DEF UpOK, Sending
  <2>2. /\ disk' \in DiskSet /\ gh' \in GhSet /\ left' \in LeftSet
        /\ \A c \in Blocks : Cnt(c)' = Cnt(c)
    BY <1>1, <1>4 DEF Types, Cnt
  <2> QED
    BY <1>1, <1>2, <1>3, <1>4, <2>1, <2>2, TypesByUpload
<1>6. ASSUME Clean' PROVE Core'
  <2>1. Core
    BY <1>1, <1>6 DEF Clean
  <2>2. Uploads
    <3>1. EntryKept(b)
      BY <1>1, <1>4 DEF EntryKept, Remote, Local
    <3>2. \A c \in Blocks : EntryKept(c)
      BY <1>4, <3>1 DEF EntryKept
    <3> QED
      BY <1>1, <1>4, <3>2 DEF Uploads
  <2>3. \A c \in Blocks \ {b} : Apart(c)
    BY <1>1, <1>2, <1>3, <1>4 DEF Apart
  <2>4. ShotI(b) /\ SeqI(b) /\ CloudI(b) /\ StatusI(b)
    BY <1>1, <2>1 DEF Core, UpI
  <2>5. /\ up'.snap[b] = s /\ up.snap[b] = s /\ ~Active /\ ~Active'
        /\ ~Writing(b)' /\ ~Writing(b) /\ Path(b)' = Path(b)
    BY <1>1, <1>2, <1>s, <2>1, <2>2, NobodyWrites, WritingSame DEF Active, Sending, Path
  <2>6. x => s.st \notin Gone /\ s.toseq = s.seq /\ s.toseq # s.back
    BY <1>x, <2>4, <2>5 DEF ShotI
  <2>7. St(b)' \in Local <=> St(b) \in Local
    BY <1>4 DEF Local
  <2>8. St(b)' \in Remote <=> St(b) \in Remote
    BY <1>4 DEF Remote
  <2>9. St(b)' \in Gone <=> St(b) \in Gone
    BY <1>4 DEF Gone
  <2>10. St(b)' \in Remote \cup {"BOTH"} => St(b)' = St(b) /\ cloud'.obj[b][Num(b)] = cloud.obj[b][Num(b)]
    <3>1. Num(b) \in 0..MaxSeq
      BY PathIs
    <3>2. CASE x
      BY <1>3, <1>4, <3>1, <3>2 DEF Remote
    <3>3. CASE ~x
      BY <1>3, <1>4, <3>1, <3>3
    <3> QED
      BY <3>2, <3>3
  <2>11. StatusI(b)'
    <3>1. gh' = gh /\ disk' = disk /\ meta'.fin = meta.fin /\ Num(b)' = Num(b)
      BY <1>1, <1>4
    <3>2. St(b)' \in Gone \cup {"CLOUD"} => St(b) \in Gone \cup {"CLOUD"}
      BY <1>4, <2>9
    <3> QED
      BY <2>4, <2>5, <2>7, <2>9, <2>10, <3>1, <3>2 DEF StatusI, Data
  <2>12. UpI(b)'
    <3>1. ~SendsIn(b, {"both"})'
      BY <1>2 DEF SendsIn
    <3>2. ShotI(b)'
      BY <1>1, <1>2, <2>4, <2>5, <3>1 DEF ShotI
    <3>3. SeqI(b)'
      BY <1>1, <1>2, <1>4, <2>4, <2>5, <2>9 DEF SeqI
    <3>4. CopyI(b)' /\ StoredI(b)' /\ LaterI(b)'
      BY <1>2, <2>5 DEF CopyI, StoredI, LaterI
    <3>5. CloudI(b)'
      <4>1. cloud.meta[b].ex => s.back = cloud.meta[b].seq
        BY <1>1, <2>4, <2>5 DEF CloudI
      <4>2. ASSUME cloud.meta[b].ex PROVE cloud'.obj[b][cloud.meta[b].seq] = cloud.obj[b][cloud.meta[b].seq]
        <5>1. cloud.meta[b].seq \in 0..MaxSeq
          BY DEF Types, CloudSet, CloudEntry
        <5> QED
          BY <1>3, <2>6, <4>1, <4>2, <5>1
      <4>3. ASSUME St(b)' \in Dirty, cloud.meta[b].ex PROVE cloud.meta[b].seq # Num(b)
        <5>1. CASE St(b) \in Dirty
          BY <2>4, <2>5, <4>3, <5>1 DEF CloudI
        <5>2. CASE St(b) \notin Dirty
          <6>1. x /\ St(b) = "BOTH"
            BY <1>4, <4>3, <5>2 DEF Dirty
          <6>2. Num(b) = s.seq
            BY <2>4, <2>5, <6>1 DEF SeqI, Gone
          <6> QED
            BY <2>6, <4>1, <4>3, <6>1, <6>2
        <5> QED
          BY <5>1, <5>2
      <4> QED
        <5>1. /\ cloud'.meta[b] = cloud.meta[b] /\ gh'.cloud[b] = gh.cloud[b] /\ meta'.fin = meta.fin
              /\ meta'.inc = meta.inc /\ Num(b)' = Num(b) /\ up'.pc = "revert" /\ up.pc = "revert"
          BY <1>1, <1>2, <1>3, <1>4
        <5> QED
          BY ONLY <2>4, <2>5, <4>2, <4>3, <5>1 DEF CloudI
    <3> QED
      BY <3>2, <3>3, <3>4, <3>5 DEF UpI
  <2>13. /\ up.pc # "idle" /\ up'.pc # "idle" /\ up'.pc = up.pc /\ up.pc \notin Sending /\ up'.pc \notin Sending
         /\ up'.cur = up.cur /\ \A c \in Blocks \ {b} : c \in up'.todo <=> c \in up.todo
    BY <1>1, <1>2, <1>W DEF Sending
  <2> QED
    BY <1>4, <1>5, <2>1, <2>2, <2>3, <2>11, <2>12, <2>13, UploadsOne
<1> QED
  BY <1>5, <1>6

(* IdleUp is an upload that does nothing.                                  *)
LEMMA IdleUpIs ==
  /\ IdleUp \in UpSet /\ IdleUp.pc = "idle"
<1>1. 0 \in 0..MaxSeq /\ "NONE" \in Statuses /\ "idle" \in UpPCs
  BY ConstantFacts DEF Statuses, Gone, UpPCs
<1>2. NoSnap \in ShotSet
  BY <1>1 DEF NoSnap, ShotSet
<1>S. PICK S : S = [b \in Blocks |-> NoSnap]
  OBVIOUS
<1>3. S \in [Blocks -> ShotSet]
  BY <1>2, <1>S
<1>4. IdleUp = [pc |-> "idle", cur |-> 0, todo |-> {}, b |-> 0, err |-> FALSE, snap |-> S]
  BY <1>S DEF IdleUp
<1> QED
  BY <1>1, <1>3, <1>4 DEF UpSet

(* The upload ends.                                                        *)
LEMMA UploadEndStep ==
  ASSUME BlockInv, _del_toupload_blocks
  PROVE  BlockInv'
<1> USE DEF BlockInv
<1>W. PICK W : W = [b \in Blocks |-> Absent]
  OBVIOUS
<1>1. /\ up.pc \in {"delete", "revert"} /\ disk' = [disk EXCEPT !.to = W] /\ up' = IdleUp
      /\ meta' = meta /\ cloud' = cloud /\ th' = th /\ dl' = dl /\ gh' = gh /\ left' = left
  BY <1>W DEF _del_toupload_blocks
<1>2. /\ disk' \in DiskSet /\ disk'.path = disk.path /\ disk'.flock = disk.flock /\ disk'.data = disk.data
      /\ disk'.cache = disk.cache /\ \A c \in Blocks : disk'.to[c] = Absent
  <2>1. disk \in DiskSet /\ W \in [Blocks -> Contents] /\ \A c \in Blocks : W[c] = Absent
    BY <1>W DEF Types, Contents
  <2>2. /\ disk' \in DiskSet /\ disk'.path = disk.path /\ disk'.flock = disk.flock /\ disk'.data = disk.data
        /\ disk'.cache = disk.cache /\ disk'.to = W
    BY ONLY <1>1, <2>1 DEF DiskSet
  <2> QED
    BY <2>1, <2>2
<1>3. up' \in UpSet /\ up'.pc = "idle"
  BY <1>1, IdleUpIs
<1>4. Types'
  <2>1. UpOK'
    BY <1>3 DEF UpOK, Sending
  <2>2. /\ meta' \in MetaSet /\ gh' \in GhSet /\ cloud' \in CloudSet /\ left' \in LeftSet
        /\ \A c \in Blocks : Cnt(c)' = Cnt(c)
    BY <1>1 DEF Types, Cnt
  <2> QED
    BY <1>1, <1>2, <1>3, <2>1, <2>2, TypesByUpload
<1>5. ASSUME Clean' PROVE Core'
  <2>1. Core
    BY <1>1, <1>5 DEF Clean
  <2>2. Uploads
    BY <1>1, <1>2 DEF Uploads, EntryKept
  <2>3. NumbersI'
    BY <1>3 DEF NumbersI
  <2>4. \A c \in Blocks : StatusI(c)'
    BY <1>1, <2>1, <2>2, ApartStatus
  <2>5. ASSUME NEW c \in Blocks PROVE UpI(c)'
    <3>1. CloudI(c)
      BY <2>1 DEF Core, UpI
    <3>2. ~Active' /\ St(c)' = St(c) /\ Num(c)' = Num(c) /\ (Writing(c)' <=> Writing(c))
      BY <1>1, <1>3, <2>2, WritingSame DEF Active, Sending, St, Num
    <3>3. CopyI(c)' /\ StoredI(c)' /\ LaterI(c)'
      BY <1>3, <3>2 DEF CopyI, StoredI, LaterI
    <3>4. CloudI(c)'
      BY <1>1, <1>2, <1>3, <3>1, <3>2 DEF CloudI
    <3> QED
      BY <1>3, <3>3, <3>4 DEF UpI
  <2> QED
    BY <1>4, <2>1, <2>2, <2>3, <2>4, <2>5, ByUpload
<1> QED
  BY <1>4, <1>5

(* Nothing changes.                                                        *)
LEMMA StutterStep ==
  ASSUME BlockInv, UNCHANGED vars
  PROVE  BlockInv'
<1> USE DEF BlockInv
<1>1. /\ meta' = meta /\ disk' = disk /\ cloud' = cloud /\ th' = th /\ dl' = dl /\ up' = up
      /\ gh' = gh /\ left' = left
  BY DEF vars
<1>2. Types'
  <2>1. UpOK'
    BY <1>1 DEF Types, UpOK
  <2>2. /\ meta' \in MetaSet /\ gh' \in GhSet /\ cloud' \in CloudSet /\ left' \in LeftSet /\ disk' \in DiskSet
        /\ up' \in UpSet /\ \A c \in Blocks : Cnt(c)' = Cnt(c)
    BY <1>1 DEF Types, Cnt
  <2> QED
    BY <1>1, <2>1, <2>2, TypesByUpload
<1>3. ASSUME Clean' PROVE Core'
  <2>1. Core
    BY <1>1, <1>3 DEF Clean
  <2>2. Uploads
    BY <1>1 DEF Uploads, EntryKept
  <2>3. NumbersI'
    BY <1>1, <2>1 DEF Core, NumbersI
  <2>4. \A c \in Blocks : StatusI(c)'
    BY <1>1, <2>1, <2>2, ApartStatus
  <2>5. ASSUME NEW c \in Blocks PROVE UpI(c)'
    <3>1. UpI(c)
      BY <2>1 DEF Core
    <3>2. (Active' <=> Active) /\ St(c)' = St(c) /\ Num(c)' = Num(c) /\ (Writing(c)' <=> Writing(c))
      BY <1>1, <2>2, WritingSame DEF Active, St, Num
    <3>3. \A pcs : SendsIn(c, pcs)' <=> SendsIn(c, pcs)
      BY <1>1 DEF SendsIn
    <3>4. (up.pc # "idle" => ShotI(c)' /\ SeqI(c)') /\ up'.pc = up.pc
      BY <1>1, <3>1, <3>2, <3>3 DEF UpI, ShotI, SeqI
    <3>5. CopyI(c)' /\ StoredI(c)' /\ LaterI(c)'
      BY <1>1, <3>1, <3>2, <3>3 DEF UpI, CopyI, StoredI, LaterI
    <3>6. CloudI(c)'
      BY <1>1, <3>1, <3>2 DEF UpI, CloudI
    <3> QED
      BY <3>4, <3>5, <3>6 DEF UpI
  <2> QED
    BY <1>2, <2>1, <2>2, <2>3, <2>4, <2>5, ByUpload
<1> QED
  BY <1>2, <1>3

-----------------------------------------------------------------------------
(***************************************************************************)
(* The invariant.                                                          *)
(***************************************************************************)
(* The first states have the types.                                        *)
LEMMA InitTypes ==
  ASSUME Init
  PROVE  Types
<1>1. /\ MaxMod \in Nat /\ MaxPage \in Nat /\ MaxSeq = 1 + MaxMod /\ MaxRead \in Nat /\ MaxLoad \in Nat
      /\ MaxUpload \in Nat /\ MaxFail \in Nat /\ MaxSleep \in Nat /\ MaxPin \in Nat
  BY ConstantFacts
<1>2. 0 \in 0..MaxSeq /\ 1 \in 0..MaxSeq /\ 0 \in 0..MaxPage /\ 0 \in 0..MaxMod /\ MaxMod \in 0..MaxMod
      /\ MaxPage \in 0..MaxPage
  BY <1>1
<1>3. PICK new \in BOOLEAN :
    /\ meta = [blk |-> [b \in Blocks |-> IF new THEN NoEntry
                 ELSE [st |-> "CLOUD", seq |-> 1, up |-> TRUE, cnt |-> 0]],
               fin |-> IF new THEN 0 ELSE 1, inc |-> TRUE, pin |-> FALSE, lock |-> 1]
    /\ cloud = [obj |-> [b \in Blocks |-> [s \in 0..MaxSeq |->
                           IF ~new /\ s = 1 THEN {0} ELSE Absent]],
                meta |-> [b \in Blocks |-> [ex |-> ~new, seq |-> IF new THEN 0 ELSE 1]]]
    /\ gh = LET c == [b \in Blocks |-> IF new THEN {} ELSE {0}]
            IN [cur |-> c, snap |-> c, cloud |-> c, ver |-> [b \in Blocks |-> 0],
                known |-> {}, loose |-> {}]
  BY DEF Init
<1>4. /\ disk = [path |-> [b \in Blocks |-> 0], data |-> [f \in Files |-> {}],
               flock |-> [f \in Files |-> NoOne], to |-> [b \in Blocks |-> Absent],
               cache |-> 0]
      /\ th = [h \in Handles |-> [t |-> IdleTh, h |-> NoHandle]]
      /\ dl = [l \in Loaders |-> IdleDl]
      /\ up = IdleUp
      /\ left = [mod |-> MaxMod, read |-> MaxRead, load |-> MaxLoad, page |-> MaxPage,
               upload |-> MaxUpload, fail |-> MaxFail, sleep |-> MaxSleep, pin |-> MaxPin]
  BY DEF Init
<1>5. meta \in MetaSet /\ (\A b \in Blocks : Cnt(b) = 0) /\ meta.fin <= 1
  <2>e. PICK e : e = IF new THEN NoEntry ELSE [st |-> "CLOUD", seq |-> 1, up |-> TRUE, cnt |-> 0]
    OBVIOUS
  <2>k. PICK k : k = IF new THEN 0 ELSE 1
    OBVIOUS
  <2>1. e \in Entry /\ e.cnt = 0 /\ k \in 0..MaxSeq /\ k <= 1
    BY <1>2, <2>e, <2>k DEF NoEntry, Entry, Gone, Remote
  <2>B. PICK B : B = [b \in Blocks |-> e]
    OBVIOUS
  <2>2. B \in [Blocks -> Entry] /\ \A b \in Blocks : B[b].cnt = 0
    BY <2>1, <2>B
  <2>3. meta = [blk |-> B, fin |-> k, inc |-> TRUE, pin |-> FALSE, lock |-> 1]
    BY <1>3, <2>e, <2>k, <2>B
  <2>4. meta \in MetaSet /\ meta.blk = B /\ meta.fin = k
    BY ONLY <2>1, <2>2, <2>3 DEF MetaSet
  <2> QED
    BY <2>1, <2>2, <2>4 DEF Cnt
<1>6. cloud \in CloudSet
  <2>O. PICK O : O = [b \in Blocks |-> [s \in 0..MaxSeq |-> IF ~new /\ s = 1 THEN {0} ELSE Absent]]
    OBVIOUS
  <2>1. O \in [Blocks -> [0..MaxSeq -> Contents]]
    <3>1. {0} \in Contents /\ Absent \in Contents
      BY <1>2 DEF Contents
    <3> QED
      BY <2>O, <3>1
  <2>k. PICK k : k = IF new THEN 0 ELSE 1
    OBVIOUS
  <2>x. PICK x \in BOOLEAN : x = ~new
    OBVIOUS
  <2>E. PICK E : E = [b \in Blocks |-> [ex |-> x, seq |-> k]]
    OBVIOUS
  <2>2. E \in [Blocks -> CloudEntry]
    BY <1>2, <2>k, <2>E DEF CloudEntry
  <2>3. cloud = [obj |-> O, meta |-> E]
    BY <1>3, <2>O, <2>k, <2>x, <2>E
  <2> QED
    BY <2>1, <2>2, <2>3 DEF CloudSet
<1>7. gh \in GhSet
  <2>c. PICK c : c = [b \in Blocks |-> IF new THEN {} ELSE {0}]
    OBVIOUS
  <2>1. c \in [Blocks -> Marks]
    BY <1>2, <2>c DEF Marks
  <2>2. gh = [cur |-> c, snap |-> c, cloud |-> c, ver |-> [b \in Blocks |-> 0], known |-> {}, loose |-> {}]
    BY <1>3, <2>c
  <2> QED
    BY <2>1, <2>2 DEF GhSet
<1>8. disk \in DiskSet
  <2>1. Absent \in Contents /\ {} \in Marks
    BY DEF Contents, Marks
  <2> QED
    BY <1>4, <2>1 DEF DiskSet
<1>9. /\ ThTypes /\ \A h \in Handles : ReqOK(T(h), X(h)) /\ T(h).now = 0
  <2>1. IdleTh \in ReqSet /\ IdleTh.now = 0 /\ IdleTh.pc = "idle" /\ IdleTh.f = 0 /\ IdleTh.res = {}
    <3>1. {} \in Marks /\ "idle" \in ReqPCs
      BY DEF Marks, ReqPCs
    <3> QED
      BY <1>2, <3>1 DEF IdleTh, ReqSet
  <2>2. NoHandle \in CachedSet /\ NoHandle.open = -1 /\ NoHandle.file = 0
    BY <1>2 DEF NoHandle, CachedSet
  <2>3. ThTypes /\ \A h \in Handles : T(h) = IdleTh /\ X(h) = NoHandle
    BY <1>4, <2>1, <2>2 DEF ThTypes, T, X
  <2>4. -1 \notin Blocks
    BY ConstantFacts
  <2>5. ReqOK(IdleTh, NoHandle)
    BY <2>1, <2>2, <2>4 DEF ReqOK, RFile, WFile
  <2> QED
    BY <2>1, <2>3, <2>5
<1>10. DlTypes /\ \A l \in Loaders : JobOK(dl[l])
  <2>1. IdleDl \in JobSet /\ IdleDl.pc = "idle" /\ IdleDl.f = 0
    BY <1>2 DEF IdleDl, JobSet, JobPCs
  <2>2. dl \in [Loaders -> JobSet] /\ \A l \in Loaders : dl[l] = IdleDl
    BY <1>4, <2>1
  <2> QED
    BY <2>1, <2>2 DEF DlTypes, JobOK
<1>11. up \in UpSet /\ UpOK
  BY <1>4, IdleUpIs DEF UpOK, Sending
<1>12. left \in LeftSet /\ left.mod = MaxMod /\ left.page = MaxPage
  BY <1>1, <1>2, <1>4 DEF LeftSet
<1>13. Counters
  <2>1. meta.fin \in Nat
    BY <1>5 DEF MetaSet
  <2> QED
    BY <1>1, <1>5, <1>9, <1>12, <2>1 DEF Counters
<1> QED
  BY <1>5, <1>6, <1>7, <1>8, <1>9, <1>10, <1>11, <1>12, <1>13 DEF Types

(* The first states satisfy the invariant.                                 *)
LEMMA InitCore ==
  ASSUME Init
  PROVE  Core
<1>1. Types
  BY InitTypes
<1>2. PICK new \in BOOLEAN :
    /\ meta = [blk |-> [b \in Blocks |-> IF new THEN NoEntry
                 ELSE [st |-> "CLOUD", seq |-> 1, up |-> TRUE, cnt |-> 0]],
               fin |-> IF new THEN 0 ELSE 1, inc |-> TRUE, pin |-> FALSE, lock |-> 1]
    /\ cloud = [obj |-> [b \in Blocks |-> [s \in 0..MaxSeq |->
                           IF ~new /\ s = 1 THEN {0} ELSE Absent]],
                meta |-> [b \in Blocks |-> [ex |-> ~new, seq |-> IF new THEN 0 ELSE 1]]]
    /\ gh = LET c == [b \in Blocks |-> IF new THEN {} ELSE {0}]
            IN [cur |-> c, snap |-> c, cloud |-> c, ver |-> [b \in Blocks |-> 0],
                known |-> {}, loose |-> {}]
  BY DEF Init
<1>3. /\ disk = [path |-> [b \in Blocks |-> 0], data |-> [f \in Files |-> {}],
               flock |-> [f \in Files |-> NoOne], to |-> [b \in Blocks |-> Absent],
               cache |-> 0]
      /\ th = [h \in Handles |-> [t |-> IdleTh, h |-> NoHandle]]
      /\ dl = [l \in Loaders |-> IdleDl]
      /\ up = IdleUp
  BY DEF Init
<1>4. /\ \A h \in Handles : T(h).pc = "idle" /\ X(h).open = -1
      /\ \A l \in Loaders : dl[l].pc = "idle"
      /\ up.pc = "idle"
  BY <1>3 DEF T, X, IdleTh, NoHandle, IdleDl, IdleUp
<1>5. /\ \A b \in Blocks : Path(b) = 0 /\ disk.to[b] = Absent
      /\ disk.cache = 0
  BY <1>3 DEF Path
<1>6. ASSUME NEW b \in Blocks
      PROVE  /\ new => St(b) = "NONE" /\ Num(b) = 0 /\ gh.cur[b] = {} /\ ~cloud.meta[b].ex
                       /\ cloud.meta[b].seq = 0 /\ gh.cloud[b] = {} /\ meta.fin = 0
             /\ ~new => /\ St(b) = "CLOUD" /\ Num(b) = 1 /\ gh.cur[b] = {0} /\ cloud.meta[b].ex
                        /\ cloud.meta[b].seq = 1 /\ gh.cloud[b] = {0} /\ meta.fin = 1
                        /\ cloud.obj[b][Num(b)] = {0} /\ cloud.obj[b][cloud.meta[b].seq] = {0}
             /\ meta.inc
  <2>1. 1 \in 0..MaxSeq
    BY ConstantFacts
  <2>2. CASE new
    BY <1>2, <2>2 DEF St, Num, NoEntry
  <2>3. CASE ~new
    <3>1. /\ St(b) = "CLOUD" /\ Num(b) = 1 /\ gh.cur[b] = {0} /\ cloud.meta[b].ex
          /\ cloud.meta[b].seq = 1 /\ gh.cloud[b] = {0} /\ meta.fin = 1
      BY <1>2, <2>3 DEF St, Num
    <3>2. \A s \in 0..MaxSeq : s = 1 => cloud.obj[b][s] = {0}
      BY <1>2, <2>3
    <3>3. cloud.meta[b].seq \in 0..MaxSeq /\ Num(b) \in 0..MaxSeq
      BY <2>1, <3>1
    <3>4. cloud.obj[b][Num(b)] = {0} /\ cloud.obj[b][cloud.meta[b].seq] = {0}
      BY ONLY <3>1, <3>2, <3>3
    <3>5. meta.inc
      BY <1>2
    <3> QED
      BY <2>3, <3>1, <3>4, <3>5
  <2> QED
    BY <2>2, <2>3
<1>7. LockI /\ PathsI /\ NoReader /\ NumbersI
  <2>1. -1 \notin Blocks
    BY ConstantFacts
  <2> QED
    BY <1>4, <1>5, <2>1 DEF LockI, PathsI, NoReader, NumbersI, Inside
<1>8. CountI
  <2>1. LocalBlocks = {} /\ Ahead = {}
    BY <1>4, <1>6 DEF LocalBlocks, Ahead, Local
  <2> QED
    BY <1>5, <2>1, FS_EmptySet DEF CountI
<1>9. ASSUME NEW b \in Blocks PROVE StatusI(b) /\ UpI(b)
  <2>1. ~Writing(b) /\ ~Active
    BY <1>4 DEF Writing, Active, Sending
  <2>c. /\ new => St(b) = "NONE" /\ Num(b) = 0 /\ gh.cur[b] = {} /\ ~cloud.meta[b].ex
                  /\ cloud.meta[b].seq = 0 /\ gh.cloud[b] = {} /\ meta.fin = 0
        /\ ~new => /\ St(b) = "CLOUD" /\ Num(b) = 1 /\ gh.cur[b] = {0} /\ cloud.meta[b].ex
                   /\ cloud.meta[b].seq = 1 /\ gh.cloud[b] = {0} /\ meta.fin = 1
                   /\ cloud.obj[b][Num(b)] = {0} /\ cloud.obj[b][cloud.meta[b].seq] = {0}
        /\ meta.inc
    BY <1>6
  <2>2. StatusI(b)
    <3>1. CASE new
      BY <1>5, <1>6, <3>1 DEF StatusI, Local, Remote, Gone
    <3>2. CASE ~new
      <4>n. {0} # {} /\ Num(b) <= meta.fin
        BY <2>c, <3>2
      <4>1. /\ St(b) = "CLOUD" /\ cloud.obj[b][Num(b)] = gh.cur[b] /\ gh.cur[b] # {} /\ Num(b) <= meta.fin
            /\ Path(b) = 0
        BY ONLY <1>5, <2>c, <3>2, <4>n, b \in Blocks
      <4> QED
        BY ONLY <4>1 DEF StatusI, Local, Remote, Gone
    <3> QED
      BY <3>1, <3>2
  <2>3. CopyI(b) /\ StoredI(b) /\ LaterI(b)
    BY <1>4, <2>1 DEF CopyI, StoredI, LaterI
  <2>4. CloudI(b)
    <3>1. CASE new
      BY <1>4, <1>5, <1>6, <2>1, <3>1 DEF CloudI, Dirty
    <3>2. CASE ~new
      <4>n. cloud.meta[b].seq <= meta.fin
        BY <2>c, <3>2
      <4>1. /\ cloud.meta[b].ex /\ cloud.obj[b][cloud.meta[b].seq] = gh.cloud[b] /\ cloud.meta[b].seq <= meta.fin
            /\ meta.inc /\ St(b) \notin Dirty /\ disk.to[b] = Absent
        BY ONLY <1>5, <2>c, <3>2, <4>n, b \in Blocks DEF Dirty
      <4> QED
        BY <1>4, <2>1, <4>1 DEF CloudI
    <3> QED
      BY <3>1, <3>2
  <2> QED
    BY <1>4, <2>2, <2>3, <2>4 DEF UpI
<1>10. \A h \in Handles : ReqI(h) /\ CachedI(h) /\ ReadI(h)
  <2>1. -1 \notin Blocks
    BY ConstantFacts
  <2> QED
    BY <1>4, <2>1 DEF ReqI, CachedI, ReadI, RFile, WFile
<1>11. \A l \in Loaders : JobI(l)
  BY <1>4 DEF JobI
<1> QED
  BY <1>7, <1>8, <1>9, <1>10, <1>11 DEF Core

(* Every step of a handle keeps the invariant.                             *)
LEMMA HandleStep ==
  ASSUME BlockInv, CopyWait, NEW h \in Handles, Request(h) \/ Read(h) \/ Modifying(h)
  PROVE  BlockInv'
<1>1. CASE Request(h)
  <2>1. PICK b \in Blocks : \/ hfuse_ll_read(h, b) \/ Begin(h, b, "w") \/ Begin(h, b, "cut")
                            \/ Begin(h, b, "del")
    BY <1>1 DEF Request, hfuse_ll_write, hfuse_ll_truncate
  <2>2. \A op \in {"w", "cut", "del"} : Begin(h, b, op) => BlockInv'
    BY BeginStep
  <2> QED
    BY <2>1, <2>2, ReadStep
<1>2. CASE Read(h)
  <2>1. \A ok \in BOOLEAN : ReadFetchGet(h, ok) => BlockInv'
    BY ReadGetStep
  <2> QED
    BY <1>2, <2>1, ReadOpenStep, LookupStep, ReadFetchOpenStep, ReadFetchLockStep, ReadMarkStep,
       ReadDoneStep, ReadFailStep, ReadBlockStep, RepliedStep DEF Read
<1>3. CASE Modifying(h)
  BY <1>3, WaitStep, WakeStep, WakeFailedStep, CopyWaitStep, CopyAgainStep, CopyGivenUpStep,
     WriteBlockStep, WriteStep, TruncateStep, CutAfterWaitStep, DeleteBlockStep,
     WriteFetchLockStep, WriteFetchGetStep, WriteFetchFailStep, WriteFetchEndStep DEF Modifying
<1> QED
  BY <1>1, <1>2, <1>3

(* The numbers only grow, and an upload starts from the last one: what a   *)
(* request waits for does not change under it.                             *)
LEMMA WaitsKept ==
  ASSUME Types, Types', CopyWait, meta'.fin >= meta.fin,
         (up'.pc # "idle" /\ up.pc # "idle") => up'.cur = up.cur,
         (up'.pc # "idle" /\ up.pc = "idle") => up'.cur = meta.fin,
         \A h \in Handles : T(h)'.pc = "copy" =>
           \/ T(h).pc = "copy" /\ T(h)'.seq = T(h).seq
           \/ T(h)'.seq <= up.cur /\ up.pc # "idle"
  PROVE  CopyWait'
<1>1. meta.fin \in Int /\ meta'.fin \in Int /\ up.cur \in Int /\ up'.cur \in Int
  BY ConstantFacts DEF Types, MetaSet, UpSet
<1>2. up'.pc # "idle" => up'.cur <= meta'.fin
  BY <1>1 DEF CopyWait
<1>3. ASSUME NEW h \in Handles PROVE Waits(h)'
  <2>1. th[h].t \in ReqSet /\ th'[h].t \in ReqSet
    BY DEF Types, ThTypes
  <2>3. T(h)'.seq \in 0..MaxSeq /\ T(h).seq \in 0..MaxSeq
    BY <2>1 DEF ReqSet, T
  <2>s. T(h)'.seq \in Int /\ T(h).seq \in Int
    BY <2>3
  <2>2. /\ T(h)'.pc = "copy" => \/ T(h).pc = "copy" /\ T(h)'.seq = T(h).seq
                                \/ T(h)'.seq <= up.cur /\ up.pc # "idle"
        /\ Waits(h) /\ (up.pc # "idle" => up.cur <= meta.fin)
    BY DEF CopyWait
  <2> QED
    BY <1>1, <2>s, <2>2 DEF Waits
<1> QED
  BY <1>2, <1>3 DEF CopyWait

(* The metadata M has the number of the file.                              *)
SameFin(M) == M \in MetaSet /\ M.fin = meta.fin
LEMMA SameFinIs ==
  ASSUME Types
  PROVE  /\ SameFin(meta)
         /\ \A M : SameFin(M) => SameFin(Lock(M)) /\ SameFin(Unlock(M))
         /\ \A M : \A b \in Blocks, s \in Statuses : SameFin(M) => SameFin(SetSt(M, b, s))
         /\ \A M : \A b \in Blocks, n \in 0..MaxSeq : SameFin(M) => SameFin(update_block_seq(M, b, n))
         /\ \A M : SameFin(M) => M.fin = meta.fin
<1>1. \A M : SameFin(M) => SameFin(Lock(M)) /\ SameFin(Unlock(M))
  BY LockIs DEF SameFin
<1>2. \A M : \A b \in Blocks, s \in Statuses : SameFin(M) => SameFin(SetSt(M, b, s))
  BY SetStIs DEF SameFin
<1>3. \A M : \A b \in Blocks, n \in 0..MaxSeq : SameFin(M) => SameFin(update_block_seq(M, b, n))
  BY BlockSeqIs DEF SameFin
<1> QED
  BY <1>1, <1>2, <1>3 DEF SameFin, Types

(* A step of handle h after which it waits for no copy.                    *)
NoWait(h) == T(h)'.pc # "copy" /\ \A g \in Handles \ {h} : T(g)' = T(g)
LEMMA NoWaitIs ==
  ASSUME Types, NEW h \in Handles
  PROVE  /\ \A u, x : Go(h, u, x) /\ u.pc # "copy" => NoWait(h)
         /\ IdleTh.pc = "idle" /\ T(h) \in ReqSet
<1>1. ASSUME NEW u, NEW x, Go(h, u, x), u.pc # "copy" PROVE NoWait(h)
  <2>1. th' = [th EXCEPT ![h] = [t |-> u, h |-> x]] /\ DOMAIN th = Handles
    BY <1>1 DEF Go, Types, ThTypes
  <2>2. th'[h] = [t |-> u, h |-> x] /\ \A g \in Handles \ {h} : th'[g] = th[g]
    BY <2>1
  <2> QED
    BY <1>1, <2>2 DEF NoWait, T
<1>2. T(h) \in ReqSet
  BY HandleIs
<1>3. IdleTh.pc = "idle"
  BY DEF IdleTh
<1> QED
  BY <1>1, <1>2, <1>3

(* A step that starts no wait and keeps the number of the file.            *)
LEMMA WaitsSame ==
  ASSUME Types, Types', CopyWait, NEW h \in Handles, NoWait(h), meta'.fin >= meta.fin, up' = up
  PROVE  CopyWait'
<1>1. \A g \in Handles : T(g)'.pc = "copy" => T(g).pc = "copy" /\ T(g)'.seq = T(g).seq
  BY DEF NoWait
<1> QED
  BY <1>1, WaitsKept

(* A request begins.                                                       *)
LEMMA WaitsRequest ==
  ASSUME Types, Types', CopyWait, NEW h \in Handles, Request(h)
  PROVE  CopyWait'
<1>1. PICK b \in Blocks, op \in {"w", "cut", "del"} : hfuse_ll_read(h, b) \/ Begin(h, b, op)
  BY DEF Request, hfuse_ll_write, hfuse_ll_truncate
<1>2. CASE hfuse_ll_read(h, b)
  <2>1. PICK t : t = [IdleTh EXCEPT !.op = "read", !.b = b, !.ver = gh.ver[b]]
    OBVIOUS
  <2>2. PICK x : x = Recheck(X(h), b, meta.blk[b])
    OBVIOUS
  <2>3. meta' = meta /\ up' = up /\ (Go(h, [t EXCEPT !.pc = "pread"], x) \/ Decide(h, t, x, meta.blk[b]))
    BY <1>2, <2>1, <2>2 DEF hfuse_ll_read
  <2>4. \A p, n : [t EXCEPT !.cnt = n, !.pc = p].pc = p /\ [t EXCEPT !.pc = p].pc = p
    BY <2>1 DEF IdleTh
  <2>5. NoWait(h)
    <3>1. \A u, z : Go(h, u, z) /\ u.pc # "copy" => NoWait(h)
      BY NoWaitIs DEF ReqSet
    <3> QED
      BY <2>3, <2>4, <3>1 DEF Decide
  <2>6. meta'.fin >= meta.fin
    BY <2>3, ConstantFacts DEF Types, MetaSet
  <2> QED
    BY <2>3, <2>5, <2>6, WaitsSame
<1>3. CASE Begin(h, b, op)
  <2>1. /\ meta' = Lock(update_meta_seq(meta)) /\ up' = up
        /\ Go(h, [IdleTh EXCEPT !.op = op, !.pc = op, !.b = b, !.m = Mod, !.now = meta'.fin], X(h))
        /\ left.mod > 0
    BY <1>3 DEF Begin
  <2>2. [IdleTh EXCEPT !.op = op, !.pc = op, !.b = b, !.m = Mod, !.now = meta'.fin].pc = op
    BY DEF IdleTh
  <2>3. NoWait(h)
    BY <2>1, <2>2, NoWaitIs DEF ReqSet
  <2>4. meta \in MetaSet /\ meta.fin \in 0..MaxSeq /\ meta.fin + 1 \in 0..MaxSeq
    BY <2>1, ConstantFacts DEF Types, MetaSet, Counters, LeftSet, MaxSeq
  <2>5. meta'.fin = update_meta_seq(meta).fin
    BY <2>1, <2>4, MetaSeqIs, LockIs
  <2>6. meta'.fin >= meta.fin
    BY <2>4, <2>5, MetaSeqIs, ConstantFacts DEF MetaSet
  <2> QED
    BY <2>1, <2>3, <2>6, WaitsSame
<1> QED
  BY <1>1, <1>2, <1>3

(* A read goes on.                                                         *)
LEMMA WaitsRead ==
  ASSUME Types, Types', CopyWait, NEW h \in Handles, Read(h)
  PROVE  CopyWait'
<1>1. PICK b : b = T(h).b
  OBVIOUS
<1>2. T(h).pc # "idle" => b \in Blocks
  BY <1>1, HandleIs DEF ReqOK
<1>3. {"CtoL", "BOTH", "CLOUD"} \subseteq Statuses
  BY DEF Statuses, Local, Remote
<1>4. up' = up /\ SameFin(meta') /\ NoWait(h)
  <2>a. CASE ReadOpen(h)
    <3>1. meta' = meta /\ up' = up /\ \E x : Go(h, [T(h) EXCEPT !.pc = "relook"], x)
      BY <2>a DEF ReadOpen
    <3> QED
      BY <3>1, NoWaitIs, SameFinIs DEF ReqSet
  <2>b. CASE read_lookup_meta(h)
    <3>1. PICK p \in {"pread", "replied", "open", "fetch"} : \E n, x :
            Go(h, [T(h) EXCEPT !.pc = p], x) \/ Go(h, [T(h) EXCEPT !.cnt = n, !.pc = p], x)
      BY <2>b DEF read_lookup_meta, Decide
    <3>2. meta' = meta /\ up' = up
      BY <2>b DEF read_lookup_meta
    <3> QED
      BY <3>1, <3>2, NoWaitIs, SameFinIs DEF ReqSet
  <2>1. CASE ReadFetchOpen(h) \/ ReadFetchLock(h)
    BY <2>1, NoWaitIs, SameFinIs DEF ReadFetchOpen, ReadFetchLock, ReqSet
  <2>2. CASE read_fetch_backend(h)
    <3>1. /\ meta' = meta \/ meta' = SetSt(meta, b, "CtoL")
          /\ up' = up /\ b \in Blocks
          /\ \E n, x : \/ Go(h, [T(h) EXCEPT !.pc = "rf_get", !.seq = n], x)
                       \/ Go(h, [T(h) EXCEPT !.pc = "pread", !.f = 0], x)
      BY <1>1, <1>2, <2>2 DEF read_fetch_backend, At, T
    <3>2. NoWait(h)
      BY <3>1, NoWaitIs DEF ReqSet
    <3> QED
      BY <1>3, <3>1, <3>2, SameFinIs
  <2>3. CASE ReadFetchGet(h, TRUE) \/ ReadFetchGet(h, FALSE)
    BY <2>3, NoWaitIs, SameFinIs DEF ReadFetchGet, ReqSet
  <2>4. CASE ReadFetchDone(h)
    <3>1. /\ meta' = meta \/ meta' = SetSt(meta, b, "BOTH")
          /\ up' = up /\ b \in Blocks
          /\ \E x : Go(h, [T(h) EXCEPT !.pc = "pread", !.f = 0], x)
      BY <1>1, <1>2, <2>4 DEF ReadFetchDone, At, T
    <3>2. NoWait(h)
      BY <3>1, NoWaitIs DEF ReqSet
    <3> QED
      BY <1>3, <3>1, <3>2, SameFinIs
  <2>5. CASE ReadFetchFail(h)
    BY <1>1, <1>2, <1>3, <2>5, NoWaitIs, SameFinIs DEF ReadFetchFail, At, T, ReqSet
  <2>6. CASE _read_block(h) \/ Replied(h)
    BY <2>6, NoWaitIs, SameFinIs DEF _read_block, Replied, ReqSet
  <2> QED
    BY <2>1, <2>2, <2>3, <2>4, <2>5, <2>6, <2>a, <2>b DEF Read
<1>5. meta'.fin >= meta.fin
  BY <1>4, ConstantFacts DEF SameFin, Types, MetaSet
<1> QED
  BY <1>4, <1>5, WaitsSame

(* The end of a request, and the opening of a file for it.                 *)
LEMMA NoWaitEnds ==
  ASSUME Types, NEW h \in Handles, NEW M, SameFin(M)
  PROVE  /\ Leave(h, M) => SameFin(meta') /\ NoWait(h)
         /\ \A D, x, G : OpenForWrite(h, M, D, x, G) => SameFin(meta') /\ NoWait(h)
<1>1. Leave(h, M) => SameFin(meta') /\ NoWait(h)
  BY SameFinIs, NoWaitIs DEF Leave, ReqSet
<1>2. ASSUME NEW D, NEW x, NEW G, OpenForWrite(h, M, D, x, G) PROVE SameFin(meta') /\ NoWait(h)
  <2>1. CASE D.path[T(h).b] = 0
    BY <1>1, <1>2, <2>1 DEF OpenForWrite
  <2>2. CASE D.path[T(h).b] # 0
    <3>1. PICK y : meta' = M /\ Go(h, [T(h) EXCEPT !.pc = "w_lock", !.f = 0], y)
      BY <1>2, <2>2 DEF OpenForWrite
    <3> QED
      BY <3>1, NoWaitIs DEF ReqSet
  <2> QED
    BY <2>1, <2>2
<1> QED
  BY <1>1, <1>2

(* A modification goes on.                                                 *)
LEMMA WaitsModifying ==
  ASSUME Types, Types', CopyWait, NEW h \in Handles, Modifying(h), ~_check_sync_wait_full_cache(h)
  PROVE  CopyWait'
<1>1. PICK b : b = T(h).b
  OBVIOUS
<1>2. (T(h).pc # "idle" => b \in Blocks) /\ T(h).now \in 0..MaxSeq
  BY <1>1, HandleIs DEF ReqOK, ReqSet
<1>3. {"CtoL", "LDISK", "NONE", "TODELETE"} \subseteq Statuses
  BY DEF Statuses, Local, Remote, Gone
<1>4. T(h).op \in {"w", "cut", "del"} \/ T(h).pc # "sleep"
  BY HandleIs DEF ReqOK
<1>5. \A M, n : SameFin(M) /\ b \in Blocks /\ n \in 0..MaxSeq => SameFin(update_block_seq(M, b, n))
  BY SameFinIs
<1>6. \A s \in {"CtoL", "LDISK", "NONE", "TODELETE"} : b \in Blocks => SameFin(SetSt(meta, b, s))
  BY <1>3, SameFinIs
<1>7. SameFin(meta) /\ \A M : SameFin(M) => SameFin(Lock(M)) /\ SameFin(Unlock(M))
  BY SameFinIs
<1>8. \A M : SameFin(M) => /\ Leave(h, M) => SameFin(meta') /\ NoWait(h)
                           /\ \A D, x, G : OpenForWrite(h, M, D, x, G) => SameFin(meta') /\ NoWait(h)
  BY NoWaitEnds
<1>9. up' = up /\ SameFin(meta') /\ NoWait(h)
  <2>1. CASE write_wait_full_cache(h) \/ Wake(h)
    <3>1. /\ meta' = Lock(meta) \/ meta' = Unlock(meta)
          /\ up' = up
          /\ \E p \in {"sleep", "w", "cut", "del"} : \E x : Go(h, [T(h) EXCEPT !.pc = p], x)
      BY <1>4, <2>1 DEF write_wait_full_cache, Wake, At, T
    <3>2. NoWait(h)
      BY <3>1, NoWaitIs DEF ReqSet
    <3> QED
      BY <1>7, <3>1, <3>2
  <2>2. CASE WakeFailed(h) \/ CopyAgain(h) \/ CopyGivenUp(h)
    BY <1>7, <2>2, NoWaitIs DEF WakeFailed, UnlockAgain, CopyAgain, CopyGivenUp, ReqSet
  <2>3. CASE _write_block(h)
    <3>1. PICK x : x = IF At(h, "w") THEN Recheck(X(h), b, meta.blk[b]) ELSE X(h)
      OBVIOUS
    <3>2. /\ up' = up /\ b \in Blocks
          /\ \/ WriteLocal(h, b, x)
             \/ Go(h, [T(h) EXCEPT !.pc = "w_lock"], x) /\ meta' = meta
             \/ OpenForWrite(h, SetSt(meta, b, "LDISK"), disk', x, gh)
             \/ FetchFirst(h, b, x)
      <4>1. \/ WriteLocal(h, b, x)
            \/ Go(h, [T(h) EXCEPT !.pc = "w_lock"], x) /\ meta' = meta
            \/ OpenForWrite(h, SetSt(meta, b, "LDISK"), disk', x, gh)
            \/ FetchFirst(h, b, x)
        <5>1. St(b) \in Local \cup Remote \cup Gone
          BY <1>1, <1>2, <2>3 DEF _write_block, Types, MetaSet, Entry, St
        <5> QED
          BY <1>1, <2>3, <3>1, <5>1 DEF _write_block, St
      <4> QED
        BY <1>1, <1>2, <2>3, <4>1 DEF _write_block
    <3>3. CASE WriteLocal(h, b, x)
      BY <1>6, <1>8, <3>2, <3>3, NoWaitIs DEF WriteLocal, ReqSet
    <3>4. CASE FetchFirst(h, b, x)
      BY <1>7, <3>2, <3>4, NoWaitIs DEF FetchFirst, ReqSet
    <3> QED
      BY <1>6, <1>7, <1>8, <3>2, <3>3, <3>4, NoWaitIs DEF ReqSet
  <2>4. CASE Write(h)
    BY <1>1, <1>2, <1>5, <1>7, <1>8, <2>4 DEF Write, At, T
  <2>c. ASSUME NEW D, CutLocal(h, D), b \in Blocks PROVE SameFin(meta') /\ NoWait(h)
    <3>1. Leave(h, meta) \/ Leave(h, update_block_seq(SetSt(meta, b, "LDISK"), b, T(h).now))
      BY <1>1, <2>c DEF CutLocal
    <3> QED
      BY <1>2, <1>5, <1>6, <1>7, <1>8, <2>c, <3>1
  <2>5. CASE truncate_truncate(h)
    <3>1. /\ up' = up /\ b \in Blocks
          /\ \/ FetchFirst(h, b, X(h)) \/ Leave(h, update_block_seq(meta, b, T(h).now))
             \/ \E D : CutLocal(h, D)
      BY <1>1, <1>2, <2>5 DEF truncate_truncate, At, T
    <3>2. CASE FetchFirst(h, b, X(h))
      BY <1>7, <3>1, <3>2, NoWaitIs DEF FetchFirst, ReqSet
    <3> QED
      BY <1>2, <1>5, <1>7, <1>8, <2>c, <3>1, <3>2
  <2>6. CASE CutAfterWait(h)
    BY <1>1, <1>2, <2>6, <2>c DEF CutAfterWait, At, T
  <2>7. CASE truncate_delete_block(h)
    <3>1. PICK s \in {"NONE", "TODELETE"} :
            Leave(h, update_block_seq(SetSt(meta, b, s), b, T(h).now)) /\ up' = up /\ b \in Blocks
      BY <1>1, <1>2, <2>7 DEF truncate_delete_block, At, T
    <3> QED
      BY <1>2, <1>5, <1>6, <1>8, <3>1
  <2>8. CASE WriteFetchLock(h)
    <3>1. /\ up' = up /\ b \in Blocks
          /\ \/ /\ meta' = Unlock(SetSt(meta, b, "CtoL"))
                /\ Go(h, [T(h) EXCEPT !.pc = "wf_get", !.seq = meta.blk[b].seq], X(h))
             \/ OpenForWrite(h, meta, disk, X(h), gh)
             \/ OpenForWrite(h, SetSt(meta, b, "LDISK"), disk, X(h), gh)
      BY <1>1, <1>2, <2>8 DEF WriteFetchLock, At, T
    <3> QED
      BY <1>6, <1>7, <1>8, <3>1, NoWaitIs DEF ReqSet
  <2>9. CASE WriteFetchGet(h) \/ WriteFetchFail(h)
    BY <1>7, <2>9, NoWaitIs DEF WriteFetchGet, WriteFetchFail, UnlockAgain, ReqSet
  <2>10. CASE _write_fetch_backend(h)
    <3>1. PICK M, D : /\ M = Lock(meta) \/ M = Lock(SetSt(meta, b, "LDISK"))
                      /\ \/ OpenForWrite(h, M, D, X(h), Taken(b, T(h).f))
                         \/ Leave(h, update_block_seq(M, b, T(h).now))
                      /\ up' = up /\ b \in Blocks
      BY <1>1, <1>2, <2>10 DEF _write_fetch_backend, At, T
    <3>2. SameFin(M)
      BY <1>6, <1>7, <3>1
    <3> QED
      BY <1>2, <1>5, <1>8, <3>1, <3>2
  <2> QED
    BY <2>1, <2>2, <2>3, <2>4, <2>5, <2>6, <2>7, <2>8, <2>9, <2>10 DEF Modifying
<1>10. meta'.fin >= meta.fin
  BY <1>9, ConstantFacts DEF SameFin, Types, MetaSet
<1> QED
  BY <1>9, <1>10, WaitsSame

(* The wait itself begins while the upload owes the copy.                  *)
LEMMA WaitsBegin ==
  ASSUME Types, Types', CopyWait, NEW h \in Handles, _check_sync_wait_full_cache(h)
  PROVE  CopyWait'
<1>1. PICK b : b = T(h).b
  OBVIOUS
<1>2. PICK x : Go(h, [T(h) EXCEPT !.pc = "copy", !.seq = Num(b)], x)
  BY <1>1 DEF _check_sync_wait_full_cache, Num
<1>3. meta' = Unlock(meta) /\ up' = up /\ up.pc # "idle" /\ Num(b) <= up.cur
  BY <1>1 DEF _check_sync_wait_full_cache, CopyRefused, MustCopy, Num
<1>4. T(h)'.seq = Num(b) /\ \A g \in Handles \ {h} : T(g)' = T(g)
  <2>1. [T(h) EXCEPT !.pc = "copy", !.seq = Num(b)].seq = Num(b)
    BY NoWaitIs DEF ReqSet
  <2>2. DOMAIN th = Handles
    BY DEF Types, ThTypes
  <2> QED
    BY <1>2, <2>1, <2>2 DEF Go, T
<1>5. meta'.fin >= meta.fin
  BY <1>3, LockIs, ConstantFacts DEF Types, MetaSet
<1>6. \A g \in Handles : T(g)'.pc = "copy" =>
           \/ T(g).pc = "copy" /\ T(g)'.seq = T(g).seq
           \/ T(g)'.seq <= up.cur /\ up.pc # "idle"
  BY <1>3, <1>4
<1> QED
  BY <1>3, <1>5, <1>6, WaitsKept

(* Downloads, page-out, pinning and the upload start no wait.              *)
LEMMA WaitsOthers ==
  ASSUME Types, Types', CopyWait,
         \/ \E l \in Loaders : Load(l)
         \/ \E b \in Blocks : _remove_synced_block(b)
         \/ change_pin_flag \/ Upload \/ UNCHANGED vars
  PROVE  CopyWait'
<1>1. th' = th
  BY DEF Load, _remove_synced_block, change_pin_flag, Upload, vars, read_prefetch_cache, _check_fetch_block,
         LoadOpen, LoadLock, _modify_block_status, LoadGet, prefetch_block, PinStat, fetch_backend_block,
         meta_cache_set_uploading_info, _check_block_sync, delete_backend_blocks, _revert_block_status,
         dispatch_upload_block, _upload_terminate_thread, change_block_status_to_BOTH, con_object_sync,
         do_meta_sync, _del_toupload_blocks
<1>2. \A h \in Handles : T(h)'.pc = "copy" => T(h).pc = "copy" /\ T(h)'.seq = T(h).seq
  BY <1>1 DEF T
<1>3. /\ meta \in MetaSet /\ up \in UpSet /\ {"CtoL", "BOTH", "CLOUD", "LDISK", "LtoC"} \subseteq Statuses
      /\ meta.fin \in Int
  BY ConstantFacts DEF Types, Statuses, Local, Remote, MetaSet
<1>4. ASSUME NEW l \in Loaders, Load(l) PROVE up' = up /\ meta'.fin = meta.fin
  <2>1. dl[l].pc # "idle" => dl[l].b \in Blocks
    BY DEF Types, JobOK
  <2>2. meta' = meta \/ (dl[l].pc # "idle" /\ \E s \in Statuses : meta' = SetSt(meta, dl[l].b, s))
    BY <1>3, <1>4 DEF Load, read_prefetch_cache, _check_fetch_block, LoadOpen, LoadLock, _modify_block_status,
                LoadGet, prefetch_block, PinStat, fetch_backend_block
  <2>3. up' = up
    BY <1>4 DEF Load, read_prefetch_cache, _check_fetch_block, LoadOpen, LoadLock, _modify_block_status,
                LoadGet, prefetch_block, PinStat, fetch_backend_block
  <2>4. \A b \in Blocks, s \in Statuses : SetSt(meta, b, s).fin = meta.fin
    BY <1>3, SetStIs
  <2> QED
    BY ONLY <2>1, <2>2, <2>3, <2>4
<1>5. ASSUME NEW b \in Blocks, _remove_synced_block(b) PROVE up' = up /\ meta'.fin = meta.fin
  <2>1. up' = up /\ meta' = [SetSt(meta, b, "CLOUD") EXCEPT !.blk[b].cnt = @ + 1]
    BY <1>5 DEF _remove_synced_block
  <2>2. SetSt(meta, b, "CLOUD") \in MetaSet /\ SetSt(meta, b, "CLOUD").fin = meta.fin
    BY <1>3, SetStIs
  <2>3. \A M \in MetaSet : \A e : [M EXCEPT !.blk = e].fin = M.fin
    BY DEF MetaSet
  <2> QED
    BY <2>1, <2>2, <2>3 DEF MetaSet
<1>6. CASE change_pin_flag
  <2>1. up' = up /\ meta'.fin = meta.fin
    BY <1>3, <1>6 DEF change_pin_flag, MetaSet
  <2> QED
    BY <1>2, <1>3, <2>1, WaitsKept
<1>7. CASE UNCHANGED vars
  <2>1. up' = up /\ meta'.fin = meta.fin
    BY <1>7 DEF vars
  <2> QED
    BY <1>2, <1>3, <2>1, WaitsKept
<1>8. CASE Upload
  <2>1. \A b \in Blocks, s \in Statuses : SetSt(meta, b, s).fin = meta.fin /\ SetSt(meta, b, s) \in MetaSet
    BY <1>3, SetStIs
  <2>2. \A M \in MetaSet : \A e : [M EXCEPT !.blk = e].fin = M.fin /\ [M EXCEPT !.inc = e].fin = M.fin
    BY DEF MetaSet
  <2>3. \A b, s : SetSnap(b, s).cur = up.cur
    BY <1>3 DEF SetSnap, UpSet
  <2>4. CASE meta_cache_set_uploading_info
    <3>1. up.pc = "idle" /\ up'.cur = meta.fin /\ meta'.fin = meta.fin
      BY <1>3, <2>2, <2>4 DEF meta_cache_set_uploading_info, IdleUp
    <3> QED
      BY <1>2, <1>3, <3>1, WaitsKept
  <2>5. ASSUME NEW b \in Blocks, _check_block_sync(b) PROVE meta'.fin = meta.fin /\ up'.cur = up.cur /\ up.pc # "idle"
    <3>s. up.snap[b] \in ShotSet /\ up.snap[b].st \in Statuses
      BY <1>3 DEF UpSet, ShotSet
    <3>1. CASE up.snap[b].st \in {"LDISK", "LtoC"}
      <4>1. /\ up.pc = "check" /\ up' = [up EXCEPT !.pc = "dispatch", !.b = b]
            /\ meta' = meta \/ meta' = SetSt(meta, b, "LtoC")
        BY <2>5, <3>1 DEF _check_block_sync, Snap, Gone, Remote
      <4> QED
        BY <1>3, <2>1, <4>1 DEF UpSet
    <3>2. CASE up.snap[b].st \in Gone
      <4>1. /\ up.pc = "check" /\ \E s : up' = [SetSnap(b, s) EXCEPT !.todo = @ \ {b}]
            /\ meta' = meta \/ meta' = [meta EXCEPT !.blk[b] = NoEntry]
        BY <2>5, <3>2 DEF _check_block_sync, Snap, Gone, Remote
      <4> QED
        BY <1>3, <4>1 DEF UpSet, SetSnap, MetaSet
    <3>3. CASE up.snap[b].st \in Remote \cup {"BOTH"}
      <4>1. up.pc = "check" /\ meta' = meta /\ \E s : up' = [SetSnap(b, s) EXCEPT !.todo = @ \ {b}]
        BY <2>5, <3>3 DEF _check_block_sync, Snap, Gone, Remote
      <4> QED
        BY <1>3, <4>1 DEF UpSet, SetSnap
    <3> QED
      BY <3>s, <3>1, <3>2, <3>3 DEF Statuses, Local
  <2>6. ASSUME NEW b \in Blocks, delete_backend_blocks(b) \/ _revert_block_status(b)
        PROVE  meta'.fin = meta.fin /\ up'.cur = up.cur /\ up.pc # "idle"
    <3>1. /\ up' = [up EXCEPT !.todo = @ \ {b}] /\ up.pc # "idle"
          /\ meta' = meta \/ meta' = SetSt(meta, b, "LDISK")
      BY <2>6 DEF delete_backend_blocks, _revert_block_status
    <3> QED
      BY <1>3, <2>1, <3>1 DEF UpSet
  <2>7. CASE dispatch_upload_block \/ _upload_terminate_thread \/ \E ok \in BOOLEAN : con_object_sync(ok) \/ do_meta_sync(ok)
    <3>1. meta' = meta /\ up.pc # "idle"
      BY <2>7 DEF dispatch_upload_block, _upload_terminate_thread, con_object_sync, do_meta_sync
    <3>2. \/ up' = Fail(up) \/ \E p : up' = [up EXCEPT !.pc = p]
          \/ up' = [up EXCEPT !.pc = "delete", !.todo = Blocks]
          \/ \E s : up' = [SetSnap(up.b, s) EXCEPT !.pc = "both"]
      BY <2>7 DEF dispatch_upload_block, _upload_terminate_thread, con_object_sync, do_meta_sync
    <3>3. up'.cur = up.cur
      BY <1>3, <3>2 DEF Fail, SetSnap, UpSet
    <3> QED
      BY <1>2, <1>3, <3>1, <3>3, WaitsKept
  <2>8. CASE change_block_status_to_BOTH
    <3>1. up.pc = "both" /\ up.b \in Blocks
      BY <2>8 DEF change_block_status_to_BOTH, Types, UpOK, Sending
    <3>2. up'.cur = up.cur
      BY <1>3, <2>8 DEF change_block_status_to_BOTH, UpSet
    <3>3. meta' = meta \/ meta' = [SetSt(meta, up.b, "BOTH") EXCEPT !.blk[up.b].up = TRUE]
      BY <2>8 DEF change_block_status_to_BOTH
    <3>4. PICK M : M = SetSt(meta, up.b, "BOTH")
      OBVIOUS
    <3>5. M \in MetaSet /\ M.fin = meta.fin /\ (meta' = meta \/ meta' = [M EXCEPT !.blk[up.b].up = TRUE])
      BY <1>3, <2>1, <3>1, <3>3, <3>4
    <3>6. meta'.fin = meta.fin
      BY <3>5 DEF MetaSet
    <3> QED
      BY <1>2, <1>3, <3>1, <3>2, <3>6, WaitsKept
  <2>9. CASE _del_toupload_blocks
    <3>1. meta' = meta /\ up'.pc = "idle"
      BY <2>9 DEF _del_toupload_blocks, IdleUp
    <3> QED
      BY <1>2, <1>3, <3>1, WaitsKept
  <2>10. ASSUME NEW b \in Blocks, _check_block_sync(b) \/ delete_backend_blocks(b) \/ _revert_block_status(b)
         PROVE  CopyWait'
    <3>1. meta'.fin = meta.fin /\ up'.cur = up.cur /\ up.pc # "idle"
      BY <2>5, <2>6, <2>10
    <3> QED
      BY <1>2, <1>3, <3>1, WaitsKept
  <2> QED
    BY <1>8, <2>4, <2>7, <2>8, <2>9, <2>10 DEF Upload
<1>9. ASSUME up' = up, meta'.fin = meta.fin PROVE CopyWait'
  BY <1>2, <1>3, <1>9, WaitsKept
<1> QED
  BY <1>4, <1>5, <1>6, <1>7, <1>8, <1>9

(* Every step of a download keeps the invariant.                           *)
LEMMA LoadStep ==
  ASSUME BlockInv, NEW l \in Loaders, Load(l)
  PROVE  BlockInv'
<1>1. \A ok \in BOOLEAN : LoadGet(l, ok) => BlockInv'
  BY LoadGetStep
<1>2. \A b \in Blocks : read_prefetch_cache(l, b) \/ _check_fetch_block(l, b) => BlockInv'
  BY StartLoadStep
<1> QED
  BY <1>1, <1>2, LoadOpenStep, LoadLockStep, MarkStep, PrefetchStep, PinStatStep, PinMarkStep DEF Load

(* Every step of the upload keeps the invariant.                           *)
LEMMA UploadStep ==
  ASSUME BlockInv, Upload
  PROVE  BlockInv'
<1>1. \A b \in Blocks : _check_block_sync(b) \/ delete_backend_blocks(b) \/ _revert_block_status(b) => BlockInv'
  BY CheckStep, DeleteBackendStep, RevertStep
<1>2. \A ok \in BOOLEAN : con_object_sync(ok) => BlockInv'
  <2> SUFFICES ASSUME NEW ok \in BOOLEAN, con_object_sync(ok) PROVE BlockInv'
    OBVIOUS
  <2>1. CASE ok = TRUE
    BY <2>1, PutStep
  <2>2. CASE ok = FALSE
    BY <2>2, PutFailedStep
  <2> QED
    BY <2>1, <2>2
<1>3. \A ok \in BOOLEAN : do_meta_sync(ok) => BlockInv'
  <2> SUFFICES ASSUME NEW ok \in BOOLEAN, do_meta_sync(ok) PROVE BlockInv'
    OBVIOUS
  <2>1. CASE ok = TRUE
    BY <2>1, MetaSyncStep
  <2>2. CASE ok = FALSE
    BY <2>2, MetaSyncFailedStep
  <2> QED
    BY <2>1, <2>2
<1> QED
  BY <1>1, <1>2, <1>3, SnapshotStep, DispatchStep, TerminateStep, BothStep, UploadEndStep DEF Upload

(* The invariant of the blocks: the types always, and until a recorded     *)
(* hazard is met, where each block's content is, what every request and    *)
(* download in progress may rely on, what the upload still owes, and what  *)
(* the cache counts.                                                       *)
THEOREM BlockInvariant == Spec => [](BlockInv /\ CopyWait)
<1>1. Init => BlockInv
  BY InitTypes, InitCore DEF BlockInv
<1>2. ASSUME Init PROVE CopyWait
  <2>1. up = IdleUp /\ th = [h \in Handles |-> [t |-> IdleTh, h |-> NoHandle]]
    BY <1>2 DEF Init
  <2>2. up.pc = "idle"
    BY <2>1 DEF IdleUp
  <2>3. \A h \in Handles : T(h) = IdleTh
    BY <2>1 DEF T
  <2>4. IdleTh.pc = "idle"
    BY DEF IdleTh
  <2> QED
    BY <2>2, <2>3, <2>4 DEF CopyWait, Waits
<1>3. ASSUME BlockInv, CopyWait, [Next]_vars PROVE BlockInv'
  <2>1. CASE UNCHANGED vars
    BY <1>3, <2>1, StutterStep
  <2>2. CASE Next
    BY <1>3, <2>2, HandleStep, LoadStep, PinFlagStep, PageOutStep, UploadStep DEF Next
  <2> QED
    BY <1>3, <2>1, <2>2
<1>4. ASSUME BlockInv, CopyWait, [Next]_vars PROVE CopyWait'
  <2>1. Types /\ Types'
    BY <1>3, <1>4 DEF BlockInv
  <2>2. ASSUME NEW h \in Handles, Request(h) \/ Read(h) \/ Modifying(h) PROVE CopyWait'
    BY <1>4, <2>1, <2>2, WaitsRequest, WaitsRead, WaitsModifying, WaitsBegin
  <2> QED
    BY <1>4, <2>1, <2>2, WaitsOthers DEF Next
<1> QED
  BY <1>1, <1>2, <1>3, <1>4, PTL DEF Spec

(* Statuses, numbers, contents and counters stay in their sets, and the    *)
(* cache never counts less than nothing.                                   *)
THEOREM BlockTypes == Spec => []TypeOK
<1>1. BlockInv => TypeOK
  <2> SUFFICES ASSUME BlockInv PROVE TypeOK
    OBVIOUS
  <2>1. /\ meta.blk \in [Blocks -> Entry] /\ meta.fin \in 0..MaxSeq /\ meta.lock \in {0, 1}
    BY DEF BlockInv, Types, MetaSet
  <2>2. disk \in DiskSet /\ Marks \subseteq Contents
    BY DEF BlockInv, Types, Marks, Contents
  <2>3. /\ \A f \in Files : disk.data[f] \in Contents /\ disk.flock[f] \in Procs \cup {NoOne}
        /\ disk.path \in [Blocks -> Files \cup {0}] /\ \A b \in Blocks : disk.to[b] \in Contents
        /\ disk.cache \in Int
    BY <2>2 DEF DiskSet
  <2>4. Clean => disk.cache >= 0
    <3> SUFFICES ASSUME Clean PROVE disk.cache >= 0
      OBVIOUS
    <3>1. disk.cache = Cardinality(LocalBlocks) + Cardinality(Ahead)
      BY DEF BlockInv, Core, CountI
    <3>2. Cardinality(LocalBlocks) \in Nat /\ Cardinality(Ahead) \in Nat
      BY CountFinite
    <3> QED
      BY <3>1, <3>2
  <2> QED
    BY <2>1, <2>3, <2>4 DEF TypeOK
<1> QED
  BY <1>1, BlockInvariant, PTL

(* A read that overlaps no modification returns the last one, through any  *)
(* interleaving of writers, page-outs, downloads, uploads and failures.    *)
THEOREM ReadsLatest == Spec => []ReadLatest
<1>1. BlockInv => ReadLatest
  BY DEF BlockInv, Core, ReadI, ReadLatest
<1> QED
  BY <1>1, BlockInvariant, PTL

(* Whenever the metadata is free, the last content of a block is where its *)
(* status says.                                                            *)
THEOREM NothingLost == Spec => []NoLoss
<1>1. BlockInv => NoLoss
  BY DEF BlockInv, Core, StatusI, NoLoss, St, Num, Path, Data
<1> QED
  BY <1>1, BlockInvariant, PTL

(* A block of status ST_BOTH is in the cloud as it is on local disk.       *)
THEOREM BothIsStored == Spec => []StoredBoth
<1>1. BlockInv => StoredBoth
  <2> SUFFICES ASSUME BlockInv, Clean, NEW b \in Blocks, St(b) = "BOTH"
               PROVE  Path(b) # 0 /\ cloud.obj[b][Num(b)] = Data(Path(b))
    BY DEF StoredBoth, St, Num, Path, Data
  <2>1. StatusI(b)
    BY DEF BlockInv, Core
  <2> QED
    BY <2>1 DEF StatusI, Local
<1> QED
  BY <1>1, BlockInvariant, PTL

(* The metadata in the cloud and the objects it names are one version of   *)
(* the file at every moment, also in the middle of an upload or of the     *)
(* clean-up of a failed one.                                               *)
THEOREM CloudIsConsistent == Spec => []CloudConsistent
<1>1. BlockInv => CloudConsistent
  BY DEF BlockInv, Core, UpI, CloudI, CloudConsistent
<1> QED
  BY <1>1, BlockInvariant, PTL

(* With nothing in progress the cache counts exactly the local blocks.     *)
THEOREM CacheCountIsExact == Spec => []CacheExact
<1>1. BlockInv => CacheExact
  <2> SUFFICES ASSUME BlockInv, Clean, \A l \in Loaders : dl[l].pc = "idle"
               PROVE  disk.cache = Cardinality({b \in Blocks : meta.blk[b].st \in Local})
    BY DEF CacheExact
  <2>1. Ahead = {} /\ LocalBlocks = {b \in Blocks : meta.blk[b].st \in Local}
    BY DEF Ahead, LocalBlocks, St
  <2>2. disk.cache = Cardinality(LocalBlocks) + Cardinality(Ahead)
    BY DEF BlockInv, Core, CountI
  <2>3. Cardinality(LocalBlocks) \in Nat /\ Cardinality(Ahead) = 0
    BY <2>1, CountFinite, FS_EmptySet
  <2> QED
    BY <2>1, <2>2, <2>3
<1> QED
  BY <1>1, BlockInvariant, PTL

=============================================================================
