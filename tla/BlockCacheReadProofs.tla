------------------------ MODULE BlockCacheReadProofs ------------------------
(***************************************************************************)
(* The invariant of the blocks of a file between the cache and the cloud,  *)
(* for any number of blocks, handles, downloads, uploads and failures, and *)
(* its proof for the steps that modify no block: downloads, page-out,      *)
(* changes of pin and reads.                                               *)
(*                                                                         *)
(* Types holds always; Core holds until one of the recorded hazards is     *)
(* met.  Most steps are those of one process p, a handle or a download:    *)
(* Gentle(p) says what such a step does to the shared state, and what the  *)
(* invariant says of the other processes follows from it once and for all. *)
(***************************************************************************)
EXTENDS BlockCache, FiniteSetTheorems, TLAPS
Marks == SUBSET (0..MaxMod)
Statuses == Local \cup Remote \cup Gone
Dirty == {"LDISK", "LtoC"}
RFile == {"rf_lock", "rf_meta", "rf_get", "rf_done", "rf_fail"}
WFile == {"wf_lock", "wf_get", "wf_done"}
Inside == {"w", "cut", "again", "del", "w_lock", "wf_lock"}
ReqPCs == {"idle", "replied", "open", "relook", "fetch", "pread", "sleep", "copy"} \cup RFile \cup WFile \cup Inside
JobPCs == {"idle", "open", "lock", "mark", "get", "done", "stat", "both", "undo"}
Sending == {"dispatch", "put", "finish", "both"}
UpPCs == {"idle", "check", "delete", "revert"} \cup Sending

MetaSet == [blk : [Blocks -> Entry], fin : 0..MaxSeq, inc : BOOLEAN, pin : BOOLEAN, lock : {0, 1}]
DiskSet == [path : [Blocks -> Files \cup {0}], data : [Files -> Marks],
            flock : [Files -> Procs \cup {NoOne}], to : [Blocks -> Contents], cache : Int]
Hazards == {"handle", "opened", "orphan", "unlinked", "unlock", "oldseq", "torn", "loadseq", "count",
            "slept"}
CloudEntry == [ex : BOOLEAN, seq : 0..MaxSeq]
CloudSet == [obj : [Blocks -> [0..MaxSeq -> Contents]], meta : [Blocks -> CloudEntry]]
ReqSet == [pc : ReqPCs, op : {"", "read", "w", "cut", "del"}, b : Blocks \cup {0}, f : Files \cup {0},
           seq : 0..MaxSeq, cnt : 0..MaxPage, now : 0..MaxSeq, m : 0..MaxMod, res : Marks, ver : Nat]
CachedSet == [open : Blocks \cup {-1}, file : Files \cup {0}, cnt : 0..MaxPage]
JobSet == [pc : JobPCs, b : Blocks \cup {0}, f : Files \cup {0}, seq : 0..MaxSeq, pin : BOOLEAN]
ShotSet == [st : Statuses, seq : 0..MaxSeq, back : 0..MaxSeq, toseq : 0..MaxSeq,
            ex : BOOLEAN, fin : BOOLEAN]
UpSet == [pc : UpPCs, cur : 0..MaxSeq, todo : SUBSET Blocks, b : Blocks \cup {0}, err : BOOLEAN,
          snap : [Blocks -> ShotSet]]
GhSet == [cur : [Blocks -> Marks], snap : [Blocks -> Marks], cloud : [Blocks -> Marks],
          ver : [Blocks -> Nat], known : SUBSET Hazards, loose : SUBSET Handles]
LeftSet == [mod : 0..MaxMod, read : Nat, load : Nat, page : 0..MaxPage, upload : Nat, fail : Nat,
            sleep : Nat, pin : Nat]

St(b) == meta.blk[b].st
Num(b) == meta.blk[b].seq
Cnt(b) == meta.blk[b].cnt
Path(b) == disk.path[b]
Data(f) == disk.data[f]

(***************************************************************************)
(* Types, and what the program counters say about the fields.              *)
(***************************************************************************)
ThTypes == th \in [Handles -> [t : ReqSet, h : CachedSet]]
DlTypes == dl \in [Loaders -> JobSet]

ReqOK(t, x) ==
  /\ t.pc # "idle" => t.b \in Blocks
  /\ t.pc \in RFile \cup WFile => t.f \in Files
  /\ t.pc \notin RFile \cup WFile => t.f = 0
  /\ t.pc \in {"w", "cut", "del"} => t.op = t.pc
  /\ t.pc = "again" => t.op = "w"
  /\ t.pc = "copy" => t.op \in {"w", "cut", "del"}
  /\ t.pc \in {"sleep"} \cup WFile => t.op \in {"w", "cut"}
  /\ x.open \in Blocks => x.file \in Files
  /\ x.open = -1 => x.file = 0
  /\ t.pc \in {"pread", "w_lock"} => x.open = t.b
  /\ t.pc \in {"open", "fetch"} \cup RFile => x.open = -1
  /\ t.pc # "replied" => t.res = {}
JobOK(d) ==
  /\ d.pc # "idle" => d.b \in Blocks
  /\ d.pc \in {"idle", "open"} => d.f = 0
  /\ d.pc \notin {"idle", "open"} => d.f \in Files
UpOK == up.pc \in Sending => up.b \in Blocks /\ up.b \in up.todo /\ up.snap[up.b].st \in Dirty
Counters ==
  /\ meta.fin <= 1 + (MaxMod - left.mod)
  /\ \A b \in Blocks : Cnt(b) <= MaxPage - left.page
  /\ \A h \in Handles : T(h).now <= meta.fin

Types ==
  /\ meta \in MetaSet /\ disk \in DiskSet /\ cloud \in CloudSet
  /\ ThTypes /\ DlTypes /\ up \in UpSet /\ gh \in GhSet /\ left \in LeftSet
  /\ \A h \in Handles : ReqOK(T(h), X(h))
  /\ \A l \in Loaders : JobOK(dl[l])
  /\ UpOK /\ Counters

(***************************************************************************)
(* The lock of the metadata has one owner.                                 *)
(***************************************************************************)
LockI ==
  /\ meta.lock = 1 => \A h \in Handles : T(h).pc \notin Inside
  /\ \A h, g \in Handles : T(h).pc \in Inside /\ T(g).pc \in Inside => h = g

(* Block b is about to be written, its number not set yet.                 *)
Writing(b) == \E h \in Handles : T(h).pc = "w_lock" /\ T(h).b = b

(* The status of block b tells where its content is.                       *)
StatusI(b) ==
  /\ St(b) \in Local => Path(b) # 0 /\ Data(Path(b)) = gh.cur[b]
  /\ St(b) \in Remote \cup {"BOTH"} => cloud.obj[b][Num(b)] = gh.cur[b]
  /\ St(b) \in Gone => gh.cur[b] = {}
  /\ St(b) \in Gone \cup {"CLOUD"} /\ Path(b) # 0 => Data(Path(b)) = {}
  /\ St(b) \notin Gone /\ ~Writing(b) => gh.cur[b] # {}
  /\ Num(b) <= meta.fin

PathsI == \A b, c \in Blocks : Path(b) = Path(c) /\ Path(b) # 0 => b = c

(* File f is a file of block b; a download of number n into it is marked;  *)
(* its data is there.                                                      *)
Own(b, f) == \A c \in Blocks : Path(c) = f => c = b
Marked(b, f, n) == Path(b) = f => St(b) = "CtoL" /\ n = Num(b)
Got(b, f) == Path(b) = f => Data(f) = gh.cur[b]

ReqI(h) ==
  LET t == T(h) IN
  /\ t.pc \in RFile \cup WFile => Own(t.b, t.f)
  /\ t.pc \in {"rf_meta", "rf_get", "rf_done", "wf_get", "wf_done"} => disk.flock[t.f] = h
  /\ t.pc \in {"rf_get", "rf_done", "wf_get", "wf_done"} => Marked(t.b, t.f, t.seq)
  /\ t.pc \in {"rf_done", "wf_done"} => Got(t.b, t.f)
  /\ t.pc = "w_lock" => St(t.b) = "LDISK" /\ X(h).file = Path(t.b)
  /\ t.pc = "wf_lock" => St(t.b) \in Remote /\ t.f = Path(t.b)

JobI(l) ==
  LET d == dl[l] IN
  /\ d.pc \notin {"idle", "open"} => Own(d.b, d.f)
  /\ d.pc \notin {"idle", "open", "lock"} => disk.flock[d.f] = l
  /\ d.pc \in {"get", "done", "stat", "both"} => Marked(d.b, d.f, d.seq)
  /\ d.pc \in {"done", "stat", "both"} => Got(d.b, d.f)
  /\ d.pc = "undo" => Path(d.b) # d.f

(* The cached file of handle h, unless the count does not vouch for it.    *)
CachedI(h) ==
  LET x == X(h) IN
  x.open \in Blocks =>
    /\ Own(x.open, x.file)
    /\ h \notin gh.loose => x.cnt <= Cnt(x.open)
    /\ h \notin gh.loose /\ x.cnt = Cnt(x.open) => x.file = Path(x.open)
    /\ x.file = Path(x.open) => St(x.open) \notin Remote

(* No handle has cached a file that is being filled.                       *)
NoReader ==
  \A g \in Handles : X(g).open \in Blocks =>
    /\ \A h \in Handles : T(h).pc \in {"rf_get", "wf_get", "wf_done"} => X(g).file # T(h).f
    /\ \A l \in Loaders : dl[l].pc = "get" => X(g).file # dl[l].f

(* What handle h reads, as long as nothing modifies the block.             *)
ReadI(h) ==
  LET t == T(h)
      same == gh.ver[t.b] = t.ver IN
  t.pc # "idle" =>
    /\ t.ver <= gh.ver[t.b]
    /\ same /\ t.pc = "relook" /\ X(h).open = t.b => Data(X(h).file) = gh.cur[t.b]
    /\ same /\ t.pc = "pread" => Data(X(h).file) = gh.cur[t.b]
    /\ same /\ t.pc = "replied" => t.res = gh.cur[t.b]
    /\ same /\ t.pc \in {"rf_get", "rf_done"} => Path(t.b) = t.f

LocalBlocks == {b \in Blocks : St(b) \in Local}
Ahead == {l \in Loaders : dl[l].pc = "both"}
CountI == disk.cache = Cardinality(LocalBlocks) + Cardinality(Ahead)

(***************************************************************************)
(* The upload.                                                             *)
(***************************************************************************)
Active == up.pc \in {"check"} \cup Sending
SendsIn(b, pcs) == up.pc \in pcs /\ up.b = b

(* The snapshot s of block b.                                              *)
ShotI(b) ==
  LET s == up.snap[b] IN
  /\ s.seq <= up.cur /\ s.back <= up.cur
  /\ s.st \in Gone => gh.snap[b] = {}
  /\ s.st \notin Gone => gh.snap[b] # {}
  /\ s.fin /\ s.st \notin Gone => s.ex /\ s.toseq = s.seq
  /\ ~(s.fin /\ s.st \notin Gone) => ~s.ex /\ s.toseq = 0
  /\ Active /\ b \notin up.todo => s.fin
  /\ Active /\ b \in up.todo /\ s.fin => SendsIn(b, {"both"})
  /\ SendsIn(b, {"both"}) => s.fin
  /\ up.pc = "delete" => s.fin

(* A block that was not modified since the snapshot is as the snapshot     *)
(* has it; a modified one has a later number.                              *)
SeqI(b) ==
  LET s == up.snap[b] IN
  St(b) \notin Gone /\ ~Writing(b) =>
    \/ Num(b) = s.seq /\ s.st \notin Gone /\ gh.cur[b] = gh.snap[b]
    \/ Num(b) > up.cur /\ St(b) = "LDISK"

(* A block that is still to be uploaded: there is a copy, or the block is  *)
(* unmodified.                                                             *)
CopyI(b) ==
  LET s == up.snap[b] IN
  Active /\ s.st \in Dirty /\ b \in up.todo =>
    /\ ~s.fin => disk.to[b] \in {Absent, gh.snap[b]}
    /\ ~s.fin /\ disk.to[b] = Absent =>
         /\ St(b) \in Dirty /\ Num(b) = s.seq /\ gh.cur[b] = gh.snap[b] /\ ~Writing(b)
         /\ ~SendsIn(b, {"put", "finish"})
    /\ St(b) \notin Gone /\ ~Writing(b) /\ Num(b) = s.seq =>
         /\ St(b) \in Dirty
         /\ SendsIn(b, Sending) => St(b) = "LtoC"

(* What the snapshot needs of the cloud is there.                          *)
StoredI(b) ==
  LET s == up.snap[b] IN
  Active /\ s.st \notin Gone /\ (s.st \notin Dirty \/ s.fin \/ SendsIn(b, {"finish"})) =>
    cloud.obj[b][s.seq] = gh.snap[b]

(* After its turn a block is dirty only by later modifications.            *)
LaterI(b) ==
  /\ Active /\ (up.snap[b].st \notin Dirty \/ b \notin up.todo) /\ St(b) \in Dirty /\ ~Writing(b)
       => Num(b) > up.cur
  /\ up.pc = "delete" /\ St(b) \in Dirty /\ ~Writing(b) => Num(b) > up.cur

(* The metadata in the cloud.                                              *)
CloudI(b) ==
  LET c == cloud.meta[b] IN
  /\ c.ex => cloud.obj[b][c.seq] = gh.cloud[b]
  /\ ~c.ex => gh.cloud[b] = {}
  /\ c.seq <= meta.fin /\ (~meta.inc => c.seq < meta.fin)
  /\ St(b) \in Dirty /\ ~Writing(b) /\ c.ex => c.seq # Num(b)
  /\ Active /\ up.snap[b].st \in Dirty /\ c.ex => c.seq # up.snap[b].seq
  /\ Active \/ up.pc = "revert" => (c.ex => up.snap[b].back = c.seq) /\ (~c.ex => up.snap[b].back = 0)
  /\ up.pc = "delete" => (c.ex <=> up.snap[b].st \notin Gone)
  /\ up.pc = "delete" /\ c.ex => c.seq = up.snap[b].seq
  /\ up.pc = "idle" => disk.to[b] = Absent

NumbersI == up.pc # "idle" => (meta.inc => meta.fin = up.cur) /\ (~meta.inc => meta.fin > up.cur)

UpI(b) ==
  /\ up.pc # "idle" => ShotI(b) /\ SeqI(b)
  /\ CopyI(b) /\ StoredI(b) /\ LaterI(b) /\ CloudI(b)

Core ==
  /\ LockI /\ PathsI /\ NoReader /\ CountI /\ NumbersI
  /\ \A b \in Blocks : StatusI(b) /\ UpI(b)
  /\ \A h \in Handles : ReqI(h) /\ CachedI(h) /\ ReadI(h)
  /\ \A l \in Loaders : JobI(l)

BlockInv == Types /\ (Clean => Core)

(***************************************************************************)
(* A request that waits for room for a copy waits for the upload that is   *)
(* on, or has outlived it: hazards or not.                                 *)
(***************************************************************************)
Waits(h) ==
  T(h).pc = "copy" => T(h).seq <= meta.fin /\ (up.pc # "idle" => T(h).seq <= up.cur)
CopyWait ==
  /\ up.pc # "idle" => up.cur <= meta.fin
  /\ \A h \in Handles : Waits(h)

-----------------------------------------------------------------------------
(***************************************************************************)
(* The operators of the model.                                             *)
(***************************************************************************)
(* What the constants are.                                                 *)
LEMMA ConstantFacts ==
  /\ MaxFiles \in Nat /\ MaxMod \in Nat /\ MaxPage \in Nat /\ MaxSeq = 1 + MaxMod
  /\ MaxRead \in Nat /\ MaxLoad \in Nat /\ MaxUpload \in Nat /\ MaxFail \in Nat
  /\ MaxSleep \in Nat /\ MaxPin \in Nat
  /\ Blocks \subseteq Nat /\ -1 \notin Blocks /\ 0 \notin Files /\ Files \subseteq Nat
  /\ NoOne \notin Procs /\ Absent \notin Marks
  /\ Handles \subseteq Procs /\ Loaders \subseteq Procs
  /\ \A p \in Handles : p \notin Loaders
<1>1. /\ MaxFiles \in Nat /\ MaxMod \in Nat /\ MaxPage \in Nat /\ MaxSeq = 1 + MaxMod
      /\ MaxRead \in Nat /\ MaxLoad \in Nat /\ MaxUpload \in Nat /\ MaxFail \in Nat
      /\ MaxSleep \in Nat /\ MaxPin \in Nat
  BY BlockCacheAssumption DEF MaxSeq
<1>2. /\ Blocks \subseteq Nat /\ -1 \notin Blocks /\ 0 \notin Files /\ Files \subseteq Nat
  BY <1>1, BlockCacheAssumption DEF Files
<1>3. NoOne \notin Procs /\ Handles \subseteq Procs /\ Loaders \subseteq Procs
  BY BlockCacheAssumption DEF NoOne, Procs
<1>4. Absent \notin Marks
  <2>1. -1 \in Absent
    BY DEF Absent
  <2>2. -1 \notin 0..MaxMod
    BY <1>1
  <2> QED
    BY <2>1, <2>2 DEF Marks
<1>5. \A p \in Handles : p \notin Loaders
  BY BlockCacheAssumption
<1> QED
  BY <1>1, <1>2, <1>3, <1>4, <1>5

(* SetSt changes the status of one block.                                  *)
LEMMA SetStIs ==
  ASSUME NEW M \in MetaSet, NEW b \in Blocks, NEW s \in Statuses
  PROVE  /\ SetSt(M, b, s) \in MetaSet
         /\ SetSt(M, b, s).fin = M.fin /\ SetSt(M, b, s).inc = M.inc
         /\ SetSt(M, b, s).pin = M.pin /\ SetSt(M, b, s).lock = M.lock
         /\ SetSt(M, b, s).blk[b].st = s /\ SetSt(M, b, s).blk[b].seq = M.blk[b].seq
         /\ SetSt(M, b, s).blk[b].cnt = M.blk[b].cnt
         /\ \A c \in Blocks \ {b} : SetSt(M, b, s).blk[c] = M.blk[c]
<1> PICK e : e = [M.blk[b] EXCEPT !.st = s]
  OBVIOUS
<1>1. M.blk \in [Blocks -> Entry] /\ M.blk[b] \in Entry
  BY DEF MetaSet
<1>2. e \in Entry /\ e.st = s /\ e.seq = M.blk[b].seq /\ e.cnt = M.blk[b].cnt
  BY <1>1 DEF Entry, Statuses
<1> PICK B : B = [M.blk EXCEPT ![b] = e]
  OBVIOUS
<1>3. B \in [Blocks -> Entry] /\ B[b] = e /\ \A c \in Blocks \ {b} : B[c] = M.blk[c]
  BY <1>1, <1>2
<1>4. SetSt(M, b, s) = [M EXCEPT !.blk = B]
  BY <1>1 DEF SetSt, MetaSet
<1>5. /\ [M EXCEPT !.blk = B] \in MetaSet /\ [M EXCEPT !.blk = B].blk = B
      /\ [M EXCEPT !.blk = B].fin = M.fin /\ [M EXCEPT !.blk = B].inc = M.inc
      /\ [M EXCEPT !.blk = B].pin = M.pin /\ [M EXCEPT !.blk = B].lock = M.lock
  BY <1>3 DEF MetaSet
<1> QED
  BY ONLY <1>2, <1>3, <1>4, <1>5

(* update_block_seq changes the number of one block.                       *)
LEMMA BlockSeqIs ==
  ASSUME NEW M \in MetaSet, NEW b \in Blocks, NEW n \in 0..MaxSeq
  PROVE  /\ update_block_seq(M, b, n) \in MetaSet
         /\ update_block_seq(M, b, n).fin = M.fin /\ update_block_seq(M, b, n).inc = M.inc
         /\ update_block_seq(M, b, n).pin = M.pin /\ update_block_seq(M, b, n).lock = M.lock
         /\ update_block_seq(M, b, n).blk[b].st = M.blk[b].st
         /\ update_block_seq(M, b, n).blk[b].seq = n
         /\ update_block_seq(M, b, n).blk[b].cnt = M.blk[b].cnt
         /\ \A c \in Blocks \ {b} : update_block_seq(M, b, n).blk[c] = M.blk[c]
<1> PICK e : e = [M.blk[b] EXCEPT !.seq = n]
  OBVIOUS
<1>1. M.blk \in [Blocks -> Entry] /\ M.blk[b] \in Entry
  BY DEF MetaSet
<1>2. e \in Entry /\ e.st = M.blk[b].st /\ e.seq = n /\ e.cnt = M.blk[b].cnt
  BY <1>1 DEF Entry
<1> PICK B : B = [M.blk EXCEPT ![b] = e]
  OBVIOUS
<1>3. B \in [Blocks -> Entry] /\ B[b] = e /\ \A c \in Blocks \ {b} : B[c] = M.blk[c]
  BY <1>1, <1>2
<1>4. update_block_seq(M, b, n) = [M EXCEPT !.blk = B]
  BY <1>1 DEF update_block_seq, MetaSet
<1>5. /\ [M EXCEPT !.blk = B] \in MetaSet /\ [M EXCEPT !.blk = B].blk = B
      /\ [M EXCEPT !.blk = B].fin = M.fin /\ [M EXCEPT !.blk = B].inc = M.inc
      /\ [M EXCEPT !.blk = B].pin = M.pin /\ [M EXCEPT !.blk = B].lock = M.lock
  BY <1>3 DEF MetaSet
<1> QED
  BY ONLY <1>2, <1>3, <1>4, <1>5

(* Lock and Unlock change the lock's value only.                           *)
LEMMA LockIs ==
  ASSUME NEW M \in MetaSet
  PROVE  /\ Lock(M) \in MetaSet /\ Lock(M).lock = 0
         /\ Lock(M).blk = M.blk /\ Lock(M).fin = M.fin /\ Lock(M).inc = M.inc /\ Lock(M).pin = M.pin
         /\ Unlock(M) \in MetaSet /\ Unlock(M).lock = 1
         /\ Unlock(M).blk = M.blk /\ Unlock(M).fin = M.fin /\ Unlock(M).inc = M.inc
         /\ Unlock(M).pin = M.pin
BY DEF Lock, Unlock, MetaSet

(* update_meta_seq: the number of the file after it, if it is due.         *)
LEMMA MetaSeqIs ==
  ASSUME NEW M \in MetaSet, M.fin + 1 \in 0..MaxSeq
  PROVE  /\ update_meta_seq(M) \in MetaSet /\ update_meta_seq(M).blk = M.blk
         /\ update_meta_seq(M).pin = M.pin /\ update_meta_seq(M).lock = M.lock
         /\ ~update_meta_seq(M).inc
         /\ M.inc => update_meta_seq(M).fin = M.fin + 1
         /\ ~M.inc => update_meta_seq(M).fin = M.fin
<1>1. CASE M.inc
  <2> PICK N : N = [M EXCEPT !.fin = M.fin + 1, !.inc = FALSE]
    OBVIOUS
  <2>1. update_meta_seq(M) = N
    BY <1>1 DEF update_meta_seq
  <2>2. N \in MetaSet /\ N.blk = M.blk /\ N.pin = M.pin /\ N.lock = M.lock /\ ~N.inc /\ N.fin = M.fin + 1
    BY DEF MetaSet
  <2> QED
    BY ONLY <1>1, <2>1, <2>2
<1>2. CASE ~M.inc
  BY <1>2 DEF update_meta_seq
<1> QED
  BY <1>1, <1>2

(* Flock and Funlock change who holds the files.                           *)
LEMMA FlockIs ==
  ASSUME NEW D \in DiskSet, NEW f \in Files, NEW p \in Procs
  PROVE  /\ Flock(D, f, p) \in DiskSet
         /\ Flock(D, f, p).path = D.path /\ Flock(D, f, p).data = D.data
         /\ Flock(D, f, p).to = D.to /\ Flock(D, f, p).cache = D.cache
         /\ Flock(D, f, p).flock[f] = p
         /\ \A g \in Files \ {f} : Flock(D, f, p).flock[g] = D.flock[g]
<1> PICK L : L = [D.flock EXCEPT ![f] = p]
  OBVIOUS
<1>1. L \in [Files -> Procs \cup {NoOne}] /\ L[f] = p /\ \A g \in Files \ {f} : L[g] = D.flock[g]
  BY DEF DiskSet
<1>2. Flock(D, f, p) = [D EXCEPT !.flock = L]
  BY DEF Flock, DiskSet
<1>3. /\ [D EXCEPT !.flock = L] \in DiskSet /\ [D EXCEPT !.flock = L].flock = L
      /\ [D EXCEPT !.flock = L].path = D.path /\ [D EXCEPT !.flock = L].data = D.data
      /\ [D EXCEPT !.flock = L].to = D.to /\ [D EXCEPT !.flock = L].cache = D.cache
  BY <1>1 DEF DiskSet
<1> QED
  BY ONLY <1>1, <1>2, <1>3

(* Funlock releases what p holds and nothing else.                         *)
LEMMA FunlockIs ==
  ASSUME NEW D \in DiskSet, NEW p \in Procs
  PROVE  /\ Funlock(D, p) \in DiskSet
         /\ Funlock(D, p).path = D.path /\ Funlock(D, p).data = D.data
         /\ Funlock(D, p).to = D.to /\ Funlock(D, p).cache = D.cache
         /\ \A g \in Files : D.flock[g] # p => Funlock(D, p).flock[g] = D.flock[g]
<1> PICK L : L = [f \in Files |-> IF D.flock[f] = p THEN NoOne ELSE D.flock[f]]
  OBVIOUS
<1>1. L \in [Files -> Procs \cup {NoOne}] /\ \A g \in Files : D.flock[g] # p => L[g] = D.flock[g]
  BY DEF DiskSet
<1>2. Funlock(D, p) = [D EXCEPT !.flock = L]
  BY DEF Funlock, DiskSet
<1>3. /\ [D EXCEPT !.flock = L] \in DiskSet /\ [D EXCEPT !.flock = L].flock = L
      /\ [D EXCEPT !.flock = L].path = D.path /\ [D EXCEPT !.flock = L].data = D.data
      /\ [D EXCEPT !.flock = L].to = D.to /\ [D EXCEPT !.flock = L].cache = D.cache
  BY <1>1 DEF DiskSet
<1> QED
  BY ONLY <1>1, <1>2, <1>3

(* Unlinked, Counted and data written into a file.                         *)
LEMMA UnlinkedIs ==
  ASSUME NEW D \in DiskSet, NEW b \in Blocks
  PROVE  /\ Unlinked(D, b) \in DiskSet
         /\ Unlinked(D, b).flock = D.flock /\ Unlinked(D, b).data = D.data
         /\ Unlinked(D, b).to = D.to /\ Unlinked(D, b).cache = D.cache
         /\ Unlinked(D, b).path[b] = 0
         /\ \A c \in Blocks \ {b} : Unlinked(D, b).path[c] = D.path[c]
<1> PICK P : P = [D.path EXCEPT ![b] = 0]
  OBVIOUS
<1>1. P \in [Blocks -> Files \cup {0}] /\ P[b] = 0 /\ \A c \in Blocks \ {b} : P[c] = D.path[c]
  BY DEF DiskSet
<1>2. Unlinked(D, b) = [D EXCEPT !.path = P]
  BY DEF Unlinked, DiskSet
<1>3. /\ [D EXCEPT !.path = P] \in DiskSet /\ [D EXCEPT !.path = P].path = P
      /\ [D EXCEPT !.path = P].flock = D.flock /\ [D EXCEPT !.path = P].data = D.data
      /\ [D EXCEPT !.path = P].to = D.to /\ [D EXCEPT !.path = P].cache = D.cache
  BY <1>1 DEF DiskSet
<1> QED
  BY ONLY <1>1, <1>2, <1>3

(* Counted adds one to the count of the cache.                             *)
LEMMA CountedIs ==
  ASSUME NEW D \in DiskSet
  PROVE  /\ Counted(D) \in DiskSet /\ Counted(D).cache = D.cache + 1
         /\ Counted(D).path = D.path /\ Counted(D).data = D.data
         /\ Counted(D).flock = D.flock /\ Counted(D).to = D.to
BY DEF Counted, DiskSet

Filled(D, f, v) == [D EXCEPT !.data[f] = v]
Copied(D, b, v) == [D EXCEPT !.to[b] = v]
Flagged(G, K) == [G EXCEPT !.known = G.known \cup K]

(* Data written into one file.                                             *)
LEMMA FilledIs ==
  ASSUME NEW D \in DiskSet, NEW f \in Files, NEW v \in Marks, NEW E, E = Filled(D, f, v)
  PROVE  /\ E \in DiskSet /\ E.path = D.path /\ E.flock = D.flock /\ E.to = D.to /\ E.cache = D.cache
         /\ E.data[f] = v /\ \A g \in Files \ {f} : E.data[g] = D.data[g]
<1> PICK V : V = [D.data EXCEPT ![f] = v]
  OBVIOUS
<1>1. V \in [Files -> Marks] /\ V[f] = v /\ \A g \in Files \ {f} : V[g] = D.data[g]
  BY DEF DiskSet
<1>2. E = [D EXCEPT !.data = V]
  BY DEF DiskSet, Filled
<1>3. /\ [D EXCEPT !.data = V] \in DiskSet /\ [D EXCEPT !.data = V].data = V
      /\ [D EXCEPT !.data = V].flock = D.flock /\ [D EXCEPT !.data = V].path = D.path
      /\ [D EXCEPT !.data = V].to = D.to /\ [D EXCEPT !.data = V].cache = D.cache
  BY <1>1 DEF DiskSet
<1> QED
  BY ONLY <1>1, <1>2, <1>3

(* A copy for the upload.                                                  *)
LEMMA CopiedIs ==
  ASSUME NEW D \in DiskSet, NEW b \in Blocks, NEW v \in Contents, NEW E, E = Copied(D, b, v)
  PROVE  /\ E \in DiskSet /\ E.path = D.path /\ E.flock = D.flock /\ E.data = D.data /\ E.cache = D.cache
         /\ E.to[b] = v /\ \A c \in Blocks \ {b} : E.to[c] = D.to[c]
<1> PICK V : V = [D.to EXCEPT ![b] = v]
  OBVIOUS
<1>1. V \in [Blocks -> Contents] /\ V[b] = v /\ \A c \in Blocks \ {b} : V[c] = D.to[c]
  BY DEF DiskSet
<1>2. E = [D EXCEPT !.to = V]
  BY DEF DiskSet, Copied
<1>3. /\ [D EXCEPT !.to = V] \in DiskSet /\ [D EXCEPT !.to = V].to = V
      /\ [D EXCEPT !.to = V].flock = D.flock /\ [D EXCEPT !.to = V].path = D.path
      /\ [D EXCEPT !.to = V].data = D.data /\ [D EXCEPT !.to = V].cache = D.cache
  BY <1>1 DEF DiskSet
<1> QED
  BY ONLY <1>1, <1>2, <1>3

(* check_and_copy_file keeps a copy that is not empty, and otherwise       *)
(* copies the file.                                                        *)
LEMMA CheckCopyIs ==
  ASSUME NEW D \in DiskSet, NEW b \in Blocks, NEW E, E = check_and_copy_file(D, b)
  PROVE  /\ E \in DiskSet /\ E.path = D.path /\ E.flock = D.flock /\ E.data = D.data /\ E.cache = D.cache
         /\ D.to[b] \notin {Absent, {}} => E.to[b] = D.to[b]
         /\ D.to[b] \in {Absent, {}} /\ D.path[b] # 0 => E.to[b] = D.data[D.path[b]]
         /\ \A c \in Blocks \ {b} : E.to[c] = D.to[c]
<1>1. CASE D.to[b] \notin {Absent, {}}
  BY <1>1 DEF check_and_copy_file
<1>2. CASE D.to[b] \in {Absent, {}}
  <2> PICK v : v = IF D.path[b] = 0 THEN {} ELSE D.data[D.path[b]]
    OBVIOUS
  <2>1. v \in Marks
    BY DEF DiskSet, Marks
  <2>2. v \in Contents
    BY <2>1 DEF Contents, Marks
  <2>3. E = Copied(D, b, v)
    BY <1>2 DEF check_and_copy_file, Copied
  <2>4. /\ E \in DiskSet /\ E.path = D.path /\ E.flock = D.flock /\ E.data = D.data
        /\ E.cache = D.cache /\ E.to[b] = v /\ \A c \in Blocks \ {b} : E.to[c] = D.to[c]
    BY <2>2, <2>3, CopiedIs
  <2> QED
    BY ONLY <1>2, <2>4, v = IF D.path[b] = 0 THEN {} ELSE D.data[D.path[b]]
<1> QED
  BY <1>1, <1>2

(* Create leaves a file at the path: the one that is there, or a new one   *)
(* that nobody uses.                                                       *)
LEMMA CreateIs ==
  ASSUME disk \in DiskSet, NEW b \in Blocks, CanCreate(b), NEW E, E = Create(b)
  PROVE  /\ E \in DiskSet /\ E.flock = disk.flock /\ E.to = disk.to /\ E.cache = disk.cache
         /\ E.path[b] \in Files
         /\ \A c \in Blocks \ {b} : E.path[c] = disk.path[c]
         /\ disk.path[b] # 0 => E = disk
         /\ disk.path[b] = 0 =>
              /\ E.path[b] \notin Used /\ E.data[E.path[b]] = {}
              /\ \A f \in Files \ {E.path[b]} : E.data[f] = disk.data[f]
<1>1. CASE disk.path[b] # 0
  <2>1. disk.path[b] \in Files
    BY <1>1 DEF DiskSet
  <2> QED
    BY <1>1, <2>1 DEF Create
<1>2. CASE disk.path[b] = 0
  <2>1. NewFile \in Files /\ NewFile \notin Used
    BY <1>2 DEF CanCreate, NewFile
  <2> PICK n : n = NewFile
    OBVIOUS
  <2> PICK P : P = [disk.path EXCEPT ![b] = n]
    OBVIOUS
  <2> PICK V : V = [disk.data EXCEPT ![n] = {}]
    OBVIOUS
  <2>2. P \in [Blocks -> Files \cup {0}] /\ P[b] = n /\ \A c \in Blocks \ {b} : P[c] = disk.path[c]
    BY <2>1 DEF DiskSet
  <2>3. V \in [Files -> Marks] /\ V[n] = {} /\ \A f \in Files \ {n} : V[f] = disk.data[f]
    BY <2>1 DEF DiskSet, Marks
  <2>4. E = [disk EXCEPT !.path = P, !.data = V]
    BY <1>2 DEF Create, DiskSet
  <2> PICK F : F = [disk EXCEPT !.path = P, !.data = V]
    OBVIOUS
  <2>5. /\ F \in DiskSet /\ F.path = P /\ F.data = V /\ F.flock = disk.flock
        /\ F.to = disk.to /\ F.cache = disk.cache
    BY <2>2, <2>3 DEF DiskSet
  <2>6. E = F
    BY <2>4
  <2> QED
    BY ONLY <1>2, <2>1, <2>2, <2>3, <2>5, <2>6, n = NewFile
<1> QED
  BY <1>1, <1>2

(* A handle's request and cached file change, nobody else's.               *)
LEMMA GoIs ==
  ASSUME ThTypes, NEW h \in Handles, NEW t \in ReqSet, NEW x \in CachedSet, Go(h, t, x)
  PROVE  /\ ThTypes' /\ T(h)' = t /\ X(h)' = x
         /\ \A g \in Handles \ {h} : T(g)' = T(g) /\ X(g)' = X(g)
<1> PICK r : r = [t |-> t, h |-> x]
  OBVIOUS
<1>1. r \in [t : ReqSet, h : CachedSet] /\ r.t = t /\ r.h = x
  OBVIOUS
<1>2. th' = [th EXCEPT ![h] = r]
  BY DEF Go
<1>3. th' \in [Handles -> [t : ReqSet, h : CachedSet]] /\ th'[h] = r
      /\ \A g \in Handles \ {h} : th'[g] = th[g]
  BY <1>1, <1>2 DEF ThTypes
<1> QED
  BY ONLY <1>1, <1>3 DEF ThTypes, T, X

(* A download thread changes, no other does.                               *)
LEMMA GoDlIs ==
  ASSUME DlTypes, NEW l \in Loaders, NEW d \in JobSet, GoDl(l, d)
  PROVE  DlTypes' /\ dl'[l] = d /\ \A k \in Loaders \ {l} : dl'[k] = dl[k]
BY DEF GoDl, DlTypes

(* Hazards are added, and nothing else of the history changes.             *)
LEMMA KnownIs ==
  ASSUME NEW G \in GhSet, NEW K \in SUBSET Hazards, NEW E, E = Flagged(G, K)
  PROVE  /\ E \in GhSet /\ E.known = G.known \cup K
         /\ E.cur = G.cur /\ E.snap = G.snap /\ E.cloud = G.cloud /\ E.ver = G.ver /\ E.loose = G.loose
BY DEF GhSet, Flagged

-----------------------------------------------------------------------------
(***************************************************************************)
(* What a step of process p may do to the blocks of the others.            *)
(***************************************************************************)
KeepsPath(c) == Path(c)' \in {Path(c), 0} \/ (Path(c) = 0 /\ Path(c)' \notin Used)
KeepsVersion(c) ==
  gh'.ver[c] > gh.ver[c] \/ (gh'.ver[c] = gh.ver[c] /\ gh'.cur[c] = gh.cur[c])
KeepsDownload(p, c) ==
  \/ Path(c)' # Path(c) \/ Path(c) = 0 \/ St(c) # "CtoL" \/ disk.flock[Path(c)] = p
  \/ /\ St(c)' = "CtoL" /\ Num(c)' = Num(c) /\ gh'.cur[c] = gh.cur[c]
     /\ disk'.data[Path(c)] = disk.data[Path(c)]
KeepsCached(c) ==
  /\ \/ Holders(c) \subseteq gh'.loose
     \/ Cnt(c)' > Cnt(c)
     \/ Cnt(c)' = Cnt(c) /\ Path(c)' = Path(c)
     \/ Cnt(c)' = Cnt(c) /\ \A g \in Handles : X(g).open = c => X(g).file # Path(c)
  /\ Path(c)' = Path(c) /\ Path(c) # 0 /\ St(c) \notin Remote => St(c)' \notin Remote
KeepsRead(p, c) ==
  \/ Path(c)' = Path(c) \/ Path(c) = 0 \/ gh'.ver[c] > gh.ver[c] \/ St(c) # "CtoL"
  \/ \A g \in Handles \ {p} : T(g).f # Path(c)
GentleAt(p, c) ==
  KeepsPath(c) /\ KeepsVersion(c) /\ KeepsDownload(p, c) /\ KeepsCached(c) /\ KeepsRead(p, c)

GentleData(f) ==
  \/ disk'.data[f] = disk.data[f]
  \/ \E c \in Blocks : Path(c) = f /\ gh'.ver[c] > gh.ver[c]
  \/ \A g \in Handles : X(g).open \in Blocks => X(g).file # f

GentleInside(p) ==
  \/ \A g \in Handles \ {p} : T(g).pc \notin Inside
  \/ \A c \in Blocks : St(c)' = St(c) /\ (Path(c) # 0 => Path(c)' = Path(c))

Gentle(p) ==
  /\ \A f \in Files, q \in Procs \ {p} : disk.flock[f] = q => disk'.flock[f] = q
  /\ \A c \in Blocks : GentleAt(p, c)
  /\ \A f \in Files : GentleData(f)
  /\ \A g \in Handles \ {p} : g \in gh.loose => g \in gh'.loose
  /\ GentleInside(p)

(* A block that a step leaves as it is.                                    *)
SameAt(c) ==
  /\ meta'.blk[c] = meta.blk[c] /\ Path(c)' = Path(c)
  /\ gh'.cur[c] = gh.cur[c] /\ gh'.ver[c] = gh.ver[c]
  /\ Path(c) # 0 => disk'.data[Path(c)] = disk.data[Path(c)]

(* A block left as it is is left gently.                                   *)
LEMMA SameIsGentle ==
  ASSUME NEW p, NEW c, SameAt(c)
  PROVE  GentleAt(p, c)
BY DEF SameAt, GentleAt, KeepsPath, KeepsVersion, KeepsDownload, KeepsCached, KeepsRead, St, Num, Cnt

(* A file in use stays the file of its block.                              *)
LEMMA OwnKept ==
  ASSUME NEW p, NEW b \in Blocks, NEW f \in Files, f \in Used, Own(b, f), 0 \notin Files,
         \A c \in Blocks : GentleAt(p, c)
  PROVE  Own(b, f)' /\ (Path(b)' = f => Path(b) = f)
<1>1. \A c \in Blocks : Path(c)' = f => Path(c) = f
  BY DEF GentleAt, KeepsPath
<1> QED
  BY <1>1 DEF Own

(* A download of another process stays marked, and its data in place.      *)
LEMMA MarkedKept ==
  ASSUME NEW p, NEW q, q # p, NEW b \in Blocks, NEW f \in Files, NEW n, f \in Used, 0 \notin Files,
         GentleAt(p, b), disk.flock[f] = q, Marked(b, f, n)
  PROVE  Marked(b, f, n)' /\ (Got(b, f) => Got(b, f)')
<1> SUFFICES ASSUME Path(b)' = f
             PROVE  St(b)' = "CtoL" /\ n = Num(b)' /\ (Got(b, f) => disk'.data[f] = gh'.cur[b])
  BY DEF Marked, Got, Data
<1>1. Path(b) = f
  BY DEF GentleAt, KeepsPath
<1>2. St(b) = "CtoL" /\ n = Num(b)
  BY <1>1 DEF Marked
<1>3. /\ St(b)' = "CtoL" /\ Num(b)' = Num(b) /\ gh'.cur[b] = gh.cur[b]
      /\ disk'.data[Path(b)] = disk.data[Path(b)]
  BY <1>1, <1>2 DEF GentleAt, KeepsDownload
<1> QED
  BY <1>1, <1>2, <1>3 DEF Got, Data

(* What the invariant says of the cached file of a handle.                 *)
LEMMA CachedKept ==
  ASSUME Types, Types', Core, NEW p, \A c \in Blocks : GentleAt(p, c), NEW g \in Handles,
         X(g)' = X(g), g \in gh.loose => g \in gh'.loose
  PROVE  CachedI(g)'
<1> USE ConstantFacts
<1>x. PICK x : x = X(g)
  OBVIOUS
<1>t. x \in CachedSet /\ ReqOK(T(g), x) /\ X(g)' = x
  BY <1>x DEF Types, ThTypes, T, X
<1>u. x.file \in Used
  BY <1>x DEF Used, X
<1>g. (\A c \in Blocks : GentleAt(p, c)) /\ (g \in gh.loose => g \in gh'.loose)
  OBVIOUS
<1>c. CachedI(g)
  BY DEF Core
<1> SUFFICES ASSUME x.open \in Blocks
             PROVE  /\ Own(x.open, x.file)'
                    /\ g \notin gh'.loose => x.cnt <= Cnt(x.open)'
                    /\ g \notin gh'.loose /\ x.cnt = Cnt(x.open)' => x.file = Path(x.open)'
                    /\ x.file = Path(x.open)' => St(x.open)' \notin Remote
  BY <1>t DEF CachedI
<1>1. x.file \in Files
  BY <1>t DEF ReqOK
<1>2. /\ Own(x.open, x.file)
      /\ g \notin gh.loose => x.cnt <= Cnt(x.open)
      /\ g \notin gh.loose /\ x.cnt = Cnt(x.open) => x.file = Path(x.open)
      /\ x.file = Path(x.open) => St(x.open) \notin Remote
  BY <1>x, <1>c DEF CachedI
<1>3. Own(x.open, x.file)' /\ (Path(x.open)' = x.file => Path(x.open) = x.file)
  BY <1>1, <1>2, <1>u, <1>g, OwnKept
<1>4. KeepsCached(x.open)
  BY <1>g DEF GentleAt
<1>5. x.file = Path(x.open)' => St(x.open)' \notin Remote
  BY <1>1, <1>2, <1>3, <1>4 DEF KeepsCached
<1>6. g \in Holders(x.open)
  BY <1>x DEF Holders
<1>7. x.cnt \in Nat /\ Cnt(x.open) \in Nat /\ Cnt(x.open)' \in Nat
  <2>1. x.cnt \in 0..MaxPage
    BY <1>t DEF CachedSet
  <2>2. meta.blk[x.open] \in Entry /\ meta'.blk[x.open] \in Entry
    BY DEF Types, MetaSet
  <2>3. Cnt(x.open) \in 0..MaxPage /\ Cnt(x.open)' \in 0..MaxPage
    BY <2>2 DEF Entry, Cnt
  <2> QED
    BY <2>1, <2>3
<1>8. Cnt(x.open)' > Cnt(x.open) /\ g \notin gh'.loose =>
        x.cnt <= Cnt(x.open)' /\ x.cnt # Cnt(x.open)'
  <2>1. ASSUME NEW n \in Nat, NEW m \in Nat, NEW k \in Nat, n > m, k <= m
        PROVE  k <= n /\ k # n
    BY ONLY <2>1
  <2> QED
    BY <1>g, <1>2, <1>7, <2>1
<1>9. Cnt(x.open)' = Cnt(x.open) /\ Path(x.open)' = Path(x.open) /\ g \notin gh'.loose =>
        /\ x.cnt <= Cnt(x.open)'
        /\ x.cnt = Cnt(x.open)' => x.file = Path(x.open)'
  BY <1>g, <1>2
<1>10. Cnt(x.open)' = Cnt(x.open) /\ x.file # Path(x.open) /\ g \notin gh'.loose =>
        /\ x.cnt <= Cnt(x.open)'
        /\ x.cnt # Cnt(x.open)'
  BY <1>g, <1>2
<1> QED
  BY <1>x, <1>3, <1>4, <1>5, <1>6, <1>8, <1>9, <1>10 DEF KeepsCached

(* What the invariant says of the requests of the other handles.           *)
LEMMA OtherRequests ==
  ASSUME Types, Types', Core, NEW p, Gentle(p), NEW g \in Handles, g # p,
         T(g)' = T(g), X(g)' = X(g)
  PROVE  ReqI(g)' /\ CachedI(g)' /\ ReadI(g)'
<1> USE ConstantFacts
<1>1. PICK t : t = T(g)
  OBVIOUS
<1>2. PICK x : x = X(g)
  OBVIOUS
<1>3. t \in ReqSet /\ x \in CachedSet /\ ReqOK(t, x) /\ T(g)' = t /\ X(g)' = x
  BY <1>1, <1>2 DEF Types, ThTypes, T, X
<1>4. t.f \in Used /\ x.file \in Used
  BY <1>1, <1>2 DEF Used, T, X
<1>5. /\ \A c \in Blocks : GentleAt(p, c)
      /\ \A f \in Files : GentleData(f)
      /\ g \in gh.loose => g \in gh'.loose
      /\ \A f \in Files : disk.flock[f] = g => disk'.flock[f] = g
  BY DEF Gentle
<1>6. ReqI(g) /\ CachedI(g) /\ ReadI(g)
  BY DEF Core
<1>7. ASSUME t.pc \in RFile \cup WFile
      PROVE  /\ t.b \in Blocks /\ t.f \in Files
             /\ Own(t.b, t.f)' /\ (Path(t.b)' = t.f => Path(t.b) = t.f)
  <2>1. t.b \in Blocks /\ t.f \in Files /\ Own(t.b, t.f)
    BY <1>1, <1>3, <1>6, <1>7 DEF ReqOK, ReqI, RFile, WFile
  <2> QED
    BY <2>1, <1>4, <1>5, OwnKept
<1>8. ASSUME t.pc \in {"rf_get", "rf_done", "wf_get", "wf_done"}
      PROVE  /\ Marked(t.b, t.f, t.seq)'
             /\ t.pc \in {"rf_done", "wf_done"} => Got(t.b, t.f)'
  <2>1. t.b \in Blocks /\ t.f \in Files
    BY <1>7, <1>8 DEF RFile, WFile
  <2>2. disk.flock[t.f] = g /\ Marked(t.b, t.f, t.seq) /\ (t.pc \in {"rf_done", "wf_done"} => Got(t.b, t.f))
    BY <1>1, <1>6, <1>8 DEF ReqI
  <2>3. GentleAt(p, t.b)
    BY <1>5, <2>1
  <2> QED
    BY <2>1, <2>2, <2>3, <1>4, MarkedKept
<1>9. ASSUME t.pc \in {"w_lock", "wf_lock"}
      PROVE  /\ t.pc = "w_lock" => St(t.b)' = "LDISK" /\ x.file = Path(t.b)'
             /\ t.pc = "wf_lock" => St(t.b)' \in Remote /\ t.f = Path(t.b)'
  <2>1. t.b \in Blocks /\ t.pc \in Inside
    BY <1>3, <1>9 DEF ReqOK, Inside
  <2>2. St(t.b)' = St(t.b) /\ (Path(t.b) # 0 => Path(t.b)' = Path(t.b))
    BY <2>1, <1>1 DEF Gentle, GentleInside
  <2>3. /\ t.pc = "w_lock" => St(t.b) = "LDISK" /\ x.file = Path(t.b)
        /\ t.pc = "wf_lock" => St(t.b) \in Remote /\ t.f = Path(t.b)
    BY <1>1, <1>2, <1>6 DEF ReqI
  <2>4. t.pc = "w_lock" => x.file \in Files
    BY <1>3, <2>1 DEF ReqOK
  <2>5. t.pc = "wf_lock" => t.f \in Files
    BY <1>3 DEF ReqOK, WFile
  <2> QED
    BY <2>2, <2>3, <2>4, <2>5
<1>10. ReqI(g)'
  <2>1. t.pc \in {"rf_meta", "rf_get", "rf_done", "wf_get", "wf_done"} => disk'.flock[t.f] = g
    <3>1. t.pc \in {"rf_meta", "rf_get", "rf_done", "wf_get", "wf_done"} =>
            t.f \in Files /\ disk.flock[t.f] = g
      BY <1>1, <1>6, <1>7 DEF ReqI, RFile, WFile
    <3> QED
      BY <3>1, <1>5
  <2> QED
    BY <1>3, <1>7, <1>8, <1>9, <2>1 DEF ReqI
<1>11. CachedI(g)'
  BY <1>5, CachedKept
<1>12. ReadI(g)'
  <2> DEFINE same == gh.ver[t.b] = t.ver
  <2> SUFFICES ASSUME t.pc # "idle"
               PROVE  /\ t.ver <= gh'.ver[t.b]
                      /\ gh'.ver[t.b] = t.ver =>
                           /\ t.pc = "relook" /\ x.open = t.b => disk'.data[x.file] = gh'.cur[t.b]
                           /\ t.pc = "pread" => disk'.data[x.file] = gh'.cur[t.b]
                           /\ t.pc = "replied" => t.res = gh'.cur[t.b]
                           /\ t.pc \in {"rf_get", "rf_done"} => Path(t.b)' = t.f
    BY <1>3 DEF ReadI, Data
  <2>1. t.b \in Blocks
    BY <1>3 DEF ReqOK
  <2>2. /\ t.ver <= gh.ver[t.b]
        /\ same /\ t.pc = "relook" /\ x.open = t.b => disk.data[x.file] = gh.cur[t.b]
        /\ same /\ t.pc = "pread" => disk.data[x.file] = gh.cur[t.b]
        /\ same /\ t.pc = "replied" => t.res = gh.cur[t.b]
        /\ same /\ t.pc \in {"rf_get", "rf_done"} => Path(t.b) = t.f
    BY <1>1, <1>2, <1>6 DEF ReadI, Data
  <2>3. gh'.ver[t.b] > gh.ver[t.b] \/ (gh'.ver[t.b] = gh.ver[t.b] /\ gh'.cur[t.b] = gh.cur[t.b])
    BY <2>1, <1>5 DEF GentleAt, KeepsVersion
  <2>4. t.ver \in Nat /\ gh.ver[t.b] \in Nat /\ gh'.ver[t.b] \in Nat
    BY <1>3, <2>1 DEF ReqSet, Types, GhSet
  <2>5. CASE gh'.ver[t.b] > gh.ver[t.b]
    <3>1. ASSUME NEW n \in Nat, NEW m \in Nat, NEW k \in Nat, n > m, k <= m
          PROVE  k <= n /\ n # k
      BY ONLY <3>1
    <3>2. t.ver <= gh'.ver[t.b] /\ gh'.ver[t.b] # t.ver
      BY <2>2, <2>4, <2>5, <3>1
    <3> QED
      BY <3>2
  <2>6. CASE gh'.ver[t.b] = gh.ver[t.b] /\ gh'.cur[t.b] = gh.cur[t.b]
    <3>1. t.ver <= gh'.ver[t.b]
      BY <2>2, <2>6
    <3>2. ASSUME same, x.open = t.b
          PROVE  disk'.data[x.file] = disk.data[x.file]
      <4>1. x.file \in Files
        BY <1>3, <2>1, <3>2 DEF ReqOK
      <4>2. GentleData(x.file)
        BY <4>1, <1>5
      <4>3. \A c \in Blocks : Path(c) = x.file => c = t.b
        BY <1>2, <1>6, <2>1, <3>2 DEF CachedI, Own
      <4>4. ~(gh'.ver[t.b] > gh.ver[t.b])
        BY <2>4, <2>6
      <4> QED
        BY <4>2, <4>3, <4>4, <1>2, <2>1, <3>2 DEF GentleData
    <3>3. t.pc = "pread" => x.open = t.b
      BY <1>3 DEF ReqOK
    <3>4. ASSUME same, t.pc \in {"rf_get", "rf_done"}
          PROVE  Path(t.b)' = t.f
      <4>1. Path(t.b) = t.f /\ t.f \in Files
        BY <2>2, <3>4, <1>7 DEF RFile
      <4>2. St(t.b) = "CtoL"
        BY <4>1, <1>1, <1>6, <3>4 DEF ReqI, Marked
      <4>3. ~(gh'.ver[t.b] > gh.ver[t.b])
        BY <2>4, <2>6
      <4>4. KeepsRead(p, t.b)
        BY <2>1, <1>5 DEF GentleAt
      <4> QED
        BY <4>1, <4>2, <4>3, <4>4, <1>1 DEF KeepsRead
    <3> QED
      BY <2>2, <2>6, <3>1, <3>2, <3>3, <3>4
  <2> QED
    BY <2>3, <2>5, <2>6
<1> QED
  BY <1>10, <1>11, <1>12

(* What the invariant says of the other downloads.                         *)
LEMMA OtherJobs ==
  ASSUME Types, Core, NEW p, Gentle(p), NEW l \in Loaders, l # p, dl'[l] = dl[l]
  PROVE  JobI(l)'
<1> USE ConstantFacts
<1>1. PICK d : d = dl[l]
  OBVIOUS
<1>2. d \in JobSet /\ JobOK(d) /\ dl'[l] = d
  BY <1>1 DEF Types, DlTypes
<1>3. d.f \in Used
  BY <1>1 DEF Used
<1>4. /\ \A c \in Blocks : GentleAt(p, c)
      /\ \A f \in Files : disk.flock[f] = l => disk'.flock[f] = l
  BY DEF Gentle
<1>5. JobI(l)
  BY DEF Core
<1>6. ASSUME d.pc \notin {"idle", "open"}
      PROVE  /\ d.b \in Blocks /\ d.f \in Files
             /\ Own(d.b, d.f)' /\ (Path(d.b)' = d.f => Path(d.b) = d.f)
  <2>1. d.b \in Blocks /\ d.f \in Files /\ Own(d.b, d.f)
    BY <1>1, <1>2, <1>5, <1>6 DEF JobOK, JobI
  <2> QED
    BY <2>1, <1>3, <1>4, OwnKept
<1>7. ASSUME d.pc \in {"get", "done", "stat", "both"}
      PROVE  Marked(d.b, d.f, d.seq)' /\ (d.pc \in {"done", "stat", "both"} => Got(d.b, d.f)')
  <2>1. d.b \in Blocks /\ d.f \in Files
    BY <1>6, <1>7
  <2>2. disk.flock[d.f] = l /\ Marked(d.b, d.f, d.seq) /\ (d.pc \in {"done", "stat", "both"} => Got(d.b, d.f))
    BY <1>1, <1>5, <1>7 DEF JobI
  <2>3. GentleAt(p, d.b)
    BY <1>4, <2>1
  <2> QED
    BY <2>1, <2>2, <2>3, <1>3, MarkedKept
<1>8. d.pc \notin {"idle", "open", "lock"} => disk'.flock[d.f] = l
  <2>1. d.pc \notin {"idle", "open", "lock"} => d.f \in Files /\ disk.flock[d.f] = l
    BY <1>1, <1>5, <1>6 DEF JobI
  <2> QED
    BY <2>1, <1>4
<1>9. d.pc = "undo" => Path(d.b)' # d.f
  BY <1>1, <1>5, <1>6 DEF JobI
<1> QED
  BY <1>2, <1>6, <1>7, <1>8, <1>9 DEF JobI

-----------------------------------------------------------------------------
(***************************************************************************)
(* Types of a step of one process.                                         *)
(***************************************************************************)
(* The numbers that Counters bounds stay.                                  *)
SameCounters ==
  /\ meta'.fin = meta.fin /\ left'.mod = left.mod /\ left'.page = left.page
  /\ \A b \in Blocks : Cnt(b)' = Cnt(b)

(* Types after a step of handle h.                                         *)
LEMMA TypesByHandle ==
  ASSUME Types, NEW h \in Handles, NEW t \in ReqSet, NEW x \in CachedSet, Go(h, t, x), ReqOK(t, x),
         meta' \in MetaSet, disk' \in DiskSet, gh' \in GhSet, left' \in LeftSet,
         cloud' = cloud, up' = up, dl' = dl,
         meta'.fin <= 1 + (MaxMod - left'.mod), meta.fin <= meta'.fin, t.now <= meta'.fin,
         \A b \in Blocks : Cnt(b)' <= MaxPage - left'.page
  PROVE  Types'
<1>1. ThTypes' /\ T(h)' = t /\ X(h)' = x /\ \A g \in Handles \ {h} : T(g)' = T(g) /\ X(g)' = X(g)
  BY GoIs DEF Types
<1>2. \A g \in Handles : ReqOK(T(g), X(g))'
  <2> SUFFICES ASSUME NEW g \in Handles PROVE ReqOK(T(g), X(g))'
    OBVIOUS
  <2>1. CASE g = h
    BY <1>1, <2>1 DEF ReqOK
  <2>2. CASE g # h
    <3>1. ReqOK(T(g), X(g))
      BY DEF Types
    <3> QED
      BY <1>1, <2>2, <3>1 DEF ReqOK
  <2> QED
    BY <2>1, <2>2
<1>3. \A g \in Handles : T(g)'.now <= meta'.fin
  <2> SUFFICES ASSUME NEW g \in Handles, g # h PROVE T(g).now <= meta'.fin
    BY <1>1
  <2>1. T(g).now <= meta.fin /\ T(g).now \in 0..MaxSeq /\ meta.fin \in 0..MaxSeq /\ meta'.fin \in 0..MaxSeq
    BY DEF Types, Counters, ThTypes, ReqSet, MetaSet, T
  <2> QED
    BY ONLY <2>1, meta.fin <= meta'.fin
<1>4. Counters'
  BY <1>3 DEF Counters
<1>5. DlTypes' /\ UpOK' /\ (\A l \in Loaders : JobOK(dl[l])') /\ cloud' \in CloudSet /\ up' \in UpSet
  BY DEF Types, DlTypes, UpOK, JobOK
<1> QED
  BY <1>1, <1>2, <1>4, <1>5 DEF Types

(* Types after a step of handle h that counts nothing.                     *)
LEMMA TypesByQuietHandle ==
  ASSUME Types, NEW h \in Handles, NEW t \in ReqSet, NEW x \in CachedSet, Go(h, t, x), ReqOK(t, x),
         meta' \in MetaSet, disk' \in DiskSet, gh' \in GhSet, left' \in LeftSet,
         cloud' = cloud, up' = up, dl' = dl, SameCounters, t.now <= meta.fin
  PROVE  Types'
<1>1. /\ meta.fin <= 1 + (MaxMod - left.mod)
      /\ \A b \in Blocks : Cnt(b) <= MaxPage - left.page
  BY DEF Types, Counters
<1>2. /\ meta'.fin <= 1 + (MaxMod - left'.mod) /\ t.now <= meta'.fin
      /\ \A b \in Blocks : Cnt(b)' <= MaxPage - left'.page
  BY <1>1 DEF SameCounters
<1>3. meta.fin <= meta'.fin
  <2>1. meta.fin \in 0..MaxSeq
    BY DEF Types, MetaSet
  <2> QED
    BY <2>1 DEF SameCounters
<1> QED
  BY <1>2, <1>3, TypesByHandle

(* Types after a step of download l.                                       *)
LEMMA TypesByLoader ==
  ASSUME Types, NEW l \in Loaders, NEW d \in JobSet, GoDl(l, d), JobOK(d),
         meta' \in MetaSet, disk' \in DiskSet, gh' \in GhSet, left' \in LeftSet,
         cloud' = cloud, up' = up, th' = th, SameCounters
  PROVE  Types'
<1>1. DlTypes' /\ dl'[l] = d /\ \A k \in Loaders \ {l} : dl'[k] = dl[k]
  BY GoDlIs DEF Types
<1>2. \A k \in Loaders : JobOK(dl[k])'
  <2> SUFFICES ASSUME NEW k \in Loaders PROVE JobOK(dl[k])'
    OBVIOUS
  <2>1. CASE k = l
    BY <1>1, <2>1 DEF JobOK
  <2>2. CASE k # l
    <3>1. JobOK(dl[k])
      BY DEF Types
    <3> QED
      BY <1>1, <2>2, <3>1 DEF JobOK
  <2> QED
    BY <2>1, <2>2
<1>3. Counters'
  BY DEF Types, Counters, SameCounters, T
<1>4. ThTypes' /\ UpOK' /\ (\A h \in Handles : ReqOK(T(h), X(h))') /\ cloud' \in CloudSet /\ up' \in UpSet
  BY DEF Types, ThTypes, UpOK, ReqOK, T, X
<1> QED
  BY <1>1, <1>2, <1>3, <1>4 DEF Types

(* A request moves on.                                                     *)
LEMMA MovedIs ==
  ASSUME NEW t \in ReqSet, NEW pc \in ReqPCs, NEW u, u = [t EXCEPT !.pc = pc]
  PROVE  /\ u \in ReqSet /\ u.pc = pc /\ u.op = t.op /\ u.b = t.b /\ u.f = t.f /\ u.seq = t.seq
         /\ u.cnt = t.cnt /\ u.now = t.now /\ u.m = t.m /\ u.res = t.res /\ u.ver = t.ver
BY DEF ReqSet

(* No request.                                                             *)
LEMMA IdleIs ==
  IdleTh \in ReqSet /\ IdleTh.pc = "idle" /\ IdleTh.f = 0 /\ IdleTh.now = 0 /\ IdleTh.b = 0 /\ IdleTh.res = {}
  /\ IdleDl \in JobSet /\ IdleDl.pc = "idle" /\ IdleDl.f = 0
<1>1. 0 \in 0..MaxSeq /\ 0 \in 0..MaxPage /\ 0 \in 0..MaxMod
  BY ConstantFacts
<1> QED
  BY <1>1 DEF IdleTh, ReqSet, ReqPCs, Marks, IdleDl, JobSet, JobPCs

(* A download moves on, and its file may change.                           *)
LEMMA JobMovedIs ==
  ASSUME NEW d \in JobSet, NEW pc \in JobPCs, NEW u, u = [d EXCEPT !.pc = pc]
  PROVE  u \in JobSet /\ u.pc = pc /\ u.b = d.b /\ u.f = d.f /\ u.seq = d.seq /\ u.pin = d.pin
BY DEF JobSet

(* Closing and opening a cached file.                                      *)
LEMMA CachedIs ==
  ASSUME NEW x \in CachedSet
  PROVE  /\ Close(x) \in CachedSet /\ Close(x).open = -1 /\ Close(x).file = 0 /\ Close(x).cnt = x.cnt
         /\ \A b \in Blocks, f \in Files :
              /\ OpenAs(x, b, f) \in CachedSet /\ OpenAs(x, b, f).open = b
              /\ OpenAs(x, b, f).file = f /\ OpenAs(x, b, f).cnt = x.cnt
         /\ \A b \in Blocks, f \in Files, n \in 0..MaxPage :
              LET y == [OpenAs(x, b, f) EXCEPT !.cnt = n] IN
              y \in CachedSet /\ y.open = b /\ y.file = f /\ y.cnt = n
BY DEF CachedSet, Close, OpenAs

-----------------------------------------------------------------------------
(***************************************************************************)
(* Steps that leave the upload, the numbers and the contents alone.        *)
(***************************************************************************)
InCloud == Remote \cup {"BOTH"}
Quiet ==
  /\ cloud' = cloud /\ up' = up
  /\ gh'.cur = gh.cur /\ gh'.snap = gh.snap /\ gh'.cloud = gh.cloud /\ gh'.ver = gh.ver
  /\ meta'.fin = meta.fin /\ meta'.inc = meta.inc /\ disk'.to = disk.to
  /\ \A c \in Blocks :
       /\ Num(c)' = Num(c) /\ (Writing(c)' <=> Writing(c))
       /\ St(c)' = St(c) \/ (St(c) \in InCloud /\ St(c)' \in InCloud)

(* What the invariant says of the upload is kept by a quiet step.          *)
LEMMA QuietUpload ==
  ASSUME Core, Quiet
  PROVE  NumbersI' /\ \A b \in Blocks : UpI(b)'
<1>1. NumbersI'
  BY DEF Core, NumbersI, Quiet
<1> SUFFICES ASSUME NEW b \in Blocks
             PROVE  UpI(b)'
  BY <1>1
<1>2. /\ Num(b)' = Num(b) /\ (Writing(b)' <=> Writing(b))
      /\ St(b)' = St(b) \/ (St(b) \in InCloud /\ St(b)' \in InCloud)
      /\ cloud' = cloud /\ up' = up /\ meta'.fin = meta.fin /\ meta'.inc = meta.inc
      /\ disk'.to[b] = disk.to[b] /\ gh'.cur[b] = gh.cur[b] /\ gh'.snap[b] = gh.snap[b]
      /\ gh'.cloud[b] = gh.cloud[b]
  BY DEF Quiet
<1>3. UpI(b)
  BY DEF Core
<1>4. /\ St(b)' \in Dirty <=> St(b) \in Dirty
      /\ St(b)' \in Gone <=> St(b) \in Gone
      /\ St(b)' = "LDISK" <=> St(b) = "LDISK"
      /\ St(b)' = "LtoC" <=> St(b) = "LtoC"
  BY <1>2 DEF InCloud, Remote, Dirty, Gone
<1>5. ShotI(b) => ShotI(b)'
  BY <1>2 DEF ShotI, Active, SendsIn
<1>6. SeqI(b) => SeqI(b)'
  BY <1>2, <1>4 DEF SeqI
<1>7. CopyI(b) => CopyI(b)'
  BY <1>2, <1>4 DEF CopyI, Active, SendsIn
<1>8. StoredI(b) => StoredI(b)'
  BY <1>2 DEF StoredI, Active, SendsIn
<1>9. LaterI(b) => LaterI(b)'
  BY <1>2, <1>4 DEF LaterI, Active
<1>10. CloudI(b) => CloudI(b)'
  BY <1>2, <1>4 DEF CloudI, Active
<1> QED
  BY <1>2, <1>3, <1>5, <1>6, <1>7, <1>8, <1>9, <1>10 DEF UpI

(* The status of a block left as it is.                                    *)
LEMMA QuietStatus ==
  ASSUME Core, Quiet, NEW c \in Blocks, SameAt(c)
  PROVE  StatusI(c)'
<1>1. StatusI(c)
  BY DEF Core
<1>2. /\ St(c)' = St(c) /\ Num(c)' = Num(c) /\ Path(c)' = Path(c) /\ (Writing(c)' <=> Writing(c))
      /\ cloud' = cloud /\ gh'.cur[c] = gh.cur[c] /\ meta'.fin = meta.fin
      /\ Path(c) # 0 => disk'.data[Path(c)] = disk.data[Path(c)]
  BY DEF Quiet, SameAt, St, Num
<1> QED
  BY <1>1, <1>2 DEF StatusI, Data, Local, Remote, Gone

(* The steps of handle h, and what they do to the lock.                    *)
Others(h) == dl' = dl /\ \A g \in Handles \ {h} : T(g)' = T(g) /\ X(g)' = X(g)
LockStep(h) ==
  \/ meta'.lock = meta.lock /\ (T(h)'.pc \in Inside => T(h).pc \in Inside)
  \/ T(h).pc \in Inside /\ T(h)'.pc \notin Inside
  \/ meta.lock = 1 /\ meta'.lock = 0

(* The lock keeps one owner.                                               *)
LEMMA LockKept ==
  ASSUME LockI, NEW h \in Handles, Others(h), LockStep(h)
  PROVE  LockI'
<1>1. CASE meta'.lock = meta.lock /\ (T(h)'.pc \in Inside => T(h).pc \in Inside)
  <2>1. \A g \in Handles : T(g)'.pc \in Inside => T(g).pc \in Inside
    BY <1>1 DEF Others
  <2> QED
    BY <1>1, <2>1 DEF LockI
<1>2. CASE T(h).pc \in Inside /\ T(h)'.pc \notin Inside
  <2>1. \A g \in Handles : T(g)'.pc \notin Inside
    BY <1>2 DEF Others, LockI
  <2> QED
    BY <2>1 DEF LockI
<1>3. CASE meta.lock = 1 /\ meta'.lock = 0
  <2>1. \A g \in Handles \ {h} : T(g)'.pc \notin Inside
    BY <1>3 DEF Others, LockI
  <2> QED
    BY <1>3, <2>1 DEF LockI
<1> QED
  BY <1>1, <1>2, <1>3 DEF LockStep

(* Somebody but p fills file f.  Handle h opens no such file, and fills no *)
(* cached one.                                                             *)
Filling(p, f) ==
  \/ \E g \in Handles \ {p} : T(g).pc \in {"rf_get", "wf_get", "wf_done"} /\ T(g).f = f
  \/ \E l \in Loaders \ {p} : dl[l].pc = "get" /\ dl[l].f = f
Cached(f) == \E g \in Handles : X(g).open \in Blocks /\ X(g).file = f
OpensSafely(h) ==
  \/ X(h)'.open \notin Blocks
  \/ X(h).open \in Blocks /\ X(h)'.file = X(h).file
  \/ ~Filling(h, X(h)'.file) /\ T(h)'.pc \notin {"rf_get", "wf_get", "wf_done"}
FillsSafely(h) ==
  \/ T(h)'.pc \notin {"rf_get", "wf_get", "wf_done"}
  \/ ~Cached(T(h)'.f) /\ X(h)' = X(h)

(* No handle has cached a file that is being filled.                       *)
LEMMA NoReaderKept ==
  ASSUME NoReader, NEW h \in Handles, Others(h), OpensSafely(h), FillsSafely(h)
  PROVE  NoReader'
<1> SUFFICES ASSUME NEW g \in Handles, X(g)'.open \in Blocks
             PROVE  /\ \A k \in Handles : T(k)'.pc \in {"rf_get", "wf_get", "wf_done"} => X(g)'.file # T(k)'.f
                    /\ \A l \in Loaders : dl'[l].pc = "get" => X(g)'.file # dl'[l].f
  BY DEF NoReader
<1>1. \A k \in Handles : T(k)'.pc \in {"rf_get", "wf_get", "wf_done"} => X(g)'.file # T(k)'.f
  <2> SUFFICES ASSUME NEW k \in Handles, T(k)'.pc \in {"rf_get", "wf_get", "wf_done"}
               PROVE  X(g)'.file # T(k)'.f
    OBVIOUS
  <2>1. CASE k = h
    BY <2>1 DEF FillsSafely, Cached, Others
  <2>2. CASE k # h
    <3>1. T(k)' = T(k)
      BY <2>2 DEF Others
    <3>2. CASE g = h
      BY <2>2, <3>1, <3>2 DEF OpensSafely, Filling, NoReader
    <3>3. CASE g # h
      BY <3>1, <3>3 DEF Others, NoReader
    <3> QED
      BY <3>2, <3>3
  <2> QED
    BY <2>1, <2>2
<1>2. \A l \in Loaders : dl'[l].pc = "get" => X(g)'.file # dl'[l].f
  <2> SUFFICES ASSUME NEW l \in Loaders, dl[l].pc = "get"
               PROVE  X(g)'.file # dl[l].f
    BY DEF Others
  <2>1. CASE g = h
    BY <2>1, ConstantFacts DEF OpensSafely, Filling, NoReader
  <2>2. CASE g # h
    BY <2>2 DEF Others, NoReader
  <2> QED
    BY <2>1, <2>2
<1> QED
  BY <1>1, <1>2

(* Every block keeps its own file.                                         *)
LEMMA PathsKept ==
  ASSUME PathsI, NEW b, \A c \in Blocks \ {b} : Path(c)' = Path(c), b \in Blocks => KeepsPath(b)
  PROVE  PathsI'
<1>1. b \in Blocks /\ Path(b)' \notin {Path(b), 0} => \A c \in Blocks : Path(c) # Path(b)'
  BY DEF KeepsPath, Used, Path
<1> SUFFICES ASSUME NEW c \in Blocks, NEW e \in Blocks, Path(c)' = Path(e)', Path(c)' # 0
             PROVE  c = e
  BY DEF PathsI
<1> QED
  BY <1>1 DEF PathsI

(* A quiet step of handle h that touches one block.                        *)
LEMMA QuietByHandle ==
  ASSUME Types, Types', Core, Quiet, NEW h \in Handles, Others(h), NEW b,
         \A c \in Blocks \ {b} : SameAt(c),
         b \in Blocks => GentleAt(h, b) /\ StatusI(b)',
         \A f \in Files : GentleData(f),
         \A f \in Files, q \in Procs \ {h} : disk.flock[f] = q => disk'.flock[f] = q,
         \A g \in Handles \ {h} : g \in gh.loose => g \in gh'.loose,
         GentleInside(h), LockStep(h), OpensSafely(h), FillsSafely(h), CountI',
         ReqI(h)', CachedI(h)', ReadI(h)'
  PROVE  Core'
<1>1. \A c \in Blocks : GentleAt(h, c) /\ StatusI(c)'
  BY SameIsGentle, QuietStatus
<1>2. Gentle(h)
  BY <1>1 DEF Gentle
<1>3. \A g \in Handles \ {h} : ReqI(g)' /\ CachedI(g)' /\ ReadI(g)'
  BY <1>2, OtherRequests DEF Others
<1>4. \A l \in Loaders : JobI(l)'
  BY <1>2, OtherJobs, ConstantFacts DEF Others
<1>5. LockI' /\ NoReader'
  BY LockKept, NoReaderKept DEF Core
<1>6. PathsI'
  <2>1. \A c \in Blocks \ {b} : Path(c)' = Path(c)
    BY DEF SameAt
  <2>2. b \in Blocks => KeepsPath(b)
    BY DEF GentleAt
  <2> QED
    BY <2>1, <2>2, PathsKept DEF Core
<1>7. NumbersI' /\ \A c \in Blocks : UpI(c)'
  BY QuietUpload
<1> QED
  BY <1>1, <1>3, <1>4, <1>5, <1>6, <1>7 DEF Core

(* The count of the cache, when no block comes or goes.                    *)
LEMMA CountSame ==
  ASSUME CountI, \A c \in Blocks : St(c)' \in Local <=> St(c) \in Local,
         \A l \in Loaders : dl'[l].pc = "both" <=> dl[l].pc = "both", disk'.cache = disk.cache
  PROVE  CountI'
<1>1. LocalBlocks' = LocalBlocks
  BY DEF LocalBlocks
<1>2. Ahead' = Ahead
  BY DEF Ahead
<1> QED
  BY <1>1, <1>2 DEF CountI

(* A step of handle h that changes no block and no file.                   *)
Still ==
  /\ meta'.blk = meta.blk /\ meta'.fin = meta.fin /\ meta'.inc = meta.inc
  /\ disk'.path = disk.path /\ disk'.data = disk.data /\ disk'.to = disk.to /\ disk'.cache = disk.cache
  /\ cloud' = cloud /\ up' = up
  /\ gh'.cur = gh.cur /\ gh'.snap = gh.snap /\ gh'.cloud = gh.cloud /\ gh'.ver = gh.ver

(* Nothing but the handle's own part of the invariant is left to show.     *)
LEMMA StillByHandle ==
  ASSUME Types, Types', Core, Still, NEW h \in Handles, Others(h),
         T(h)'.pc # "w_lock", T(h).pc # "w_lock",
         \A f \in Files, q \in Procs \ {h} : disk.flock[f] = q => disk'.flock[f] = q,
         \A g \in Handles \ {h} : g \in gh.loose => g \in gh'.loose,
         LockStep(h), OpensSafely(h), FillsSafely(h), ReqI(h)', CachedI(h)', ReadI(h)'
  PROVE  Core'
<1>1. \A c \in Blocks : SameAt(c) /\ St(c)' = St(c) /\ Num(c)' = Num(c)
  BY DEF Still, SameAt, Path, St, Num
<1>2. \A c \in Blocks : Writing(c)' <=> Writing(c)
  BY DEF Writing, Others
<1>3. Quiet
  BY <1>1, <1>2 DEF Still, Quiet
<1>4. \A f \in Files : GentleData(f)
  BY DEF GentleData, Still
<1>5. GentleInside(h)
  BY <1>1 DEF GentleInside, SameAt
<1>6. CountI'
  <2>1. CountI /\ dl' = dl /\ disk'.cache = disk.cache
    BY DEF Core, Still, Others
  <2> QED
    BY <1>1, <2>1, CountSame
<1>7. -1 \notin Blocks
  BY ConstantFacts
<1>8. \A c \in Blocks \ {-1} : SameAt(c)
  BY <1>1
<1> QED
  BY <1>3, <1>4, <1>5, <1>6, <1>7, <1>8, QuietByHandle

(* A quiet step of a download, or of no process.                           *)
LEMMA QuietByOther ==
  ASSUME Types, Types', Core, Quiet, NEW p, p \notin Handles, th' = th,
         \A k \in Loaders \ {p} : dl'[k] = dl[k], NEW b,
         \A c \in Blocks \ {b} : SameAt(c),
         b \in Blocks => GentleAt(p, b) /\ StatusI(b)',
         \A f \in Files : GentleData(f),
         \A f \in Files, q \in Procs \ {p} : disk.flock[f] = q => disk'.flock[f] = q,
         gh'.loose = gh.loose, GentleInside(p), meta'.lock = meta.lock, CountI',
         p \in Loaders => /\ JobI(p)'
                          /\ dl'[p].pc = "get" => ~Cached(dl'[p].f)
  PROVE  Core'
<1>1. \A c \in Blocks : GentleAt(p, c) /\ StatusI(c)'
  BY SameIsGentle, QuietStatus
<1>2. Gentle(p)
  BY <1>1 DEF Gentle
<1>3. \A g \in Handles : T(g)' = T(g) /\ X(g)' = X(g)
  BY DEF T, X
<1>4. \A g \in Handles : ReqI(g)' /\ CachedI(g)' /\ ReadI(g)'
  BY <1>2, <1>3, OtherRequests
<1>5. \A l \in Loaders : JobI(l)'
  BY <1>2, OtherJobs
<1>6. LockI'
  BY <1>3 DEF Core, LockI
<1>7. NoReader'
  <2>1. NoReader
    BY DEF Core
  <2> SUFFICES ASSUME NEW g \in Handles, X(g).open \in Blocks, NEW l \in Loaders, dl'[l].pc = "get"
               PROVE  X(g).file # dl'[l].f
    BY <1>3, <2>1 DEF NoReader
  <2>2. CASE l = p
    BY <2>2 DEF Cached
  <2>3. CASE l # p
    BY <2>1, <2>3 DEF NoReader
  <2> QED
    BY <2>2, <2>3
<1>8. PathsI'
  <2>1. \A c \in Blocks \ {b} : Path(c)' = Path(c)
    BY DEF SameAt
  <2>2. b \in Blocks => KeepsPath(b)
    BY DEF GentleAt
  <2> QED
    BY <2>1, <2>2, PathsKept DEF Core
<1>9. NumbersI' /\ \A c \in Blocks : UpI(c)'
  BY QuietUpload
<1> QED
  BY <1>1, <1>4, <1>5, <1>6, <1>7, <1>8, <1>9 DEF Core

(* A step of a download that changes no block and no file.                 *)
LEMMA StillByLoader ==
  ASSUME Types, Types', Core, Still, NEW l \in Loaders, th' = th,
         \A k \in Loaders \ {l} : dl'[k] = dl[k],
         \A f \in Files, q \in Procs \ {l} : disk.flock[f] = q => disk'.flock[f] = q,
         gh'.loose = gh.loose, meta'.lock = meta.lock, JobI(l)',
         dl'[l].pc \notin {"get", "both"}, dl[l].pc # "both"
  PROVE  Core'
<1>1. \A c \in Blocks : SameAt(c) /\ St(c)' = St(c) /\ Num(c)' = Num(c)
  BY DEF Still, SameAt, Path, St, Num
<1>2. \A c \in Blocks : Writing(c)' <=> Writing(c)
  BY DEF Writing, T
<1>3. Quiet
  BY <1>1, <1>2 DEF Still, Quiet
<1>4. \A f \in Files : GentleData(f)
  BY DEF GentleData, Still
<1>5. GentleInside(l)
  BY <1>1 DEF GentleInside, SameAt
<1>6. CountI'
  <2>1. CountI /\ disk'.cache = disk.cache
    BY DEF Core, Still
  <2>2. \A k \in Loaders : dl'[k].pc = "both" <=> dl[k].pc = "both"
    OBVIOUS
  <2> QED
    BY <1>1, <2>1, <2>2, CountSame
<1>7. -1 \notin Blocks /\ l \notin Handles
  BY ConstantFacts
<1>8. \A c \in Blocks \ {-1} : SameAt(c)
  BY <1>1
<1> QED
  BY <1>3, <1>4, <1>5, <1>6, <1>7, <1>8, QuietByOther

-----------------------------------------------------------------------------
(***************************************************************************)
(* The history.                                                            *)
(***************************************************************************)
SameHistory(G) == G.cur = gh.cur /\ G.snap = gh.snap /\ G.cloud = gh.cloud /\ G.ver = gh.ver

(* Met records a hazard.                                                   *)
LEMMA MetIs ==
  ASSUME gh \in GhSet, NEW z \in Hazards, NEW w, NEW G, G = Met(z, w)
  PROVE  /\ G \in GhSet /\ SameHistory(G) /\ G.loose = gh.loose
         /\ G.known = {} => gh.known = {} /\ ~w
<1> PICK K : K = If(z, w)
  OBVIOUS
<1>1. K \in SUBSET Hazards /\ (w => K # {})
  BY DEF If
<1>2. G = Flagged(gh, K)
  BY DEF Met, Flagged
<1> QED
  BY <1>1, <1>2, KnownIs DEF SameHistory

(* Two hazards at once.                                                    *)
BothMet(z, w, y, v) == [gh EXCEPT !.known = gh.known \cup If(z, w) \cup If(y, v)]
LEMMA BothMetIs ==
  ASSUME gh \in GhSet, NEW z \in Hazards, NEW w, NEW y \in Hazards, NEW v,
         NEW G, G = BothMet(z, w, y, v)
  PROVE  /\ G \in GhSet /\ SameHistory(G) /\ G.loose = gh.loose
         /\ G.known = {} => gh.known = {} /\ ~w /\ ~v
<1> PICK K : K = If(z, w) \cup If(y, v)
  OBVIOUS
<1>1. K \in SUBSET Hazards /\ (w \/ v => K # {})
  BY DEF If
<1>2. gh.known \cup If(z, w) \cup If(y, v) = gh.known \cup K
  OBVIOUS
<1>3. G = Flagged(gh, K)
  BY <1>2 DEF Flagged, BothMet
<1>4. /\ G \in GhSet /\ G.known = gh.known \cup K
      /\ G.cur = gh.cur /\ G.snap = gh.snap /\ G.cloud = gh.cloud /\ G.ver = gh.ver /\ G.loose = gh.loose
  BY ONLY gh \in GhSet, <1>1, <1>3, KnownIs
<1> QED
  BY <1>1, <1>4 DEF SameHistory

(* Taken records what is wrong with the file at the path.                  *)
LEMMA TakenIs ==
  ASSUME gh \in GhSet, NEW b, NEW f, NEW G, G = Taken(b, f)
  PROVE  /\ G \in GhSet /\ SameHistory(G) /\ G.loose = gh.loose
         /\ G.known = {} => /\ gh.known = {}
                            /\ Path(b) # 0 => St(b) = "CtoL" /\ Path(b) = f
<1> PICK K : K = If("count", disk.path[b] # 0 /\ meta.blk[b].st # "CtoL")
                 \cup If("orphan", disk.path[b] # 0 /\ disk.path[b] # f)
  OBVIOUS
<1>1. K \in SUBSET Hazards
  <2>1. \A z \in Hazards : \A w : If(z, w) \in SUBSET Hazards
    BY DEF If
  <2>2. "count" \in Hazards /\ "orphan" \in Hazards
    BY DEF Hazards
  <2>3. /\ If("count", disk.path[b] # 0 /\ meta.blk[b].st # "CtoL") \in SUBSET Hazards
        /\ If("orphan", disk.path[b] # 0 /\ disk.path[b] # f) \in SUBSET Hazards
    BY <2>1, <2>2
  <2> QED
    BY <2>3
<1>2. K = {} => (disk.path[b] # 0 => meta.blk[b].st = "CtoL" /\ disk.path[b] = f)
  BY DEF If
<1>3. G = Flagged(gh, K)
  BY DEF Taken, Flagged
<1> QED
  BY <1>1, <1>2, <1>3, KnownIs DEF SameHistory, Path, St

(* Whose cached file the page-out count does not vouch for.                *)
LEMMA CachesIs ==
  ASSUME NEW G \in GhSet, NEW h \in Handles, NEW b, NEW f, NEW c, NEW E, E = Caches(G, h, b, f, c)
  PROVE  /\ E \in GhSet /\ E.known = G.known
         /\ E.cur = G.cur /\ E.snap = G.snap /\ E.cloud = G.cloud /\ E.ver = G.ver
         /\ \A g \in Handles \ {h} : g \in G.loose => g \in E.loose
         /\ h \notin E.loose => f = Path(b) /\ c = Cnt(b)
<1> PICK S : S = IF f = disk.path[b] /\ c = meta.blk[b].cnt THEN G.loose \ {h} ELSE G.loose \cup {h}
  OBVIOUS
<1>1. /\ S \subseteq Handles /\ \A g \in Handles \ {h} : g \in G.loose => g \in S
      /\ h \notin S => f = disk.path[b] /\ c = meta.blk[b].cnt
  BY DEF GhSet
<1>2. E = [G EXCEPT !.loose = S]
  BY DEF Caches
<1>3. /\ E \in GhSet /\ E.known = G.known /\ E.loose = S
      /\ E.cur = G.cur /\ E.snap = G.snap /\ E.cloud = G.cloud /\ E.ver = G.ver
  BY <1>1, <1>2 DEF GhSet
<1> QED
  BY <1>1, <1>3 DEF Path, Cnt

(* Something is spent.                                                     *)
LEMMA SpendIs ==
  ASSUME left \in LeftSet, NEW k \in {"mod", "read", "load", "page", "upload", "fail", "sleep", "pin"},
         left[k] > 0, Spend(k)
  PROVE  /\ left' \in LeftSet /\ left'[k] = left[k] - 1
         /\ k # "mod" => left'.mod = left.mod
         /\ k # "page" => left'.page = left.page
<1>1. MaxMod \in Nat /\ MaxPage \in Nat
  BY ConstantFacts
<1>2. left[k] \in Nat
  BY <1>1 DEF LeftSet
<1>3. /\ left' = [left EXCEPT ![k] = left[k] - 1] /\ left[k] - 1 \in Nat
      /\ k = "mod" => left[k] - 1 \in 0..MaxMod
      /\ k = "page" => left[k] - 1 \in 0..MaxPage
  BY <1>1, <1>2 DEF Spend, LeftSet
<1> QED
  BY <1>3 DEF LeftSet

-----------------------------------------------------------------------------
(***************************************************************************)
(* Facts about files that several steps need.                              *)
(***************************************************************************)
(* A file at a path is in the range of files, and a file in use.           *)
LEMMA PathIs ==
  ASSUME Types, NEW b \in Blocks
  PROVE  /\ Path(b) \in Files \cup {0} /\ Path(b) \in Used /\ 0 \notin Files
         /\ Path(b) # 0 => Path(b) \in Files
         /\ St(b) \in Statuses /\ Num(b) \in 0..MaxSeq /\ Cnt(b) \in 0..MaxPage
<1>1. meta.blk[b] \in Entry
  BY DEF Types, MetaSet
<1>2. disk.path[b] \in Files \cup {0}
  BY DEF Types, DiskSet
<1> QED
  BY <1>1, <1>2, ConstantFacts DEF Path, Used, St, Num, Cnt, Entry, Statuses

(* The file of a block that is not being fetched is filled by nobody.      *)
LEMMA NotFilling ==
  ASSUME Types, Core, NEW b \in Blocks, Path(b) # 0, St(b) # "CtoL"
  PROVE  \A p : ~Filling(p, Path(b))
<1>1. ASSUME NEW g \in Handles, T(g).pc \in {"rf_get", "wf_get", "wf_done"}, T(g).f = Path(b)
      PROVE  FALSE
  <2>1. Own(T(g).b, T(g).f) /\ Marked(T(g).b, T(g).f, T(g).seq)
    BY <1>1 DEF Core, ReqI, RFile, WFile
  <2> QED
    BY <1>1, <2>1 DEF Own, Marked
<1>2. ASSUME NEW l \in Loaders, dl[l].pc = "get", dl[l].f = Path(b)
      PROVE  FALSE
  <2>1. Own(dl[l].b, dl[l].f) /\ Marked(dl[l].b, dl[l].f, dl[l].seq)
    BY <1>2 DEF Core, JobI
  <2> QED
    BY <1>2, <2>1 DEF Own, Marked
<1> QED
  BY <1>1, <1>2 DEF Filling

(* A file that p has locked is filled by nobody else.                      *)
LEMMA LockedNotFilling ==
  ASSUME Types, Core, NEW p, NEW f, disk.flock[f] = p
  PROVE  ~Filling(p, f)
<1>1. ASSUME NEW g \in Handles \ {p}, T(g).pc \in {"rf_get", "wf_get", "wf_done"}, T(g).f = f
      PROVE  FALSE
  BY <1>1 DEF Core, ReqI
<1>2. ASSUME NEW l \in Loaders \ {p}, dl[l].pc = "get", dl[l].f = f
      PROVE  FALSE
  BY <1>2 DEF Core, JobI
<1> QED
  BY <1>1, <1>2 DEF Filling

(* Nobody has cached the file of a block that is in the cloud only.        *)
LEMMA NotCached ==
  ASSUME Types, Core, NEW b \in Blocks, St(b) \in Remote
  PROVE  ~Cached(Path(b))
<1> SUFFICES ASSUME NEW g \in Handles, X(g).open \in Blocks, X(g).file = Path(b)
             PROVE  FALSE
  BY DEF Cached
<1>1. CachedI(g)
  BY DEF Core
<1> QED
  BY <1>1 DEF CachedI, Own

(* A file that is not cached may be written.                               *)
LEMMA FillGentle ==
  ASSUME NEW f, ~Cached(f), \A g \in Files \ {f} : disk'.data[g] = disk.data[g]
  PROVE  \A g \in Files : GentleData(g)
BY DEF Cached, GentleData

(* The file that Create leaves at the path of block b.                     *)
LEMMA CreatedIs ==
  ASSUME Types, NEW b \in Blocks, CanCreate(b), NEW D, D = Create(b)
  PROVE  /\ D \in DiskSet /\ D.flock = disk.flock /\ D.to = disk.to /\ D.cache = disk.cache
         /\ D.path[b] \in Files
         /\ \A c \in Blocks \ {b} : D.path[c] = Path(c) /\ (Path(c) # 0 => D.data[Path(c)] = Data(Path(c)))
         /\ Path(b) # 0 => D = disk
         /\ Path(b) = 0 => /\ D.path[b] \notin Used /\ D.data[D.path[b]] = {}
                           /\ \A f \in Files \ {D.path[b]} : D.data[f] = Data(f)
         /\ PathsI => \A c \in Blocks : D.path[c] = D.path[b] => c = b
<1>1. disk \in DiskSet
  BY DEF Types
<1>2. /\ D \in DiskSet /\ D.flock = disk.flock /\ D.to = disk.to /\ D.cache = disk.cache
      /\ D.path[b] \in Files
      /\ \A c \in Blocks \ {b} : D.path[c] = disk.path[c]
      /\ disk.path[b] # 0 => D = disk
      /\ disk.path[b] = 0 => /\ D.path[b] \notin Used /\ D.data[D.path[b]] = {}
                             /\ \A f \in Files \ {D.path[b]} : D.data[f] = disk.data[f]
  BY <1>1, CreateIs
<1>3. \A c \in Blocks : Path(c) \in Used /\ (Path(c) # 0 => Path(c) \in Files) /\ 0 \notin Files
  BY PathIs
<1>4. \A c \in Blocks \ {b} : Path(c) # 0 => D.data[Path(c)] = Data(Path(c))
  <2>1. CASE disk.path[b] # 0
    BY <1>2, <2>1 DEF Data
  <2>2. CASE disk.path[b] = 0
    BY <1>2, <1>3, <2>2 DEF Data
  <2> QED
    BY <2>1, <2>2
<1>5. PathsI => \A c \in Blocks : D.path[c] = D.path[b] => c = b
  BY <1>2, <1>3 DEF PathsI, Path
<1> QED
  BY <1>2, <1>4, <1>5 DEF Path, Data

(* Create is gentle.                                                       *)
LEMMA CreateGentle ==
  ASSUME Types, Core, NEW b \in Blocks, CanCreate(b), disk' = Create(b), meta' = meta, gh' = gh, Quiet
  PROVE  /\ \A c \in Blocks \ {b} : SameAt(c)
         /\ \A p : GentleAt(p, b) /\ GentleInside(p)
         /\ \A f \in Files : GentleData(f)
         /\ StatusI(b)'
<1> PICK D : D = Create(b)
  OBVIOUS
<1>1. /\ D.path[b] \in Files
      /\ \A c \in Blocks \ {b} : D.path[c] = Path(c) /\ (Path(c) # 0 => D.data[Path(c)] = Data(Path(c)))
      /\ Path(b) # 0 => D = disk
      /\ Path(b) = 0 => /\ D.path[b] \notin Used /\ D.data[D.path[b]] = {}
                        /\ \A f \in Files \ {D.path[b]} : D.data[f] = Data(f)
  BY CreatedIs
<1>2. disk' = D
  OBVIOUS
<1>3. \A c \in Blocks \ {b} : SameAt(c)
  BY <1>1, <1>2 DEF SameAt, Path, Data
<1>4. \A c \in Blocks : St(c)' = St(c) /\ Num(c)' = Num(c) /\ Cnt(c)' = Cnt(c)
  BY DEF St, Num, Cnt
<1>5. CASE Path(b) # 0
  <2>1. SameAt(b)
    BY <1>1, <1>2, <1>5 DEF SameAt, Path
  <2>2. StatusI(b)'
    BY <2>1, QuietStatus
  <2>3. \A f \in Files : GentleData(f)
    BY <1>1, <1>2, <1>5 DEF GentleData
  <2>4. \A p : GentleInside(p)
    BY <1>3, <1>4, <2>1 DEF GentleInside, SameAt
  <2> QED
    BY <1>3, <2>1, <2>2, <2>3, <2>4, SameIsGentle
<1>6. CASE Path(b) = 0
  <2>1. Path(b)' \notin Used /\ disk'.data[Path(b)'] = {} /\ Path(b)' # 0
    BY <1>1, <1>2, <1>6, ConstantFacts DEF Path
  <2>2. \A g \in Handles : X(g).open \in Blocks => X(g).file \in Files /\ X(g).file # Path(b)'
    BY <2>1 DEF Types, ReqOK, Used, X
  <2>3. \A f \in Files : GentleData(f)
    BY <1>1, <1>2, <1>6, <2>2 DEF GentleData, Path, Data
  <2>4. \A p : GentleInside(p)
    BY <1>3, <1>4, <1>6 DEF GentleInside, SameAt
  <2>5. \A g \in Handles : X(g).open = b => X(g).file # Path(b)
    BY <2>2, <1>6, ConstantFacts
  <2>6. \A p : GentleAt(p, b)
    BY <1>4, <1>6, <2>1, <2>5 DEF GentleAt, KeepsPath, KeepsVersion, KeepsDownload, KeepsCached, KeepsRead
  <2>7. StatusI(b)'
    <3>1. StatusI(b)
      BY DEF Core
    <3>2. St(b) \notin Local
      BY <1>6, <3>1 DEF StatusI
    <3>3. (Writing(b)' <=> Writing(b)) /\ cloud' = cloud
      BY DEF Quiet
    <3> QED
      BY <1>4, <2>1, <3>1, <3>2, <3>3 DEF StatusI, Data, Local
  <2> QED
    BY <1>3, <2>3, <2>4, <2>6, <2>7
<1> QED
  BY <1>5, <1>6

-----------------------------------------------------------------------------
(***************************************************************************)
(* The downloads.                                                          *)
(***************************************************************************)
(* A download starts.                                                      *)
LEMMA StartLoadStep ==
  ASSUME BlockInv, NEW l \in Loaders, NEW b \in Blocks,
         read_prefetch_cache(l, b) \/ _check_fetch_block(l, b)
  PROVE  BlockInv'
<1> USE DEF BlockInv
<1>1. /\ dl[l].pc = "idle" /\ left.load > 0 /\ Spend("load")
      /\ meta' = meta /\ disk' = disk /\ cloud' = cloud /\ th' = th /\ up' = up /\ gh' = gh
  BY DEF read_prefetch_cache, _check_fetch_block
<1>2. PICK d : GoDl(l, d) /\ d \in {[IdleDl EXCEPT !.pc = "open", !.b = b, !.seq = Num(b)],
                                    [IdleDl EXCEPT !.pc = "open", !.b = b, !.seq = Num(b), !.pin = TRUE]}
  BY DEF read_prefetch_cache, _check_fetch_block, Num
<1>3. d \in JobSet /\ d.pc = "open" /\ d.f = 0 /\ d.b = b
  <2>1. Num(b) \in 0..MaxSeq
    BY PathIs
  <2>2. IdleDl \in JobSet /\ IdleDl.f = 0 /\ "open" \in JobPCs
    BY IdleIs DEF JobPCs
  <2> QED
    BY <1>2, <2>1, <2>2 DEF JobSet
<1>4. JobOK(d)
  BY <1>3 DEF JobOK
<1>5. left' \in LeftSet /\ left'.mod = left.mod /\ left'.page = left.page
  BY <1>1, SpendIs DEF Types
<1>6. SameCounters
  BY <1>1, <1>5 DEF SameCounters, Cnt
<1>7. Types'
  <2>1. meta' \in MetaSet /\ disk' \in DiskSet /\ gh' \in GhSet
    BY <1>1 DEF Types
  <2> QED
    BY <1>1, <1>2, <1>3, <1>4, <1>5, <1>6, <2>1, TypesByLoader
<1>8. ASSUME Clean' PROVE Core'
  <2>1. Core
    BY <1>1, <1>8 DEF Clean
  <2>2. dl'[l] = d /\ \A k \in Loaders \ {l} : dl'[k] = dl[k]
    BY <1>2, <1>3, GoDlIs DEF Types
  <2>3. JobI(l)'
    BY <1>3, <2>2 DEF JobI
  <2>4. Still
    BY <1>1 DEF Still
  <2> QED
    BY <1>1, <1>3, <1>7, <2>1, <2>2, <2>3, <2>4, StillByLoader
<1> QED
  BY <1>7, <1>8

(* The download opens the block file.                                      *)
LEMMA LoadOpenStep ==
  ASSUME BlockInv, NEW l \in Loaders, LoadOpen(l)
  PROVE  BlockInv'
<1> USE DEF BlockInv
<1> PICK b : b = dl[l].b
  OBVIOUS
<1>1. /\ dl[l].pc = "open" /\ CanCreate(b) /\ disk' = Create(b)
      /\ GoDl(l, [dl[l] EXCEPT !.pc = "lock", !.f = Path(b)'])
      /\ meta' = meta /\ left' = left /\ cloud' = cloud /\ th' = th /\ up' = up /\ gh' = gh
  BY DEF LoadOpen, Path
<1>2. b \in Blocks /\ dl[l] \in JobSet
  BY <1>1 DEF Types, JobOK, DlTypes
<1>3. /\ disk' \in DiskSet /\ disk'.flock = disk.flock /\ disk'.to = disk.to /\ disk'.cache = disk.cache
      /\ Path(b)' \in Files
      /\ PathsI => \A c \in Blocks : Path(c)' = Path(b)' => c = b
  BY <1>1, <1>2, CreatedIs DEF Path
<1> PICK d : d = [dl[l] EXCEPT !.pc = "lock", !.f = Path(b)']
  OBVIOUS
<1>4. d \in JobSet /\ d.pc = "lock" /\ d.f = Path(b)' /\ d.b = b /\ d.f \in Files
  BY <1>2, <1>3 DEF JobSet, JobPCs
<1>5. JobOK(d) /\ GoDl(l, d)
  BY <1>1, <1>2, <1>4 DEF JobOK
<1>6. SameCounters
  BY <1>1 DEF SameCounters, Cnt
<1>7. Types'
  <2>1. meta' \in MetaSet /\ gh' \in GhSet /\ left' \in LeftSet
    BY <1>1 DEF Types
  <2> QED
    BY <1>1, <1>3, <1>4, <1>5, <1>6, <2>1, TypesByLoader
<1>8. ASSUME Clean' PROVE Core'
  <2>1. Core
    BY <1>1, <1>8 DEF Clean
  <2>2. dl'[l] = d /\ \A k \in Loaders \ {l} : dl'[k] = dl[k]
    BY <1>4, <1>5, GoDlIs DEF Types
  <2>3. \A c \in Blocks : Path(c)' = d.f => c = b
    BY <1>3, <1>4, <2>1 DEF Core
  <2>4. JobI(l)'
    BY <1>4, <2>2, <2>3 DEF JobI, Own
  <2>5. Quiet
    BY <1>1, <1>3 DEF Quiet, Num, St, Writing, T
  <2>6. /\ \A c \in Blocks \ {b} : SameAt(c)
        /\ GentleAt(l, b) /\ GentleInside(l) /\ StatusI(b)'
        /\ \A f \in Files : GentleData(f)
    BY <1>1, <1>2, <2>1, <2>5, CreateGentle
  <2>7. CountI'
    <3>1. CountI /\ \A c \in Blocks : St(c)' = St(c)
      BY <1>1, <2>1 DEF Core, St
    <3>2. \A k \in Loaders : dl'[k].pc = "both" <=> dl[k].pc = "both"
      BY <1>1, <1>4, <2>2
    <3> QED
      BY <1>3, <3>1, <3>2, CountSame
  <2>8. l \notin Handles
    BY ConstantFacts
  <2>9. dl'[l].pc # "get"
    BY <1>4, <2>2
  <2> QED
    BY <1>1, <1>3, <1>7, <2>1, <2>2, <2>4, <2>5, <2>6, <2>7, <2>8, <2>9, QuietByOther
<1> QED
  BY <1>7, <1>8

(* The download has the flock.                                             *)
LEMMA LoadLockStep ==
  ASSUME BlockInv, NEW l \in Loaders, LoadLock(l)
  PROVE  BlockInv'
<1> USE DEF BlockInv
<1> PICK f : f = dl[l].f
  OBVIOUS
<1> PICK d : d = [dl[l] EXCEPT !.pc = "mark"]
  OBVIOUS
<1>1. /\ dl[l].pc = "lock" /\ Free(f, l) /\ disk' = Flock(disk, f, l) /\ GoDl(l, d)
      /\ meta' = meta /\ left' = left /\ cloud' = cloud /\ th' = th /\ up' = up /\ gh' = gh
  BY DEF LoadLock
<1>2. dl[l] \in JobSet /\ f \in Files /\ dl[l].b \in Blocks
  BY <1>1 DEF Types, DlTypes, JobOK
<1>3. d \in JobSet /\ d.pc = "mark" /\ d.f = f /\ d.b = dl[l].b
  BY <1>2, JobMovedIs DEF JobPCs
<1>4. JobOK(d)
  BY <1>2, <1>3 DEF JobOK
<1>5. /\ disk' \in DiskSet /\ disk'.path = disk.path /\ disk'.data = disk.data
      /\ disk'.to = disk.to /\ disk'.cache = disk.cache /\ disk'.flock[f] = l
      /\ \A g \in Files \ {f} : disk'.flock[g] = disk.flock[g]
  BY <1>1, <1>2, FlockIs, ConstantFacts DEF Types
<1>6. SameCounters
  BY <1>1 DEF SameCounters, Cnt
<1>7. Types'
  <2>1. meta' \in MetaSet /\ gh' \in GhSet /\ left' \in LeftSet
    BY <1>1 DEF Types
  <2> QED
    BY <1>1, <1>3, <1>4, <1>5, <1>6, <2>1, TypesByLoader
<1>8. ASSUME Clean' PROVE Core'
  <2>1. Core
    BY <1>1, <1>8 DEF Clean
  <2>2. dl'[l] = d /\ \A k \in Loaders \ {l} : dl'[k] = dl[k]
    BY <1>1, <1>3, GoDlIs DEF Types
  <2>3. Own(d.b, d.f)
    BY <1>1, <1>3, <2>1 DEF Core, JobI
  <2>4. JobI(l)'
    BY <1>3, <1>5, <2>2, <2>3 DEF JobI, Own, Path
  <2>5. Still
    BY <1>1, <1>5 DEF Still
  <2>6. \A g \in Files, q \in Procs \ {l} : disk.flock[g] = q => disk'.flock[g] = q
    <3>1. disk.flock[f] \in {NoOne, l} /\ NoOne \notin Procs
      BY <1>1, ConstantFacts DEF Free
    <3> QED
      BY <1>5, <3>1
  <2> QED
    BY <1>1, <1>3, <1>7, <2>1, <2>2, <2>4, <2>5, <2>6, StillByLoader
<1> QED
  BY <1>7, <1>8

(* The sets the cache counts are finite.                                   *)
LEMMA CountFinite ==
  /\ IsFiniteSet(LocalBlocks) /\ IsFiniteSet(Ahead)
  /\ Cardinality(LocalBlocks) \in Nat /\ Cardinality(Ahead) \in Nat
<1>1. LocalBlocks \subseteq Blocks /\ Ahead \subseteq Loaders
  BY DEF LocalBlocks, Ahead
<1>2. IsFiniteSet(LocalBlocks) /\ IsFiniteSet(Ahead)
  BY <1>1, BlockCacheAssumption, FS_Subset
<1> QED
  BY <1>2, FS_CardinalityType

(* One block comes to local disk.                                          *)
LEMMA LocalAdds ==
  ASSUME NEW b \in Blocks, St(b) \notin Local, St(b)' \in Local,
         \A c \in Blocks \ {b} : St(c)' \in Local <=> St(c) \in Local
  PROVE  Cardinality(LocalBlocks)' = Cardinality(LocalBlocks) + 1
<1>1. LocalBlocks' = LocalBlocks \cup {b} /\ b \notin LocalBlocks
  BY DEF LocalBlocks
<1> QED
  BY <1>1, CountFinite, FS_AddElement

(* One block leaves local disk.                                            *)
LEMMA LocalDrops ==
  ASSUME NEW b \in Blocks, St(b) \in Local, St(b)' \notin Local,
         \A c \in Blocks \ {b} : St(c)' \in Local <=> St(c) \in Local
  PROVE  Cardinality(LocalBlocks)' = Cardinality(LocalBlocks) - 1
<1>1. LocalBlocks' = LocalBlocks \ {b} /\ b \in LocalBlocks
  BY DEF LocalBlocks
<1> QED
  BY <1>1, CountFinite, FS_RemoveElement

(* One block comes to local disk and is counted.                           *)
LEMMA CountAdds ==
  ASSUME CountI, NEW b \in Blocks, St(b) \notin Local, St(b)' \in Local,
         \A c \in Blocks \ {b} : St(c)' \in Local <=> St(c) \in Local,
         \A l \in Loaders : dl'[l].pc = "both" <=> dl[l].pc = "both", disk'.cache = disk.cache + 1
  PROVE  CountI'
<1>1. Cardinality(LocalBlocks)' = Cardinality(LocalBlocks) + 1
  BY LocalAdds
<1>2. Cardinality(Ahead)' = Cardinality(Ahead)
  <2>1. Ahead' = Ahead
    BY DEF Ahead
  <2> QED
    BY <2>1
<1>3. Cardinality(LocalBlocks) \in Nat /\ Cardinality(Ahead) \in Nat
  BY CountFinite
<1> QED
  BY <1>1, <1>2, <1>3 DEF CountI

(* One block leaves local disk and the count.                              *)
LEMMA CountDrops ==
  ASSUME CountI, NEW b \in Blocks, St(b) \in Local, St(b)' \notin Local,
         \A c \in Blocks \ {b} : St(c)' \in Local <=> St(c) \in Local,
         \A l \in Loaders : dl'[l].pc = "both" <=> dl[l].pc = "both", disk'.cache = disk.cache - 1
  PROVE  CountI'
<1>1. Cardinality(LocalBlocks)' = Cardinality(LocalBlocks) - 1
  BY LocalDrops
<1>2. Cardinality(Ahead)' = Cardinality(Ahead)
  <2>1. Ahead' = Ahead
    BY DEF Ahead
  <2> QED
    BY <2>1
<1>3. Cardinality(LocalBlocks) \in Nat /\ Cardinality(Ahead) \in Nat
  BY CountFinite
<1> QED
  BY <1>1, <1>2, <1>3 DEF CountI

(* A pinning download counts ahead of its second mark.                     *)
LEMMA CountAhead ==
  ASSUME CountI, NEW l \in Loaders, dl[l].pc # "both", dl'[l].pc = "both",
         \A k \in Loaders \ {l} : dl'[k] = dl[k],
         \A c \in Blocks : St(c)' = St(c), disk'.cache = disk.cache + 1
  PROVE  CountI'
<1>1. LocalBlocks' = LocalBlocks
  BY DEF LocalBlocks
<1>2. Ahead' = Ahead \cup {l} /\ l \notin Ahead
  BY DEF Ahead
<1>3. Cardinality(Ahead') = Cardinality(Ahead) + 1
  BY <1>2, CountFinite, FS_AddElement
<1>4. Cardinality(LocalBlocks) \in Nat /\ Cardinality(Ahead) \in Nat
  BY CountFinite
<1> QED
  BY <1>1, <1>3, <1>4 DEF CountI

(* The second mark of a pinning download that has counted.                 *)
LEMMA CountMarked ==
  ASSUME CountI, NEW l \in Loaders, dl[l].pc = "both", dl'[l].pc # "both",
         \A k \in Loaders \ {l} : dl'[k] = dl[k],
         NEW b \in Blocks, St(b) \notin Local, St(b)' \in Local,
         \A c \in Blocks \ {b} : St(c)' \in Local <=> St(c) \in Local, disk'.cache = disk.cache
  PROVE  CountI'
<1>1. Cardinality(LocalBlocks)' = Cardinality(LocalBlocks) + 1
  BY LocalAdds
<1>2. Ahead' = Ahead \ {l} /\ l \in Ahead
  BY DEF Ahead
<1>3. Cardinality(Ahead') = Cardinality(Ahead) - 1
  BY <1>2, CountFinite, FS_RemoveElement
<1>4. Cardinality(LocalBlocks) \in Nat /\ Cardinality(Ahead) \in Nat
  BY CountFinite
<1> QED
  BY <1>1, <1>3, <1>4 DEF CountI

(* While the metadata is free nobody is inside it.                         *)
LEMMA FreeInside ==
  ASSUME Core, MetaFree
  PROVE  \A p : GentleInside(p)
BY DEF Core, LockI, MetaFree, GentleInside

(* A transfer from the cloud: what is spent and what the file holds.       *)
LEMMA FetchIs ==
  ASSUME Types, NEW b \in Blocks, NEW n \in 0..MaxSeq, NEW ok \in BOOLEAN, fetch_from_cloud(b, n, ok),
         NEW f \in Files, NEW D, D = Fetched(b, n, f, ok)
  PROVE  /\ left' \in LeftSet /\ left'.mod = left.mod /\ left'.page = left.page
         /\ D \in DiskSet /\ D.path = disk.path /\ D.flock = disk.flock /\ D.to = disk.to
         /\ D.cache = disk.cache
         /\ ok => D.data[f] = cloud.obj[b][n]
         /\ \A g \in Files \ {f} : D.data[g] = disk.data[g]
<1>1. left' \in LeftSet /\ left'.mod = left.mod /\ left'.page = left.page
  <2>1. CASE left' = left
    BY <2>1 DEF Types
  <2>2. CASE left' # left
    BY <2>2, ConstantFacts DEF Types, fetch_from_cloud, LeftSet
  <2> QED
    BY <2>1, <2>2
<1> PICK v : v = IF ok THEN cloud.obj[b][n] ELSE {}
  OBVIOUS
<1>2. v \in Marks
  <2>1. CASE ok
    <3>1. cloud.obj[b][n] \in Contents
      BY DEF Types, CloudSet
    <3>2. cloud.obj[b][n] # Absent
      BY <2>1 DEF fetch_from_cloud
    <3>3. v = cloud.obj[b][n]
      BY <2>1
    <3> QED
      BY ONLY <3>1, <3>2, <3>3 DEF Contents, Marks
  <2>2. CASE ~ok
    BY <2>2 DEF Marks
  <2> QED
    BY <2>1, <2>2
<1>3. D = Filled(disk, f, v)
  BY DEF Fetched, Filled
<1>4. disk \in DiskSet
  BY DEF Types
<1>5. /\ D \in DiskSet /\ D.path = disk.path /\ D.flock = disk.flock /\ D.to = disk.to
      /\ D.cache = disk.cache /\ D.data[f] = v /\ \A g \in Files \ {f} : D.data[g] = disk.data[g]
  BY <1>2, <1>3, <1>4, FilledIs
<1> QED
  BY <1>1, <1>5

(* The first mark of a download.                                           *)
LEMMA MarkStep ==
  ASSUME BlockInv, NEW l \in Loaders, _modify_block_status(l)
  PROVE  BlockInv'
<1> USE DEF BlockInv
<1> PICK b : b = dl[l].b
  OBVIOUS
<1>1. /\ dl[l].pc = "mark" /\ MetaFree
      /\ left' = left /\ cloud' = cloud /\ th' = th /\ up' = up
  BY DEF _modify_block_status
<1>2. dl[l] \in JobSet /\ dl[l].f \in Files /\ b \in Blocks
  BY <1>1 DEF Types, DlTypes, JobOK
<1>3. CASE St(b) \in Remote
  <2> PICK d : d = [dl[l] EXCEPT !.pc = "get"]
    OBVIOUS
  <2> PICK K : K = If("loadseq", dl[l].seq # Num(b)) \cup If("orphan", dl[l].f # Path(b))
    OBVIOUS
  <2>1. meta' = SetSt(meta, b, "CtoL") /\ GoDl(l, d) /\ disk' = disk /\ gh' = Flagged(gh, K)
    BY <1>3 DEF _modify_block_status, St, Num, Path, Flagged
  <2>2. d \in JobSet /\ d.pc = "get" /\ d.f = dl[l].f /\ d.b = b /\ d.seq = dl[l].seq
    BY <1>2, JobMovedIs DEF JobPCs
  <2>3. JobOK(d)
    BY <1>2, <2>2 DEF JobOK
  <2>4. K \in SUBSET Hazards
    BY DEF If, Hazards
  <2>5. K = {} => dl[l].seq = Num(b) /\ dl[l].f = Path(b)
    BY DEF If
  <2>6. /\ gh' \in GhSet /\ gh'.known = gh.known \cup K /\ gh'.cur = gh.cur /\ gh'.snap = gh.snap
        /\ gh'.cloud = gh.cloud /\ gh'.ver = gh.ver /\ gh'.loose = gh.loose
    BY <2>1, <2>4, KnownIs DEF Types
  <2>7. /\ meta' \in MetaSet /\ meta'.fin = meta.fin /\ meta'.inc = meta.inc /\ meta'.lock = meta.lock
        /\ St(b)' = "CtoL" /\ Num(b)' = Num(b) /\ Cnt(b)' = Cnt(b)
        /\ \A c \in Blocks \ {b} : meta'.blk[c] = meta.blk[c]
    BY <1>2, <2>1, SetStIs DEF Types, St, Num, Cnt, Statuses, Remote
  <2>8. SameCounters
    BY <1>1, <2>7 DEF SameCounters, Cnt
  <2>9. Types'
    <3>1. disk' \in DiskSet /\ left' \in LeftSet
      BY <1>1, <2>1 DEF Types
    <3> QED
      BY <1>1, <2>1, <2>2, <2>3, <2>6, <2>7, <2>8, <3>1, TypesByLoader
  <2>10. ASSUME Clean' PROVE Core'
    <3>1. Core /\ dl[l].seq = Num(b) /\ dl[l].f = Path(b)
      BY <2>5, <2>6, <2>10 DEF Clean
    <3>2. dl'[l] = d /\ \A k \in Loaders \ {l} : dl'[k] = dl[k]
      BY <2>1, <2>2, GoDlIs DEF Types
    <3>3. JobI(l)'
      <4>1. JobI(l)
        BY <3>1 DEF Core
      <4> QED
        BY <1>1, <2>1, <2>2, <2>7, <3>1, <3>2, <4>1 DEF JobI, Own, Marked, Path
    <3>4. Quiet
      BY <1>1, <1>3, <2>1, <2>6, <2>7, ZenonT(30) DEF Quiet, Num, St, Writing, T, InCloud, Remote
    <3>5. \A c \in Blocks \ {b} : SameAt(c)
      BY <2>1, <2>6, <2>7 DEF SameAt, Path
    <3>6. GentleAt(l, b)
      BY <1>3, <2>1, <2>6, <2>7 DEF GentleAt, KeepsPath, KeepsVersion, KeepsDownload, KeepsCached, KeepsRead, Path
    <3>7. StatusI(b)'
      <4>1. StatusI(b)
        BY <1>2, <3>1 DEF Core
      <4>2. (Writing(b)' <=> Writing(b)) /\ St(b) \notin Gone
        BY <1>2, <1>3, <3>4 DEF Quiet, Remote, Gone
      <4> QED
        BY <1>1, <1>3, <2>6, <2>7, <4>1, <4>2 DEF StatusI, Local, Remote, Gone
    <3>8. (\A f \in Files : GentleData(f)) /\ GentleInside(l)
      BY <1>1, <2>1, <3>1, FreeInside DEF GentleData
    <3>9. CountI'
      <4>1. \A c \in Blocks : St(c)' \in Local <=> St(c) \in Local
        BY <1>3, <2>7 DEF St, Local, Remote
      <4>2. CountI /\ \A k \in Loaders : dl'[k].pc = "both" <=> dl[k].pc = "both"
        BY <1>1, <2>2, <3>1, <3>2 DEF Core
      <4> QED
        BY <2>1, <4>1, <4>2, CountSame
    <3>10. ~Cached(d.f) /\ l \notin Handles
      BY <1>2, <1>3, <2>2, <3>1, NotCached, ConstantFacts
    <3> QED
      BY <1>1, <2>1, <2>6, <2>7, <2>9, <3>1, <3>2, <3>3, <3>4, <3>5, <3>6, <3>7, <3>8, <3>9, <3>10, QuietByOther
  <2> QED
    BY <2>9, <2>10
<1>4. CASE St(b) \notin Remote
  <2>1. disk' = Funlock(disk, l) /\ GoDl(l, IdleDl) /\ meta' = meta /\ gh' = gh
    BY <1>4 DEF _modify_block_status, EndLoad, St
  <2>2. /\ disk' \in DiskSet /\ disk'.path = disk.path /\ disk'.data = disk.data
        /\ disk'.to = disk.to /\ disk'.cache = disk.cache
        /\ \A g \in Files : disk.flock[g] # l => disk'.flock[g] = disk.flock[g]
    BY <2>1, FunlockIs, ConstantFacts DEF Types
  <2>3. SameCounters
    BY <1>1, <2>1 DEF SameCounters, Cnt
  <2>4. Types'
    <3>1. meta' \in MetaSet /\ gh' \in GhSet /\ left' \in LeftSet
      BY <1>1, <2>1 DEF Types
    <3>2. IdleDl \in JobSet /\ JobOK(IdleDl)
      BY IdleIs DEF JobOK
    <3> QED
      BY <1>1, <2>1, <2>2, <2>3, <3>1, <3>2, TypesByLoader
  <2>5. ASSUME Clean' PROVE Core'
    <3>1. Core
      BY <2>1, <2>5 DEF Clean
    <3>2. dl'[l] = IdleDl /\ \A k \in Loaders \ {l} : dl'[k] = dl[k]
      BY <2>1, IdleIs, GoDlIs DEF Types
    <3>3. JobI(l)'
      BY <3>2, IdleIs DEF JobI
    <3>4. Still
      BY <1>1, <2>1, <2>2 DEF Still
    <3>5. \A f \in Files, q \in Procs \ {l} : disk.flock[f] = q => disk'.flock[f] = q
      BY <2>2
    <3> QED
      BY <1>1, <2>1, <2>4, <3>1, <3>2, <3>3, <3>4, <3>5, IdleIs, StillByLoader
  <2> QED
    BY <2>4, <2>5
<1> QED
  BY <1>3, <1>4

(* The invariant when process p, which has locked file f of block b, fills *)
(* it.                                                                     *)
LEMMA FillKeeps ==
  ASSUME Types, Core, NEW p, NEW b \in Blocks, NEW f \in Files, NEW n,
         Own(b, f), Marked(b, f, n), disk.flock[f] = p, ~Cached(f),
         Quiet, meta' = meta, disk'.path = disk.path,
         \A g \in Files \ {f} : disk'.data[g] = disk.data[g]
  PROVE  /\ \A c \in Blocks \ {b} : SameAt(c)
         /\ GentleAt(p, b) /\ StatusI(b)'
         /\ \A g \in Files : GentleData(g)
         /\ Own(b, f)' /\ Marked(b, f, n)'
         /\ disk'.data[f] = cloud.obj[b][n] => Got(b, f)'
<1>1. \A c \in Blocks : Path(c)' = Path(c) /\ St(c)' = St(c) /\ Num(c)' = Num(c) /\ Cnt(c)' = Cnt(c)
                        /\ gh'.cur[c] = gh.cur[c] /\ gh'.ver[c] = gh.ver[c]
                        /\ (Path(c) # 0 => Path(c) \in Files)
  BY PathIs DEF Path, St, Num, Cnt, Quiet
<1>2. \A c \in Blocks : Path(c) # f => SameAt(c)
  BY <1>1 DEF SameAt
<1>3. \A c \in Blocks \ {b} : SameAt(c)
  BY <1>2 DEF Own
<1>4. CASE Path(b) # f
  <2>1. SameAt(b)
    BY <1>2, <1>4
  <2>2. GentleAt(p, b) /\ StatusI(b)'
    BY <2>1, SameIsGentle, QuietStatus
  <2> QED
    BY <1>1, <1>3, <1>4, <2>2, FillGentle DEF Own, Marked, Got
<1>5. CASE Path(b) = f
  <2>1. St(b) = "CtoL" /\ n = Num(b)
    BY <1>5 DEF Marked
  <2>2. GentleAt(p, b)
    BY <1>1, <1>5, <2>1 DEF GentleAt, KeepsPath, KeepsVersion, KeepsDownload, KeepsCached, KeepsRead
  <2>3. StatusI(b) /\ (Writing(b)' <=> Writing(b)) /\ cloud' = cloud /\ meta'.fin = meta.fin
    BY DEF Core, Quiet
  <2>4. StatusI(b)'
    BY <1>1, <2>1, <2>3 DEF StatusI, Local, Remote, Gone
  <2>5. cloud.obj[b][n] = gh.cur[b]
    BY <2>1, <2>3 DEF StatusI, Remote
  <2> QED
    BY <1>1, <1>3, <2>1, <2>2, <2>4, <2>5, FillGentle DEF Own, Marked, Got, Data
<1> QED
  BY <1>4, <1>5

(* The transfer of a download.                                             *)
LEMMA LoadGetStep ==
  ASSUME BlockInv, NEW l \in Loaders, NEW ok \in BOOLEAN, LoadGet(l, ok)
  PROVE  BlockInv'
<1> USE DEF BlockInv
<1> PICK b : b = dl[l].b
  OBVIOUS
<1> PICK n : n = dl[l].seq
  OBVIOUS
<1> PICK f : f = dl[l].f
  OBVIOUS
<1> PICK D : D = Fetched(b, n, f, ok)
  OBVIOUS
<1> PICK d : d = IF ok THEN [dl[l] EXCEPT !.pc = IF dl[l].pin THEN "stat" ELSE "done"] ELSE IdleDl
  OBVIOUS
<1>1. /\ dl[l].pc = "get" /\ fetch_from_cloud(b, n, ok) /\ GoDl(l, d)
      /\ disk' = IF ok THEN D ELSE Funlock(D, l)
      /\ meta' = meta /\ gh' = gh /\ cloud' = cloud /\ th' = th /\ up' = up
  BY DEF LoadGet, EndLoad
<1>2. dl[l] \in JobSet /\ f \in Files /\ b \in Blocks /\ n \in 0..MaxSeq
  BY <1>1 DEF Types, DlTypes, JobOK, JobSet
<1>3. /\ d \in JobSet
      /\ ok => d.pc \in {"stat", "done"} /\ d.f = f /\ d.b = b /\ d.seq = n
      /\ ~ok => d.pc = "idle" /\ d.f = 0
  <2>1. CASE ok
    <3>1. PICK pc : pc = IF dl[l].pin THEN "stat" ELSE "done"
      OBVIOUS
    <3>2. pc \in {"stat", "done"} /\ pc \in JobPCs
      BY <3>1 DEF JobPCs
    <3>3. d = [dl[l] EXCEPT !.pc = pc]
      BY <2>1, <3>1
    <3>4. d \in JobSet /\ d.pc = pc /\ d.b = dl[l].b /\ d.f = dl[l].f /\ d.seq = dl[l].seq
      BY ONLY <1>2, <3>2, <3>3, JobMovedIs
    <3> QED
      BY <2>1, <3>2, <3>4
  <2>2. CASE ~ok
    BY <2>2, IdleIs
  <2> QED
    BY <2>1, <2>2
<1>4. JobOK(d)
  BY <1>2, <1>3 DEF JobOK
<1>5. /\ left' \in LeftSet /\ left'.mod = left.mod /\ left'.page = left.page
      /\ D \in DiskSet /\ D.path = disk.path /\ D.flock = disk.flock /\ D.to = disk.to
      /\ D.cache = disk.cache
      /\ ok => D.data[f] = cloud.obj[b][n]
      /\ \A g \in Files \ {f} : D.data[g] = disk.data[g]
  BY <1>1, <1>2, FetchIs
<1>6. /\ disk' \in DiskSet /\ disk'.path = disk.path /\ disk'.to = disk.to
      /\ disk'.cache = disk.cache
      /\ ok => disk'.data[f] = cloud.obj[b][n] /\ disk'.flock = disk.flock
      /\ \A g \in Files \ {f} : disk'.data[g] = disk.data[g]
      /\ \A g \in Files : disk.flock[g] # l => disk'.flock[g] = disk.flock[g]
  <2>1. CASE ok
    <3>1. disk' = D
      BY <1>1, <2>1
    <3> QED
      BY <1>5, <2>1, <3>1
  <2>2. CASE ~ok
    <3>1. disk' = Funlock(D, l)
      BY <1>1, <2>2
    <3>2. /\ Funlock(D, l) \in DiskSet
          /\ Funlock(D, l).path = D.path /\ Funlock(D, l).data = D.data
          /\ Funlock(D, l).to = D.to /\ Funlock(D, l).cache = D.cache
          /\ \A g \in Files : D.flock[g] # l => Funlock(D, l).flock[g] = D.flock[g]
      BY <1>5, FunlockIs, ConstantFacts
    <3> QED
      BY ONLY <1>5, <2>2, <3>1, <3>2
  <2> QED
    BY <2>1, <2>2
<1>7. SameCounters
  BY <1>1, <1>5 DEF SameCounters, Cnt
<1>8. Types'
  <2>1. meta' \in MetaSet /\ gh' \in GhSet
    BY <1>1 DEF Types
  <2> QED
    BY <1>1, <1>3, <1>4, <1>5, <1>6, <1>7, <2>1, TypesByLoader
<1>9. ASSUME Clean' PROVE Core'
  <2>1. Core
    BY <1>1, <1>9 DEF Clean
  <2>2. dl'[l] = d /\ \A k \in Loaders \ {l} : dl'[k] = dl[k]
    BY <1>1, <1>3, GoDlIs DEF Types
  <2>3. Own(b, f) /\ Marked(b, f, n) /\ disk.flock[f] = l
    BY <1>1, <2>1 DEF Core, JobI
  <2>4. ~Cached(f)
    BY <1>1, <2>1 DEF Core, NoReader, Cached
  <2>5. Quiet
    BY <1>1, <1>6 DEF Quiet, Num, St, Writing, T
  <2>6. /\ \A c \in Blocks \ {b} : SameAt(c)
        /\ GentleAt(l, b) /\ StatusI(b)'
        /\ \A g \in Files : GentleData(g)
        /\ Own(b, f)' /\ Marked(b, f, n)'
        /\ disk'.data[f] = cloud.obj[b][n] => Got(b, f)'
    <3>1. Types /\ meta' = meta /\ disk'.path = disk.path
      BY <1>1, <1>6
    <3>2. \A g \in Files \ {f} : disk'.data[g] = disk.data[g]
      BY <1>6
    <3> QED
      BY ONLY <1>2, <2>1, <2>3, <2>4, <2>5, <3>1, <3>2, FillKeeps
  <2>7. JobI(l)'
    <3>1. CASE ok
      BY <1>3, <1>6, <2>2, <2>3, <2>6, <3>1 DEF JobI
    <3>2. CASE ~ok
      BY <1>3, <2>2, <3>2 DEF JobI
    <3> QED
      BY <3>1, <3>2
  <2>8. CountI'
    <3>1. CountI /\ \A c \in Blocks : St(c)' = St(c)
      BY <1>1, <2>1 DEF Core, St
    <3>2. \A k \in Loaders : dl'[k].pc = "both" <=> dl[k].pc = "both"
      BY <1>1, <1>3, <2>2
    <3> QED
      BY <1>6, <3>1, <3>2, CountSame
  <2>9. l \notin Handles /\ dl'[l].pc # "get"
    BY <1>3, <2>2, ConstantFacts
  <2>10. \A g \in Files, q \in Procs \ {l} : disk.flock[g] = q => disk'.flock[g] = q
    BY <1>6
  <2>11. GentleInside(l)
    BY <1>1, <1>6 DEF GentleInside, St, Path
  <2> QED
    BY <1>1, <1>8, <2>1, <2>2, <2>5, <2>6, <2>7, <2>8, <2>9, <2>10, <2>11, QuietByOther
<1> QED
  BY <1>8, <1>9

(* The invariant when process p, which has filled the file of block b and  *)
(* still holds its flock, marks the block.                                 *)
LEMMA BothKeeps ==
  ASSUME Types, Core, NEW p, NEW b \in Blocks, Path(b) # 0, St(b) = "CtoL", Got(b, Path(b)),
         disk.flock[Path(b)] = p, Quiet, disk'.path = disk.path, disk'.data = disk.data,
         St(b)' = "BOTH", Cnt(b)' = Cnt(b),
         \A c \in Blocks \ {b} : meta'.blk[c] = meta.blk[c]
  PROVE  /\ \A c \in Blocks \ {b} : SameAt(c)
         /\ GentleAt(p, b) /\ StatusI(b)'
         /\ \A g \in Files : GentleData(g)
<1>1. \A c \in Blocks : Path(c)' = Path(c) /\ gh'.cur[c] = gh.cur[c] /\ gh'.ver[c] = gh.ver[c]
  BY DEF Path, Quiet
<1>2. \A c \in Blocks \ {b} : SameAt(c)
  BY <1>1 DEF SameAt
<1>3. GentleAt(p, b)
  BY <1>1 DEF GentleAt, KeepsPath, KeepsVersion, KeepsDownload, KeepsCached, KeepsRead, Remote
<1>4. StatusI(b)'
  <2>1. StatusI(b) /\ (Writing(b)' <=> Writing(b)) /\ cloud' = cloud /\ meta'.fin = meta.fin
        /\ Num(b)' = Num(b)
    BY DEF Core, Quiet
  <2>2. disk.data[Path(b)] = gh.cur[b]
    BY DEF Got, Data
  <2> QED
    BY <1>1, <2>1, <2>2 DEF StatusI, Local, Remote, Gone, Data
<1>5. \A g \in Files : GentleData(g)
  BY DEF GentleData
<1> QED
  BY <1>2, <1>3, <1>4, <1>5

(* The end of a prefetch.                                                  *)
LEMMA PrefetchStep ==
  ASSUME BlockInv, NEW l \in Loaders, prefetch_block(l)
  PROVE  BlockInv'
<1> USE DEF BlockInv
<1> PICK b : b = dl[l].b
  OBVIOUS
<1> PICK D : D = IF Path(b) # 0 THEN Counted(disk) ELSE disk
  OBVIOUS
<1>1. /\ dl[l].pc = "done" /\ MetaFree /\ disk' = Funlock(D, l) /\ GoDl(l, IdleDl)
      /\ meta' = IF Path(b) # 0 /\ St(b) = "CtoL" THEN SetSt(meta, b, "BOTH") ELSE meta
      /\ gh' = Taken(b, dl[l].f)
      /\ left' = left /\ cloud' = cloud /\ th' = th /\ up' = up
  BY DEF prefetch_block, EndLoad, Path, St
<1>2. dl[l] \in JobSet /\ dl[l].f \in Files /\ b \in Blocks
  BY <1>1 DEF Types, DlTypes, JobOK
<1>3. /\ D \in DiskSet /\ D.path = disk.path /\ D.data = disk.data /\ D.flock = disk.flock
      /\ D.to = disk.to /\ D.cache = IF Path(b) # 0 THEN disk.cache + 1 ELSE disk.cache
  <2>1. disk \in DiskSet
    BY DEF Types
  <2>2. /\ Counted(disk) \in DiskSet /\ Counted(disk).cache = disk.cache + 1
        /\ Counted(disk).path = disk.path /\ Counted(disk).data = disk.data
        /\ Counted(disk).flock = disk.flock /\ Counted(disk).to = disk.to
    BY <2>1, CountedIs
  <2> QED
    BY <2>1, <2>2
<1>4. /\ disk' \in DiskSet /\ disk'.path = disk.path /\ disk'.data = disk.data /\ disk'.to = disk.to
      /\ disk'.cache = IF Path(b) # 0 THEN disk.cache + 1 ELSE disk.cache
      /\ \A g \in Files : disk.flock[g] # l => disk'.flock[g] = disk.flock[g]
  <2>1. /\ Funlock(D, l) \in DiskSet
        /\ Funlock(D, l).path = D.path /\ Funlock(D, l).data = D.data
        /\ Funlock(D, l).to = D.to /\ Funlock(D, l).cache = D.cache
        /\ \A g \in Files : D.flock[g] # l => Funlock(D, l).flock[g] = D.flock[g]
    BY <1>3, FunlockIs, ConstantFacts
  <2>2. disk' = Funlock(D, l)
    BY <1>1
  <2> QED
    BY ONLY <1>3, <2>1, <2>2
<1>5. /\ SetSt(meta, b, "BOTH") \in MetaSet
      /\ SetSt(meta, b, "BOTH").fin = meta.fin /\ SetSt(meta, b, "BOTH").inc = meta.inc
      /\ SetSt(meta, b, "BOTH").lock = meta.lock
      /\ SetSt(meta, b, "BOTH").blk[b].st = "BOTH" /\ SetSt(meta, b, "BOTH").blk[b].seq = meta.blk[b].seq
      /\ SetSt(meta, b, "BOTH").blk[b].cnt = meta.blk[b].cnt
      /\ \A c \in Blocks \ {b} : SetSt(meta, b, "BOTH").blk[c] = meta.blk[c]
  BY <1>2, SetStIs DEF Types, Statuses, Local
<1>6. /\ meta' \in MetaSet /\ meta'.fin = meta.fin /\ meta'.inc = meta.inc /\ meta'.lock = meta.lock
      /\ Num(b)' = Num(b) /\ Cnt(b)' = Cnt(b)
      /\ \A c \in Blocks \ {b} : meta'.blk[c] = meta.blk[c]
      /\ Path(b) # 0 /\ St(b) = "CtoL" => St(b)' = "BOTH"
      /\ Path(b) = 0 => meta' = meta
  <2>1. CASE Path(b) # 0 /\ St(b) = "CtoL"
    BY <1>1, <1>5, <2>1 DEF St, Num, Cnt
  <2>2. CASE ~(Path(b) # 0 /\ St(b) = "CtoL")
    BY <1>1, <2>2 DEF Types, Num, Cnt
  <2> QED
    BY <2>1, <2>2
<1>7. SameCounters
  BY <1>1, <1>6 DEF SameCounters, Cnt
<1>8. /\ gh' \in GhSet /\ SameHistory(gh') /\ gh'.loose = gh.loose
      /\ gh'.known = {} => /\ gh.known = {}
                           /\ Path(b) # 0 => St(b) = "CtoL" /\ Path(b) = dl[l].f
  BY <1>1, TakenIs DEF Types, SameHistory
<1>9. Types'
  <2>1. left' \in LeftSet /\ IdleDl \in JobSet /\ JobOK(IdleDl)
    BY <1>1, IdleIs DEF Types, JobOK
  <2> QED
    BY <1>1, <1>4, <1>6, <1>7, <1>8, <2>1, TypesByLoader
<1>10. ASSUME Clean' PROVE Core'
  <2>1. Core /\ (Path(b) # 0 => St(b) = "CtoL" /\ Path(b) = dl[l].f)
    BY <1>8, <1>10 DEF Clean
  <2>2. dl'[l] = IdleDl /\ \A k \in Loaders \ {l} : dl'[k] = dl[k]
    BY <1>1, IdleIs, GoDlIs DEF Types
  <2>3. JobI(l)'
    BY <2>2, IdleIs DEF JobI
  <2>4. \A f \in Files, q \in Procs \ {l} : disk.flock[f] = q => disk'.flock[f] = q
    BY <1>4
  <2>5. CASE Path(b) = 0
    <3>1. Still
      BY <1>1, <1>4, <1>6, <1>8, <2>5 DEF Still, SameHistory
    <3> QED
      BY <1>1, <1>6, <1>8, <1>9, <2>1, <2>2, <2>3, <2>4, <3>1, IdleIs, StillByLoader
  <2>6. CASE Path(b) # 0
    <3>1. Quiet
      BY <1>1, <1>4, <1>6, <1>8, <2>1, <2>6, ZenonT(30) DEF Quiet, Num, St, Writing, T, InCloud, Remote, SameHistory
    <3>2. Got(b, Path(b)) /\ disk.flock[Path(b)] = l
      BY <1>1, <2>1, <2>6 DEF Core, JobI
    <3>3. /\ \A c \in Blocks \ {b} : SameAt(c)
          /\ GentleAt(l, b) /\ StatusI(b)'
          /\ \A g \in Files : GentleData(g)
      <4>1. /\ Types /\ Core /\ Path(b) # 0 /\ St(b) = "CtoL"
            /\ disk'.path = disk.path /\ disk'.data = disk.data /\ St(b)' = "BOTH" /\ Cnt(b)' = Cnt(b)
        BY <1>4, <1>6, <2>1, <2>6
      <4>2. \A c \in Blocks \ {b} : meta'.blk[c] = meta.blk[c]
        BY <1>6
      <4> QED
        BY ONLY <1>2, <3>1, <3>2, <4>1, <4>2, BothKeeps
    <3>4. CountI'
      <4>1. CountI /\ St(b) \notin Local /\ St(b)' \in Local /\ disk'.cache = disk.cache + 1
        BY <1>4, <1>6, <2>1, <2>6 DEF Core, Local
      <4>2. \A c \in Blocks \ {b} : St(c)' \in Local <=> St(c) \in Local
        BY <1>6 DEF St
      <4>3. \A k \in Loaders : dl'[k].pc = "both" <=> dl[k].pc = "both"
        BY <1>1, <2>2, IdleIs
      <4> QED
        BY ONLY <1>2, <4>1, <4>2, <4>3, CountAdds
    <3>5. l \notin Handles /\ dl'[l].pc # "get" /\ GentleInside(l)
      BY <1>1, <2>1, <2>2, IdleIs, ConstantFacts, FreeInside
    <3> QED
      BY <1>1, <1>6, <1>8, <1>9, <2>1, <2>2, <2>3, <2>4, <3>1, <3>3, <3>4, <3>5, QuietByOther
  <2> QED
    BY <2>5, <2>6
<1> QED
  BY <1>9, <1>10

(* A status that may be set.                                               *)
LEMMA MaySetSt ==
  ASSUME Types, NEW b \in Blocks, NEW s \in Statuses, NEW w,
         meta' = IF w THEN SetSt(meta, b, s) ELSE meta
  PROVE  /\ meta' \in MetaSet /\ meta'.fin = meta.fin /\ meta'.inc = meta.inc
         /\ meta'.lock = meta.lock /\ Num(b)' = Num(b) /\ Cnt(b)' = Cnt(b)
         /\ \A c \in Blocks \ {b} : meta'.blk[c] = meta.blk[c]
         /\ w => St(b)' = s
         /\ ~w => meta' = meta
<1>1. CASE w
  <2>1. meta' = SetSt(meta, b, s)
    BY <1>1
  <2>2. meta \in MetaSet
    BY DEF Types
  <2> QED
    BY <1>1, <2>1, <2>2, SetStIs DEF St, Num, Cnt
<1>2. CASE ~w
  BY <1>2 DEF Types, Num, Cnt
<1> QED
  BY <1>1, <1>2

(* A pinning download counts its file.                                     *)
LEMMA PinStatStep ==
  ASSUME BlockInv, NEW l \in Loaders, PinStat(l)
  PROVE  BlockInv'
<1> USE DEF BlockInv
<1> PICK b : b = dl[l].b
  OBVIOUS
<1> PICK pc : pc = IF Path(b) # 0 THEN "both" ELSE "undo"
  OBVIOUS
<1> PICK d : d = [dl[l] EXCEPT !.pc = pc]
  OBVIOUS
<1>1. /\ dl[l].pc = "stat" /\ GoDl(l, d)
      /\ disk' = IF Path(b) # 0 THEN Counted(disk) ELSE disk
      /\ meta' = meta /\ gh' = gh /\ left' = left /\ cloud' = cloud /\ th' = th /\ up' = up
  BY DEF PinStat, Path
<1>2. dl[l] \in JobSet /\ dl[l].f \in Files /\ b \in Blocks
  BY <1>1 DEF Types, DlTypes, JobOK
<1>3. /\ d \in JobSet /\ d.f = dl[l].f /\ d.b = b /\ d.seq = dl[l].seq
      /\ Path(b) # 0 => d.pc = "both"
      /\ Path(b) = 0 => d.pc = "undo"
  <2>1. pc \in JobPCs
    BY DEF JobPCs
  <2> QED
    BY <1>2, <2>1, JobMovedIs
<1>4. JobOK(d)
  BY <1>2, <1>3 DEF JobOK
<1>5. /\ disk' \in DiskSet /\ disk'.path = disk.path /\ disk'.data = disk.data /\ disk'.to = disk.to
      /\ disk'.flock = disk.flock
      /\ disk'.cache = IF Path(b) # 0 THEN disk.cache + 1 ELSE disk.cache
  <2>1. disk \in DiskSet
    BY DEF Types
  <2> QED
    BY <1>1, <2>1, CountedIs
<1>6. SameCounters
  BY <1>1 DEF SameCounters, Cnt
<1>7. Types'
  <2>1. meta' \in MetaSet /\ gh' \in GhSet /\ left' \in LeftSet
    BY <1>1 DEF Types
  <2> QED
    BY <1>1, <1>3, <1>4, <1>5, <1>6, <2>1, TypesByLoader
<1>8. ASSUME Clean' PROVE Core'
  <2>1. Core
    BY <1>1, <1>8 DEF Clean
  <2>2. dl'[l] = d /\ \A k \in Loaders \ {l} : dl'[k] = dl[k]
    BY <1>1, <1>3, GoDlIs DEF Types
  <2>3. JobI(l)'
    <3> PICK f : f = dl[l].f
      OBVIOUS
    <3> PICK n : n = dl[l].seq
      OBVIOUS
    <3>1. Own(b, f) /\ disk.flock[f] = l /\ Marked(b, f, n) /\ Got(b, f)
      BY <1>1, <2>1 DEF Core, JobI
    <3>2. 0 \notin Files
      BY ConstantFacts
    <3>3. Own(b, f)' /\ disk'.flock[f] = l /\ Marked(b, f, n)' /\ Got(b, f)'
      BY <1>1, <1>5, <3>1 DEF Own, Marked, Got, Path, St, Num, Data
    <3>4. Path(b) = 0 => Path(b)' # f
      BY <1>2, <1>5, <3>2 DEF Path
    <3> QED
      BY <1>3, <2>2, <3>3, <3>4 DEF JobI
  <2>4. Quiet
    BY <1>1, <1>5 DEF Quiet, Num, St, Writing, T
  <2>5. \A c \in Blocks : SameAt(c) /\ St(c)' = St(c)
    BY <1>1, <1>5 DEF SameAt, Path, St
  <2>6. (\A f \in Files : GentleData(f)) /\ GentleInside(l)
    BY <1>5, <2>5 DEF GentleData, GentleInside, SameAt
  <2>7. CountI'
    <3>1. CASE Path(b) # 0
      BY <1>1, <1>3, <1>5, <2>1, <2>2, <2>5, <3>1, CountAhead DEF Core
    <3>2. CASE Path(b) = 0
      <4>1. \A k \in Loaders : dl'[k].pc = "both" <=> dl[k].pc = "both"
        BY <1>1, <1>3, <2>2, <3>2
      <4> QED
        BY <1>5, <2>1, <2>5, <3>2, <4>1, CountSame DEF Core
    <3> QED
      BY <3>1, <3>2
  <2>8. l \notin Handles /\ dl'[l].pc # "get"
    BY <1>3, <2>2, ConstantFacts
  <2>9. GentleAt(l, b) /\ StatusI(b)'
    BY <1>2, <2>1, <2>4, <2>5, SameIsGentle, QuietStatus
  <2> QED
    BY <1>1, <1>5, <1>7, <2>1, <2>2, <2>3, <2>4, <2>5, <2>6, <2>7, <2>8, <2>9, QuietByOther
<1> QED
  BY <1>7, <1>8

(* The second mark of a pinning download.                                  *)
LEMMA PinMarkStep ==
  ASSUME BlockInv, NEW l \in Loaders, fetch_backend_block(l)
  PROVE  BlockInv'
<1> USE DEF BlockInv
<1> PICK b : b = dl[l].b
  OBVIOUS
<1> PICK s : s = IF dl[l].pc = "both" THEN "BOTH" ELSE "CLOUD"
  OBVIOUS
<1>1. /\ dl[l].pc \in {"both", "undo"} /\ MetaFree /\ disk' = Funlock(disk, l) /\ GoDl(l, IdleDl)
      /\ meta' = IF St(b) = "CtoL" THEN SetSt(meta, b, s) ELSE meta
      /\ left' = left /\ cloud' = cloud /\ th' = th /\ up' = up
  BY DEF fetch_backend_block, EndLoad, St
<1>2. dl[l] \in JobSet /\ dl[l].f \in Files /\ b \in Blocks
  BY <1>1 DEF Types, DlTypes, JobOK
<1>3. /\ disk' \in DiskSet /\ disk'.path = disk.path /\ disk'.data = disk.data
      /\ disk'.to = disk.to /\ disk'.cache = disk.cache
      /\ \A g \in Files : disk.flock[g] # l => disk'.flock[g] = disk.flock[g]
  BY <1>1, FunlockIs, ConstantFacts DEF Types
<1>4. /\ meta' \in MetaSet /\ meta'.fin = meta.fin /\ meta'.inc = meta.inc
      /\ meta'.lock = meta.lock /\ Num(b)' = Num(b) /\ Cnt(b)' = Cnt(b)
      /\ \A c \in Blocks \ {b} : meta'.blk[c] = meta.blk[c]
      /\ St(b) = "CtoL" => St(b)' = s
      /\ St(b) # "CtoL" => meta' = meta
  <2>1. s \in Statuses
    BY DEF Statuses, Local, Remote
  <2> QED
    BY <1>1, <1>2, <2>1, MaySetSt
<1>5. SameCounters
  BY <1>1, <1>4 DEF SameCounters, Cnt
<1>6. /\ gh' \in GhSet /\ SameHistory(gh') /\ gh'.loose = gh.loose
      /\ gh'.known = {} =>
           /\ gh.known = {}
           /\ dl[l].pc = "both" => Path(b) # 0 /\ St(b) = "CtoL" /\ Path(b) = dl[l].f
           /\ dl[l].pc = "undo" /\ St(b) = "CtoL" => Path(b) = 0
  <2>1. CASE dl[l].pc = "undo"
    <3>1. gh' = Met("orphan", St(b) = "CtoL" /\ Path(b) # 0) /\ "orphan" \in Hazards
      BY <2>1 DEF fetch_backend_block, St, Path, Hazards
    <3> QED
      BY <2>1, <3>1, MetIs DEF Types
  <2>2. CASE dl[l].pc # "undo" /\ Path(b) = 0
    <3>1. gh' = Met("count", TRUE) /\ "count" \in Hazards
      BY <2>2 DEF fetch_backend_block, St, Path, Hazards
    <3> QED
      BY <2>2, <3>1, MetIs DEF Types
  <2>3. CASE dl[l].pc # "undo" /\ Path(b) # 0
    <3>1. gh' = Taken(b, dl[l].f)
      BY <2>3 DEF fetch_backend_block, Path
    <3> QED
      BY <2>3, <3>1, TakenIs DEF Types
  <2> QED
    BY <2>1, <2>2, <2>3
<1>7. Types'
  <2>1. left' \in LeftSet /\ IdleDl \in JobSet /\ JobOK(IdleDl)
    BY <1>1, IdleIs DEF Types, JobOK
  <2> QED
    BY <1>1, <1>3, <1>4, <1>5, <1>6, <2>1, TypesByLoader
<1>8. ASSUME Clean' PROVE Core'
  <2>1. /\ Core
        /\ dl[l].pc = "both" => Path(b) # 0 /\ St(b) = "CtoL" /\ Path(b) = dl[l].f
        /\ dl[l].pc = "undo" /\ St(b) = "CtoL" => Path(b) = 0
    BY <1>6, <1>8 DEF Clean
  <2>2. dl'[l] = IdleDl /\ \A k \in Loaders \ {l} : dl'[k] = dl[k]
    BY <1>1, IdleIs, GoDlIs DEF Types
  <2>3. JobI(l)'
    BY <2>2, IdleIs DEF JobI
  <2>4. \A f \in Files, q \in Procs \ {l} : disk.flock[f] = q => disk'.flock[f] = q
    BY <1>3
  <2>5. Quiet
    BY <1>1, <1>3, <1>4, <1>6, ZenonT(30) DEF Quiet, Num, St, Writing, T, InCloud, Remote, SameHistory
  <2>6. l \notin Handles /\ dl'[l].pc # "get" /\ GentleInside(l)
    BY <1>1, <2>1, <2>2, IdleIs, ConstantFacts, FreeInside
  <2>7. CASE dl[l].pc = "both"
    <3>1. Got(b, Path(b)) /\ disk.flock[Path(b)] = l
      BY <2>1, <2>7 DEF Core, JobI
    <3>2. /\ \A c \in Blocks \ {b} : SameAt(c)
          /\ GentleAt(l, b) /\ StatusI(b)'
          /\ \A g \in Files : GentleData(g)
      <4>1. /\ Types /\ Core /\ Path(b) # 0 /\ St(b) = "CtoL"
            /\ disk'.path = disk.path /\ disk'.data = disk.data /\ St(b)' = "BOTH" /\ Cnt(b)' = Cnt(b)
        BY <1>3, <1>4, <2>1, <2>7
      <4>2. \A c \in Blocks \ {b} : meta'.blk[c] = meta.blk[c]
        BY <1>4
      <4> QED
        BY ONLY <1>2, <2>5, <3>1, <4>1, <4>2, BothKeeps
    <3>3. CountI'
      <4>1. CountI /\ St(b) \notin Local /\ St(b)' \in Local /\ disk'.cache = disk.cache
        BY <1>3, <1>4, <2>1, <2>7 DEF Core, Local
      <4>2. \A c \in Blocks \ {b} : St(c)' \in Local <=> St(c) \in Local
        BY <1>4 DEF St
      <4>3. dl'[l].pc # "both"
        BY <2>2, IdleIs
      <4> QED
        BY ONLY <1>2, <2>2, <2>7, <4>1, <4>2, <4>3, CountMarked
    <3> QED
      BY <1>1, <1>4, <1>6, <1>7, <2>1, <2>2, <2>3, <2>4, <2>5, <2>6, <3>2, <3>3, QuietByOther
  <2>8. CASE dl[l].pc = "undo"
    <3>1. \A c \in Blocks : Path(c)' = Path(c) /\ gh'.cur[c] = gh.cur[c] /\ gh'.ver[c] = gh.ver[c]
      BY <1>3, <1>6 DEF Path, SameHistory
    <3>2. \A c \in Blocks \ {b} : SameAt(c)
      BY <1>3, <1>4, <3>1 DEF SameAt
    <3>3. GentleAt(l, b) /\ StatusI(b)'
      <4>1. CASE St(b) # "CtoL"
        <5>1. SameAt(b)
          BY <1>2, <1>3, <1>4, <3>1, <4>1 DEF SameAt
        <5> QED
          BY <1>2, <2>1, <2>5, <5>1, SameIsGentle, QuietStatus
      <4>2. CASE St(b) = "CtoL"
        <5>1. Path(b) = 0 /\ St(b)' = "CLOUD"
          BY <1>4, <2>1, <2>8, <4>2
        <5>2. GentleAt(l, b)
          BY <1>4, <3>1, <4>2, <5>1, <1>2
             DEF GentleAt, KeepsPath, KeepsVersion, KeepsDownload, KeepsCached, KeepsRead, Remote
        <5>3. StatusI(b) /\ (Writing(b)' <=> Writing(b))
          BY <1>2, <2>1, <2>5 DEF Core, Quiet
        <5>4. StatusI(b)'
          BY <1>1, <1>2, <1>4, <3>1, <4>2, <5>1, <5>3 DEF StatusI, Local, Remote, Gone
        <5> QED
          BY <5>2, <5>4
      <4> QED
        BY <4>1, <4>2
    <3>4. \A g \in Files : GentleData(g)
      BY <1>3 DEF GentleData
    <3>5. CountI'
      <4>1. \A c \in Blocks : St(c)' \in Local <=> St(c) \in Local
        BY <1>4, <2>8 DEF St, Local
      <4>2. \A k \in Loaders : dl'[k].pc = "both" <=> dl[k].pc = "both"
        BY <2>2, <2>8, IdleIs
      <4>3. CountI /\ disk'.cache = disk.cache
        BY <1>3, <2>1 DEF Core
      <4> QED
        BY ONLY <4>1, <4>2, <4>3, CountSame
    <3> QED
      BY <1>1, <1>4, <1>6, <1>7, <2>1, <2>2, <2>3, <2>4, <2>5, <2>6, <3>2, <3>3, <3>4, <3>5, QuietByOther
  <2> QED
    BY <1>1, <2>7, <2>8
<1> QED
  BY <1>7, <1>8

-----------------------------------------------------------------------------
(***************************************************************************)
(* Pinning and page-out.                                                   *)
(***************************************************************************)
(* The pin flag changes.                                                   *)
LEMMA PinFlagStep ==
  ASSUME BlockInv, change_pin_flag
  PROVE  BlockInv'
<1> USE DEF BlockInv
<1>1. /\ left.pin > 0 /\ Spend("pin") /\ meta' = [meta EXCEPT !.pin = ~meta.pin]
      /\ disk' = disk /\ cloud' = cloud /\ th' = th /\ dl' = dl /\ up' = up /\ gh' = gh
  BY DEF change_pin_flag
<1>2. /\ meta' \in MetaSet /\ meta'.blk = meta.blk /\ meta'.fin = meta.fin /\ meta'.inc = meta.inc
      /\ meta'.lock = meta.lock
  BY <1>1 DEF Types, MetaSet
<1>3. left' \in LeftSet /\ left'.mod = left.mod /\ left'.page = left.page
  BY <1>1, SpendIs DEF Types
<1>4. Types'
  <2>1. Counters'
    BY <1>1, <1>2, <1>3 DEF Types, Counters, Cnt, T
  <2>2. /\ ThTypes' /\ DlTypes' /\ UpOK' /\ (\A h \in Handles : ReqOK(T(h), X(h))')
        /\ (\A l \in Loaders : JobOK(dl[l])')
    BY <1>1 DEF Types, ThTypes, DlTypes, UpOK, ReqOK, JobOK, T, X
  <2> QED
    BY <1>1, <1>2, <1>3, <2>1, <2>2 DEF Types
<1>5. ASSUME Clean' PROVE Core'
  <2>1. Core
    BY <1>1, <1>5 DEF Clean
  <2>2. \A c \in Blocks : SameAt(c) /\ St(c)' = St(c) /\ Num(c)' = Num(c)
    BY <1>1, <1>2 DEF SameAt, Path, St, Num
  <2>3. Quiet
    BY <1>1, <1>2, <2>2 DEF Quiet, Writing, T
  <2>4. (\A f \in Files : GentleData(f)) /\ GentleInside(NoOne)
    BY <1>1, <2>2 DEF GentleData, GentleInside, SameAt
  <2>5. CountI'
    <3>1. CountI /\ disk'.cache = disk.cache /\ dl' = dl
      BY <1>1, <2>1 DEF Core
    <3> QED
      BY <2>2, <3>1, CountSame
  <2>6. NoOne \notin Handles /\ NoOne \notin Loaders /\ -1 \notin Blocks
    BY ConstantFacts
  <2>7. \A c \in Blocks \ {-1} : SameAt(c)
    BY <2>2
  <2> QED
    BY <1>1, <1>2, <1>4, <2>1, <2>3, <2>4, <2>5, <2>6, <2>7, QuietByOther
<1> QED
  BY <1>4, <1>5

(* A block is paged out: its number names what the file held.              *)
LEMMA PageOutStep ==
  ASSUME BlockInv, NEW b \in Blocks, _remove_synced_block(b)
  PROVE  BlockInv'
<1> USE DEF BlockInv
<1>1. /\ MetaFree /\ left.page > 0 /\ Spend("page") /\ St(b) = "BOTH"
      /\ cloud' = cloud /\ th' = th /\ dl' = dl /\ up' = up /\ gh' = gh
  BY DEF _remove_synced_block, St
<1>2. left' \in LeftSet /\ left'.mod = left.mod /\ left'.page = left.page - 1 /\ left.page \in 0..MaxPage
  BY <1>1, SpendIs DEF Types, LeftSet
<1>3. Cnt(b) \in Nat /\ Cnt(b) + 1 <= MaxPage - left'.page /\ Cnt(b) + 1 \in 0..MaxPage
  <2>1. Cnt(b) \in 0..MaxPage /\ Cnt(b) <= MaxPage - left.page /\ MaxPage \in Nat
    BY PathIs, ConstantFacts DEF Types, Counters
  <2> QED
    BY <1>1, <1>2, <2>1
<1>4. /\ meta' \in MetaSet /\ meta'.fin = meta.fin /\ meta'.inc = meta.inc /\ meta'.lock = meta.lock
      /\ St(b)' = "CLOUD" /\ Num(b)' = Num(b) /\ Cnt(b)' = Cnt(b) + 1
      /\ \A c \in Blocks \ {b} : meta'.blk[c] = meta.blk[c]
  <2> PICK M : M = SetSt(meta, b, "CLOUD")
    OBVIOUS
  <2>1. /\ M \in MetaSet /\ M.fin = meta.fin /\ M.inc = meta.inc /\ M.lock = meta.lock
        /\ M.blk[b].st = "CLOUD" /\ M.blk[b].seq = meta.blk[b].seq /\ M.blk[b].cnt = meta.blk[b].cnt
        /\ \A c \in Blocks \ {b} : M.blk[c] = meta.blk[c]
    BY SetStIs DEF Types, Statuses, Remote
  <2> PICK n : n = meta.blk[b].cnt + 1
    OBVIOUS
  <2>2. n \in 0..MaxPage
    BY <1>3 DEF Cnt
  <2> PICK e : e = [M.blk[b] EXCEPT !.cnt = n]
    OBVIOUS
  <2> PICK B : B = [M.blk EXCEPT ![b] = e]
    OBVIOUS
  <2>3. M.blk \in [Blocks -> Entry] /\ M.blk[b] \in Entry
    BY <2>1 DEF MetaSet
  <2>4. e \in Entry /\ e.st = M.blk[b].st /\ e.seq = M.blk[b].seq /\ e.cnt = n
    BY <2>2, <2>3 DEF Entry
  <2>5. B \in [Blocks -> Entry] /\ B[b] = e /\ \A c \in Blocks \ {b} : B[c] = M.blk[c]
    BY <2>3, <2>4
  <2>6. meta' = [M EXCEPT !.blk[b].cnt = M.blk[b].cnt + 1]
    BY DEF _remove_synced_block
  <2>7. meta' = [M EXCEPT !.blk = B]
    BY <2>1, <2>3, <2>6 DEF MetaSet
  <2> PICK N : N = [M EXCEPT !.blk = B]
    OBVIOUS
  <2>8. N \in MetaSet /\ N.blk = B /\ N.fin = M.fin /\ N.inc = M.inc /\ N.lock = M.lock
    BY <2>1, <2>5 DEF MetaSet
  <2>9. meta' = N /\ n = meta.blk[b].cnt + 1
    BY <2>7
  <2> QED
    BY ONLY <2>1, <2>4, <2>5, <2>8, <2>9 DEF St, Num, Cnt
<1>5. /\ disk' \in DiskSet /\ disk'.flock = disk.flock /\ disk'.data = disk.data /\ disk'.to = disk.to
      /\ Path(b)' = 0 /\ (\A c \in Blocks \ {b} : Path(c)' = Path(c))
      /\ Path(b) # 0 => disk'.cache = disk.cache - 1
  <2>1. CASE Path(b) = 0
    <3>1. disk' = disk
      BY <2>1 DEF _remove_synced_block, Path
    <3> QED
      BY <2>1, <3>1 DEF Types, Path
  <2>2. CASE Path(b) # 0
    <3> PICK D : D = Unlinked(disk, b)
      OBVIOUS
    <3>1. disk' = [D EXCEPT !.cache = D.cache - 1]
      BY <2>2 DEF _remove_synced_block, Path
    <3>2. /\ D \in DiskSet /\ D.flock = disk.flock /\ D.data = disk.data /\ D.to = disk.to
          /\ D.cache = disk.cache /\ D.path[b] = 0 /\ \A c \in Blocks \ {b} : D.path[c] = disk.path[c]
      BY UnlinkedIs DEF Types
    <3>3. D.cache - 1 \in Int
      BY <3>2 DEF DiskSet
    <3>4. /\ disk' \in DiskSet /\ disk'.flock = D.flock /\ disk'.data = D.data /\ disk'.to = D.to
          /\ disk'.path = D.path /\ disk'.cache = D.cache - 1
      BY <3>1, <3>2, <3>3 DEF DiskSet
    <3> QED
      BY <3>2, <3>4 DEF Path
  <2> QED
    BY <2>1, <2>2
<1>6. Types'
  <2>1. Counters'
    <3>1. \A c \in Blocks : Cnt(c)' <= MaxPage - left'.page
      <4> SUFFICES ASSUME NEW c \in Blocks PROVE Cnt(c)' <= MaxPage - left'.page
        OBVIOUS
      <4>1. CASE c = b
        BY <1>3, <1>4, <4>1
      <4>2. CASE c # b
        <5>1. Cnt(c)' = Cnt(c) /\ Cnt(c) <= MaxPage - left.page
          BY <1>4, <4>2 DEF Types, Counters, Cnt
        <5>2. Cnt(c) \in 0..MaxPage /\ MaxPage \in Nat
          BY PathIs, ConstantFacts
        <5> QED
          BY <1>2, <5>1, <5>2
      <4> QED
        BY <4>1, <4>2
    <3> QED
      BY <1>1, <1>2, <1>4, <3>1 DEF Types, Counters, T
  <2>2. /\ ThTypes' /\ DlTypes' /\ UpOK' /\ (\A h \in Handles : ReqOK(T(h), X(h))')
        /\ (\A l \in Loaders : JobOK(dl[l])')
    BY <1>1 DEF Types, ThTypes, DlTypes, UpOK, ReqOK, JobOK, T, X
  <2> QED
    BY <1>1, <1>2, <1>4, <1>5, <2>1, <2>2 DEF Types
<1>7. ASSUME Clean' PROVE Core'
  <2>1. Core
    BY <1>1, <1>7 DEF Clean
  <2>2. StatusI(b)
    BY <2>1 DEF Core
  <2>3. Path(b) # 0
    BY <1>1, <2>2 DEF StatusI, Local
  <2>4. \A c \in Blocks \ {b} : SameAt(c)
    BY <1>1, <1>4, <1>5 DEF SameAt
  <2>5. Quiet
    BY <1>1, <1>4, <1>5 DEF Quiet, Writing, T, St, Num, InCloud, Remote
  <2>6. GentleAt(NoOne, b)
    <3>1. Cnt(b)' > Cnt(b)
      BY <1>3, <1>4
    <3> QED
      BY <1>1, <1>5, <2>3, <3>1
         DEF GentleAt, KeepsPath, KeepsVersion, KeepsDownload, KeepsCached, KeepsRead
  <2>7. StatusI(b)'
    <3>1. (Writing(b)' <=> Writing(b))
      BY <2>5 DEF Quiet
    <3> QED
      BY <1>1, <1>4, <1>5, <2>2, <3>1 DEF StatusI, Local, Remote, Gone
  <2>8. (\A f \in Files : GentleData(f)) /\ GentleInside(NoOne)
    BY <1>1, <1>5, <2>1, FreeInside DEF GentleData
  <2>9. CountI'
    <3>1. CountI /\ St(b) \in Local /\ St(b)' \notin Local /\ disk'.cache = disk.cache - 1 /\ dl' = dl
      BY <1>1, <1>4, <1>5, <2>1, <2>3 DEF Core, Local
    <3>2. \A c \in Blocks \ {b} : St(c)' \in Local <=> St(c) \in Local
      BY <1>4 DEF St
    <3> QED
      BY ONLY <3>1, <3>2, CountDrops
  <2>10. NoOne \notin Handles /\ NoOne \notin Loaders
    BY ConstantFacts
  <2> QED
    BY <1>1, <1>4, <1>5, <1>6, <2>1, <2>4, <2>5, <2>6, <2>7, <2>8, <2>9, <2>10, QuietByOther
<1> QED
  BY <1>6, <1>7

-----------------------------------------------------------------------------
(***************************************************************************)
(* Reads.                                                                  *)
(***************************************************************************)
(* The request and the cached file of a handle.                            *)
LEMMA HandleIs ==
  ASSUME Types, NEW h \in Handles
  PROVE  /\ T(h) \in ReqSet /\ X(h) \in CachedSet /\ ReqOK(T(h), X(h)) /\ T(h).now <= meta.fin
         /\ T(h).f \in Used /\ X(h).file \in Used
         /\ T(h).seq \in 0..MaxSeq /\ T(h).cnt \in 0..MaxPage /\ T(h).now \in 0..MaxSeq
         /\ T(h).m \in 0..MaxMod /\ T(h).ver \in Nat
         /\ \A b \in Blocks : gh.ver[b] \in Nat
<1>1. T(h) \in ReqSet /\ X(h) \in CachedSet /\ ReqOK(T(h), X(h)) /\ T(h).now <= meta.fin
  BY DEF Types, ThTypes, Counters, T, X
<1>2. T(h).f \in Used /\ X(h).file \in Used
  BY DEF Used, T, X
<1>3. \A b \in Blocks : gh.ver[b] \in Nat
  BY DEF Types, GhSet
<1> QED
  BY <1>1, <1>2, <1>3 DEF ReqSet

(* An idle handle keeps what it has cached.                                *)
LEMMA IdleRequest ==
  ASSUME NEW h, T(h)' = IdleTh
  PROVE  ReqI(h)' /\ ReadI(h)'
BY IdleIs DEF ReqI, ReadI, RFile, WFile

(* A cached file is as good as before if the blocks are as before.         *)
LEMMA SameCached ==
  ASSUME NEW h, CachedI(h), X(h)' = X(h), h \notin gh'.loose => h \notin gh.loose,
         meta'.blk = meta.blk, disk'.path = disk.path
  PROVE  CachedI(h)'
BY DEF CachedI, Own, Cnt, Path, St

(* The file of a block whose content is on local disk or nowhere.          *)
LEMMA LocalData ==
  ASSUME Types, Core, NEW b \in Blocks, Path(b) # 0, St(b) \notin Remote
  PROVE  Data(Path(b)) = gh.cur[b]
<1>1. StatusI(b) /\ St(b) \in Statuses
  BY PathIs DEF Core
<1> QED
  BY <1>1 DEF StatusI, Statuses

(* Where Decide sends a read that has no cached file.                      *)
LEMMA DecideIs ==
  ASSUME Types, NEW t \in ReqSet, NEW x \in CachedSet, NEW b \in Blocks, t.b = b, t.f = 0, t.res = {},
         NEW h \in Handles, Decide(h, t, x, meta.blk[b])
  PROVE  \E u \in ReqSet, y \in CachedSet :
           /\ Go(h, u, y) /\ ReqOK(u, y) /\ y.open = -1 /\ y.file = 0 /\ u.b = b /\ u.f = 0
           /\ u.now = t.now /\ u.ver = t.ver /\ u.res = {}
           /\ u.pc \in {"replied", "open", "fetch"}
           /\ u.pc = "replied" => St(b) \in Gone
<1> PICK pc : pc = IF St(b) \in Gone THEN "replied" ELSE IF St(b) \in Local THEN "open" ELSE "fetch"
  OBVIOUS
<1>u. PICK u : u = [t EXCEPT !.cnt = Cnt(b), !.pc = pc]
  OBVIOUS
<1>1. Go(h, u, Close(x))
  BY <1>u DEF Decide, St, Cnt
<1>2. pc \in {"replied", "open", "fetch"} /\ pc \in ReqPCs /\ (pc = "replied" => St(b) \in Gone)
  BY DEF ReqPCs
<1>3. Cnt(b) \in 0..MaxPage
  BY PathIs
<1>4. u \in ReqSet /\ u.pc = pc /\ u.b = b /\ u.f = 0 /\ u.now = t.now /\ u.ver = t.ver /\ u.res = {}
  <2>1. /\ u \in ReqSet /\ u.pc = pc /\ u.b = t.b /\ u.f = t.f /\ u.now = t.now /\ u.ver = t.ver
        /\ u.res = t.res
    BY ONLY <1>2, <1>3, <1>u, t \in ReqSet DEF ReqSet
  <2> QED
    BY <2>1
<1>5. Close(x) \in CachedSet /\ Close(x).open = -1 /\ Close(x).file = 0
  BY CachedIs
<1>6. ReqOK(u, Close(x))
  BY <1>2, <1>4, <1>5, ConstantFacts DEF ReqOK, RFile, WFile
<1> QED
  BY <1>1, <1>2, <1>4, <1>5, <1>6

(* A read begins.                                                          *)
LEMMA ReadStep ==
  ASSUME BlockInv, NEW h \in Handles, NEW b \in Blocks, hfuse_ll_read(h, b)
  PROVE  BlockInv'
<1> USE DEF BlockInv
<1> PICK x : x = Recheck(X(h), b, meta.blk[b])
  OBVIOUS
<1> PICK t : t = [IdleTh EXCEPT !.op = "read", !.b = b, !.ver = gh.ver[b]]
  OBVIOUS
<1>1. /\ At(h, "idle") /\ left.read > 0 /\ MetaFree /\ Spend("read")
      /\ gh' = Met("handle", Stale(h, x, b))
      /\ meta' = meta /\ disk' = disk /\ cloud' = cloud /\ dl' = dl /\ up' = up
  BY DEF hfuse_ll_read
<1>2. IF x.open = b THEN Go(h, [t EXCEPT !.pc = "pread"], x) ELSE Decide(h, t, x, meta.blk[b])
  BY DEF hfuse_ll_read
<1>3. X(h) \in CachedSet /\ ReqOK(T(h), X(h)) /\ T(h).pc = "idle" /\ gh.ver[b] \in Nat
  BY <1>1, HandleIs DEF At, T
<1>4. /\ t \in ReqSet /\ t.b = b /\ t.f = 0 /\ t.res = {} /\ t.now = 0 /\ t.ver = gh.ver[b]
  BY <1>3, IdleIs DEF ReqSet
<1>5. /\ Close(X(h)) \in CachedSet /\ Close(X(h)).open = -1
      /\ \/ x = Close(X(h))
         \/ x = X(h) /\ St(b) \in Local /\ Cnt(b) = x.cnt
         \/ x = X(h) /\ St(b) \notin Local /\ x.open # b
  BY <1>3, CachedIs DEF Recheck, St, Cnt
<1>6. x \in CachedSet /\ (x.open = b => x = X(h) /\ x.file \in Files /\ St(b) \in Local /\ Cnt(b) = x.cnt)
  BY <1>3, <1>5, ConstantFacts DEF ReqOK
<1>7. PICK u \in ReqSet, y \in CachedSet :
        /\ Go(h, u, y) /\ ReqOK(u, y) /\ u.b = b /\ u.f = 0 /\ u.now = 0 /\ u.ver = gh.ver[b]
        /\ \/ u.pc = "pread" /\ y = X(h) /\ x = X(h) /\ y.open = b
           \/ /\ y.open = -1 /\ u.pc \in {"replied", "open", "fetch"} /\ u.res = {}
              /\ u.pc = "replied" => St(b) \in Gone
  <2>1. CASE x.open = b
    <3>u. PICK u : u = [t EXCEPT !.pc = "pread"]
      OBVIOUS
    <3>1. "pread" \in ReqPCs
      BY DEF ReqPCs
    <3>2. u \in ReqSet /\ u.pc = "pread" /\ u.b = b /\ u.f = 0 /\ u.now = 0 /\ u.ver = gh.ver[b] /\ u.res = {}
      BY ONLY <1>4, <3>1, <3>u, MovedIs
    <3>3. Go(h, u, X(h)) /\ x = X(h)
      BY <1>2, <1>6, <2>1, <3>u
    <3>4. ReqOK(u, X(h))
      BY <1>6, <2>1, <3>2, ConstantFacts DEF ReqOK, RFile, WFile
    <3> QED
      BY <1>3, <2>1, <3>2, <3>3, <3>4
  <2>2. CASE x.open # b
    <3>1. Types /\ Decide(h, t, x, meta.blk[b])
      BY <1>2, <2>2
    <3>2. PICK u \in ReqSet, y \in CachedSet :
            /\ Go(h, u, y) /\ ReqOK(u, y) /\ y.open = -1 /\ y.file = 0 /\ u.b = b /\ u.f = 0
            /\ u.now = t.now /\ u.ver = t.ver /\ u.res = {}
            /\ u.pc \in {"replied", "open", "fetch"}
            /\ u.pc = "replied" => St(b) \in Gone
      BY ONLY <1>4, <1>6, <3>1, DecideIs
    <3> QED
      BY <1>4, <3>2
  <2> QED
    BY <2>1, <2>2
<1>8. left' \in LeftSet /\ left'.mod = left.mod /\ left'.page = left.page
  BY <1>1, SpendIs DEF Types
<1>9. /\ gh' \in GhSet /\ SameHistory(gh') /\ gh'.loose = gh.loose
      /\ gh'.known = {} => gh.known = {} /\ ~Stale(h, x, b)
  <2>1. "handle" \in Hazards
    BY DEF Hazards
  <2> QED
    BY <1>1, <2>1, MetIs DEF Types
<1>10. Types'
  <2>1. SameCounters
    BY <1>1, <1>8 DEF SameCounters, Cnt
  <2>2. meta' \in MetaSet /\ disk' \in DiskSet /\ u.now <= meta.fin
    <3>1. meta.fin \in 0..MaxSeq
      BY DEF Types, MetaSet
    <3> QED
      BY <1>1, <1>7, <3>1 DEF Types
  <2> QED
    BY <1>1, <1>7, <1>8, <1>9, <2>1, <2>2, TypesByQuietHandle
<1>11. ASSUME Clean' PROVE Core'
  <2>1. Core /\ ~Stale(h, x, b)
    BY <1>9, <1>11 DEF Clean
  <2>2. T(h)' = u /\ X(h)' = y /\ Others(h)
    BY <1>1, <1>7, GoIs DEF Types, Others
  <2>3. Still
    BY <1>1, <1>9 DEF Still, SameHistory
  <2>4. ReqI(h)'
    BY <1>7, <2>2 DEF ReqI, RFile, WFile
  <2>5. CachedI(h)'
    <3>1. CASE y = X(h)
      BY <1>1, <1>9, <2>1, <2>2, <3>1, SameCached DEF Core
    <3>2. CASE y.open = -1
      BY <2>2, <3>2, ConstantFacts DEF CachedI
    <3> QED
      BY <1>7, <3>1, <3>2
  <2>6. ReadI(h)'
    <3>1. gh'.ver = gh.ver /\ gh'.cur = gh.cur /\ u.ver <= gh.ver[b]
      BY <1>3, <1>7, <1>9 DEF SameHistory
    <3>2. ASSUME u.pc = "pread"
          PROVE  disk.data[y.file] = gh.cur[b]
      <4>1. y = X(h) /\ x = X(h) /\ y.open = b
        BY <1>7, <3>2
      <4>2. St(b) \in Local /\ Cnt(b) = y.cnt
        BY <1>6, <4>1
      <4>3. CachedI(h)
        BY <2>1 DEF Core
      <4>4. y.file = Path(b)
        BY <2>1, <4>1, <4>2, <4>3 DEF Stale, CachedI, Path
      <4>5. StatusI(b)
        BY <2>1 DEF Core
      <4> QED
        BY <4>2, <4>4, <4>5 DEF StatusI, Data
    <3>3. ASSUME u.pc = "replied"
          PROVE  u.res = gh.cur[b]
      <4>1. St(b) \in Gone /\ u.res = {}
        BY <1>7, <3>3
      <4>2. StatusI(b)
        BY <2>1 DEF Core
      <4> QED
        BY <4>1, <4>2 DEF StatusI
    <3> QED
      BY <1>1, <1>7, <2>2, <3>1, <3>2, <3>3 DEF ReadI, Data
  <2>7. LockStep(h) /\ OpensSafely(h) /\ FillsSafely(h)
    BY <1>1, <1>3, <1>7, <2>2, ConstantFacts DEF LockStep, OpensSafely, FillsSafely, Inside
  <2>8. T(h).pc # "w_lock" /\ T(h)'.pc # "w_lock"
    BY <1>3, <1>7, <2>2
  <2> QED
    BY <1>1, <1>9, <1>10, <2>1, <2>2, <2>3, <2>4, <2>5, <2>6, <2>7, <2>8, StillByHandle
<1> QED
  BY <1>10, <1>11

(* The block file is opened for a read.                                    *)
LEMMA ReadOpenStep ==
  ASSUME BlockInv, NEW h \in Handles, ReadOpen(h)
  PROVE  BlockInv'
<1> USE DEF BlockInv
<1>b. PICK b : b = T(h).b
  OBVIOUS
<1>f. PICK f : f = Path(b)
  OBVIOUS
<1>u. PICK u : u = [T(h) EXCEPT !.pc = "relook"]
  OBVIOUS
<1>1. /\ T(h).pc = "open"
      /\ meta' = meta /\ disk' = disk /\ cloud' = cloud /\ dl' = dl /\ up' = up /\ left' = left
  BY DEF ReadOpen, At, T
<1>2. /\ T(h) \in ReqSet /\ X(h) \in CachedSet /\ b \in Blocks /\ T(h).f = 0 /\ X(h).open = -1 /\ X(h).file = 0
      /\ T(h).cnt \in 0..MaxPage /\ T(h).now <= meta.fin /\ T(h).res = {}
  BY <1>1, <1>b, HandleIs DEF ReqOK, RFile, WFile
<1>3. f \in Files \cup {0} /\ 0 \notin Files
  BY <1>2, <1>f, PathIs
<1>4. /\ u \in ReqSet /\ u.pc = "relook" /\ u.b = b /\ u.f = 0 /\ u.now = T(h).now /\ u.res = {}
      /\ u.ver = T(h).ver
  <2>1. "relook" \in ReqPCs
    BY DEF ReqPCs
  <2> QED
    BY <1>2, <1>b, <1>u, <2>1, MovedIs
<1>5. PICK y \in CachedSet :
        /\ Go(h, u, y)
        /\ f = 0 => y = X(h)
        /\ f # 0 => y.open = b /\ y.file = f /\ y.cnt = T(h).cnt
  <2>1. CASE f = 0
    <3>1. Go(h, u, X(h))
      BY <1>b, <1>f, <1>u, <2>1 DEF ReadOpen, Path
    <3> QED
      BY <1>2, <2>1, <3>1
  <2>2. CASE f # 0
    <3>1. PICK y : y = [OpenAs(X(h), b, f) EXCEPT !.cnt = T(h).cnt]
      OBVIOUS
    <3>2. Go(h, u, y)
      BY <1>b, <1>f, <1>u, <2>2, <3>1 DEF ReadOpen, Path
    <3>3. y \in CachedSet /\ y.open = b /\ y.file = f /\ y.cnt = T(h).cnt
      BY ONLY <1>2, <1>3, <2>2, <3>1, CachedIs
    <3> QED
      BY <2>2, <3>2, <3>3
  <2> QED
    BY <2>1, <2>2
<1>6. ReqOK(u, y)
  BY <1>2, <1>3, <1>4, <1>5, ConstantFacts DEF ReqOK, RFile, WFile
<1>7. /\ gh' \in GhSet /\ SameHistory(gh')
      /\ gh'.known = {} => gh.known = {} /\ (f # 0 => St(b) \notin Remote)
      /\ \A g \in Handles \ {h} : g \in gh.loose => g \in gh'.loose
      /\ f = 0 => gh' = gh
      /\ f # 0 => (h \notin gh'.loose => T(h).cnt = Cnt(b))
  <2>1. CASE f = 0
    <3>1. gh' = gh
      BY <1>b, <1>f, <2>1 DEF ReadOpen, Path
    <3> QED
      BY <2>1, <3>1 DEF Types, SameHistory
  <2>2. CASE f # 0
    <3>1. PICK G : G = Met("opened", St(b) \in Remote)
      OBVIOUS
    <3>2. gh' = Caches(G, h, b, f, T(h).cnt)
      BY <1>b, <1>f, <2>2, <3>1 DEF ReadOpen, Path, St
    <3>3. "opened" \in Hazards
      BY DEF Hazards
    <3>4. /\ G \in GhSet /\ SameHistory(G) /\ G.loose = gh.loose
          /\ G.known = {} => gh.known = {} /\ St(b) \notin Remote
      BY <3>1, <3>3, MetIs DEF Types
    <3>5. /\ gh' \in GhSet /\ gh'.known = G.known
          /\ gh'.cur = G.cur /\ gh'.snap = G.snap /\ gh'.cloud = G.cloud /\ gh'.ver = G.ver
          /\ \A g \in Handles \ {h} : g \in G.loose => g \in gh'.loose
          /\ h \notin gh'.loose => f = Path(b) /\ T(h).cnt = Cnt(b)
      BY <3>2, <3>4, CachesIs
    <3> QED
      BY <2>2, <3>4, <3>5 DEF SameHistory
  <2> QED
    BY <2>1, <2>2
<1>8. Types'
  <2>1. meta' \in MetaSet /\ disk' \in DiskSet /\ left' \in LeftSet /\ SameCounters
    BY <1>1 DEF Types, SameCounters, Cnt
  <2> QED
    BY <1>1, <1>2, <1>4, <1>5, <1>6, <1>7, <2>1, TypesByQuietHandle
<1>9. ASSUME Clean' PROVE Core'
  <2>1. Core /\ (f # 0 => St(b) \notin Remote)
    BY <1>7, <1>9 DEF Clean
  <2>2. T(h)' = u /\ X(h)' = y /\ Others(h)
    BY <1>1, <1>4, <1>5, GoIs DEF Types, Others
  <2>3. Still
    BY <1>1, <1>7 DEF Still, SameHistory
  <2>4. ReqI(h)'
    BY <1>4, <2>2 DEF ReqI, RFile, WFile
  <2>5. CASE f = 0
    <3>1. y = X(h)
      BY <1>5, <2>5
    <3>2. CachedI(h)'
      BY <1>2, <2>2, <3>1, ConstantFacts DEF CachedI
    <3>3. ReadI(h)'
      <4>1. u.ver <= gh.ver[b]
        BY <1>1, <1>4, <1>b, <2>1 DEF Core, ReadI
      <4>2. y.open # b
        BY <1>2, <3>1, ConstantFacts
      <4> QED
        BY <1>4, <1>7, <2>2, <2>5, <4>1, <4>2 DEF ReadI
    <3>4. LockStep(h) /\ OpensSafely(h) /\ FillsSafely(h)
      BY <1>1, <1>2, <1>4, <2>2, <3>1, ConstantFacts DEF LockStep, OpensSafely, FillsSafely, Inside
    <3> QED
      BY <1>1, <1>4, <1>7, <1>8, <2>1, <2>2, <2>3, <2>4, <3>2, <3>3, <3>4, StillByHandle
  <2>6. CASE f # 0
    <3>1. y.open = b /\ y.file = f /\ y.cnt = T(h).cnt /\ St(b) \notin Remote /\ f = Path(b)
      BY <1>5, <1>f, <2>1, <2>6
    <3>2. CachedI(h)'
      <4>1. \A c \in Blocks : Path(c) = f => c = b
        BY <1>2, <1>f, <2>1, <2>6 DEF Core, PathsI
      <4>2. /\ Own(b, f)' /\ Path(b)' = f /\ St(b)' \notin Remote
            /\ h \notin gh'.loose => y.cnt = Cnt(b)'
        BY <1>1, <1>7, <2>6, <3>1, <4>1 DEF Own, Path, St, Cnt
      <4>3. Cnt(b)' \in 0..MaxPage
        BY <1>2, <1>8, PathIs DEF Types, MetaSet, Entry, Cnt
      <4> QED
        BY <2>2, <3>1, <4>2, <4>3 DEF CachedI
    <3>3. ReadI(h)'
      <4>1. u.ver <= gh.ver[b]
        BY <1>1, <1>4, <1>b, <2>1 DEF Core, ReadI
      <4>2. disk.data[f] = gh.cur[b]
        BY <1>2, <2>1, <2>6, <3>1, LocalData DEF Data
      <4> QED
        BY <1>1, <1>4, <1>7, <2>2, <3>1, <4>1, <4>2 DEF ReadI, Data, SameHistory
    <3>4. ~Filling(h, f)
      BY <1>2, <2>1, <2>6, <3>1, NotFilling DEF Remote
    <3>5. LockStep(h) /\ OpensSafely(h) /\ FillsSafely(h)
      BY <1>1, <1>4, <2>2, <3>1, <3>4 DEF LockStep, OpensSafely, FillsSafely, Inside
    <3> QED
      BY <1>1, <1>4, <1>7, <1>8, <2>1, <2>2, <2>3, <2>4, <3>2, <3>3, <3>5, StillByHandle
  <2> QED
    BY <2>5, <2>6
<1> QED
  BY <1>8, <1>9

(* The read looks at the block again.                                      *)
LEMMA LookupStep ==
  ASSUME BlockInv, NEW h \in Handles, read_lookup_meta(h)
  PROVE  BlockInv'
<1> USE DEF BlockInv
<1>b. PICK b : b = T(h).b
  OBVIOUS
<1>1. /\ T(h).pc = "relook" /\ MetaFree
      /\ meta' = meta /\ disk' = disk /\ cloud' = cloud /\ dl' = dl /\ up' = up /\ left' = left /\ gh' = gh
  BY DEF read_lookup_meta, At, T
<1>2. /\ T(h) \in ReqSet /\ X(h) \in CachedSet /\ b \in Blocks /\ T(h).f = 0 /\ ReqOK(T(h), X(h))
      /\ T(h).now <= meta.fin /\ T(h).res = {}
  BY <1>1, <1>b, HandleIs DEF ReqOK, RFile, WFile
<1>3. PICK u \in ReqSet, y \in CachedSet :
        /\ Go(h, u, y) /\ ReqOK(u, y) /\ u.b = b /\ u.f = 0 /\ u.now = T(h).now /\ u.ver = T(h).ver
        /\ \/ u.pc = "pread" /\ y = X(h) /\ y.open = b
           \/ /\ y.open = -1 /\ u.pc \in {"replied", "open", "fetch"} /\ u.res = {}
              /\ u.pc = "replied" => St(b) \in Gone
  <2>1. CASE X(h).open = b
    <3>u. PICK u : u = [T(h) EXCEPT !.pc = "pread"]
      OBVIOUS
    <3>1. "pread" \in ReqPCs
      BY DEF ReqPCs
    <3>2. /\ u \in ReqSet /\ u.pc = "pread" /\ u.b = b /\ u.f = 0 /\ u.now = T(h).now /\ u.ver = T(h).ver
          /\ u.res = {}
      BY <1>2, <1>b, <3>1, <3>u, MovedIs
    <3>3. Go(h, u, X(h))
      BY <1>b, <2>1, <3>u DEF read_lookup_meta
    <3>4. ReqOK(u, X(h))
      BY <1>2, <2>1, <3>2, ConstantFacts DEF ReqOK, RFile, WFile
    <3> QED
      BY <1>2, <2>1, <3>2, <3>3, <3>4
  <2>2. CASE X(h).open # b
    <3>1. Types /\ Decide(h, T(h), X(h), meta.blk[b]) /\ T(h).b = b
      BY <1>b, <2>2 DEF read_lookup_meta
    <3>2. PICK u \in ReqSet, y \in CachedSet :
            /\ Go(h, u, y) /\ ReqOK(u, y) /\ y.open = -1 /\ y.file = 0 /\ u.b = b /\ u.f = 0
            /\ u.now = T(h).now /\ u.ver = T(h).ver /\ u.res = {}
            /\ u.pc \in {"replied", "open", "fetch"}
            /\ u.pc = "replied" => St(b) \in Gone
      BY ONLY <1>2, <3>1, DecideIs
    <3> QED
      BY <3>2
  <2> QED
    BY <2>1, <2>2
<1>4. Types'
  <2>1. meta' \in MetaSet /\ disk' \in DiskSet /\ left' \in LeftSet /\ gh' \in GhSet /\ SameCounters
    BY <1>1 DEF Types, SameCounters, Cnt
  <2> QED
    BY <1>1, <1>2, <1>3, <2>1, TypesByQuietHandle
<1>5. ASSUME Clean' PROVE Core'
  <2>1. Core
    BY <1>1, <1>5 DEF Clean
  <2>2. T(h)' = u /\ X(h)' = y /\ Others(h)
    BY <1>1, <1>3, GoIs DEF Types, Others
  <2>3. Still
    BY <1>1 DEF Still
  <2>4. ReqI(h)'
    BY <1>3, <2>2 DEF ReqI, RFile, WFile
  <2>5. CachedI(h)'
    <3>1. CASE y = X(h)
      BY <1>1, <2>1, <2>2, <3>1, SameCached DEF Core
    <3>2. CASE y.open = -1
      BY <2>2, <3>2, ConstantFacts DEF CachedI
    <3> QED
      BY <1>3, <3>1, <3>2
  <2>6. ReadI(h)'
    <3>1. /\ T(h).ver <= gh.ver[b]
          /\ gh.ver[b] = T(h).ver /\ X(h).open = b => disk.data[X(h).file] = gh.cur[b]
      BY <1>1, <1>b, <2>1 DEF Core, ReadI, Data
    <3>2. u.pc = "replied" => u.res = gh.cur[b]
      <4>1. StatusI(b)
        BY <1>2, <2>1 DEF Core
      <4> QED
        BY <1>3, <4>1 DEF StatusI
    <3> QED
      BY <1>1, <1>3, <2>2, <3>1, <3>2 DEF ReadI, Data
  <2>7. LockStep(h) /\ OpensSafely(h) /\ FillsSafely(h)
    BY <1>1, <1>2, <1>3, <2>2, ConstantFacts DEF LockStep, OpensSafely, FillsSafely, Inside
  <2>8. T(h).pc # "w_lock" /\ T(h)'.pc # "w_lock"
    BY <1>1, <1>3, <2>2
  <2> QED
    BY <1>1, <1>4, <2>1, <2>2, <2>3, <2>4, <2>5, <2>6, <2>7, <2>8, StillByHandle
<1> QED
  BY <1>4, <1>5

(* The invariant when a block in the cloud is marked as being fetched.     *)
LEMMA MarkKeeps ==
  ASSUME Types, Core, NEW p, NEW b \in Blocks, St(b) \in Remote, Quiet,
         disk'.path = disk.path, disk'.data = disk.data, St(b)' = "CtoL", Cnt(b)' = Cnt(b),
         \A c \in Blocks \ {b} : meta'.blk[c] = meta.blk[c]
  PROVE  /\ \A c \in Blocks \ {b} : SameAt(c)
         /\ GentleAt(p, b) /\ StatusI(b)'
         /\ \A g \in Files : GentleData(g)
<1>1. \A c \in Blocks : Path(c)' = Path(c) /\ gh'.cur[c] = gh.cur[c] /\ gh'.ver[c] = gh.ver[c]
                        /\ Num(c)' = Num(c)
  BY DEF Path, Quiet
<1>2. \A c \in Blocks \ {b} : SameAt(c)
  BY <1>1 DEF SameAt
<1>3. GentleAt(p, b)
  BY <1>1 DEF GentleAt, KeepsPath, KeepsVersion, KeepsDownload, KeepsCached, KeepsRead
<1>4. StatusI(b)'
  <2>1. StatusI(b) /\ (Writing(b)' <=> Writing(b)) /\ cloud' = cloud /\ meta'.fin = meta.fin
    BY DEF Core, Quiet
  <2>2. St(b) \notin Gone
    BY DEF Remote, Gone
  <2> QED
    BY <1>1, <2>1, <2>2 DEF StatusI, Local, Remote, Gone
<1>5. \A g \in Files : GentleData(g)
  BY DEF GentleData
<1> QED
  BY <1>2, <1>3, <1>4, <1>5

(* A download by the reader: the block file is opened.                     *)
LEMMA ReadFetchOpenStep ==
  ASSUME BlockInv, NEW h \in Handles, ReadFetchOpen(h)
  PROVE  BlockInv'
<1> USE DEF BlockInv
<1>b. PICK b : b = T(h).b
  OBVIOUS
<1>n. PICK n : n = Path(b)'
  OBVIOUS
<1>u. PICK u : u = [T(h) EXCEPT !.pc = "rf_lock", !.f = n]
  OBVIOUS
<1>1. /\ T(h).pc = "fetch" /\ CanCreate(b) /\ disk' = Create(b) /\ Go(h, u, X(h))
      /\ meta' = meta /\ cloud' = cloud /\ dl' = dl /\ up' = up /\ left' = left /\ gh' = gh
  BY <1>b, <1>n, <1>u DEF ReadFetchOpen, At, T, Path
<1>2. /\ T(h) \in ReqSet /\ X(h) \in CachedSet /\ b \in Blocks /\ X(h).open = -1 /\ X(h).file = 0
      /\ T(h).now <= meta.fin /\ T(h).res = {}
  BY <1>1, <1>b, HandleIs DEF ReqOK
<1>3. /\ disk' \in DiskSet /\ disk'.flock = disk.flock /\ disk'.to = disk.to /\ disk'.cache = disk.cache
      /\ n \in Files
      /\ PathsI => \A c \in Blocks : Path(c)' = n => c = b
  BY <1>1, <1>2, <1>n, CreatedIs DEF Path
<1>4. /\ u \in ReqSet /\ u.pc = "rf_lock" /\ u.b = b /\ u.f = n /\ u.now = T(h).now /\ u.res = {}
      /\ u.ver = T(h).ver
  <2>1. "rf_lock" \in ReqPCs
    BY DEF ReqPCs, RFile
  <2>2. n \in Files \cup {0}
    BY <1>3
  <2> QED
    BY ONLY <1>2, <1>b, <1>u, <2>1, <2>2 DEF ReqSet
<1>5. ReqOK(u, X(h))
  BY <1>2, <1>3, <1>4, ConstantFacts DEF ReqOK, RFile, WFile
<1>6. Types'
  <2>1. meta' \in MetaSet /\ left' \in LeftSet /\ gh' \in GhSet /\ SameCounters
    BY <1>1 DEF Types, SameCounters, Cnt
  <2> QED
    BY <1>1, <1>2, <1>3, <1>4, <1>5, <2>1, TypesByQuietHandle
<1>7. ASSUME Clean' PROVE Core'
  <2>1. Core
    BY <1>1, <1>7 DEF Clean
  <2>2. T(h)' = u /\ X(h)' = X(h) /\ Others(h)
    BY <1>1, <1>2, <1>4, GoIs DEF Types, Others
  <2>3. Quiet
    <3>1. \A c \in Blocks : Writing(c)' <=> Writing(c)
      BY <1>1, <1>4, <2>2 DEF Writing, Others
    <3> QED
      BY <1>1, <1>3, <3>1 DEF Quiet, Num, St
  <2>4. /\ \A c \in Blocks \ {b} : SameAt(c)
        /\ GentleAt(h, b) /\ GentleInside(h) /\ StatusI(b)'
        /\ \A f \in Files : GentleData(f)
    BY <1>1, <1>2, <2>1, <2>3, CreateGentle
  <2>5. ReqI(h)'
    BY <1>3, <1>4, <2>1, <2>2 DEF Core, ReqI, Own, RFile, WFile
  <2>6. CachedI(h)'
    BY <1>2, <2>2, ConstantFacts DEF CachedI
  <2>7. ReadI(h)'
    <3>1. u.ver <= gh.ver[b]
      BY <1>1, <1>4, <1>b, <2>1 DEF Core, ReadI
    <3> QED
      BY <1>1, <1>4, <2>2, <3>1 DEF ReadI
  <2>8. LockStep(h) /\ OpensSafely(h) /\ FillsSafely(h)
    BY <1>1, <1>2, <1>4, <2>2, ConstantFacts DEF LockStep, OpensSafely, FillsSafely, Inside
  <2>9. CountI'
    <3>1. CountI /\ (\A c \in Blocks : St(c)' = St(c)) /\ disk'.cache = disk.cache /\ dl' = dl
      BY <1>1, <1>3, <2>1 DEF Core, St
    <3> QED
      BY <3>1, CountSame
  <2> QED
    BY <1>1, <1>3, <1>6, <2>1, <2>2, <2>3, <2>4, <2>5, <2>6, <2>7, <2>8, <2>9, QuietByHandle
<1> QED
  BY <1>6, <1>7

(* The reader has the flock.                                               *)
LEMMA ReadFetchLockStep ==
  ASSUME BlockInv, NEW h \in Handles, ReadFetchLock(h)
  PROVE  BlockInv'
<1> USE DEF BlockInv
<1>f. PICK f : f = T(h).f
  OBVIOUS
<1>u. PICK u : u = [T(h) EXCEPT !.pc = "rf_meta"]
  OBVIOUS
<1>1. /\ T(h).pc = "rf_lock" /\ Free(f, h) /\ disk' = Flock(disk, f, h) /\ Go(h, u, X(h))
      /\ meta' = meta /\ cloud' = cloud /\ dl' = dl /\ up' = up /\ left' = left /\ gh' = gh
  BY <1>f, <1>u DEF ReadFetchLock, At, T
<1>2. /\ T(h) \in ReqSet /\ X(h) \in CachedSet /\ T(h).b \in Blocks /\ X(h).open = -1 /\ X(h).file = 0
      /\ f \in Files /\ T(h).now <= meta.fin /\ T(h).res = {}
  BY <1>1, <1>f, HandleIs DEF ReqOK, RFile
<1>3. /\ disk' \in DiskSet /\ disk'.path = disk.path /\ disk'.data = disk.data
      /\ disk'.to = disk.to /\ disk'.cache = disk.cache /\ disk'.flock[f] = h
      /\ \A g \in Files \ {f} : disk'.flock[g] = disk.flock[g]
  BY <1>1, <1>2, FlockIs, ConstantFacts DEF Types
<1>4. /\ u \in ReqSet /\ u.pc = "rf_meta" /\ u.b = T(h).b /\ u.f = f /\ u.now = T(h).now /\ u.res = {}
      /\ u.ver = T(h).ver
  <2>1. "rf_meta" \in ReqPCs
    BY DEF ReqPCs, RFile
  <2> QED
    BY <1>2, <1>f, <1>u, <2>1, MovedIs
<1>5. ReqOK(u, X(h))
  BY <1>2, <1>4, ConstantFacts DEF ReqOK, RFile, WFile
<1>6. Types'
  <2>1. meta' \in MetaSet /\ left' \in LeftSet /\ gh' \in GhSet /\ SameCounters
    BY <1>1 DEF Types, SameCounters, Cnt
  <2> QED
    BY <1>1, <1>2, <1>3, <1>4, <1>5, <2>1, TypesByQuietHandle
<1>7. ASSUME Clean' PROVE Core'
  <2>1. Core
    BY <1>1, <1>7 DEF Clean
  <2>2. T(h)' = u /\ X(h)' = X(h) /\ Others(h)
    BY <1>1, <1>2, <1>4, GoIs DEF Types, Others
  <2>3. Still
    BY <1>1, <1>3 DEF Still
  <2>4. ReqI(h)'
    <3>1. Own(T(h).b, f)
      BY <1>1, <1>f, <2>1 DEF Core, ReqI, RFile
    <3> QED
      BY <1>3, <1>4, <2>2, <3>1 DEF ReqI, Own, Path
  <2>5. CachedI(h)'
    BY <1>2, <2>2, ConstantFacts DEF CachedI
  <2>6. ReadI(h)'
    <3>1. u.ver <= gh.ver[u.b]
      BY <1>1, <1>4, <2>1 DEF Core, ReadI
    <3> QED
      BY <1>1, <1>4, <2>2, <3>1 DEF ReadI
  <2>7. LockStep(h) /\ OpensSafely(h) /\ FillsSafely(h)
    BY <1>1, <1>2, <1>4, <2>2, ConstantFacts DEF LockStep, OpensSafely, FillsSafely, Inside
  <2>8. \A g \in Files, q \in Procs \ {h} : disk.flock[g] = q => disk'.flock[g] = q
    <3>1. disk.flock[f] \in {NoOne, h} /\ NoOne \notin Procs
      BY <1>1, ConstantFacts DEF Free
    <3> QED
      BY <1>3, <3>1
  <2> QED
    BY <1>1, <1>4, <1>6, <2>1, <2>2, <2>3, <2>4, <2>5, <2>6, <2>7, <2>8, StillByHandle
<1> QED
  BY <1>6, <1>7

(* The first mark of the reader.                                           *)
LEMMA ReadMarkStep ==
  ASSUME BlockInv, NEW h \in Handles, read_fetch_backend(h)
  PROVE  BlockInv'
<1> USE DEF BlockInv
<1>b. PICK b : b = T(h).b
  OBVIOUS
<1>f. PICK f : f = T(h).f
  OBVIOUS
<1>1. /\ T(h).pc = "rf_meta" /\ MetaFree
      /\ disk' = disk /\ cloud' = cloud /\ dl' = dl /\ up' = up /\ left' = left
  BY DEF read_fetch_backend, At, T
<1>2. /\ T(h) \in ReqSet /\ X(h) \in CachedSet /\ b \in Blocks /\ X(h).open = -1 /\ X(h).file = 0
      /\ f \in Files /\ T(h).now <= meta.fin /\ T(h).res = {}
  BY <1>1, <1>b, <1>f, HandleIs DEF ReqOK, RFile
<1>G. PICK G : G = Met("orphan", f # Path(b))
  OBVIOUS
<1>3. /\ G \in GhSet /\ SameHistory(G) /\ G.loose = gh.loose
      /\ G.known = {} => gh.known = {} /\ f = Path(b)
  <2>1. "orphan" \in Hazards
    BY DEF Hazards
  <2> QED
    BY <1>G, <2>1, MetIs DEF Types
<1>4. CASE St(b) \in Remote
  <2>u. PICK u : u = [T(h) EXCEPT !.pc = "rf_get", !.seq = Num(b)]
    OBVIOUS
  <2>1. meta' = SetSt(meta, b, "CtoL") /\ Go(h, u, X(h)) /\ gh' = G
    BY <1>4, <1>b, <1>f, <1>G, <2>u DEF read_fetch_backend, St, Num, Path
  <2>2. /\ u \in ReqSet /\ u.pc = "rf_get" /\ u.b = b /\ u.f = f /\ u.now = T(h).now /\ u.res = {}
        /\ u.ver = T(h).ver /\ u.seq = Num(b)
    <3>1. "rf_get" \in ReqPCs
      BY DEF ReqPCs, RFile
    <3>2. Num(b) \in 0..MaxSeq
      BY <1>2, PathIs
    <3> QED
      BY ONLY <1>2, <1>b, <1>f, <2>u, <3>1, <3>2 DEF ReqSet
  <2>3. ReqOK(u, X(h))
    BY <1>2, <2>2, ConstantFacts DEF ReqOK, RFile, WFile
  <2>4. /\ meta' \in MetaSet /\ meta'.fin = meta.fin /\ meta'.inc = meta.inc /\ meta'.lock = meta.lock
        /\ St(b)' = "CtoL" /\ Num(b)' = Num(b) /\ Cnt(b)' = Cnt(b)
        /\ \A c \in Blocks \ {b} : meta'.blk[c] = meta.blk[c]
    BY <1>2, <2>1, SetStIs DEF Types, St, Num, Cnt, Statuses, Remote
  <2>5. Types'
    <3>1. disk' \in DiskSet /\ left' \in LeftSet /\ gh' \in GhSet /\ SameCounters
      BY <1>1, <1>3, <2>1, <2>4 DEF Types, SameCounters, Cnt
    <3> QED
      BY <1>1, <1>2, <2>1, <2>2, <2>3, <2>4, <3>1, TypesByQuietHandle
  <2>6. ASSUME Clean' PROVE Core'
    <3>1. Core /\ f = Path(b)
      BY <1>3, <2>1, <2>6 DEF Clean
    <3>2. T(h)' = u /\ X(h)' = X(h) /\ Others(h)
      BY <1>1, <1>2, <2>1, <2>2, GoIs DEF Types, Others
    <3>3. Quiet
      <4>1. \A c \in Blocks : Writing(c)' <=> Writing(c)
        BY <1>1, <2>2, <3>2 DEF Writing, Others
      <4>2. \A c \in Blocks : Num(c)' = Num(c) /\ (St(c)' = St(c) \/ (St(c) \in InCloud /\ St(c)' \in InCloud))
        BY <1>4, <2>4 DEF Num, St, InCloud, Remote
      <4> QED
        BY <1>1, <1>3, <2>1, <2>4, <4>1, <4>2 DEF Quiet, SameHistory
    <3>4. /\ \A c \in Blocks \ {b} : SameAt(c)
          /\ GentleAt(h, b) /\ StatusI(b)'
          /\ \A g \in Files : GentleData(g)
      <4>1. Types /\ Core /\ disk'.path = disk.path /\ disk'.data = disk.data
        BY <1>1, <3>1
      <4> QED
        BY ONLY <1>2, <1>4, <2>4, <3>3, <4>1, MarkKeeps
    <3>5. ReqI(h)'
      <4>1. Own(b, f) /\ disk.flock[f] = h
        BY <1>1, <1>b, <1>f, <3>1 DEF Core, ReqI, RFile
      <4>2. Own(b, f)' /\ disk'.flock[f] = h /\ Marked(b, f, Num(b))'
        BY <1>1, <2>4, <4>1 DEF Own, Marked, Path
      <4> QED
        BY <2>2, <2>4, <3>2, <4>2 DEF ReqI, Marked
    <3>6. CachedI(h)'
      BY <1>2, <3>2, ConstantFacts DEF CachedI
    <3>7. ReadI(h)'
      <4>1. T(h).ver <= gh.ver[b]
        BY <1>1, <1>b, <3>1 DEF Core, ReadI
      <4> QED
        BY <1>1, <1>3, <2>1, <2>2, <3>1, <3>2, <4>1 DEF ReadI, SameHistory, Path
    <3>8. ~Cached(f)
      BY <1>2, <1>4, <3>1, NotCached
    <3>9. LockStep(h) /\ OpensSafely(h) /\ FillsSafely(h) /\ GentleInside(h)
      <4>1. GentleInside(h)
        BY <1>1, <3>1, FreeInside
      <4> QED
        BY <1>1, <1>2, <2>2, <2>4, <3>2, <3>8, <4>1, ConstantFacts DEF LockStep, OpensSafely, FillsSafely, Inside
    <3>10. CountI'
      <4>1. \A c \in Blocks : St(c)' \in Local <=> St(c) \in Local
        BY <1>4, <2>4 DEF St, Local, Remote
      <4>2. CountI /\ disk'.cache = disk.cache /\ dl' = dl
        BY <1>1, <3>1 DEF Core
      <4> QED
        BY <4>1, <4>2, CountSame
    <3>11. \A g \in Handles \ {h} : g \in gh.loose => g \in gh'.loose
      BY <1>3, <2>1
    <3> QED
      BY <1>1, <2>5, <3>1, <3>2, <3>3, <3>4, <3>5, <3>6, <3>7, <3>9, <3>10, <3>11, QuietByHandle
  <2> QED
    BY <2>5, <2>6
<1>5. CASE St(b) \notin Remote
  <2>u. PICK u : u = [T(h) EXCEPT !.pc = "pread", !.f = 0]
    OBVIOUS
  <2>y. PICK y : y = OpenAs(X(h), b, f)
    OBVIOUS
  <2>1. meta' = meta /\ Go(h, u, y) /\ gh' = Caches(G, h, b, f, X(h).cnt)
    BY <1>5, <1>b, <1>f, <1>G, <2>u, <2>y DEF read_fetch_backend, St, Path
  <2>2. /\ u \in ReqSet /\ u.pc = "pread" /\ u.b = b /\ u.f = 0 /\ u.now = T(h).now /\ u.res = {}
        /\ u.ver = T(h).ver
    <3>1. "pread" \in ReqPCs
      BY DEF ReqPCs
    <3> QED
      BY ONLY <1>2, <1>b, <2>u, <3>1 DEF ReqSet
  <2>3. y \in CachedSet /\ y.open = b /\ y.file = f /\ y.cnt = X(h).cnt
    BY <1>2, <2>y, CachedIs
  <2>4. ReqOK(u, y)
    BY <1>2, <2>2, <2>3, ConstantFacts DEF ReqOK, RFile, WFile
  <2>5. /\ gh' \in GhSet /\ gh'.known = G.known /\ SameHistory(gh')
        /\ \A g \in Handles \ {h} : g \in gh.loose => g \in gh'.loose
        /\ h \notin gh'.loose => f = Path(b) /\ X(h).cnt = Cnt(b)
    BY <1>3, <2>1, CachesIs DEF SameHistory
  <2>6. Types'
    <3>1. meta' \in MetaSet /\ disk' \in DiskSet /\ left' \in LeftSet /\ SameCounters
      BY <1>1, <2>1 DEF Types, SameCounters, Cnt
    <3> QED
      BY <1>1, <1>2, <2>1, <2>2, <2>3, <2>4, <2>5, <3>1, TypesByQuietHandle
  <2>7. ASSUME Clean' PROVE Core'
    <3>1. Core /\ f = Path(b)
      BY <1>3, <2>5, <2>7 DEF Clean
    <3>2. T(h)' = u /\ X(h)' = y /\ Others(h)
      BY <1>1, <2>1, <2>2, <2>3, GoIs DEF Types, Others
    <3>3. Still
      BY <1>1, <2>1, <2>5 DEF Still, SameHistory
    <3>4. ReqI(h)'
      BY <2>2, <3>2 DEF ReqI, RFile, WFile
    <3>5. Own(b, f) /\ f # 0
      BY <1>1, <1>2, <1>b, <1>f, <3>1, ConstantFacts DEF Core, ReqI, RFile
    <3>6. CachedI(h)'
      <4>1. /\ Own(b, f)' /\ Path(b)' = f /\ St(b)' \notin Remote
            /\ h \notin gh'.loose => y.cnt = Cnt(b)'
        BY <1>1, <1>5, <2>1, <2>3, <2>5, <3>1, <3>5 DEF Own, Path, St, Cnt
      <4>2. Cnt(b)' \in 0..MaxPage
        BY <1>2, <2>1, PathIs DEF Cnt
      <4> QED
        BY <2>3, <3>2, <4>1, <4>2 DEF CachedI
    <3>7. ReadI(h)'
      <4>1. T(h).ver <= gh.ver[b]
        BY <1>1, <1>b, <3>1 DEF Core, ReadI
      <4>2. disk.data[f] = gh.cur[b]
        BY <1>2, <1>5, <3>1, <3>5, LocalData DEF Data
      <4> QED
        BY <1>1, <2>2, <2>3, <2>5, <3>2, <4>1, <4>2 DEF ReadI, Data, SameHistory
    <3>8. ~Filling(h, f)
      BY <1>2, <1>5, <3>1, <3>5, NotFilling DEF Remote
    <3>9. LockStep(h) /\ OpensSafely(h) /\ FillsSafely(h)
      BY <1>1, <2>1, <2>2, <2>3, <3>2, <3>8 DEF LockStep, OpensSafely, FillsSafely, Inside
    <3>10. T(h).pc # "w_lock" /\ T(h)'.pc # "w_lock"
      BY <1>1, <2>2, <3>2
    <3> QED
      BY <1>1, <2>5, <2>6, <3>1, <3>2, <3>3, <3>4, <3>6, <3>7, <3>9, <3>10, StillByHandle
  <2> QED
    BY <2>6, <2>7
<1> QED
  BY <1>4, <1>5

(* The transfer of the reader.                                             *)
LEMMA ReadGetStep ==
  ASSUME BlockInv, NEW h \in Handles, NEW ok \in BOOLEAN, ReadFetchGet(h, ok)
  PROVE  BlockInv'
<1> USE DEF BlockInv
<1>b. PICK b : b = T(h).b
  OBVIOUS
<1>f. PICK f : f = T(h).f
  OBVIOUS
<1>n. PICK n : n = T(h).seq
  OBVIOUS
<1>p. PICK pc : pc = IF ok THEN "rf_done" ELSE "rf_fail"
  OBVIOUS
<1>u. PICK u : u = [T(h) EXCEPT !.pc = pc]
  OBVIOUS
<1>D. PICK D : D = Fetched(b, n, f, ok)
  OBVIOUS
<1>1. /\ T(h).pc = "rf_get" /\ fetch_from_cloud(b, n, ok) /\ Go(h, u, X(h))
      /\ disk' = IF ok THEN D ELSE Funlock(D, h)
      /\ meta' = meta /\ cloud' = cloud /\ dl' = dl /\ up' = up /\ gh' = gh
  BY <1>b, <1>f, <1>n, <1>p, <1>u, <1>D DEF ReadFetchGet, At, T
<1>2. /\ T(h) \in ReqSet /\ X(h) \in CachedSet /\ b \in Blocks /\ X(h).open = -1 /\ X(h).file = 0
      /\ f \in Files /\ n \in 0..MaxSeq /\ T(h).now <= meta.fin /\ T(h).res = {}
  BY <1>1, <1>b, <1>f, <1>n, HandleIs DEF ReqOK, RFile
<1>3. /\ u \in ReqSet /\ u.pc = pc /\ u.b = b /\ u.f = f /\ u.seq = n /\ u.now = T(h).now /\ u.res = {}
      /\ u.ver = T(h).ver
      /\ ok => pc = "rf_done"
      /\ ~ok => pc = "rf_fail"
  <2>1. pc \in ReqPCs /\ (ok => pc = "rf_done") /\ (~ok => pc = "rf_fail")
    BY <1>p DEF ReqPCs, RFile
  <2> QED
    BY <1>2, <1>b, <1>f, <1>n, <1>u, <2>1, MovedIs
<1>4. ReqOK(u, X(h))
  BY <1>2, <1>3, <1>p, ConstantFacts DEF ReqOK, RFile, WFile
<1>5. /\ left' \in LeftSet /\ left'.mod = left.mod /\ left'.page = left.page
      /\ D \in DiskSet /\ D.path = disk.path /\ D.flock = disk.flock /\ D.to = disk.to
      /\ D.cache = disk.cache
      /\ ok => D.data[f] = cloud.obj[b][n]
      /\ \A g \in Files \ {f} : D.data[g] = disk.data[g]
  BY <1>1, <1>2, <1>D, FetchIs
<1>6. /\ disk' \in DiskSet /\ disk'.path = disk.path /\ disk'.to = disk.to
      /\ disk'.cache = disk.cache
      /\ ok => disk'.data[f] = cloud.obj[b][n] /\ disk'.flock = disk.flock
      /\ \A g \in Files \ {f} : disk'.data[g] = disk.data[g]
      /\ \A g \in Files : disk.flock[g] # h => disk'.flock[g] = disk.flock[g]
  <2>1. CASE ok
    <3>1. disk' = D
      BY <1>1, <2>1
    <3> QED
      BY <1>5, <2>1, <3>1
  <2>2. CASE ~ok
    <3>1. disk' = Funlock(D, h)
      BY <1>1, <2>2
    <3>2. /\ Funlock(D, h) \in DiskSet
          /\ Funlock(D, h).path = D.path /\ Funlock(D, h).data = D.data
          /\ Funlock(D, h).to = D.to /\ Funlock(D, h).cache = D.cache
          /\ \A g \in Files : D.flock[g] # h => Funlock(D, h).flock[g] = D.flock[g]
      BY <1>5, FunlockIs, ConstantFacts
    <3> QED
      BY <1>5, <2>2, <3>1, <3>2
  <2> QED
    BY <2>1, <2>2
<1>7. Types'
  <2>1. meta' \in MetaSet /\ gh' \in GhSet /\ SameCounters
    BY <1>1, <1>5 DEF Types, SameCounters, Cnt
  <2> QED
    BY <1>1, <1>2, <1>3, <1>4, <1>5, <1>6, <2>1, TypesByQuietHandle
<1>8. ASSUME Clean' PROVE Core'
  <2>1. Core
    BY <1>1, <1>8 DEF Clean
  <2>2. T(h)' = u /\ X(h)' = X(h) /\ Others(h)
    BY <1>1, <1>2, <1>3, GoIs DEF Types, Others
  <2>3. Own(b, f) /\ Marked(b, f, n) /\ disk.flock[f] = h
    BY <1>1, <1>b, <1>f, <1>n, <2>1 DEF Core, ReqI, RFile
  <2>4. ~Cached(f)
    BY <1>1, <1>f, <2>1 DEF Core, NoReader, Cached
  <2>5. Quiet
    <3>1. \A c \in Blocks : Writing(c)' <=> Writing(c)
      BY <1>1, <1>3, <1>p, <2>2 DEF Writing, Others
    <3> QED
      BY <1>1, <1>6, <3>1 DEF Quiet, Num, St
  <2>6. /\ \A c \in Blocks \ {b} : SameAt(c)
        /\ GentleAt(h, b) /\ StatusI(b)'
        /\ \A g \in Files : GentleData(g)
        /\ Own(b, f)' /\ Marked(b, f, n)'
        /\ disk'.data[f] = cloud.obj[b][n] => Got(b, f)'
    <3>1. Types /\ meta' = meta /\ disk'.path = disk.path
      BY <1>1, <1>6
    <3>2. \A g \in Files \ {f} : disk'.data[g] = disk.data[g]
      BY <1>6
    <3> QED
      BY ONLY <1>2, <2>1, <2>3, <2>4, <2>5, <3>1, <3>2, FillKeeps
  <2>7. ReqI(h)'
    <3>1. CASE ok
      <4>1. Got(b, f)' /\ disk'.flock[f] = h /\ pc = "rf_done"
        BY <1>3, <1>6, <2>3, <2>6, <3>1
      <4> QED
        BY <1>3, <2>2, <2>6, <4>1 DEF ReqI
    <3>2. CASE ~ok
      BY <1>3, <2>2, <2>6, <3>2 DEF ReqI
    <3> QED
      BY <3>1, <3>2
  <2>8. CachedI(h)'
    BY <1>2, <2>2, ConstantFacts DEF CachedI
  <2>9. ReadI(h)'
    <3>1. T(h).ver <= gh.ver[b] /\ (gh.ver[b] = T(h).ver => Path(b) = f)
      BY <1>1, <1>b, <1>f, <2>1 DEF Core, ReadI
    <3>2. Path(b)' = Path(b)
      BY <1>6 DEF Path
    <3>3. u.pc \in {"rf_done", "rf_fail"}
      BY <1>3
    <3> QED
      BY <1>1, <1>3, <2>2, <3>1, <3>2, <3>3 DEF ReadI
  <2>10. LockStep(h) /\ OpensSafely(h) /\ FillsSafely(h) /\ GentleInside(h)
    <3>1. u.pc \in {"rf_done", "rf_fail"}
      BY <1>3
    <3>2. GentleInside(h)
      BY <1>1, <1>6 DEF GentleInside, St, Path
    <3> QED
      BY <1>1, <1>2, <2>2, <3>1, <3>2, ConstantFacts DEF LockStep, OpensSafely, FillsSafely, Inside
  <2>11. CountI'
    <3>1. CountI /\ (\A c \in Blocks : St(c)' = St(c)) /\ disk'.cache = disk.cache /\ dl' = dl
      BY <1>1, <1>6, <2>1 DEF Core, St
    <3> QED
      BY <3>1, CountSame
  <2>12. \A g \in Files, q \in Procs \ {h} : disk.flock[g] = q => disk'.flock[g] = q
    BY <1>6
  <2> QED
    BY <1>1, <1>7, <2>1, <2>2, <2>5, <2>6, <2>7, <2>8, <2>9, <2>10, <2>11, <2>12, QuietByHandle
<1> QED
  BY <1>7, <1>8

(* The second mark of the reader.                                          *)
LEMMA ReadDoneStep ==
  ASSUME BlockInv, NEW h \in Handles, ReadFetchDone(h)
  PROVE  BlockInv'
<1> USE DEF BlockInv
<1>b. PICK b : b = T(h).b
  OBVIOUS
<1>f. PICK f : f = T(h).f
  OBVIOUS
<1>u. PICK u : u = [T(h) EXCEPT !.pc = "pread", !.f = 0]
  OBVIOUS
<1>y. PICK y : y = OpenAs(X(h), b, f)
  OBVIOUS
<1>G. PICK G : G = Taken(b, f)
  OBVIOUS
<1>1. /\ T(h).pc = "rf_done" /\ MetaFree /\ Go(h, u, y)
      /\ meta' = IF Path(b) # 0 /\ St(b) = "CtoL" THEN SetSt(meta, b, "BOTH") ELSE meta
      /\ disk' = IF Path(b) # 0 THEN Counted(disk) ELSE disk
      /\ gh' = Caches(G, h, b, f, X(h).cnt)
      /\ cloud' = cloud /\ dl' = dl /\ up' = up /\ left' = left
  BY <1>b, <1>f, <1>u, <1>y, <1>G DEF ReadFetchDone, At, T, Path, St
<1>2. /\ T(h) \in ReqSet /\ X(h) \in CachedSet /\ b \in Blocks /\ X(h).open = -1 /\ X(h).file = 0
      /\ f \in Files /\ T(h).now <= meta.fin /\ T(h).res = {}
  BY <1>1, <1>b, <1>f, HandleIs DEF ReqOK, RFile
<1>3. /\ u \in ReqSet /\ u.pc = "pread" /\ u.b = b /\ u.f = 0 /\ u.now = T(h).now /\ u.res = {}
      /\ u.ver = T(h).ver
  <2>1. "pread" \in ReqPCs
    BY DEF ReqPCs
  <2> QED
    BY ONLY <1>2, <1>b, <1>u, <2>1 DEF ReqSet
<1>4. y \in CachedSet /\ y.open = b /\ y.file = f /\ y.cnt = X(h).cnt
  BY <1>2, <1>y, CachedIs
<1>5. ReqOK(u, y)
  BY <1>2, <1>3, <1>4, ConstantFacts DEF ReqOK, RFile, WFile
<1>6. /\ meta' \in MetaSet /\ meta'.fin = meta.fin /\ meta'.inc = meta.inc
      /\ meta'.lock = meta.lock /\ Num(b)' = Num(b) /\ Cnt(b)' = Cnt(b)
      /\ \A c \in Blocks \ {b} : meta'.blk[c] = meta.blk[c]
      /\ Path(b) # 0 /\ St(b) = "CtoL" => St(b)' = "BOTH"
      /\ ~(Path(b) # 0 /\ St(b) = "CtoL") => meta' = meta
  <2>1. "BOTH" \in Statuses
    BY DEF Statuses, Local
  <2> QED
    BY <1>1, <1>2, <2>1, MaySetSt
<1>7. /\ disk' \in DiskSet /\ disk'.path = disk.path /\ disk'.data = disk.data /\ disk'.to = disk.to
      /\ disk'.flock = disk.flock
      /\ disk'.cache = IF Path(b) # 0 THEN disk.cache + 1 ELSE disk.cache
  <2>1. disk \in DiskSet
    BY DEF Types
  <2> QED
    BY <1>1, <2>1, CountedIs
<1>8. /\ gh' \in GhSet /\ SameHistory(gh')
      /\ gh'.known = {} => gh.known = {} /\ (Path(b) # 0 => St(b) = "CtoL" /\ Path(b) = f)
      /\ \A g \in Handles \ {h} : g \in gh.loose => g \in gh'.loose
      /\ h \notin gh'.loose => f = Path(b) /\ X(h).cnt = Cnt(b)
  <2>1. /\ G \in GhSet /\ SameHistory(G) /\ G.loose = gh.loose
        /\ G.known = {} => gh.known = {} /\ (Path(b) # 0 => St(b) = "CtoL" /\ Path(b) = f)
    BY <1>G, TakenIs DEF Types
  <2>2. /\ gh' \in GhSet /\ gh'.known = G.known
        /\ gh'.cur = G.cur /\ gh'.snap = G.snap /\ gh'.cloud = G.cloud /\ gh'.ver = G.ver
        /\ \A g \in Handles \ {h} : g \in G.loose => g \in gh'.loose
        /\ h \notin gh'.loose => f = Path(b) /\ X(h).cnt = Cnt(b)
    BY <1>1, <2>1, CachesIs
  <2> QED
    BY <2>1, <2>2 DEF SameHistory
<1>9. Types'
  <2>1. left' \in LeftSet /\ SameCounters
    BY <1>1, <1>6 DEF Types, SameCounters, Cnt
  <2> QED
    BY <1>1, <1>2, <1>3, <1>4, <1>5, <1>6, <1>7, <1>8, <2>1, TypesByQuietHandle
<1>10. ASSUME Clean' PROVE Core'
  <2>1. Core /\ (Path(b) # 0 => St(b) = "CtoL" /\ Path(b) = f)
    BY <1>8, <1>10 DEF Clean
  <2>2. T(h)' = u /\ X(h)' = y /\ Others(h)
    BY <1>1, <1>3, <1>4, GoIs DEF Types, Others
  <2>3. Own(b, f) /\ Got(b, f) /\ disk.flock[f] = h /\ f # 0
    BY <1>1, <1>2, <1>b, <1>f, <2>1, ConstantFacts DEF Core, ReqI, RFile
  <2>4. ReqI(h)'
    BY <1>3, <2>2 DEF ReqI, RFile, WFile
  <2>5. CachedI(h)'
    <3>1. /\ Own(b, f)' /\ Path(b)' = Path(b) /\ Cnt(b)' = Cnt(b)
          /\ Path(b) = f => St(b)' \notin Remote
      BY <1>6, <1>7, <2>1, <2>3 DEF Own, Path, Remote
    <3>2. Cnt(b) \in 0..MaxPage
      BY <1>2, PathIs
    <3> QED
      BY <1>4, <1>8, <2>2, <3>1, <3>2 DEF CachedI
  <2>6. ReadI(h)'
    <3>1. T(h).ver <= gh.ver[b] /\ (gh.ver[b] = T(h).ver => Path(b) = f)
      BY <1>1, <1>b, <1>f, <2>1 DEF Core, ReadI
    <3>2. Path(b) = f => disk.data[f] = gh.cur[b]
      BY <2>3 DEF Got, Data
    <3> QED
      BY <1>3, <1>4, <1>7, <1>8, <2>2, <3>1, <3>2 DEF ReadI, Data, SameHistory
  <2>7. ~Filling(h, f)
    BY <1>1, <2>1, <2>3, LockedNotFilling, ConstantFacts
  <2>8. LockStep(h) /\ OpensSafely(h) /\ FillsSafely(h)
    BY <1>3, <1>4, <1>6, <2>2, <2>7 DEF LockStep, OpensSafely, FillsSafely, Inside
  <2>9. CASE Path(b) = 0
    <3>1. Still
      BY <1>1, <1>6, <1>7, <1>8, <2>9 DEF Still, SameHistory
    <3>2. T(h).pc # "w_lock" /\ T(h)'.pc # "w_lock"
      BY <1>1, <1>3, <2>2
    <3> QED
      BY <1>7, <1>8, <1>9, <2>1, <2>2, <2>4, <2>5, <2>6, <2>8, <3>1, <3>2, StillByHandle
  <2>10. CASE Path(b) # 0
    <3>1. Quiet
      <4>1. \A c \in Blocks : Writing(c)' <=> Writing(c)
        BY <1>1, <1>3, <2>2 DEF Writing, Others
      <4>2. \A c \in Blocks : Num(c)' = Num(c) /\ (St(c)' = St(c) \/ (St(c) \in InCloud /\ St(c)' \in InCloud))
        BY <1>6, <2>1, <2>10 DEF Num, St, InCloud, Remote
      <4> QED
        BY <1>1, <1>6, <1>7, <1>8, <4>1, <4>2 DEF Quiet, SameHistory
    <3>2. /\ \A c \in Blocks \ {b} : SameAt(c)
          /\ GentleAt(h, b) /\ StatusI(b)'
          /\ \A g \in Files : GentleData(g)
      <4>1. /\ Types /\ Core /\ Path(b) # 0 /\ St(b) = "CtoL" /\ Got(b, Path(b)) /\ disk.flock[Path(b)] = h
            /\ disk'.path = disk.path /\ disk'.data = disk.data /\ St(b)' = "BOTH" /\ Cnt(b)' = Cnt(b)
        BY <1>6, <1>7, <2>1, <2>3, <2>10
      <4>2. \A c \in Blocks \ {b} : meta'.blk[c] = meta.blk[c]
        BY <1>6
      <4> QED
        BY ONLY <1>2, <3>1, <4>1, <4>2, BothKeeps
    <3>3. CountI'
      <4>1. CountI /\ St(b) \notin Local /\ St(b)' \in Local /\ disk'.cache = disk.cache + 1 /\ dl' = dl
        BY <1>1, <1>6, <1>7, <2>1, <2>10 DEF Core, Local
      <4>2. \A c \in Blocks \ {b} : St(c)' \in Local <=> St(c) \in Local
        BY <1>6 DEF St
      <4> QED
        BY ONLY <1>2, <4>1, <4>2, CountAdds
    <3>4. GentleInside(h)
      BY <1>1, <2>1, FreeInside
    <3> QED
      BY <1>7, <1>8, <1>9, <2>1, <2>2, <2>4, <2>5, <2>6, <2>8, <3>1, <3>2, <3>3, <3>4, QuietByHandle
  <2> QED
    BY <2>9, <2>10
<1> QED
  BY <1>9, <1>10

(* A failed transfer of the reader takes its mark back.                    *)
LEMMA ReadFailStep ==
  ASSUME BlockInv, NEW h \in Handles, ReadFetchFail(h)
  PROVE  BlockInv'
<1> USE DEF BlockInv
<1>b. PICK b : b = T(h).b
  OBVIOUS
<1>w. PICK w : w = (St(b) = "CtoL" /\ \E f \in {Path(b)} \ {0} : SharedBy(f, h))
  OBVIOUS
<1>1. /\ T(h).pc = "rf_fail" /\ MetaFree /\ Go(h, IdleTh, X(h))
      /\ meta' = IF St(b) = "CtoL" THEN SetSt(meta, b, "CLOUD") ELSE meta
      /\ disk' = IF St(b) = "CtoL" THEN Unlinked(disk, b) ELSE disk
      /\ gh' = Met("unlinked", w)
      /\ cloud' = cloud /\ dl' = dl /\ up' = up /\ left' = left
  BY <1>b, <1>w DEF ReadFetchFail, At, T, Path, St
<1>2. /\ X(h) \in CachedSet /\ b \in Blocks /\ X(h).open = -1 /\ X(h).file = 0
  BY <1>1, <1>b, HandleIs DEF ReqOK, RFile
<1>3. /\ IdleTh \in ReqSet /\ IdleTh.pc = "idle" /\ IdleTh.now = 0 /\ ReqOK(IdleTh, X(h)) /\ 0 <= meta.fin
  <2>1. meta.fin \in 0..MaxSeq
    BY DEF Types, MetaSet
  <2> QED
    BY <1>2, <2>1, IdleIs, ConstantFacts DEF ReqOK, RFile, WFile
<1>4. /\ meta' \in MetaSet /\ meta'.fin = meta.fin /\ meta'.inc = meta.inc
      /\ meta'.lock = meta.lock /\ Num(b)' = Num(b) /\ Cnt(b)' = Cnt(b)
      /\ \A c \in Blocks \ {b} : meta'.blk[c] = meta.blk[c]
      /\ St(b) = "CtoL" => St(b)' = "CLOUD"
      /\ St(b) # "CtoL" => meta' = meta
  <2>1. "CLOUD" \in Statuses
    BY DEF Statuses, Remote
  <2> QED
    BY <1>1, <1>2, <2>1, MaySetSt
<1>5. /\ disk' \in DiskSet /\ disk'.data = disk.data /\ disk'.to = disk.to
      /\ disk'.flock = disk.flock /\ disk'.cache = disk.cache
      /\ \A c \in Blocks \ {b} : Path(c)' = Path(c)
      /\ St(b) = "CtoL" => Path(b)' = 0
      /\ St(b) # "CtoL" => disk' = disk
  <2>1. disk \in DiskSet
    BY DEF Types
  <2> QED
    BY <1>1, <1>2, <2>1, UnlinkedIs DEF Path
<1>6. /\ gh' \in GhSet /\ SameHistory(gh') /\ gh'.loose = gh.loose
      /\ gh'.known = {} => gh.known = {} /\ ~w
  BY <1>1, MetIs DEF Types, Hazards
<1>7. Types'
  <2>1. left' \in LeftSet /\ SameCounters
    BY <1>1, <1>4 DEF Types, SameCounters, Cnt
  <2> QED
    BY <1>1, <1>2, <1>3, <1>4, <1>5, <1>6, <2>1, TypesByQuietHandle
<1>8. ASSUME Clean' PROVE Core'
  <2>1. Core /\ ~w
    BY <1>6, <1>8 DEF Clean
  <2>2. T(h)' = IdleTh /\ X(h)' = X(h) /\ Others(h)
    BY <1>1, <1>2, <1>3, GoIs DEF Types, Others
  <2>3. ReqI(h)' /\ ReadI(h)'
    BY <2>2, IdleRequest
  <2>4. CachedI(h)'
    BY <1>2, <2>2, ConstantFacts DEF CachedI
  <2>5. LockStep(h) /\ OpensSafely(h) /\ FillsSafely(h)
    BY <1>2, <1>3, <1>4, <2>2, ConstantFacts DEF LockStep, OpensSafely, FillsSafely, Inside
  <2>6. CASE St(b) # "CtoL"
    <3>1. Still
      BY <1>1, <1>4, <1>5, <1>6, <2>6 DEF Still, SameHistory
    <3>2. T(h).pc # "w_lock" /\ T(h)'.pc # "w_lock"
      BY <1>1, <1>3, <2>2
    <3> QED
      BY <1>5, <1>6, <1>7, <2>1, <2>2, <2>3, <2>4, <2>5, <3>1, <3>2, StillByHandle
  <2>7. CASE St(b) = "CtoL"
    <3>1. Quiet
      <4>1. \A c \in Blocks : Writing(c)' <=> Writing(c)
        BY <1>1, <1>3, <2>2 DEF Writing, Others
      <4>2. \A c \in Blocks : Num(c)' = Num(c) /\ (St(c)' = St(c) \/ (St(c) \in InCloud /\ St(c)' \in InCloud))
        BY <1>4, <2>7 DEF Num, St, InCloud, Remote
      <4> QED
        BY <1>1, <1>4, <1>5, <1>6, <4>1, <4>2 DEF Quiet, SameHistory
    <3>2. \A c \in Blocks \ {b} : SameAt(c)
      BY <1>4, <1>5, <1>6 DEF SameAt, SameHistory
    <3>3. GentleAt(h, b)
      <4>1. ~Cached(Path(b))
        BY <1>2, <2>1, <2>7, NotCached DEF Remote
      <4>2. \A g \in Handles : X(g).open = b => X(g).file # Path(b)
        BY <1>2, <4>1 DEF Cached
      <4>3. Path(b) = 0 \/ \A g \in Handles \ {h} : T(g).f # Path(b)
        BY <1>w, <2>1, <2>7 DEF SharedBy, T
      <4> QED
        BY <1>2, <1>4, <1>5, <1>6, <2>7, <4>2, <4>3
           DEF GentleAt, KeepsPath, KeepsVersion, KeepsDownload, KeepsCached, KeepsRead, SameHistory
    <3>4. StatusI(b)'
      <4>1. StatusI(b) /\ (Writing(b)' <=> Writing(b)) /\ cloud' = cloud /\ gh'.cur = gh.cur
        BY <1>1, <1>2, <1>6, <2>1, <3>1 DEF Core, Quiet, SameHistory
      <4> QED
        BY <1>4, <1>5, <2>7, <4>1 DEF StatusI, Local, Remote, Gone
    <3>5. (\A g \in Files : GentleData(g)) /\ GentleInside(h)
      BY <1>1, <1>5, <2>1, FreeInside DEF GentleData
    <3>6. CountI'
      <4>1. CountI /\ disk'.cache = disk.cache /\ dl' = dl
        BY <1>1, <1>5, <2>1 DEF Core
      <4>2. \A c \in Blocks : St(c)' \in Local <=> St(c) \in Local
        BY <1>4, <2>7 DEF St, Local
      <4> QED
        BY <4>1, <4>2, CountSame
    <3> QED
      BY <1>5, <1>6, <1>7, <2>1, <2>2, <2>3, <2>4, <2>5, <3>1, <3>2, <3>3, <3>4, <3>5, <3>6, QuietByHandle
  <2> QED
    BY <2>6, <2>7
<1> QED
  BY <1>7, <1>8

(* The block file is read.                                                 *)
LEMMA ReadBlockStep ==
  ASSUME BlockInv, NEW h \in Handles, _read_block(h)
  PROVE  BlockInv'
<1> USE DEF BlockInv
<1>b. PICK b : b = T(h).b
  OBVIOUS
<1>v. PICK v : v = Data(X(h).file)
  OBVIOUS
<1>u. PICK u : u = [T(h) EXCEPT !.pc = "replied", !.res = v]
  OBVIOUS
<1>1. /\ T(h).pc = "pread" /\ Go(h, u, X(h)) /\ disk' = Funlock(disk, h)
      /\ meta' = meta /\ cloud' = cloud /\ dl' = dl /\ up' = up /\ gh' = gh /\ left' = left
  BY <1>v, <1>u DEF _read_block, At, T, Data
<1>2. /\ T(h) \in ReqSet /\ X(h) \in CachedSet /\ b \in Blocks /\ ReqOK(T(h), X(h))
      /\ X(h).file \in Files /\ T(h).now <= meta.fin /\ X(h).open = b /\ T(h).f = 0
  BY <1>1, <1>b, HandleIs DEF ReqOK, RFile, WFile
<1>3. v \in Marks
  BY <1>v, <1>2 DEF Types, DiskSet, Data
<1>4. /\ u \in ReqSet /\ u.pc = "replied" /\ u.b = b /\ u.f = 0 /\ u.now = T(h).now /\ u.res = v
      /\ u.ver = T(h).ver
  <2>1. "replied" \in ReqPCs
    BY DEF ReqPCs
  <2> QED
    BY ONLY <1>2, <1>3, <1>b, <1>u, <2>1 DEF ReqSet
<1>5. ReqOK(u, X(h))
  BY <1>2, <1>4, ConstantFacts DEF ReqOK, RFile, WFile
<1>6. /\ disk' \in DiskSet /\ disk'.path = disk.path /\ disk'.data = disk.data
      /\ disk'.to = disk.to /\ disk'.cache = disk.cache
      /\ \A g \in Files : disk.flock[g] # h => disk'.flock[g] = disk.flock[g]
  BY <1>1, FunlockIs, ConstantFacts DEF Types
<1>7. Types'
  <2>1. meta' \in MetaSet /\ left' \in LeftSet /\ gh' \in GhSet /\ SameCounters
    BY <1>1 DEF Types, SameCounters, Cnt
  <2> QED
    BY <1>1, <1>2, <1>4, <1>5, <1>6, <2>1, TypesByQuietHandle
<1>8. ASSUME Clean' PROVE Core'
  <2>1. Core
    BY <1>1, <1>8 DEF Clean
  <2>2. T(h)' = u /\ X(h)' = X(h) /\ Others(h)
    BY <1>1, <1>2, <1>4, GoIs DEF Types, Others
  <2>3. Still
    BY <1>1, <1>6 DEF Still
  <2>4. ReqI(h)'
    BY <1>4, <2>2 DEF ReqI, RFile, WFile
  <2>5. CachedI(h)'
    <3>1. CachedI(h) /\ (h \notin gh'.loose => h \notin gh.loose) /\ meta'.blk = meta.blk
      BY <1>1, <2>1 DEF Core
    <3> QED
      BY <1>6, <2>2, <3>1, SameCached
  <2>6. ReadI(h)'
    <3>1. /\ T(h).ver <= gh.ver[b]
          /\ gh.ver[b] = T(h).ver => v = gh.cur[b]
      BY <1>1, <1>b, <1>v, <2>1 DEF Core, ReadI, Data
    <3> QED
      BY <1>1, <1>4, <2>2, <3>1 DEF ReadI
  <2>7. LockStep(h) /\ OpensSafely(h) /\ FillsSafely(h)
    BY <1>1, <1>2, <1>4, <2>2, ConstantFacts DEF LockStep, OpensSafely, FillsSafely, Inside
  <2>8. T(h).pc # "w_lock" /\ T(h)'.pc # "w_lock"
    BY <1>1, <1>4, <2>2
  <2> QED
    BY <1>1, <1>6, <1>7, <2>1, <2>2, <2>3, <2>4, <2>5, <2>6, <2>7, <2>8, StillByHandle
<1> QED
  BY <1>7, <1>8

(* The reply is out.                                                       *)
LEMMA RepliedStep ==
  ASSUME BlockInv, NEW h \in Handles, Replied(h)
  PROVE  BlockInv'
<1> USE DEF BlockInv
<1>1. /\ T(h).pc = "replied" /\ Go(h, IdleTh, X(h))
      /\ meta' = meta /\ disk' = disk /\ cloud' = cloud /\ dl' = dl /\ up' = up /\ gh' = gh /\ left' = left
  BY DEF Replied, At, T
<1>2. X(h) \in CachedSet /\ ReqOK(T(h), X(h))
  BY HandleIs
<1>3. /\ IdleTh \in ReqSet /\ IdleTh.pc = "idle" /\ IdleTh.now = 0 /\ ReqOK(IdleTh, X(h)) /\ 0 <= meta.fin
  <2>1. meta.fin \in 0..MaxSeq
    BY DEF Types, MetaSet
  <2> QED
    BY <1>2, <2>1, IdleIs, ConstantFacts DEF ReqOK, RFile, WFile
<1>4. Types'
  <2>1. meta' \in MetaSet /\ disk' \in DiskSet /\ left' \in LeftSet /\ gh' \in GhSet /\ SameCounters
    BY <1>1 DEF Types, SameCounters, Cnt
  <2> QED
    BY <1>1, <1>2, <1>3, <2>1, TypesByQuietHandle
<1>5. ASSUME Clean' PROVE Core'
  <2>1. Core
    BY <1>1, <1>5 DEF Clean
  <2>2. T(h)' = IdleTh /\ X(h)' = X(h) /\ Others(h)
    BY <1>1, <1>2, <1>3, GoIs DEF Types, Others
  <2>3. Still
    BY <1>1 DEF Still
  <2>4. ReqI(h)' /\ ReadI(h)'
    BY <2>2, IdleRequest
  <2>5. CachedI(h)'
    BY <1>1, <2>1, <2>2, SameCached DEF Core
  <2>6. LockStep(h) /\ OpensSafely(h) /\ FillsSafely(h)
    BY <1>1, <1>2, <1>3, <2>2, ConstantFacts DEF LockStep, OpensSafely, FillsSafely, Inside
  <2>7. T(h).pc # "w_lock" /\ T(h)'.pc # "w_lock"
    BY <1>1, <1>3, <2>2
  <2> QED
    BY <1>1, <1>4, <2>1, <2>2, <2>3, <2>4, <2>5, <2>6, <2>7, StillByHandle
<1> QED
  BY <1>4, <1>5
=============================================================================
