--------------------------- MODULE NamespaceProofs ---------------------------
(***************************************************************************)
(* Proofs about the namespace handlers, for any number of inodes, names,   *)
(* threads and operations: without a crash no name stands for an inode     *)
(* that is being deleted, no marked inode is left behind, and the link     *)
(* counts are those of the names.                                          *)
(*                                                                         *)
(* Core is the inductive invariant.  Its heart is Unlinked: what a thread  *)
(* is about to delete, or the lookup table has marked, has no name and     *)
(* holds none; the rest says why that stays so.  Links, on top of it, says *)
(* by how much a count is off while a handler is between two of its steps, *)
(* and that what is marked in the lookup table has its marker on disk.     *)
(***************************************************************************)
EXTENDS Namespace, FiniteSetTheorems, TLAPS

(* The types; the fields no proof looks into are only there.               *)
DiskRec(D) ==
  [ent : [Ino -> [Names -> Ino0]], kind : [Ino -> Kinds \cup {"none"}],
   loc : [Ino -> {"none", "meta", "todel"}], sb : [Ino -> {"free", "live", "todel", "queued"}],
   nlink : [Ino -> Int], kids : [Ino -> Int], up : {D.up}, par : {D.par},
   dstat : {D.dstat}, mark : SUBSET Ino, cloud : {D.cloud}]
IsDisk(D) == D \in DiskRec(D)
NodeRec == [cnt : Nat, del : BOOLEAN]
KernelRec == [kn : [Ino -> Nat], fp : [Ino -> Nat]]
Deleting == {"meta", "sbdel", "file", "free"}
Creating == {"entry", "self", "stat"}
Dropping == {"dmark", "nlink", "lmark", "parent"}
PCs == {"idle", "rmold", "rstat", "rpar", "clear", "next"} \cup Deleting \cup Creating \cup Dropping
Ops == {"", "new", "link", "unlink", "rmdir", "rename", "forget", "umount", "startup"}
ThRec(h) ==
  [pc : PCs, op : Ops, p : Ino0, n : Names \cup {0}, q : Ino0, i : Ino0, o : Ino0, vp : Ino0,
   s : {h.s}, held : SUBSET Ino, todo : SUBSET Ino]
IsThread(h) == h \in ThRec(h)
IsLeft(L) ==
  L \in [ops : {L.ops}, stale : {L.stale}, crash : Int, umount : {L.umount}]

Types ==
  /\ IsDisk(disk) /\ lut \in [Ino -> NodeRec] /\ kernel \in KernelRec
  /\ DOMAIN th = Threads /\ th = [t \in Threads |-> th[t]] /\ \A t \in Threads : IsThread(th[t])
  /\ phase \in {"up", "umount"}

(* The names within a directory that are taken, and the inodes that no     *)
(* name stands for and that hold none.                                     *)
KidsOf(D, d) == {n \in Names : D.ent[d][n] # 0}
Kids(d) == KidsOf(disk, d)
Detached(i) == Name(disk, i) = {} /\ Kids(i) = {}

(* A thread that has given an inode a second name and not yet removed the  *)
(* first; one that makes or deletes an inode.                              *)
Moving(t) == th[t].op = "rename" /\ th[t].pc \in Dropping \cup {"rmold"}
Claims(t) == th[t].op = "new" \/ th[t].pc \in Deleting

(* What a thread knows at each of its steps.                               *)
Steps(t) ==
  /\ th[t].pc = "idle" => th[t] = Idle
  /\ th[t].pc \in {"entry", "self"} => th[t].op = "new"
  /\ th[t].pc = "stat" => th[t].op \in {"new", "link"}
  /\ th[t].op = "new" => th[t].pc \in Creating
  /\ th[t].op = "link" => th[t].pc = "stat"
  /\ th[t].pc \in Dropping => th[t].op \in {"unlink", "rmdir", "rename"}
  /\ th[t].pc \in {"rmold", "rstat", "rpar"} => th[t].op = "rename"
  /\ th[t].pc \in Deleting \cup {"clear"} => th[t].op \in {"forget", "umount"}
  /\ th[t].pc = "next" => th[t].op = "umount"

Dropper(t) ==
  /\ th[t].pc \in Dropping =>
       /\ th[t].o \in Ino \ {1} /\ th[t].o \in th[t].held /\ kernel.kn[th[t].o] > 0
       /\ th[t].vp \in Ino
  /\ th[t].pc = "nlink" => disk.kind[th[t].o] \in {"file", "lnk"}

Linker(t) ==
  th[t].op = "link" => th[t].i \in Ino \ {1} /\ th[t].p \in Ino /\ kernel.kn[th[t].i] > 0

(* Both names of an inode that moves are there, within directories the     *)
(* thread has locked.                                                      *)
Mover(t) ==
  /\ th[t].op = "rename" => th[t].p \in Ino /\ th[t].q \in Ino /\ th[t].i \in Ino
  /\ Moving(t) =>
       /\ th[t].p \in th[t].held /\ th[t].q \in th[t].held
       /\ th[t].n \in Names /\ disk.ent[th[t].p][th[t].n] = th[t].i
       /\ \E m \in Names : disk.ent[th[t].q][m] = th[t].i /\ <<th[t].q, m>> # <<th[t].p, th[t].n>>
       /\ disk.kind[th[t].i] # "dir" => th[t].i \in th[t].held
       /\ th[t].o # th[t].i

(* The life of a number that is being given to a new inode.                *)
Creator(t) ==
  /\ th[t].op = "new" =>
       /\ th[t].i \in Ino \ {1} /\ th[t].p \in Ino /\ th[t].p \in th[t].held /\ th[t].n \in Names
       /\ disk.sb[th[t].i] = "live" /\ Kids(th[t].i) = {}
       /\ kernel.kn[th[t].i] = 0 /\ kernel.fp[th[t].i] = 0
  /\ th[t].pc = "entry" =>
       /\ disk.ent[th[t].p][th[t].n] = 0 /\ Name(disk, th[t].i) = {}
       /\ disk.kind[th[t].p] = "dir"
       /\ th[t].p = 1 \/ (Name(disk, th[t].p) # {} /\ kernel.kn[th[t].p] > 0)
  /\ th[t].op = "new" /\ th[t].pc # "entry" => Name(disk, th[t].i) = {<<th[t].p, th[t].n>>}

(* The life of one that is being deleted.                                  *)
Deleter(t) ==
  /\ th[t].pc \in Deleting \cup {"clear"} => th[t].i \in Ino \ {1}
  /\ th[t].pc \in Deleting =>
       /\ kernel.kn[th[t].i] = 0 /\ kernel.fp[th[t].i] = 0
       /\ disk.sb[th[t].i] \in {"live", "todel"}

Agent(t) == Steps(t) /\ Dropper(t) /\ Linker(t) /\ Mover(t) /\ Creator(t) /\ Deleter(t)

(* Two threads lock no directory, and make or delete no inode, together.   *)
Exclusive == \A t, u \in Threads : t # u => th[t].held \cap th[u].held = {}
Apart == \A t, u \in Threads : t # u /\ Claims(t) /\ Claims(u) => th[t].i # th[u].i

Root ==
  /\ disk.kind[1] = "dir" /\ disk.sb[1] = "live" /\ kernel.kn[1] = 0 /\ kernel.fp[1] = 0
  /\ 1 \notin disk.mark /\ Name(disk, 1) = {}

(* What the kernel knows of an inode is in the lookup table; it is alive.  *)
Known(i) ==
  /\ kernel.kn[i] + kernel.fp[i] > 0 => disk.sb[i] = "live" /\ disk.loc[i] = "meta"
  /\ phase = "up" => lut[i].cnt = kernel.kn[i] + kernel.fp[i]
  /\ phase = "umount" => kernel.kn[i] = 0 /\ kernel.fp[i] = 0
  /\ lut[i].cnt = 0 => ~lut[i].del

(* lookup_destroy works alone and still has every marked inode before it.  *)
Destroyer(t) ==
  /\ th[t].op = "umount" /\ \A u \in Threads \ {t} : th[u].pc = "idle"
  /\ \A i \in disk.mark : i \in th[t].todo \/ (th[t].pc \in Deleting \cup {"clear"} /\ th[t].i = i)
  /\ \A i \in th[t].todo : disk.sb[i] = "live"
  /\ th[t].pc \in Deleting \cup {"clear"} => th[t].i \notin th[t].todo
Unmounting ==
  /\ phase = "umount" => \E t \in Threads : Destroyer(t)
  /\ phase = "up" => \A t \in Threads : th[t].op # "umount"

(* What is deleted or about to be has no name.                             *)
Doomed(i) ==
  \/ lut[i].del
  \/ \E t \in Threads : th[t].pc \in Deleting /\ th[t].i = i
  \/ \E t \in Threads : th[t].pc \in {"dmark", "lmark"} /\ th[t].o = i
Unlinked == \A i \in Ino : Doomed(i) => Detached(i)

(* A directory holds what it counts; only live directories hold names.     *)
Holds(d) ==
  /\ disk.kids[d] = Cardinality(Kids(d))
  /\ Kids(d) # {} => disk.kind[d] = "dir" /\ disk.sb[d] = "live"
  /\ disk.sb[d] = "live" => disk.kind[d] # "none"

BeingMade(i) == \E t \in Threads : th[t].pc \in {"entry", "self"} /\ th[t].i = i
BeingMoved(i) == \E t \in Threads : Moving(t) /\ th[t].i = i
BeingDropped(i) == \E t \in Threads : th[t].pc = "nlink" /\ th[t].o = i

(* A file has no more names than links.                                    *)
LinksCover(i) ==
  disk.kind[i] \in {"file", "lnk"} =>
    \/ BeingMade(i)
    \/ BeingMoved(i) /\ Cardinality(Name(disk, i)) <= disk.nlink[i] + 1
    \/ ~BeingDropped(i) /\ Cardinality(Name(disk, i)) <= disk.nlink[i]
    \/ Cardinality(Name(disk, i)) < disk.nlink[i]

(* A directory has one name, but for the two of a rename.                  *)
TwoNames(t, i) ==
  /\ Moving(t) /\ th[t].i = i
  /\ \E m \in Names : Name(disk, i) \subseteq {<<th[t].p, th[t].n>>, <<th[t].q, m>>}
OneName(i) ==
  disk.kind[i] = "dir" =>
    \/ \A e, f \in Name(disk, i) : e = f
    \/ \E t \in Threads : TwoNames(t, i)

(* The parts of NamedLives and of NoLostDelete for one inode.              *)
Alive(i) ==
  Name(disk, i) # {} =>
    /\ disk.sb[i] = "live"
    /\ i \in disk.mark => \E t \in Threads : th[t].i = i /\ th[t].pc = "clear"
    /\ disk.loc[i] # "meta" => \E t \in Threads : th[t].i = i /\ th[t].pc = "self"
Followed(i) ==
  i \in disk.mark =>
    \/ lut[i].cnt > 0 /\ lut[i].del
    \/ \E t \in Threads : th[t].pc = "lmark" /\ th[t].o = i
    \/ \E t \in Threads : th[t].pc \in Deleting \cup {"clear"} /\ th[t].i = i

Agents == \A t \in Threads : Agent(t)
Inodes == \A i \in Ino :
  Known(i) /\ Holds(i) /\ LinksCover(i) /\ OneName(i) /\ Alive(i) /\ Followed(i)

Core == Types /\ Exclusive /\ Apart /\ Root /\ Unmounting /\ Unlinked /\ Agents /\ Inodes

IInv == IsLeft(left) /\ left.crash <= MaxCrash /\ (NoCrash => Core)

-----------------------------------------------------------------------------
(***************************************************************************)
(* The operators of the model.                                             *)
(***************************************************************************)
(* The numbers.                                                            *)
LEMMA Numbers ==
  /\ MaxIno \in Nat /\ Ino \subseteq Nat /\ Ino \subseteq Ino0
  /\ 0 \in Ino0 /\ 0 \notin Ino /\ 1 \in Ino /\ 2 \in Ino /\ \A i \in Ino0 : i # 0 => i \in Ino
BY NamespaceAssumption DEF Ino, Ino0

(* The names of an inode are finitely many, and so are those a directory   *)
(* holds.                                                                  *)
LEMMA Finite ==
  ASSUME NEW D, NEW i
  PROVE  /\ IsFiniteSet(Name(D, i)) /\ IsFiniteSet(KidsOf(D, i))
         /\ Cardinality(Name(D, i)) \in Nat /\ Cardinality(KidsOf(D, i)) \in Nat
<1>1. IsFiniteSet(Ino) /\ IsFiniteSet(Names)
  <2>1. 1 \in Int /\ MaxIno \in Int
    BY NamespaceAssumption
  <2>2. IsFiniteSet(1..MaxIno)
    BY <2>1, FS_Interval
  <2> QED
    BY <2>2, NamespaceAssumption DEF Ino
<1>2. IsFiniteSet(Ino \X Names)
  BY <1>1, FS_Product
<1>3. IsFiniteSet(Name(D, i))
  BY <1>2, FS_Subset DEF Name
<1>4. IsFiniteSet(KidsOf(D, i))
  BY <1>1, FS_Subset DEF KidsOf
<1> QED
  BY <1>3, <1>4, FS_CardinalityType

(* What a directory entry is set to, and the counts with it.               *)
SetEntry(D, p, n, i, k, l) == [D EXCEPT !.ent[p][n] = i, !.kids[p] = k, !.nlink[p] = l]

(* The disk after SetEntry.                                                *)
LEMMA EntryFields ==
  ASSUME NEW D, IsDisk(D), NEW p \in Ino, NEW n \in Names, NEW i \in Ino0,
         NEW k \in Int, NEW l \in Int,
         NEW E, E = SetEntry(D, p, n, i, k, l)
  PROVE  /\ IsDisk(E)
         /\ \A d \in Ino, m \in Names : E.ent[d][m] = IF d = p /\ m = n THEN i ELSE D.ent[d][m]
         /\ E.kids = [D.kids EXCEPT ![p] = k] /\ E.nlink = [D.nlink EXCEPT ![p] = l]
         /\ E.kind = D.kind /\ E.loc = D.loc /\ E.sb = D.sb /\ E.mark = D.mark
<1> DEFINE e == [D.ent EXCEPT ![p] = [D.ent[p] EXCEPT ![n] = i]]
           ks == [D.kids EXCEPT ![p] = k]
           ls == [D.nlink EXCEPT ![p] = l]
<1>1. E = [D EXCEPT !.ent = e, !.kids = ks, !.nlink = ls]
  BY SMT DEF IsDisk, DiskRec, SetEntry
<1>2. D.ent \in [Ino -> [Names -> Ino0]] /\ D.kids \in [Ino -> Int] /\ D.nlink \in [Ino -> Int]
  BY DEF IsDisk, DiskRec
<1>3. [D.ent[p] EXCEPT ![n] = i] \in [Names -> Ino0]
  BY <1>2
<1>4. e \in [Ino -> [Names -> Ino0]] /\ ks \in [Ino -> Int] /\ ls \in [Ino -> Int]
  BY <1>2, <1>3
<1>5. \A d \in Ino, m \in Names : e[d][m] = IF d = p /\ m = n THEN i ELSE D.ent[d][m]
  BY <1>2
<1> HIDE DEF e, ks, ls
<1>6. IsDisk(E)
  BY <1>1, <1>4 DEF IsDisk, DiskRec
<1>7. /\ E.ent = e /\ E.kids = ks /\ E.nlink = ls
      /\ E.kind = D.kind /\ E.loc = D.loc /\ E.sb = D.sb /\ E.mark = D.mark
  BY <1>1 DEF IsDisk, DiskRec
<1> QED
  BY <1>5, <1>6, <1>7 DEF ks, ls

(* dir_add_entry and dir_remove_entry.                                     *)
LEMMA AddFields ==
  ASSUME NEW D, IsDisk(D), NEW p \in Ino, NEW n \in Names, NEW i \in Ino,
         NEW E, E = dir_add_entry(D, p, n, i)
  PROVE  /\ IsDisk(E)
         /\ \A d \in Ino, m \in Names : E.ent[d][m] = IF d = p /\ m = n THEN i ELSE D.ent[d][m]
         /\ E.kids = [D.kids EXCEPT ![p] = D.kids[p] + 1]
         /\ E.nlink = [D.nlink EXCEPT ![p] = IF D.kind[i] = "dir" THEN D.nlink[p] + 1 ELSE D.nlink[p]]
         /\ E.kind = D.kind /\ E.loc = D.loc /\ E.sb = D.sb /\ E.mark = D.mark
<1> DEFINE k == D.kids[p] + 1
           l == IF D.kind[i] = "dir" THEN D.nlink[p] + 1 ELSE D.nlink[p]
<1>1. k \in Int /\ l \in Int /\ i \in Ino0
  BY Numbers DEF IsDisk, DiskRec
<1>2. E = SetEntry(D, p, n, i, k, l)
  BY DEF dir_add_entry, SetEntry, IsDisk, DiskRec
<1> HIDE DEF k, l
<1>3. /\ IsDisk(E)
      /\ \A d \in Ino, m \in Names : E.ent[d][m] = IF d = p /\ m = n THEN i ELSE D.ent[d][m]
      /\ E.kids = [D.kids EXCEPT ![p] = k] /\ E.nlink = [D.nlink EXCEPT ![p] = l]
      /\ E.kind = D.kind /\ E.loc = D.loc /\ E.sb = D.sb /\ E.mark = D.mark
  BY <1>1, <1>2, EntryFields
<1> QED
  BY <1>3 DEF k, l

(* dir_remove_entry takes the name away and the child off the count.       *)
LEMMA RemoveFields ==
  ASSUME NEW D, IsDisk(D), NEW p \in Ino, NEW n \in Names, NEW i \in Ino,
         NEW E, E = dir_remove_entry(D, p, n, i)
  PROVE  /\ IsDisk(E)
         /\ \A d \in Ino, m \in Names : E.ent[d][m] = IF d = p /\ m = n THEN 0 ELSE D.ent[d][m]
         /\ E.kids = [D.kids EXCEPT ![p] = D.kids[p] - 1]
         /\ E.nlink = [D.nlink EXCEPT ![p] = IF D.kind[i] = "dir" THEN D.nlink[p] - 1 ELSE D.nlink[p]]
         /\ E.kind = D.kind /\ E.loc = D.loc /\ E.sb = D.sb /\ E.mark = D.mark
<1> DEFINE k == D.kids[p] - 1
           l == IF D.kind[i] = "dir" THEN D.nlink[p] - 1 ELSE D.nlink[p]
<1>1. k \in Int /\ l \in Int /\ 0 \in Ino0
  BY Numbers DEF IsDisk, DiskRec
<1>2. E = SetEntry(D, p, n, 0, k, l)
  BY DEF dir_remove_entry, SetEntry, IsDisk, DiskRec
<1> HIDE DEF k, l
<1>3. /\ IsDisk(E)
      /\ \A d \in Ino, m \in Names : E.ent[d][m] = IF d = p /\ m = n THEN 0 ELSE D.ent[d][m]
      /\ E.kids = [D.kids EXCEPT ![p] = k] /\ E.nlink = [D.nlink EXCEPT ![p] = l]
      /\ E.kind = D.kind /\ E.loc = D.loc /\ E.sb = D.sb /\ E.mark = D.mark
  BY <1>1, <1>2, EntryFields
<1> QED
  BY <1>3 DEF k, l

(* What the parent lookup and the statistics leave alone.                  *)
SameTree(D, E) ==
  /\ IsDisk(E) /\ E.ent = D.ent /\ E.kids = D.kids /\ E.nlink = D.nlink
  /\ E.kind = D.kind /\ E.loc = D.loc /\ E.sb = D.sb /\ E.mark = D.mark

(* The parent lookup changes no name, count or status.                     *)
LEMMA ParentFields ==
  ASSUME NEW D, IsDisk(D), NEW i, NEW p, NEW q
  PROVE  /\ SameTree(D, lookup_add_parent(D, i, p)) /\ SameTree(D, lookup_delete_parent(D, i, p))
         /\ SameTree(D, lookup_replace_parent(D, i, p, q)) /\ SameTree(D, change_parent_inode(D, i, p))
         /\ SameTree(D, reset_dirstat_lookup(D, i))
<1>1. \A x : SameTree(D, [D EXCEPT !.par = x]) /\ SameTree(D, [D EXCEPT !.up = x])
             /\ SameTree(D, [D EXCEPT !.dstat = x])
  BY DEF SameTree, IsDisk, DiskRec
<1>2. /\ lookup_add_parent(D, i, p) = [D EXCEPT !.par = [D.par EXCEPT ![i] = AddParent(D.par[i], p)]]
      /\ lookup_delete_parent(D, i, p) = [D EXCEPT !.par = [D.par EXCEPT ![i] = DeleteParent(D.par[i], p)]]
      /\ lookup_replace_parent(D, i, p, q) = [D EXCEPT !.par = [D.par EXCEPT ![i] = ReplaceParent(D.par[i], p, q)]]
      /\ change_parent_inode(D, i, p) = [D EXCEPT !.up = [D.up EXCEPT ![i] = p]]
      /\ reset_dirstat_lookup(D, i) = [D EXCEPT !.dstat = [D.dstat EXCEPT ![i] = 0]]
  BY DEF lookup_add_parent, lookup_delete_parent, lookup_replace_parent, change_parent_inode,
         reset_dirstat_lookup, IsDisk, DiskRec
<1> QED
  BY <1>1, <1>2, ZenonT(60)

(* Nor do the directory statistics.                                        *)
LEMMA StatFields ==
  ASSUME NEW D, IsDisk(D), NEW d, NEW x
  PROVE  SameTree(D, update_dirstat_parent(D, d, x))
<1>1. PICK s : update_dirstat_parent(D, d, x) = [D EXCEPT !.dstat = s]
  BY DEF update_dirstat_parent
<1> QED
  BY <1>1 DEF SameTree, IsDisk, DiskRec

(* The names of every inode, and what every directory holds, once a name   *)
(* stands for i.                                                           *)
LEMMA NameSet ==
  ASSUME NEW D, NEW E, NEW p \in Ino, NEW n \in Names, NEW i \in Ino0,
         \A d \in Ino, m \in Names : E.ent[d][m] = IF d = p /\ m = n THEN i ELSE D.ent[d][m]
  PROVE  /\ Name(E, i) = Name(D, i) \cup {<<p, n>>}
         /\ \A j \in Ino0 \ {i} : Name(E, j) = Name(D, j) \ {<<p, n>>}
         /\ \A d \in Ino \ {p} : KidsOf(E, d) = KidsOf(D, d)
         /\ i # 0 => KidsOf(E, p) = KidsOf(D, p) \cup {n}
         /\ i = 0 => KidsOf(E, p) = KidsOf(D, p) \ {n}
BY DEF Name, KidsOf

(* A step of a single thread.                                              *)
StepTo(t, r) == th'[t] = r /\ \A u \in Threads \ {t} : th'[u] = th[u]
ThTypes ==
  /\ DOMAIN th = Threads /\ th = [t \in Threads |-> th[t]]
  /\ \A t \in Threads : IsThread(th[t])

(* A step of thread t changes no other thread.                             *)
LEMMA ThreadStep ==
  ASSUME ThTypes, NEW t \in Threads, NEW r, IsThread(r), th' = [th EXCEPT ![t] = r]
  PROVE  StepTo(t, r) /\ ThTypes'
<1>1. StepTo(t, r)
  BY DEF StepTo, ThTypes
<1>2. DOMAIN th' = Threads /\ th' = [u \in Threads |-> th'[u]]
  BY DEF ThTypes
<1>3. \A u \in Threads : IsThread(th'[u])
  BY <1>1 DEF ThTypes, StepTo
<1> QED
  BY <1>1, <1>2, <1>3 DEF ThTypes

(* Two threads still lock and claim nothing together.                      *)
LEMMA ExclusiveKeeps ==
  ASSUME Exclusive, NEW t \in Threads, NEW r, StepTo(t, r),
         r.held \subseteq th[t].held \/ \A d \in r.held : ~Locked(d)
  PROVE  Exclusive'
BY DEF Exclusive, StepTo, Locked

(* Two threads still make or delete different inodes.                      *)
LEMMA ApartKeeps ==
  ASSUME Apart, NEW t \in Threads, NEW r, StepTo(t, r),
         r.op = "new" \/ r.pc \in Deleting =>
           \/ Claims(t) /\ r.i = th[t].i
           \/ \A u \in Threads \ {t} : Claims(u) => th[u].i # r.i
  PROVE  Apart'
BY DEF Apart, StepTo, Claims

(* What a thread knows stays so while another thread works.                *)
Used(j) == j = 1 \/ kernel.kn[j] > 0 \/ Name(disk, j) # {}
(* What thread u knows stays so while the step of another keeps the names  *)
(* it has locked, the kind of what is in use and the inode it makes or     *)
(* deletes.                                                                *)
LEMMA AgentKeeps ==
  ASSUME IsDisk(disk), NEW u \in Threads, IsThread(th[u]), Agent(u), th'[u] = th[u],
         \A j \in Ino : kernel.kn[j] > 0 => kernel'.kn[j] > 0,
         Claims(u) => /\ kernel'.kn[th[u].i] = 0 /\ kernel'.fp[th[u].i] = 0
                      /\ disk'.sb[th[u].i] = disk.sb[th[u].i]
                      /\ Kids(th[u].i)' = Kids(th[u].i)
                      /\ Name(disk', th[u].i) = Name(disk, th[u].i),
         \A j \in Ino : Used(j) => disk'.kind[j] = disk.kind[j],
         \A d \in th[u].held, m \in Names : disk'.ent[d][m] = disk.ent[d][m],
         \A j \in th[u].held : Name(disk, j) # {} => Name(disk', j) # {}
  PROVE  Agent(u)'
<1>1. Steps(u)'
  BY DEF Agent, Steps
<1>2. Dropper(u)'
  BY DEF Agent, Dropper, Used, Dropping
<1>3. Linker(u)'
  BY DEF Agent, Linker
<1>4. Mover(u)'
  <2>1. Moving(u)' <=> Moving(u)
    BY DEF Moving
  <2>2. CASE Moving(u)
    <3>1. Name(disk, th[u].i) # {}
      <4>1. <<th[u].p, th[u].n>> \in Name(disk, th[u].i)
        BY <2>2 DEF Agent, Mover, Name, Moving
      <4> QED
        BY <4>1
    <3>2. disk'.kind[th[u].i] = disk.kind[th[u].i]
      BY <3>1, <2>2 DEF Agent, Mover, Used, Moving
    <3> QED
      BY <2>1, <2>2, <3>2 DEF Agent, Mover
  <2>3. CASE ~Moving(u)
    BY <2>1, <2>3 DEF Agent, Mover
  <2> QED
    BY <2>2, <2>3
<1>5. Creator(u)'
  <2>1. CASE th[u].op = "new"
    <3>1. th[u].p \in Ino /\ th[u].p \in th[u].held /\ th[u].n \in Names
      BY <2>1 DEF Agent, Creator
    <3>2. th[u].pc = "entry" => Used(th[u].p)
      BY DEF Agent, Creator, Used
    <3> QED
      BY <2>1, <3>1, <3>2 DEF Agent, Creator, Claims
  <2>2. CASE th[u].op # "new"
    BY <2>2 DEF Agent, Creator, Steps
  <2> QED
    BY <2>1, <2>2
<1>6. Deleter(u)'
  BY DEF Agent, Deleter, Claims
<1> QED
  BY <1>1, <1>2, <1>3, <1>4, <1>5, <1>6 DEF Agent

(* Which inodes are being made, moved or dropped after the step.           *)
LEMMA Bits ==
  ASSUME NEW t \in Threads, NEW r, StepTo(t, r), NEW i
  PROVE  /\ BeingMade(i) => BeingMade(i)' \/ (th[t].pc \in {"entry", "self"} /\ th[t].i = i)
         /\ r.pc \in {"entry", "self"} /\ r.i = i => BeingMade(i)'
         /\ BeingMoved(i) => BeingMoved(i)' \/ (Moving(t) /\ th[t].i = i)
         /\ r.op = "rename" /\ r.pc \in Dropping \cup {"rmold"} /\ r.i = i => BeingMoved(i)'
         /\ BeingDropped(i)' => BeingDropped(i) \/ (r.pc = "nlink" /\ r.o = i)
BY DEF BeingMade, BeingMoved, BeingDropped, StepTo, Moving

(* The names of i still are no more than its links when neither changed.   *)
LEMMA LinksKeep ==
  ASSUME NEW t \in Threads, NEW r, StepTo(t, r), NEW i, LinksCover(i),
         Name(disk', i) = Name(disk, i), disk'.nlink[i] = disk.nlink[i],
         disk'.kind[i] = disk.kind[i],
         th[t].pc \in {"entry", "self"} /\ th[t].i = i => r.pc \in {"entry", "self"} /\ r.i = i,
         Moving(t) /\ th[t].i = i => r.op = "rename" /\ r.pc \in Dropping \cup {"rmold"} /\ r.i = i,
         r.pc = "nlink" /\ r.o = i => BeingDropped(i)
  PROVE  LinksCover(i)'
BY Bits DEF LinksCover

(* A directory still has one name when none was added.                     *)
LEMMA OneNameKeeps ==
  ASSUME NEW t \in Threads, NEW r, StepTo(t, r), NEW i, OneName(i),
         Name(disk', i) \subseteq Name(disk, i), disk'.kind[i] = disk.kind[i],
         Moving(t) /\ th[t].i = i =>
           /\ r.op = "rename" /\ r.pc \in Dropping \cup {"rmold"}
           /\ r.i = i /\ r.p = th[t].p /\ r.n = th[t].n /\ r.q = th[t].q
  PROVE  OneName(i)'
<1>1. SUFFICES ASSUME disk.kind[i] = "dir" PROVE OneName(i)'
  BY DEF OneName
<1>2. CASE \A e, f \in Name(disk, i) : e = f
  BY <1>2 DEF OneName
<1>3. CASE \E u \in Threads : TwoNames(u, i)
  <2>1. PICK u \in Threads : TwoNames(u, i)
    BY <1>3
  <2>2. TwoNames(u, i)'
    BY <2>1 DEF TwoNames, StepTo, Moving
  <2> QED
    BY <2>2 DEF OneName
<1> QED
  BY <1>1, <1>2, <1>3 DEF OneName

(* An inode with a name is still alive when its status and marker are.     *)
LEMMA AliveKeeps ==
  ASSUME NEW t \in Threads, NEW r, StepTo(t, r), NEW i, Alive(i),
         Name(disk', i) # {} => Name(disk, i) # {}, disk'.sb[i] = disk.sb[i],
         i \in disk'.mark => i \in disk.mark, disk'.loc[i] = disk.loc[i],
         th[t].pc = "clear" /\ th[t].i = i => i \notin disk'.mark,
         ~(th[t].pc = "self" /\ th[t].i = i)
  PROVE  Alive(i)'
BY DEF Alive, StepTo

(* A marked inode still has someone to delete it.                          *)
LEMMA FollowedKeeps ==
  ASSUME NEW t \in Threads, NEW r, StepTo(t, r), NEW i, Followed(i),
         i \in disk'.mark => i \in disk.mark,
         lut[i].cnt > 0 /\ lut[i].del => lut'[i].cnt > 0 /\ lut'[i].del,
         th[t].pc = "lmark" /\ th[t].o = i => lut'[i].cnt > 0 /\ lut'[i].del,
         th[t].pc \in Deleting \cup {"clear"} /\ th[t].i = i =>
           i \notin disk'.mark \/ (r.pc \in Deleting \cup {"clear"} /\ r.i = i)
  PROVE  Followed(i)'
BY DEF Followed, StepTo

(* What has no name and is to be deleted keeps having none.                *)
LEMMA UnlinkedKeeps ==
  ASSUME Unlinked, NEW t \in Threads, NEW r, StepTo(t, r),
         \A i \in Ino : Doomed(i) => Name(disk', i) \subseteq Name(disk, i)
                                     /\ Kids(i)' \subseteq Kids(i),
         \A i \in Ino : lut'[i].del => Doomed(i),
         r.pc \in Deleting /\ r.i \in Ino => Doomed(r.i),
         r.pc \in {"dmark", "lmark"} /\ r.o \in Ino => Doomed(r.o) \/ Detached(r.o)'
  PROVE  Unlinked'
<1> SUFFICES ASSUME NEW i \in Ino, Doomed(i)' PROVE Detached(i)'
  BY DEF Unlinked
<1>1. Doomed(i) => Detached(i)'
  BY DEF Unlinked, Detached
<1>2. CASE lut'[i].del
  BY <1>1, <1>2
<1>3. ASSUME NEW u \in Threads, th'[u].pc \in Deleting, th'[u].i = i PROVE Detached(i)'
  BY <1>1, <1>3 DEF StepTo, Doomed
<1>4. ASSUME NEW u \in Threads, th'[u].pc \in {"dmark", "lmark"}, th'[u].o = i PROVE Detached(i)'
  BY <1>1, <1>4 DEF StepTo, Doomed
<1> QED
  BY <1>2, <1>3, <1>4 DEF Doomed

(* A step that leaves the tree alone.                                      *)
LEMMA TreeKeeps ==
  ASSUME Types, Inodes, NEW t \in Threads, NEW r, StepTo(t, r), SameTree(disk, disk'),
         th[t].pc \notin {"entry", "self", "clear"}, r.pc # "nlink",
         Moving(t) => /\ r.op = "rename" /\ r.pc \in Dropping \cup {"rmold"}
                      /\ r.i = th[t].i /\ r.p = th[t].p /\ r.n = th[t].n /\ r.q = th[t].q
  PROVE  /\ IsDisk(disk') /\ \A i \in Ino : Holds(i)' /\ LinksCover(i)' /\ OneName(i)' /\ Alive(i)'
         /\ \A i \in Ino : Name(disk', i) = Name(disk, i) /\ Kids(i)' = Kids(i)
                           /\ (Detached(i)' <=> Detached(i))
<1>1. \A i \in Ino : Name(disk', i) = Name(disk, i) /\ Kids(i)' = Kids(i)
                     /\ (Detached(i)' <=> Detached(i))
  BY DEF SameTree, Name, Kids, KidsOf, Detached
<1>2. \A i \in Ino : Holds(i)'
  BY <1>1 DEF Inodes, Holds, SameTree
<1>3. \A i \in Ino : LinksCover(i)'
  BY <1>1, LinksKeep DEF Inodes, SameTree
<1>4. \A i \in Ino : OneName(i)'
  BY <1>1, OneNameKeeps DEF Inodes, SameTree
<1>5. \A i \in Ino : Alive(i)'
  BY <1>1, AliveKeeps DEF Inodes, SameTree
<1> QED
  BY <1>1, <1>2, <1>3, <1>4, <1>5 DEF SameTree

(* How a thread goes on to its next step, and how it ends.                 *)
Same(r, h) ==
  /\ r.op = h.op /\ r.p = h.p /\ r.n = h.n /\ r.q = h.q /\ r.i = h.i /\ r.o = h.o
  /\ r.vp = h.vp /\ r.held = h.held /\ r.todo = h.todo

(* Goto changes nothing but the step.                                      *)
LEMMA GotoStep ==
  ASSUME ThTypes, NEW t \in Threads, NEW pc \in PCs, Goto(t, pc)
  PROVE  ThTypes' /\ \E r : StepTo(t, r) /\ r.pc = pc /\ Same(r, th[t])
<1> DEFINE r == [th[t] EXCEPT !.pc = pc]
<1>1. IsThread(r) /\ r.pc = pc /\ Same(r, th[t])
  BY DEF ThTypes, IsThread, ThRec, Same
<1>2. th' = [th EXCEPT ![t] = r]
  BY DEF Goto, ThTypes
<1> HIDE DEF r
<1> QED
  BY <1>1, <1>2, ThreadStep

(* The idle thread.                                                        *)
LEMMA IdleFields ==
  /\ IsThread(Idle) /\ Idle.pc = "idle" /\ Idle.op = "" /\ Idle.held = {} /\ Idle.i = 0 /\ Idle.o = 0
  /\ Idle.p = 0 /\ Idle.q = 0
BY Numbers DEF Idle, IsThread, ThRec, PCs, Ops

(* The end of a handler.                                                   *)
LEMMA DoneStep ==
  ASSUME ThTypes, NEW t \in Threads, Done(t)
  PROVE  ThTypes' /\ StepTo(t, Idle)
BY IdleFields, ThreadStep DEF Done

(* The handlers run while the volume is mounted.                           *)
LEMMA Mounted ==
  ASSUME Types, Unmounting, NEW t \in Threads, th[t].pc # "idle", th[t].op # "umount"
  PROVE  phase = "up"
BY DEF Types, Unmounting, Destroyer

(* No handler but the unmount ends the mounted phase.                      *)
LEMMA StillMounted ==
  ASSUME Unmounting, phase = "up", phase' = "up", NEW t \in Threads, NEW r, StepTo(t, r), r.op # "umount"
  PROVE  Unmounting'
BY DEF Unmounting, StepTo

(* The other threads keep what they know when no name changes.             *)
LEMMA OthersKeep ==
  ASSUME Types, Agents, NEW t \in Threads, NEW r, StepTo(t, r),
         \A i \in Ino : Name(disk', i) = Name(disk, i) /\ Kids(i)' = Kids(i),
         disk'.ent = disk.ent,
         \A j \in Ino : kernel.kn[j] > 0 => kernel'.kn[j] > 0,
         \A j \in Ino : Used(j) => disk'.kind[j] = disk.kind[j],
         \A u \in Threads \ {t} : Claims(u) /\ th[u].i \in Ino =>
           /\ kernel'.kn[th[u].i] = kernel.kn[th[u].i] /\ kernel'.fp[th[u].i] = kernel.fp[th[u].i]
           /\ disk'.sb[th[u].i] = disk.sb[th[u].i]
  PROVE  \A u \in Threads \ {t} : Agent(u)'
<1> SUFFICES ASSUME NEW u \in Threads \ {t} PROVE Agent(u)'
  OBVIOUS
<1>1. IsDisk(disk) /\ IsThread(th[u]) /\ Agent(u) /\ th'[u] = th[u] /\ th[u].held \subseteq Ino
  BY DEF Types, Agents, StepTo, IsThread, ThRec
<1>2. Claims(u) => th[u].i \in Ino /\ kernel.kn[th[u].i] = 0 /\ kernel.fp[th[u].i] = 0
  BY <1>1 DEF Agent, Claims, Creator, Deleter
<1>3. Claims(u) => /\ kernel'.kn[th[u].i] = 0 /\ kernel'.fp[th[u].i] = 0
                   /\ disk'.sb[th[u].i] = disk.sb[th[u].i]
                   /\ Kids(th[u].i)' = Kids(th[u].i)
                   /\ Name(disk', th[u].i) = Name(disk, th[u].i)
  BY <1>1, <1>2 DEF Kids
<1>4. \A d \in th[u].held, m \in Names : disk'.ent[d][m] = disk.ent[d][m]
  OBVIOUS
<1>5. \A j \in th[u].held : Name(disk, j) # {} => Name(disk', j) # {}
  BY <1>1
<1> QED
  BY <1>1, <1>3, <1>4, <1>5, AgentKeeps

(* A handler's step that leaves the tree alone.                            *)
LEMMA CountStep ==
  ASSUME Core, NEW t \in Threads, NEW r, StepTo(t, r), ThTypes', SameTree(disk, disk'),
         kernel' \in KernelRec, lut' \in [Ino -> NodeRec], phase = "up", phase' = "up",
         kernel'.kn[1] = 0 /\ kernel'.fp[1] = 0,
         \A j \in Ino : kernel.kn[j] > 0 => kernel'.kn[j] > 0,
         \A u \in Threads \ {t} : Claims(u) /\ th[u].i \in Ino =>
           kernel'.kn[th[u].i] = kernel.kn[th[u].i] /\ kernel'.fp[th[u].i] = kernel.fp[th[u].i],
         th[t].pc \notin {"entry", "self", "clear"}, r.pc \notin {"nlink", "dmark", "lmark"},
         r.op \notin {"umount", "new"}, r.held \subseteq th[t].held,
         r.pc \in Deleting => /\ r.i \in Ino /\ Doomed(r.i)
                              /\ \A u \in Threads \ {t} : Claims(u) => th[u].i # r.i,
         Moving(t) => /\ r.op = "rename" /\ r.pc \in Dropping \cup {"rmold"}
                      /\ r.i = th[t].i /\ r.p = th[t].p /\ r.n = th[t].n /\ r.q = th[t].q,
         \A i \in Ino : lut'[i].del => Doomed(i),
         Agent(t)', \A i \in Ino : Known(i)' /\ Followed(i)'
  PROVE  Core'
<1> USE DEF Core
<1>1. /\ IsDisk(disk') /\ \A i \in Ino : Holds(i)' /\ LinksCover(i)' /\ OneName(i)' /\ Alive(i)'
      /\ \A i \in Ino : Name(disk', i) = Name(disk, i) /\ Kids(i)' = Kids(i)
                        /\ (Detached(i)' <=> Detached(i))
  BY TreeKeeps
<1>2. Types'
  BY <1>1 DEF Types, ThTypes
<1>3. Exclusive'
  BY ExclusiveKeeps
<1>4. Apart'
  BY ApartKeeps
<1>5. Root'
  BY <1>1, Numbers DEF Root, SameTree
<1>6. Unmounting'
  BY StillMounted
<1>7. Unlinked'
  BY <1>1, UnlinkedKeeps
<1>8. \A u \in Threads \ {t} : Agent(u)'
  BY <1>1, OthersKeep DEF SameTree
<1> QED
  BY <1>1, <1>2, <1>3, <1>4, <1>5, <1>6, <1>7, <1>8 DEF Agents, Inodes

(* A step of a handler that leaves the tree, the kernel and the lookup     *)
(* counts alone.                                                           *)
LEMMA QuietStep ==
  ASSUME Core, NEW t \in Threads, NEW r, StepTo(t, r), ThTypes', SameTree(disk, disk'),
         kernel' = kernel, lut' \in [Ino -> NodeRec], phase = "up", phase' = "up",
         th[t].pc \notin {"entry", "self", "clear"}, r.pc \notin {"nlink", "dmark", "lmark"},
         r.op \notin {"umount", "new"}, r.pc \notin Deleting, r.held \subseteq th[t].held,
         Moving(t) => /\ r.op = "rename" /\ r.pc \in Dropping \cup {"rmold"}
                      /\ r.i = th[t].i /\ r.p = th[t].p /\ r.n = th[t].n /\ r.q = th[t].q,
         \A i \in Ino : lut'[i].del => Doomed(i),
         Agent(t)', \A i \in Ino : Known(i)' /\ Followed(i)'
  PROVE  Core'
<1>1. kernel' \in KernelRec /\ kernel'.kn[1] = 0 /\ kernel'.fp[1] = 0
  BY DEF Core, Types, Root
<1> QED
  BY <1>1, CountStep

(* The mark in the lookup table.                                           *)
LEMMA MarkLookupKeeps ==
  ASSUME Core, NEW t \in Threads, MarkLookup(t)
  PROVE  Core'
<1> USE DEF Core
<1>1. ThTypes
  BY DEF Types, ThTypes
<1>2. PICK r : StepTo(t, r) /\ r.pc = "parent" /\ Same(r, th[t])
  BY <1>1, GotoStep DEF MarkLookup, PCs, Dropping
<1>3. ThTypes'
  BY <1>1, GotoStep DEF MarkLookup, PCs, Dropping
<1>4. th[t].pc = "lmark" /\ disk' = disk /\ kernel' = kernel /\ phase' = phase /\ Agent(t)
  BY DEF MarkLookup, At, Agents
<1>5. th[t].op \in {"unlink", "rmdir", "rename"} /\ th[t].o \in Ino /\ kernel.kn[th[t].o] > 0
  BY <1>4 DEF Agent, Steps, Dropper, Dropping
<1>6. phase = "up"
  BY <1>4, <1>5, Mounted
<1>7. lut' \in [Ino -> NodeRec] /\ \A j \in Ino : lut'[j].cnt = lut[j].cnt
  BY DEF MarkLookup, lookup_markdelete, NodeRec, Types
<1>8. \A j \in Ino : lut'[j].del <=> (lut[j].del \/ (j = th[t].o /\ lut[j].cnt # 0))
  BY DEF MarkLookup, lookup_markdelete, NodeRec, Types
<1>9. lut[th[t].o].cnt > 0
  BY <1>5, <1>6 DEF Inodes, Known, Types, KernelRec
<1>10. SameTree(disk, disk')
  BY <1>4 DEF Types, SameTree
<1>11. \A i \in Ino : lut'[i].del => Doomed(i)
  BY <1>4, <1>8 DEF Doomed
<1>12. Agent(t)'
  BY <1>2, <1>4, <1>5
  DEF StepTo, Same, Agent, Steps, Dropper, Linker, Mover, Moving, Creator, Deleter, Dropping, Creating, Deleting
<1>13. \A i \in Ino : Known(i)'
  BY <1>4, <1>7, <1>8 DEF Known, Inodes
<1>14. \A i \in Ino : Followed(i)'
  BY <1>2, <1>4, <1>7, <1>8, <1>9, FollowedKeeps DEF Inodes, Deleting
<1> QED
  BY <1>2, <1>3, <1>4, <1>5, <1>6, <1>7, <1>10, <1>11, <1>12, <1>13, <1>14, QuietStep
  DEF Same, Moving, Dropping, Deleting

(* The parent and the statistics of a removed or a moved name.             *)
LEMMA SameTreeTrans ==
  ASSUME NEW A, NEW B, NEW C, SameTree(A, B), SameTree(B, C)
  PROVE  SameTree(A, C)
BY DEF SameTree

(* The parent of the removed name is dropped from the lookup.              *)
LEMMA DropParentKeeps ==
  ASSUME Core, NEW t \in Threads, DropParent(t)
  PROVE  Core'
<1> USE DEF Core
<1>1. ThTypes /\ IsDisk(disk)
  BY DEF Types, ThTypes
<1>2. th[t].pc = "parent" /\ lut' = lut /\ kernel' = kernel /\ phase' = phase /\ Agent(t)
  BY DEF DropParent, At, Agents
<1>3. th[t].op \in {"unlink", "rmdir", "rename"}
  BY <1>2 DEF Agent, Steps, Dropping
<1>4. phase = "up"
  BY <1>2, <1>3, Mounted
<1>5. SameTree(disk, disk')
  <2> DEFINE D == lookup_delete_parent(disk, th[t].o, th[t].vp)
  <2>1. SameTree(disk, D) /\ IsDisk(D)
    BY <1>1, ParentFields DEF SameTree
  <2>2. \/ disk' = update_dirstat_parent(D, th[t].vp, -1) \/ disk' = reset_dirstat_lookup(D, th[t].o)
        \/ disk' = D
    BY DEF DropParent
  <2> HIDE DEF D
  <2>3. SameTree(D, disk') \/ disk' = D
    BY <2>1, <2>2, StatFields, ParentFields
  <2> QED
    BY <2>1, <2>3, SameTreeTrans
<1>6. \A i \in Ino : Known(i)'
  BY <1>2, <1>5 DEF Known, Inodes, SameTree
<1>7. \A i \in Ino : lut'[i].del => Doomed(i)
  BY <1>2 DEF Doomed
<1>8. CASE th[t].op = "rename"
  <2>1. PICK r : StepTo(t, r) /\ r.pc = "rmold" /\ Same(r, th[t])
    BY <1>1, <1>8, GotoStep DEF DropParent, PCs
  <2>2. ThTypes'
    BY <1>1, <1>8, GotoStep DEF DropParent, PCs
  <2>3. Agent(t)'
    BY <1>2, <1>5, <1>8, <2>1
    DEF StepTo, Same, Agent, Steps, Dropper, Linker, Mover, Moving, Creator, Deleter, Dropping, Creating,
        Deleting, SameTree
  <2>4. \A i \in Ino : Followed(i)'
    BY <1>2, <1>5, <2>1, FollowedKeeps DEF Inodes, Deleting, SameTree
  <2> QED
    BY <1>2, <1>4, <1>5, <1>6, <1>7, <1>8, <2>1, <2>2, <2>3, <2>4, QuietStep
    DEF Same, Moving, Dropping, Deleting, Types
<1>9. CASE th[t].op # "rename"
  <2>1. StepTo(t, Idle) /\ ThTypes'
    BY <1>1, <1>9, DoneStep DEF DropParent
  <2>2. Agent(t)'
    BY <2>1, IdleFields
    DEF StepTo, Agent, Steps, Dropper, Linker, Mover, Moving, Creator, Deleter, Dropping, Deleting
  <2>3. \A i \in Ino : Followed(i)'
    BY <1>2, <1>5, <2>1, FollowedKeeps DEF Inodes, Deleting, SameTree
  <2> QED
    BY <1>2, <1>4, <1>5, <1>6, <1>7, <1>9, <2>1, <2>2, <2>3, QuietStep, IdleFields
    DEF Moving, Dropping, Deleting, Types
<1> QED
  BY <1>8, <1>9

(* An idle thread claims nothing.                                          *)
LEMMA IdleAgent ==
  ASSUME NEW t \in Threads, StepTo(t, Idle)
  PROVE  Agent(t)'
BY IdleFields
DEF StepTo, Agent, Steps, Dropper, Linker, Mover, Moving, Creator, Deleter, Dropping, Deleting

(* Rename reads the statistics of what it moved.                           *)
LEMMA ReadMovedStatKeeps ==
  ASSUME Core, NEW t \in Threads, ReadMovedStat(t)
  PROVE  Core'
<1> USE DEF Core
<1>1. ThTypes /\ IsDisk(disk)
  BY DEF Types, ThTypes
<1>2. /\ th[t].pc = "rstat" /\ disk' = disk /\ lut' = lut /\ kernel' = kernel /\ phase' = phase
      /\ Agent(t)
  BY DEF ReadMovedStat, At, Agents
<1>3. th[t].op = "rename"
  BY <1>2 DEF Agent, Steps
<1>4. phase = "up"
  BY <1>2, <1>3, Mounted
<1>5. PICK v : th' = [th EXCEPT ![t].pc = "rpar", ![t].s = v]
  BY DEF ReadMovedStat
<1> DEFINE r == [th[t] EXCEPT !.pc = "rpar", !.s = v]
<1>6. IsThread(r) /\ r.pc = "rpar" /\ Same(r, th[t])
  BY <1>1, ZenonT(60) DEF ThTypes, IsThread, ThRec, Same, PCs
<1>7. th' = [th EXCEPT ![t] = r]
  BY <1>1, <1>5 DEF ThTypes
<1> HIDE DEF r
<1>8. StepTo(t, r) /\ ThTypes'
  BY <1>1, <1>6, <1>7, ThreadStep
<1>9. SameTree(disk, disk') /\ \A i \in Ino : lut'[i].del => Doomed(i)
  BY <1>1, <1>2 DEF SameTree, Doomed
<1>10. \A i \in Ino : Known(i)'
  BY <1>2 DEF Known, Inodes
<1>11. Agent(t)'
  BY <1>2, <1>3, <1>6, <1>8
  DEF StepTo, Same, Agent, Steps, Dropper, Linker, Mover, Moving, Creator, Deleter, Dropping, Creating,
      Deleting
<1>12. \A i \in Ino : Followed(i)'
  BY <1>2, <1>8, FollowedKeeps DEF Inodes, Deleting
<1> QED
  BY <1>2, <1>3, <1>4, <1>6, <1>8, <1>9, <1>10, <1>11, <1>12, QuietStep
  DEF Same, Moving, Dropping, Deleting, Types

(* Rename replaces the parent of what it moved.                            *)
LEMMA MoveParentKeeps ==
  ASSUME Core, NEW t \in Threads, MoveParent(t)
  PROVE  Core'
<1> USE DEF Core
<1>1. ThTypes /\ IsDisk(disk)
  BY DEF Types, ThTypes
<1>2. th[t].pc = "rpar" /\ lut' = lut /\ kernel' = kernel /\ phase' = phase /\ Agent(t)
  BY DEF MoveParent, At, Agents
<1>3. th[t].op = "rename"
  BY <1>2 DEF Agent, Steps
<1>4. phase = "up"
  BY <1>2, <1>3, Mounted
<1>5. SameTree(disk, disk')
  <2> DEFINE D == lookup_replace_parent(disk, th[t].i, th[t].p, th[t].q)
             E == update_dirstat_parent(D, th[t].q, th[t].s)
  <2>1. SameTree(disk, D) /\ IsDisk(D)
    BY <1>1, ParentFields DEF SameTree
  <2>2. disk' = update_dirstat_parent(E, th[t].p, -th[t].s)
    BY DEF MoveParent
  <2> HIDE DEF D
  <2>3. SameTree(D, E) /\ IsDisk(E)
    BY <2>1, StatFields DEF SameTree
  <2> HIDE DEF E
  <2>4. SameTree(E, disk')
    BY <2>2, <2>3, StatFields
  <2> QED
    BY <2>1, <2>3, <2>4, SameTreeTrans
<1>6. \A i \in Ino : Known(i)'
  BY <1>2, <1>5 DEF Known, Inodes, SameTree
<1>7. \A i \in Ino : lut'[i].del => Doomed(i)
  BY <1>2 DEF Doomed
<1>8. StepTo(t, Idle) /\ ThTypes'
  BY <1>1, DoneStep DEF MoveParent
<1>9. Agent(t)'
  BY <1>8, IdleAgent
<1>10. \A i \in Ino : Followed(i)'
  BY <1>2, <1>5, <1>8, FollowedKeeps DEF Inodes, Deleting, SameTree
<1> QED
  BY <1>2, <1>3, <1>4, <1>5, <1>6, <1>7, <1>8, <1>9, <1>10, QuietStep, IdleFields
  DEF Moving, Dropping, Deleting, Types

-----------------------------------------------------------------------------
(***************************************************************************)
(* Lookup counts.                                                          *)
(***************************************************************************)
LEMMA IncreaseFields ==
  ASSUME lut \in [Ino -> NodeRec], kernel \in KernelRec, NEW i \in Ino,
         lut' = lookup_increase(lut, i), Reply(i)
  PROVE  /\ lut' \in [Ino -> NodeRec] /\ kernel' \in KernelRec
         /\ \A j \in Ino : lut'[j].del = lut[j].del /\ kernel'.fp[j] = kernel.fp[j]
         /\ \A j \in Ino \ {i} : lut'[j].cnt = lut[j].cnt /\ kernel'.kn[j] = kernel.kn[j]
         /\ lut'[i].cnt = lut[i].cnt + 1 /\ kernel'.kn[i] = kernel.kn[i] + 1
<1> DEFINE x == [lut[i] EXCEPT !.cnt = lut[i].cnt + 1]
<1>1. lut' = [lut EXCEPT ![i] = x]
  BY DEF lookup_increase
<1>2. x \in NodeRec /\ x.cnt = lut[i].cnt + 1 /\ x.del = lut[i].del
  BY DEF NodeRec
<1> HIDE DEF x
<1>3. kernel' = [kn |-> [kernel.kn EXCEPT ![i] = kernel.kn[i] + 1], fp |-> kernel.fp]
  BY DEF Reply, KernelRec
<1>4. kernel' \in KernelRec
  BY <1>3 DEF KernelRec
<1> QED
  BY <1>1, <1>2, <1>3, <1>4 DEF KernelRec

(* The reply of a creation: the kernel has the inode from here on.         *)
LEMMA NewDoneKeeps ==
  ASSUME Core, NEW t \in Threads, NewDone(t)
  PROVE  Core'
<1> USE DEF Core
<1> DEFINE i == th[t].i
<1>1. ThTypes /\ IsDisk(disk) /\ lut \in [Ino -> NodeRec] /\ kernel \in KernelRec
  BY DEF Types, ThTypes
<1>2. th[t].pc = "stat" /\ phase' = phase /\ Agent(t) /\ lut' = lookup_increase(lut, i) /\ Reply(i)
  BY DEF NewDone, At, Agents
<1>3. th[t].op \in {"new", "link"} /\ i \in Ino \ {1}
  BY <1>2 DEF Agent, Steps, Creator, Linker
<1>4. phase = "up"
  BY <1>2, <1>3, Mounted
<1>5. SameTree(disk, disk')
  <2>1. \/ disk' = update_dirstat_parent(disk, th[t].p, 1) \/ disk' = reset_dirstat_lookup(disk, i)
        \/ disk' = disk
    BY DEF NewDone
  <2> QED
    BY <1>1, <2>1, StatFields, ParentFields DEF SameTree
<1>6. /\ lut' \in [Ino -> NodeRec] /\ kernel' \in KernelRec
      /\ \A j \in Ino : lut'[j].del = lut[j].del /\ kernel'.fp[j] = kernel.fp[j]
      /\ \A j \in Ino \ {i} : lut'[j].cnt = lut[j].cnt /\ kernel'.kn[j] = kernel.kn[j]
      /\ lut'[i].cnt = lut[i].cnt + 1 /\ kernel'.kn[i] = kernel.kn[i] + 1
  BY <1>1, <1>2, <1>3, IncreaseFields
<1>7. disk.sb[i] = "live" /\ disk.loc[i] = "meta"
  <2>1. CASE th[t].op = "new"
    <3>1. Name(disk, i) # {} /\ disk.sb[i] = "live" /\ Alive(i)
      BY <1>2, <1>3, <2>1 DEF Agent, Creator, Inodes
    <3>2. ~\E u \in Threads : th[u].i = i /\ th[u].pc = "self"
      BY <1>2, <2>1 DEF Apart, Claims, Agents, Agent, Steps
    <3> QED
      BY <3>1, <3>2 DEF Alive
  <2>2. CASE th[t].op = "link"
    <3>1. kernel.kn[i] + kernel.fp[i] > 0
      BY <1>1, <1>2, <1>3, <2>2 DEF Agent, Linker, KernelRec
    <3> QED
      BY <1>3, <3>1 DEF Inodes, Known
  <2> QED
    BY <1>3, <2>1, <2>2
<1>8. \A u \in Threads \ {t} : Claims(u) /\ th[u].i \in Ino => th[u].i # i
  <2> SUFFICES ASSUME NEW u \in Threads \ {t}, Claims(u), th[u].i = i PROVE FALSE
    OBVIOUS
  <2>1. CASE th[t].op = "new"
    BY <2>1 DEF Apart, Claims
  <2>2. CASE th[t].op = "link"
    BY <1>2, <2>2 DEF Claims, Agents, Agent, Linker, Creator, Deleter
  <2> QED
    BY <1>3, <2>1, <2>2
<1>9. StepTo(t, Idle) /\ ThTypes'
  BY <1>1, DoneStep DEF NewDone
<1>10. Agent(t)'
  BY <1>9, IdleAgent
<1>11. \A j \in Ino : Known(j)'
  <2> SUFFICES ASSUME NEW j \in Ino PROVE Known(j)'
    OBVIOUS
  <2>1. Known(j) /\ lut[j].cnt \in Nat /\ kernel.kn[j] \in Nat /\ kernel.fp[j] \in Nat
    BY <1>1 DEF Inodes, NodeRec, KernelRec
  <2> QED
    BY <1>2, <1>4, <1>5, <1>6, <1>7, <2>1 DEF Known, SameTree
<1>12. \A j \in Ino : Followed(j)'
  <2>1. \A j \in Ino : lut[j].cnt \in Nat
    BY <1>1 DEF NodeRec
  <2> QED
    BY <1>2, <1>5, <1>6, <1>9, <2>1, FollowedKeeps DEF Inodes, Deleting, SameTree
<1>13. kernel'.kn[1] = 0 /\ kernel'.fp[1] = 0
  BY <1>3, <1>6, Numbers DEF Root
<1>14. \A j \in Ino : kernel.kn[j] > 0 => kernel'.kn[j] > 0
  BY <1>1, <1>6 DEF KernelRec
<1>15. \A j \in Ino : lut'[j].del => Doomed(j)
  BY <1>6 DEF Doomed
<1>16. \A u \in Threads \ {t} : Claims(u) /\ th[u].i \in Ino =>
         kernel'.kn[th[u].i] = kernel.kn[th[u].i] /\ kernel'.fp[th[u].i] = kernel.fp[th[u].i]
  BY <1>6, <1>8
<1>17. ~Moving(t)
  BY <1>3 DEF Moving
<1> QED
  BY <1>2, <1>4, <1>5, <1>6, <1>9, <1>10, <1>11, <1>12, <1>13, <1>14, <1>15, <1>16, <1>17, CountStep, IdleFields
  DEF Deleting

(* A lookup counts one more use of the inode a name stands for.            *)
LEMMA LookupKeeps ==
  ASSUME Core, NEW t \in Threads, NEW p \in Ino, NEW n \in Names, hfuse_ll_lookup(t, p, n)
  PROVE  Core'
<1> USE DEF Core
<1> DEFINE i == disk.ent[p][n]
<1>1. ThTypes /\ IsDisk(disk) /\ lut \in [Ino -> NodeRec] /\ kernel \in KernelRec
  BY DEF Types, ThTypes
<1>2. /\ th[t].pc = "idle" /\ phase = "up" /\ phase' = "up" /\ Agent(t) /\ ~Locked(p)
      /\ lut' = lookup_increase(lut, i) /\ Reply(i) /\ disk' = disk /\ th' = th /\ i # 0
  BY DEF hfuse_ll_lookup, lookup_dir, At, Agents
<1>3. i \in Ino /\ <<p, n>> \in Name(disk, i)
  BY <1>1, <1>2, Numbers DEF IsDisk, DiskRec, Name
<1>4. i # 1
  BY <1>3 DEF Root
<1>5. SameTree(disk, disk')
  BY <1>1, <1>2 DEF SameTree
<1>6. /\ lut' \in [Ino -> NodeRec] /\ kernel' \in KernelRec
      /\ \A j \in Ino : lut'[j].del = lut[j].del /\ kernel'.fp[j] = kernel.fp[j]
      /\ \A j \in Ino \ {i} : lut'[j].cnt = lut[j].cnt /\ kernel'.kn[j] = kernel.kn[j]
      /\ lut'[i].cnt = lut[i].cnt + 1 /\ kernel'.kn[i] = kernel.kn[i] + 1
  BY <1>1, <1>2, <1>3, IncreaseFields
<1>7. \A u \in Threads : Claims(u) => th[u].i # i
  <2> SUFFICES ASSUME NEW u \in Threads, Claims(u), th[u].i = i PROVE FALSE
    OBVIOUS
  <2>1. CASE th[u].op = "new"
    BY <1>2, <1>3, <2>1 DEF Agents, Agent, Creator, Locked
  <2>2. CASE th[u].pc \in Deleting
    BY <1>3, <2>2 DEF Unlinked, Doomed, Detached
  <2> QED
    BY <2>1, <2>2 DEF Claims
<1>8. disk.sb[i] = "live" /\ disk.loc[i] = "meta"
  <2>1. Name(disk, i) # {} /\ Alive(i)
    BY <1>3 DEF Inodes
  <2>2. ~\E u \in Threads : th[u].i = i /\ th[u].pc = "self"
    BY <1>7 DEF Claims, Agents, Agent, Steps
  <2> QED
    BY <2>1, <2>2 DEF Alive
<1>9. th[t] = Idle /\ StepTo(t, Idle) /\ ThTypes'
  BY <1>1, <1>2 DEF StepTo, ThTypes, Agent, Steps
<1>10. Agent(t)'
  BY <1>9, IdleAgent
<1>11. \A j \in Ino : Known(j)'
  <2> SUFFICES ASSUME NEW j \in Ino PROVE Known(j)'
    OBVIOUS
  <2>1. Known(j) /\ lut[j].cnt \in Nat /\ kernel.kn[j] \in Nat /\ kernel.fp[j] \in Nat
    BY <1>1 DEF Inodes, NodeRec, KernelRec
  <2> QED
    BY <1>2, <1>5, <1>6, <1>8, <2>1, SMTT(60) DEF Known, SameTree
<1>12. \A j \in Ino : Followed(j)'
  <2>1. \A j \in Ino : lut[j].cnt \in Nat
    BY <1>1 DEF NodeRec
  <2> SUFFICES ASSUME NEW j \in Ino PROVE Followed(j)'
    OBVIOUS
  <2>2. Followed(j) /\ disk'.mark = disk.mark
    BY <1>5 DEF Inodes, SameTree
  <2>3. lut'[j].del = lut[j].del /\ (lut[j].cnt > 0 => lut'[j].cnt > 0)
    BY <1>6, <2>1
  <2>4. StepTo(t, Idle) /\ th[t].pc = "idle"
    BY <1>9, IdleFields
  <2>5. "idle" \notin Deleting \cup {"clear", "lmark"}
    BY DEF Deleting
  <2> QED
    BY ONLY <2>2, <2>3, <2>4, <2>5 DEF Followed, StepTo
<1>13. kernel'.kn[1] = 0 /\ kernel'.fp[1] = 0
  BY <1>3, <1>4, <1>6, Numbers DEF Root
<1>14. \A j \in Ino : kernel.kn[j] > 0 => kernel'.kn[j] > 0
  BY <1>1, <1>6 DEF KernelRec
<1>15. \A j \in Ino : lut'[j].del => Doomed(j)
  BY <1>6 DEF Doomed
<1>16. \A u \in Threads \ {t} : Claims(u) /\ th[u].i \in Ino =>
         kernel'.kn[th[u].i] = kernel.kn[th[u].i] /\ kernel'.fp[th[u].i] = kernel.fp[th[u].i]
  BY <1>6, <1>7
<1>17. ~Moving(t)
  BY <1>2 DEF Moving, Dropping
<1> QED
  BY <1>2, <1>5, <1>6, <1>9, <1>10, <1>11, <1>12, <1>13, <1>14, <1>15, <1>16, <1>17, CountStep, IdleFields
  DEF Deleting

(* FORGET takes uses away; with the last of a marked inode the deletion    *)
(* begins.                                                                 *)
LEMMA ForgetKeeps ==
  ASSUME Core, NEW t \in Threads, NEW i \in Ino, hfuse_ll_forget(t, i)
  PROVE  Core'
<1> USE DEF Core
<1>1. ThTypes /\ IsDisk(disk) /\ lut \in [Ino -> NodeRec] /\ kernel \in KernelRec
  BY DEF Types, ThTypes
<1>2. /\ th[t].pc = "idle" /\ phase = "up" /\ phase' = "up" /\ Agent(t) /\ kernel.fp[i] > 0
      /\ lut' = lookup_decrease(lut, i, kernel.fp[i]) /\ disk' = disk
      /\ kernel' = [kernel EXCEPT !.fp[i] = 0]
  BY DEF hfuse_ll_forget, At, Agents
<1>3. th[t] = Idle /\ SameTree(disk, disk')
  BY <1>1, <1>2 DEF Agent, Steps, SameTree
<1>4. /\ kernel' \in KernelRec /\ \A j \in Ino : kernel'.kn[j] = kernel.kn[j]
      /\ \A j \in Ino \ {i} : kernel'.fp[j] = kernel.fp[j] 
      /\ kernel'.fp[i] = 0
  <2>1. kernel' = [kn |-> kernel.kn, fp |-> [kernel.fp EXCEPT ![i] = 0]]
    BY <1>1, <1>2 DEF KernelRec
  <2> QED
    BY <1>1, <2>1 DEF KernelRec
<1>5. lut[i].cnt = kernel.kn[i] + kernel.fp[i] /\ kernel.kn[i] \in Nat /\ kernel.fp[i] \in Nat
  BY <1>1, <1>2 DEF Inodes, Known, KernelRec
<1>6. /\ lut' \in [Ino -> NodeRec]
      /\ \A j \in Ino \ {i} : lut'[j] = lut[j]
      /\ lut'[i].cnt = kernel.kn[i] /\ (lut'[i].del <=> lut[i].del /\ kernel.kn[i] > 0)
  <2>1. CASE kernel.kn[i] > 0
    <3> DEFINE x == [lut[i] EXCEPT !.cnt = lut[i].cnt - kernel.fp[i]]
    <3>1. lut' = [lut EXCEPT ![i] = x]
      BY <1>2, <1>5, <2>1 DEF lookup_decrease
    <3>2. x \in NodeRec /\ x.cnt = kernel.kn[i] /\ x.del = lut[i].del
      BY <1>1, <1>5, <2>1 DEF NodeRec
    <3> HIDE DEF x
    <3> QED
      BY <1>1, <2>1, <3>1, <3>2 DEF NodeRec
  <2>2. CASE kernel.kn[i] = 0
    <3>1. lut' = [lut EXCEPT ![i] = [cnt |-> 0, del |-> FALSE]]
      BY <1>2, <1>5, <2>2 DEF lookup_decrease
    <3> QED
      BY <1>1, <2>2, <3>1 DEF NodeRec
  <2> QED
    BY <1>5, <2>1, <2>2
<1>7. \A u \in Threads : Claims(u) => th[u].i # i
  BY <1>2 DEF Claims, Agents, Agent, Creator, Deleter
<1>8. \A j \in Ino : Known(j)'
  BY <1>2, <1>4, <1>5, <1>6 DEF Known, Inodes
<1>9. kernel'.kn[1] = 0 /\ kernel'.fp[1] = 0 /\ i # 1
  BY <1>2, <1>4, Numbers DEF Root
<1>10. \A j \in Ino : lut'[j].del => Doomed(j)
  BY <1>6 DEF Doomed
<1>11. /\ \A j \in Ino : kernel.kn[j] > 0 => kernel'.kn[j] > 0
       /\ \A u \in Threads \ {t} : Claims(u) /\ th[u].i \in Ino =>
            kernel'.kn[th[u].i] = kernel.kn[th[u].i] /\ kernel'.fp[th[u].i] = kernel.fp[th[u].i]
  BY <1>4, <1>7
<1>12. ~Moving(t)
  BY <1>2 DEF Moving, Dropping
<1>13. CASE lut[i].del /\ kernel.kn[i] = 0
  <2> DEFINE r == [Idle EXCEPT !.pc = "meta", !.op = "forget", !.i = i]
  <2>1. th' = [th EXCEPT ![t] = r]
    BY <1>6, <1>13 DEF hfuse_ll_forget
  <2>2. /\ IsThread(r) /\ r.pc = "meta" /\ r.op = "forget" /\ r.i = i /\ r.held = {}
    BY Numbers DEF Idle, IsThread, ThRec, PCs, Ops, Deleting
  <2> HIDE DEF r
  <2>3. StepTo(t, r) /\ ThTypes'
    BY <1>1, <2>1, <2>2, ThreadStep
  <2>4. disk.sb[i] = "live"
    BY <1>2, <1>5 DEF Inodes, Known
  <2>5. Agent(t)'
    BY <1>2, <1>4, <1>9, <1>13, <2>2, <2>3, <2>4
    DEF StepTo, Agent, Steps, Dropper, Linker, Mover, Moving, Creator, Deleter, Dropping, Creating, Deleting
  <2>6. \A j \in Ino : Followed(j)'
    <3> SUFFICES ASSUME NEW j \in Ino PROVE Followed(j)'
      OBVIOUS
    <3>1. CASE j = i
      BY <2>2, <2>3, <3>1 DEF Followed, StepTo, Deleting
    <3>2. CASE j # i
      BY <1>2, <1>6, <2>3, <3>2, FollowedKeeps DEF Inodes, Deleting
    <3> QED
      BY <3>1, <3>2
  <2>7. Doomed(i)
    BY <1>13 DEF Doomed
  <2> QED
    BY <1>2, <1>3, <1>4, <1>6, <1>7, <1>8, <1>9, <1>10, <1>11, <1>12, <2>2, <2>3, <2>5, <2>6, <2>7, CountStep
<1>14. CASE ~(lut[i].del /\ kernel.kn[i] = 0)
  <2>1. th' = th
    BY <1>6, <1>14 DEF hfuse_ll_forget
  <2>2. StepTo(t, Idle) /\ ThTypes'
    BY <1>1, <1>3, <2>1 DEF StepTo, ThTypes
  <2>3. Agent(t)'
    BY <2>2, IdleAgent
  <2>4. \A j \in Ino : Followed(j)'
    BY <1>2, <1>5, <1>6, <1>14, <2>2, FollowedKeeps DEF Inodes, Deleting
  <2> QED
    BY <1>2, <1>3, <1>4, <1>6, <1>8, <1>9, <1>10, <1>11, <1>12, <2>2, <2>3, <2>4, CountStep, IdleFields
    DEF Deleting
<1> QED
  BY <1>13, <1>14

-----------------------------------------------------------------------------
(***************************************************************************)
(* What happens beside the handlers: the kernel's evictions, uploads and   *)
(* the end of a deletion on the backend.                                   *)
(***************************************************************************)
LEMMA StillThreads ==
  ASSUME Core, th' = th, phase' = phase, disk'.ent = disk.ent
  PROVE  /\ ThTypes' /\ Exclusive' /\ Apart'
         /\ \A i \in Ino : Name(disk', i) = Name(disk, i) /\ Kids(i)' = Kids(i)
                           /\ (Detached(i)' <=> Detached(i))
         /\ \A i \in Ino : disk'.kind[i] = disk.kind[i] /\ disk'.nlink[i] = disk.nlink[i]
                           => LinksCover(i)' /\ OneName(i)'
         /\ disk'.mark = disk.mark /\ (\A i \in Ino : disk.sb[i] = "live" => disk'.sb[i] = "live")
              => Unmounting'
         /\ lut' = lut => Unlinked'
<1> USE DEF Core
<1>1. ThTypes' /\ Exclusive' /\ Apart'
  BY DEF Types, ThTypes, Exclusive, Apart, Claims
<1>2. \A i \in Ino : Name(disk', i) = Name(disk, i) /\ Kids(i)' = Kids(i)
                     /\ (Detached(i)' <=> Detached(i))
  BY DEF Name, Kids, KidsOf, Detached
<1>3. ASSUME NEW i \in Ino, disk'.kind[i] = disk.kind[i], disk'.nlink[i] = disk.nlink[i]
      PROVE  LinksCover(i)' /\ OneName(i)'
  <2>1. (BeingMade(i)' <=> BeingMade(i)) /\ (BeingMoved(i)' <=> BeingMoved(i))
        /\ (BeingDropped(i)' <=> BeingDropped(i))
    BY DEF BeingMade, BeingMoved, BeingDropped, Moving
  <2>2. \A u \in Threads : TwoNames(u, i)' <=> TwoNames(u, i)
    BY <1>2 DEF TwoNames, Moving
  <2>3. LinksCover(i)'
    BY <1>2, <1>3, <2>1 DEF LinksCover, Inodes
  <2>4. OneName(i)'
    BY <1>2, <1>3, <2>2 DEF OneName, Inodes
  <2> QED
    BY <2>3, <2>4
<1>4. ASSUME disk'.mark = disk.mark, \A i \in Ino : disk.sb[i] = "live" => disk'.sb[i] = "live"
      PROVE  Unmounting'
  <2>1. CASE phase = "umount"
    <3>1. PICK t \in Threads : Destroyer(t)
      BY <2>1 DEF Unmounting
    <3>2. th[t].todo \subseteq Ino
      BY DEF Types, IsThread, ThRec
    <3>3. Destroyer(t)'
      BY <1>4, <3>1, <3>2 DEF Destroyer
    <3> QED
      BY <2>1, <3>3 DEF Unmounting
  <2>2. CASE phase # "umount"
    BY <2>2 DEF Unmounting
  <2> QED
    BY <2>1, <2>2
<1>5. lut' = lut => Unlinked'
  BY <1>2 DEF Unlinked, Doomed
<1> QED
  BY <1>1, <1>2, <1>3, <1>4, <1>5

(* The end of an upload touches nothing the invariant speaks of.           *)
LEMMA UploadedKeeps ==
  ASSUME Core, NEW i \in Ino, uploaded(i)
  PROVE  Core'
<1> USE DEF Core
<1>1. lut' = lut /\ kernel' = kernel /\ th' = th /\ phase' = phase
  BY DEF uploaded
<1>2. SameTree(disk, disk')
  BY DEF uploaded, SameTree, Types, IsDisk, DiskRec
<1>3. /\ ThTypes' /\ Exclusive' /\ Apart'
      /\ \A j \in Ino : Name(disk', j) = Name(disk, j) /\ Kids(j)' = Kids(j)
      /\ \A j \in Ino : LinksCover(j)' /\ OneName(j)'
      /\ Unmounting' /\ Unlinked'
  BY <1>1, <1>2, StillThreads DEF SameTree
<1>4. Types'
  BY <1>1, <1>2, <1>3 DEF Types, ThTypes, SameTree
<1>5. Root'
  BY <1>1, <1>2, <1>3, Numbers DEF Root, SameTree
<1>6. Agents'
  <2> SUFFICES ASSUME NEW u \in Threads PROVE Agent(u)'
    BY DEF Agents
  <2>1. Agent(u) /\ SameTree(disk, disk')
    BY <1>2 DEF Agents
  <2>2. Steps(u)' /\ Dropper(u)' /\ Linker(u)' /\ Mover(u)' /\ Deleter(u)'
    BY <1>1, <2>1 DEF Agent, Steps, Dropper, Linker, Mover, Moving, Deleter, SameTree
  <2>3. Creator(u)'
    BY <1>1, <1>3, <2>1 DEF Agent, Creator, SameTree, Name, Kids, KidsOf
  <2> QED
    BY <2>2, <2>3 DEF Agent
<1>7. \A j \in Ino : Known(j)' /\ Holds(j)' /\ Alive(j)' /\ Followed(j)'
  BY <1>1, <1>2, <1>3 DEF Inodes, Known, Holds, Alive, Followed, SameTree
<1> QED
  BY <1>3, <1>4, <1>5, <1>6, <1>7 DEF Inodes

(* The kernel gives up an inode: its uses are to be forgotten.             *)
LEMMA EvictKeeps ==
  ASSUME Core, NEW i \in Ino, Evict(i)
  PROVE  Core'
<1> USE DEF Core
<1>1. /\ lut' = lut /\ disk' = disk /\ th' = th /\ phase' = phase /\ phase = "up"
      /\ i # 1 /\ kernel.kn[i] > 0
      /\ \A t \in Threads : i # th[t].i /\ i # th[t].o /\ i # th[t].p
  BY DEF Evict
<1>2. /\ kernel' \in KernelRec
      /\ \A j \in Ino \ {i} : kernel'.kn[j] = kernel.kn[j] /\ kernel'.fp[j] = kernel.fp[j]
      /\ kernel'.kn[i] = 0 /\ kernel'.fp[i] = kernel.fp[i] + kernel.kn[i]
  <2>1. kernel \in KernelRec
    BY DEF Types
  <2>2. kernel' = [kn |-> [kernel.kn EXCEPT ![i] = 0],
                   fp |-> [kernel.fp EXCEPT ![i] = kernel.fp[i] + kernel.kn[i]]]
    BY <2>1 DEF Evict, KernelRec
  <2> QED
    BY <2>1, <2>2 DEF KernelRec
<1>3. /\ ThTypes' /\ Exclusive' /\ Apart'
      /\ \A j \in Ino : LinksCover(j)' /\ OneName(j)'
      /\ Unmounting' /\ Unlinked'
  BY <1>1, StillThreads
<1>4. Types'
  BY <1>1, <1>2, <1>3 DEF Types, ThTypes
<1>5. Root'
  BY <1>1, <1>2, Numbers DEF Root
<1>6. Agents'
  <2> SUFFICES ASSUME NEW u \in Threads PROVE Agent(u)'
    BY DEF Agents
  <2>1. Agent(u)
    BY DEF Agents
  <2>2. Steps(u)' /\ Dropper(u)' /\ Linker(u)' /\ Mover(u)' /\ Deleter(u)'
    BY <1>1, <1>2, <2>1 DEF Agent, Steps, Dropper, Linker, Mover, Moving, Deleter
  <2>3. Creator(u)'
    BY <1>1, <1>2, <2>1 DEF Agent, Creator, Steps, Kids
  <2> QED
    BY <2>2, <2>3 DEF Agent
<1>7. \A j \in Ino : Known(j)'
  <2> SUFFICES ASSUME NEW j \in Ino PROVE Known(j)'
    OBVIOUS
  <2>1. Known(j) /\ kernel.kn[j] \in Nat /\ kernel.fp[j] \in Nat /\ lut[j].cnt \in Nat
    BY DEF Inodes, Types, KernelRec, NodeRec
  <2> QED
    BY <1>1, <1>2, <2>1 DEF Known
<1>8. \A j \in Ino : Holds(j)' /\ Alive(j)' /\ Followed(j)'
  BY <1>1 DEF Inodes, Holds, Alive, Followed, Kids
<1> QED
  BY <1>3, <1>4, <1>5, <1>6, <1>7, <1>8 DEF Inodes

-----------------------------------------------------------------------------
(***************************************************************************)
(* Deletion.                                                               *)
(***************************************************************************)
(* Only what belongs to inode i changes, and a marker may go.              *)
DeletionOf(i, D, E) ==
  /\ IsDisk(E) /\ E.ent = D.ent /\ E.kids = D.kids /\ E.mark \in {D.mark, D.mark \ {i}}
  /\ \A j \in Ino \ {i} : /\ E.kind[j] = D.kind[j] /\ E.sb[j] = D.sb[j]
                          /\ E.loc[j] = D.loc[j] /\ E.nlink[j] = D.nlink[j]
  /\ E.kind[i] = "none" \/ (E.kind[i] = D.kind[i] /\ E.nlink[i] = D.nlink[i])
  /\ E.sb[i] = "live" => D.sb[i] = "live" /\ E.kind[i] = D.kind[i]

(* A step of a deletion, which changes its own inode only, keeps the       *)
(* invariant.                                                              *)
LEMMA DeleteStep ==
  ASSUME Core, NEW t \in Threads, NEW r, StepTo(t, r), ThTypes',
         th[t].pc \in Deleting \cup {"clear"}, DeletionOf(th[t].i, disk, disk'),
         th[t].pc = "clear" => /\ disk'.kind = disk.kind /\ disk'.sb = disk.sb
                               /\ disk'.loc = disk.loc /\ disk'.nlink = disk.nlink
                               /\ th[t].i \notin disk'.mark,
         kernel' = kernel, lut' = lut, phase' = phase,
         \/ r = Idle /\ th[t].op = "forget"
         \/ Same(r, th[t]) /\ r.pc \in Deleting \cup {"clear"}
         \/ Same(r, th[t]) /\ th[t].op = "umount" /\ r.pc = "next",
         r.pc \in Deleting => th[t].pc \in Deleting /\ disk'.sb[th[t].i] \in {"live", "todel"},
         th[t].i \in disk'.mark => r.pc \in Deleting \cup {"clear"}
  PROVE  Core'
<1> USE DEF Core
<1> DEFINE i == th[t].i
<1>1. /\ Agent(t) /\ i \in Ino \ {1} /\ th[t].op \in {"forget", "umount"}
      /\ disk'.ent = disk.ent /\ disk'.kids = disk.kids /\ IsDisk(disk') /\ disk'.mark \subseteq disk.mark
      /\ \A j \in Ino \ {i} : j \in disk'.mark <=> j \in disk.mark
  BY DEF Agents, Agent, Deleter, Steps, DeletionOf
<1>2. \A j \in Ino : Name(disk', j) = Name(disk, j) /\ Kids(j)' = Kids(j) /\ (Detached(j)' <=> Detached(j))
  BY <1>1 DEF Name, Kids, KidsOf, Detached
<1>3. th[t].pc \in Deleting => /\ Detached(i) /\ kernel.kn[i] = 0 /\ kernel.fp[i] = 0
                               /\ Claims(t) /\ Doomed(i)
  BY <1>1 DEF Unlinked, Doomed, Agent, Deleter, Claims
<1>4. \A j \in Ino : j # i \/ th[t].pc = "clear" =>
        /\ disk'.kind[j] = disk.kind[j] /\ disk'.sb[j] = disk.sb[j]
        /\ disk'.loc[j] = disk.loc[j] /\ disk'.nlink[j] = disk.nlink[j]
  BY DEF DeletionOf
<1>5. r.op \in {"forget", "umount", ""} /\ r.held \subseteq th[t].held /\ r.pc \notin {"nlink", "dmark", "lmark", "entry", "self"}
      /\ (r.pc \in Deleting \cup {"clear"} => r.i = i) /\ (r.op = "umount" => th[t].op = "umount")
  BY <1>1, IdleFields DEF Same, Deleting
<1>6. th[t].pc \notin {"entry", "self", "lmark"} /\ ~Moving(t)
  BY <1>1 DEF Deleting, Moving
<1>7. Types'
  BY <1>1 DEF Types, ThTypes
<1>8. Exclusive'
  BY <1>5, ExclusiveKeeps
<1>9. Apart'
  BY <1>3, <1>5, ApartKeeps
<1>10. Root'
  BY <1>1, <1>2, <1>4, Numbers DEF Root
<1>11. Unmounting'
  <2>1. CASE phase = "up"
    BY <1>5, <2>1, StillMounted DEF Unmounting
  <2>2. CASE phase = "umount"
    <3>1. PICK w \in Threads : Destroyer(w)
      BY <2>2 DEF Unmounting
    <3>2. w = t
      BY <3>1 DEF Destroyer, Deleting
    <3>3. r.op = "umount" /\ r.todo = th[t].todo /\ th[t].todo \subseteq Ino /\ i \notin th[t].todo
      BY <3>1, <3>2 DEF Destroyer, Same, Types, IsThread, ThRec
    <3>4. \A j \in disk'.mark : j \in r.todo \/ (r.pc \in Deleting \cup {"clear"} /\ r.i = j)
      BY <1>1, <1>5, <3>1, <3>2, <3>3 DEF Destroyer
    <3>5. \A j \in r.todo : disk'.sb[j] = "live"
      BY <1>4, <3>1, <3>2, <3>3 DEF Destroyer
    <3>6. \A u \in Threads \ {t} : th'[u].pc = "idle"
      BY <3>1, <3>2 DEF Destroyer, StepTo
    <3>7. Destroyer(t)'
      BY <1>5, <3>3, <3>4, <3>5, <3>6 DEF Destroyer, StepTo
    <3> QED
      BY <2>2, <3>7 DEF Unmounting
  <2> QED
    BY <2>1, <2>2 DEF Types
<1>12. Unlinked'
  BY <1>2, <1>3, <1>5, UnlinkedKeeps DEF Doomed
<1>13. \A u \in Threads \ {t} : Agent(u)'
  <2>1. \A j \in Ino : Used(j) => disk'.kind[j] = disk.kind[j]
    BY <1>1, <1>3, <1>4 DEF Used, Detached
  <2>2. \A u \in Threads \ {t} : Claims(u) /\ th[u].i \in Ino => disk'.sb[th[u].i] = disk.sb[th[u].i]
    BY <1>3, <1>4 DEF Apart
  <2> QED
    BY <1>1, <1>2, <2>1, <2>2, OthersKeep
<1>14. Agent(t)'
  <2>1. CASE r = Idle
    BY <2>1, IdleAgent
  <2>2. CASE Same(r, th[t]) /\ r.pc \in Deleting \cup {"clear"}
    BY <1>1, <1>3, <2>2
    DEF StepTo, Same, Agent, Steps, Dropper, Linker, Mover, Moving, Creator, Deleter, Dropping, Creating, Deleting
  <2>3. CASE Same(r, th[t]) /\ th[t].op = "umount" /\ r.pc = "next"
    BY <2>3
    DEF StepTo, Same, Agent, Steps, Dropper, Linker, Mover, Moving, Creator, Deleter, Dropping, Creating, Deleting
  <2> QED
    BY <2>1, <2>2, <2>3
<1>15. \A j \in Ino : Known(j)'
  <2> SUFFICES ASSUME NEW j \in Ino PROVE Known(j)'
    OBVIOUS
  <2>1. Known(j)
    BY DEF Inodes
  <2>2. CASE j # i \/ th[t].pc = "clear"
    BY <1>4, <2>1, <2>2 DEF Known
  <2>3. CASE j = i /\ th[t].pc \in Deleting
    BY <1>3, <2>1, <2>3 DEF Known
  <2> QED
    BY <2>2, <2>3
<1>16. \A j \in Ino : Holds(j)'
  <2> SUFFICES ASSUME NEW j \in Ino PROVE Holds(j)'
    OBVIOUS
  <2>1. Holds(j)
    BY DEF Inodes
  <2>2. CASE j # i \/ th[t].pc = "clear"
    BY <1>1, <1>2, <1>4, <2>1, <2>2 DEF Holds
  <2>3. CASE j = i /\ th[t].pc \in Deleting
    BY <1>1, <1>2, <1>3, <2>1, <2>3 DEF Holds, Detached, DeletionOf
  <2> QED
    BY <2>2, <2>3
<1>17. \A j \in Ino : LinksCover(j)'
  <2> SUFFICES ASSUME NEW j \in Ino PROVE LinksCover(j)'
    OBVIOUS
  <2>1. CASE disk'.kind[j] = "none"
    BY <2>1 DEF LinksCover
  <2>2. CASE disk'.kind[j] = disk.kind[j] /\ disk'.nlink[j] = disk.nlink[j]
    BY <1>2, <1>5, <1>6, <2>2, LinksKeep DEF Inodes
  <2> QED
    BY <1>4, <2>1, <2>2 DEF DeletionOf
<1>18. \A j \in Ino : OneName(j)'
  <2> SUFFICES ASSUME NEW j \in Ino PROVE OneName(j)'
    OBVIOUS
  <2>1. CASE disk'.kind[j] = "none"
    BY <2>1 DEF OneName
  <2>2. CASE disk'.kind[j] = disk.kind[j]
    BY <1>2, <1>6, <2>2, OneNameKeeps DEF Inodes
  <2> QED
    BY <1>4, <2>1, <2>2 DEF DeletionOf
<1>19. \A j \in Ino : Alive(j)'
  <2> SUFFICES ASSUME NEW j \in Ino PROVE Alive(j)'
    OBVIOUS
  <2>1. CASE j # i \/ th[t].pc = "clear"
    BY <1>1, <1>2, <1>4, <1>6, <2>1, AliveKeeps DEF Inodes
  <2>2. CASE j = i /\ th[t].pc \in Deleting
    BY <1>2, <1>3, <2>2 DEF Alive, Detached
  <2> QED
    BY <2>1, <2>2
<1>20. \A j \in Ino : Followed(j)'
  BY <1>1, <1>5, <1>6, FollowedKeeps, ZenonT(60) DEF Inodes
<1> QED
  BY <1>7, <1>8, <1>9, <1>10, <1>11, <1>12, <1>13, <1>14, <1>15, <1>16, <1>17, <1>18, <1>19, <1>20
  DEF Agents, Inodes

(* The meta file of i moves.                                               *)
LEMMA LocFields ==
  ASSUME NEW D, IsDisk(D), NEW i \in Ino, NEW l \in {"none", "meta", "todel"},
         NEW E, E = [D EXCEPT !.loc[i] = l]
  PROVE  DeletionOf(i, D, E) /\ E.sb = D.sb /\ E.mark = D.mark /\ E.loc[i] = l
<1> DEFINE x == [D.loc EXCEPT ![i] = l]
<1>1. E = [D EXCEPT !.loc = x]
  BY DEF IsDisk, DiskRec
<1>2. x \in [Ino -> {"none", "meta", "todel"}] /\ x[i] = l /\ \A j \in Ino \ {i} : x[j] = D.loc[j]
  BY DEF IsDisk, DiskRec
<1> HIDE DEF x
<1>3. /\ IsDisk(E) /\ E.ent = D.ent /\ E.kids = D.kids /\ E.mark = D.mark /\ E.kind = D.kind
      /\ E.sb = D.sb /\ E.nlink = D.nlink /\ E.loc = x
  BY <1>1, <1>2 DEF IsDisk, DiskRec
<1> QED
  BY <1>2, <1>3 DEF DeletionOf

(* The super block status of i changes.                                    *)
LEMMA StatusFields ==
  ASSUME NEW D, IsDisk(D), NEW i \in Ino, NEW b \in {"todel", "queued"},
         NEW E, E = [D EXCEPT !.sb[i] = b]
  PROVE  DeletionOf(i, D, E) /\ E.sb[i] = b /\ E.mark = D.mark /\ E.loc = D.loc
<1> DEFINE x == [D.sb EXCEPT ![i] = b]
<1>1. E = [D EXCEPT !.sb = x]
  BY DEF IsDisk, DiskRec
<1>2. x \in [Ino -> {"free", "live", "todel", "queued"}] /\ x[i] = b /\ \A j \in Ino \ {i} : x[j] = D.sb[j]
  BY DEF IsDisk, DiskRec
<1> HIDE DEF x
<1>3. /\ IsDisk(E) /\ E.ent = D.ent /\ E.kids = D.kids /\ E.mark = D.mark /\ E.kind = D.kind
      /\ E.loc = D.loc /\ E.nlink = D.nlink /\ E.sb = x
  BY <1>1, <1>2 DEF IsDisk, DiskRec
<1> QED
  BY <1>2, <1>3 DEF DeletionOf

(* The number of i is reclaimed.                                           *)
LEMMA ReclaimFields ==
  ASSUME NEW D, IsDisk(D), NEW i \in Ino, NEW E, E = Reclaimed(D, i)
  PROVE  /\ DeletionOf(i, D, E) /\ E.sb[i] = "free" /\ E.mark = D.mark /\ E.kind[i] = "none"
         /\ E.loc[i] = "none"
<1> DEFINE b == [D.sb EXCEPT ![i] = "free"]
           k == [D.kind EXCEPT ![i] = "none"]
           l == [D.loc EXCEPT ![i] = "none"]
           n == [D.nlink EXCEPT ![i] = 0]
           c == D.cloud \ {i}
<1>1. E = [D EXCEPT !.sb = b, !.kind = k, !.loc = l, !.cloud = c, !.nlink = n]
  BY DEF IsDisk, DiskRec, Reclaimed
<1>2. /\ b \in [Ino -> {"free", "live", "todel", "queued"}] /\ b[i] = "free" /\ k[i] = "none" /\ l[i] = "none"
      /\ k \in [Ino -> Kinds \cup {"none"}] /\ l \in [Ino -> {"none", "meta", "todel"}]
      /\ n \in [Ino -> Int]
      /\ \A j \in Ino \ {i} : b[j] = D.sb[j] /\ k[j] = D.kind[j] /\ l[j] = D.loc[j] /\ n[j] = D.nlink[j]
  BY DEF IsDisk, DiskRec
<1> HIDE DEF b, k, l, n, c
<1>3. IsDisk(E)
  BY <1>1, <1>2, ZenonT(60) DEF IsDisk, DiskRec
<1>4. /\ E.ent = D.ent /\ E.kids = D.kids /\ E.mark = D.mark /\ E.kind = k
      /\ E.loc = l /\ E.nlink = n /\ E.sb = b
  BY <1>1 DEF IsDisk, DiskRec
<1> QED
  BY <1>2, <1>3, <1>4 DEF DeletionOf

(* The marker of i is removed.                                             *)
LEMMA ClearFields ==
  ASSUME NEW D, IsDisk(D), NEW i \in Ino, NEW E, E = disk_cleardelete(D, i)
  PROVE  /\ DeletionOf(i, D, E) /\ i \notin E.mark
         /\ E.kind = D.kind /\ E.sb = D.sb /\ E.loc = D.loc /\ E.nlink = D.nlink
BY DEF IsDisk, DiskRec, disk_cleardelete, DeletionOf

(* After a deletion the forget ends and lookup_destroy goes on.            *)
LEMMA AfterStep ==
  ASSUME ThTypes, NEW t \in Threads, th[t].op \in {"forget", "umount"}, After(t)
  PROVE  ThTypes' /\ \E r : /\ StepTo(t, r) /\ r.pc \in {"idle", "next"}
                            /\ \/ r = Idle /\ th[t].op = "forget"
                               \/ Same(r, th[t]) /\ th[t].op = "umount" /\ r.pc = "next"
<1>1. CASE th[t].op = "forget"
  BY <1>1, DoneStep, IdleFields DEF After
<1>2. CASE th[t].op = "umount"
  BY <1>2, GotoStep DEF After, PCs
<1> QED
  BY <1>1, <1>2

(* A thread that deletes has an inode that is not reclaimed yet.           *)
LEMMA DeletingFacts ==
  ASSUME Core, NEW t \in Threads, th[t].pc \in Deleting \cup {"clear"}
  PROVE  /\ ThTypes /\ IsDisk(disk) /\ th[t].i \in Ino /\ th[t].op \in {"forget", "umount"}
         /\ th[t].pc \in Deleting => disk.sb[th[t].i] \in {"live", "todel"}
BY DEF Core, Types, ThTypes, Agents, Agent, Deleter, Steps

(* disk_cleardelete, the last step of a deletion.                          *)
LEMMA ClearMarkKeeps ==
  ASSUME Core, NEW t \in Threads, ClearMark(t)
  PROVE  Core'
<1>1. th[t].pc = "clear" /\ lut' = lut /\ kernel' = kernel /\ phase' = phase
      /\ disk' = disk_cleardelete(disk, th[t].i)
  BY DEF ClearMark, At
<1>2. ThTypes /\ IsDisk(disk) /\ th[t].i \in Ino /\ th[t].op \in {"forget", "umount"}
  BY <1>1, DeletingFacts
<1>3. /\ DeletionOf(th[t].i, disk, disk') /\ th[t].i \notin disk'.mark
      /\ disk'.kind = disk.kind /\ disk'.sb = disk.sb /\ disk'.loc = disk.loc /\ disk'.nlink = disk.nlink
  BY <1>1, <1>2, ClearFields
<1>4. ThTypes' /\ \E r : /\ StepTo(t, r) /\ r.pc \in {"idle", "next"}
                         /\ \/ r = Idle /\ th[t].op = "forget"
                            \/ Same(r, th[t]) /\ th[t].op = "umount" /\ r.pc = "next"
  BY <1>2, AfterStep DEF ClearMark
<1>5. PICK r : /\ StepTo(t, r) /\ r.pc \in {"idle", "next"}
               /\ \/ r = Idle /\ th[t].op = "forget"
                  \/ Same(r, th[t]) /\ th[t].op = "umount" /\ r.pc = "next"
  BY <1>4
<1> QED
  BY <1>1, <1>2, <1>3, <1>4, <1>5, DeleteStep DEF Deleting

(* super_block_delete for what was never uploaded.                         *)
LEMMA FreeNumberKeeps ==
  ASSUME Core, NEW t \in Threads, FreeNumber(t)
  PROVE  Core'
<1>1. th[t].pc = "free" /\ lut' = lut /\ kernel' = kernel /\ phase' = phase
      /\ disk' = Reclaimed(disk, th[t].i)
  BY DEF FreeNumber, At
<1>2. ThTypes /\ IsDisk(disk) /\ th[t].i \in Ino /\ th[t].op \in {"forget", "umount"}
  BY <1>1, DeletingFacts DEF Deleting
<1>3. DeletionOf(th[t].i, disk, disk') 
  BY <1>1, <1>2, ReclaimFields
<1>4. ThTypes' /\ \E r : StepTo(t, r) /\ r.pc = "clear" /\ Same(r, th[t])
  BY <1>2, GotoStep DEF FreeNumber, PCs
<1>5. PICK r : StepTo(t, r) /\ r.pc = "clear" /\ Same(r, th[t])
  BY <1>4
<1> QED
  BY <1>1, <1>2, <1>3, <1>4, <1>5, DeleteStep DEF Deleting

(* The local files of the inode go.                                        *)
LEMMA DeleteFileKeeps ==
  ASSUME Core, NEW t \in Threads, DeleteFile(t)
  PROVE  Core'
<1>1. th[t].pc = "file" /\ lut' = lut /\ kernel' = kernel /\ phase' = phase
  BY DEF DeleteFile, At
<1>2. /\ ThTypes /\ IsDisk(disk) /\ th[t].i \in Ino /\ th[t].op \in {"forget", "umount"}
      /\ disk.sb[th[t].i] \in {"live", "todel"}
  BY <1>1, DeletingFacts DEF Deleting
<1>3. CASE check_meta_on_cloud(disk, th[t].i)
  <2>1. disk' = [disk EXCEPT !.sb[th[t].i] = "queued"] /\ Goto(t, "clear")
    BY <1>3 DEF DeleteFile
  <2>2. DeletionOf(th[t].i, disk, disk') 
    BY <1>2, <2>1, StatusFields
  <2>3. ThTypes' /\ \E r : StepTo(t, r) /\ r.pc = "clear" /\ Same(r, th[t])
    BY <1>2, <2>1, GotoStep DEF PCs
  <2>4. PICK r : StepTo(t, r) /\ r.pc = "clear" /\ Same(r, th[t])
    BY <2>3
  <2> QED
    BY <1>1, <1>2, <2>2, <2>3, <2>4, DeleteStep DEF Deleting
<1>4. CASE ~check_meta_on_cloud(disk, th[t].i)
  <2>1. disk' = [disk EXCEPT !.loc[th[t].i] = "none"] /\ Goto(t, "free")
    BY <1>4 DEF DeleteFile
  <2>2. DeletionOf(th[t].i, disk, disk') /\ disk'.sb = disk.sb
    BY <1>2, <2>1, LocFields
  <2>3. ThTypes' /\ \E r : StepTo(t, r) /\ r.pc = "free" /\ Same(r, th[t])
    BY <1>2, <2>1, GotoStep DEF PCs, Deleting
  <2>4. PICK r : StepTo(t, r) /\ r.pc = "free" /\ Same(r, th[t])
    BY <2>3
  <2> QED
    BY <1>1, <1>2, <2>2, <2>3, <2>4, DeleteStep DEF Deleting
<1> QED
  BY <1>3, <1>4

(* super_block_to_delete and the queue for the backend.                    *)
LEMMA ToDeleteKeeps ==
  ASSUME Core, NEW t \in Threads, ToDelete(t)
  PROVE  Core'
<1>1. th[t].pc = "sbdel" /\ lut' = lut /\ kernel' = kernel /\ phase' = phase
  BY DEF ToDelete, At
<1>2. /\ ThTypes /\ IsDisk(disk) /\ th[t].i \in Ino /\ th[t].op \in {"forget", "umount"}
  BY <1>1, DeletingFacts DEF Deleting
<1>3. PICK b \in {"todel", "queued"}, pc \in {"clear", "file", "free"} :
        /\ disk' = [disk EXCEPT !.sb[th[t].i] = b] /\ Goto(t, pc) /\ (b = "queued" => pc = "clear")
        /\ (b = "todel" => pc \in {"file", "free"})
  BY DEF ToDelete
<1>4. DeletionOf(th[t].i, disk, disk') /\ disk'.sb[th[t].i] = b
  BY <1>2, <1>3, StatusFields
<1>5. ThTypes' /\ \E r : StepTo(t, r) /\ r.pc = pc /\ Same(r, th[t])
  BY <1>2, <1>3, GotoStep DEF PCs, Deleting
<1>6. PICK r : StepTo(t, r) /\ r.pc = pc /\ Same(r, th[t])
  BY <1>5
<1>7. r.pc \in Deleting \cup {"clear"} /\ (r.pc \in Deleting => b = "todel")
  BY <1>3, <1>6 DEF Deleting
<1> QED
  BY <1>1, <1>2, <1>4, <1>5, <1>6, <1>7, DeleteStep DEF Deleting

(* The meta file is moved to the files to be deleted.                      *)
LEMMA DeleteMetaKeeps ==
  ASSUME Core, NEW t \in Threads, DeleteMeta(t)
  PROVE  Core'
<1> DEFINE i == th[t].i
<1>1. th[t].pc = "meta" /\ lut' = lut /\ kernel' = kernel /\ phase' = phase
  BY DEF DeleteMeta, At
<1>2. /\ ThTypes /\ IsDisk(disk) /\ i \in Ino /\ th[t].op \in {"forget", "umount"}
      /\ disk.sb[i] \in {"live", "todel"}
  BY <1>1, DeletingFacts DEF Deleting
<1>3. CASE disk.loc[i] = "meta"
  <2>1. Goto(t, "sbdel") /\ \E l \in {"none", "todel"} : disk' = [disk EXCEPT !.loc[i] = l]
    BY <1>3 DEF DeleteMeta, delete_inode_meta, directly_delete_inode_meta
  <2>2. DeletionOf(i, disk, disk') /\ disk'.sb = disk.sb
    BY <1>2, <2>1, LocFields
  <2>3. ThTypes' /\ \E r : StepTo(t, r) /\ r.pc = "sbdel" /\ Same(r, th[t])
    BY <1>2, <2>1, GotoStep DEF PCs, Deleting
  <2>4. PICK r : StepTo(t, r) /\ r.pc = "sbdel" /\ Same(r, th[t])
    BY <2>3
  <2> QED
    BY <1>1, <1>2, <2>2, <2>3, <2>4, DeleteStep DEF Deleting
<1>4. CASE disk.loc[i] = "todel" /\ disk.kind[i] = "file"
  <2>1. Goto(t, "file") /\ disk' = disk
    BY <1>4 DEF DeleteMeta
  <2>2. DeletionOf(i, disk, disk')
    BY <1>2, <2>1 DEF DeletionOf
  <2>3. ThTypes' /\ \E r : StepTo(t, r) /\ r.pc = "file" /\ Same(r, th[t])
    BY <1>2, <2>1, GotoStep DEF PCs, Deleting
  <2>4. PICK r : StepTo(t, r) /\ r.pc = "file" /\ Same(r, th[t])
    BY <2>3
  <2> QED
    BY <1>1, <1>2, <2>1, <2>2, <2>3, <2>4, DeleteStep DEF Deleting
<1>5. CASE disk.loc[i] # "meta" /\ ~(disk.loc[i] = "todel" /\ disk.kind[i] = "file")
  <2>1. After(t) /\ disk' = disk_cleardelete(disk, i)
    BY <1>2, <1>5 DEF DeleteMeta
  <2>2. DeletionOf(i, disk, disk') /\ i \notin disk'.mark /\ disk'.sb = disk.sb
    BY <1>2, <2>1, ClearFields
  <2>3. ThTypes' /\ \E r : /\ StepTo(t, r) /\ r.pc \in {"idle", "next"}
                           /\ \/ r = Idle /\ th[t].op = "forget"
                              \/ Same(r, th[t]) /\ th[t].op = "umount" /\ r.pc = "next"
    BY <1>2, <2>1, AfterStep
  <2>4. PICK r : /\ StepTo(t, r) /\ r.pc \in {"idle", "next"}
                 /\ \/ r = Idle /\ th[t].op = "forget"
                    \/ Same(r, th[t]) /\ th[t].op = "umount" /\ r.pc = "next"
    BY <2>3
  <2> QED
    BY <1>1, <1>2, <2>2, <2>3, <2>4, DeleteStep DEF Deleting
<1> QED
  BY <1>3, <1>4, <1>5

(* The number of an inode deleted on the backend.                          *)
LEMMA DsyncFinishedKeeps ==
  ASSUME Core, NEW i \in Ino, dsync_finished(i)
  PROVE  Core'
<1> USE DEF Core
<1>1. /\ disk.sb[i] = "queued" /\ lut' = lut /\ kernel' = kernel /\ th' = th /\ phase' = phase
      /\ disk' = Reclaimed(disk, i) /\ IsDisk(disk)
  BY DEF dsync_finished, Types
<1>2. DeletionOf(i, disk, disk') /\ disk'.sb[i] = "free" /\ disk'.kind[i] = "none" /\ disk'.mark = disk.mark
  BY <1>1, ReclaimFields
<1>3. /\ i # 1 /\ kernel.kn[i] = 0 /\ kernel.fp[i] = 0 /\ Name(disk, i) = {} /\ Kids(i) = {}
      /\ kernel \in KernelRec
  <2>1. Known(i) /\ Alive(i) /\ Holds(i) /\ kernel \in KernelRec
    BY DEF Inodes, Types
  <2>2. kernel.kn[i] \in Nat /\ kernel.fp[i] \in Nat
    BY <2>1 DEF KernelRec
  <2> QED
    BY <1>1, <2>1, <2>2 DEF Known, Alive, Holds, Root
<1>4. /\ ThTypes' /\ Exclusive' /\ Apart'
      /\ \A j \in Ino : Name(disk', j) = Name(disk, j) /\ Kids(j)' = Kids(j)
      /\ \A j \in Ino \ {i} : LinksCover(j)' /\ OneName(j)'
      /\ Unmounting' /\ Unlinked'
  BY <1>1, <1>2, StillThreads DEF DeletionOf
<1>5. Types'
  BY <1>1, <1>2, <1>4 DEF Types, ThTypes, DeletionOf
<1>6. Root'
  BY <1>1, <1>2, <1>3, <1>4, Numbers DEF Root, DeletionOf
<1>7. Agents'
  <2> SUFFICES ASSUME NEW u \in Threads PROVE Agent(u)'
    BY DEF Agents
  <2>1. IsThread(th[u]) /\ Agent(u) /\ th'[u] = th[u] /\ th[u].held \subseteq Ino
    BY <1>1 DEF Types, Agents, IsThread, ThRec
  <2>2. Claims(u) => th[u].i \in Ino \ {i} /\ kernel.kn[th[u].i] = 0 /\ kernel.fp[th[u].i] = 0
    BY <1>1, <2>1 DEF Agent, Claims, Creator, Deleter
  <2>3. Claims(u) => /\ kernel'.kn[th[u].i] = 0 /\ kernel'.fp[th[u].i] = 0
                     /\ disk'.sb[th[u].i] = disk.sb[th[u].i]
                     /\ Kids(th[u].i)' = Kids(th[u].i)
                     /\ Name(disk', th[u].i) = Name(disk, th[u].i)
    BY <1>1, <1>2, <1>4, <2>1, <2>2 DEF Kids, DeletionOf
  <2>4. \A j \in Ino : Used(j) => disk'.kind[j] = disk.kind[j]
    BY <1>2, <1>3 DEF Used, DeletionOf
  <2>5. \A d \in th[u].held, m \in Names : disk'.ent[d][m] = disk.ent[d][m]
    BY <1>2 DEF DeletionOf
  <2>6. \A j \in th[u].held : Name(disk, j) # {} => Name(disk', j) # {}
    BY <1>4, <2>1
  <2> QED
    BY <1>1, <2>1, <2>3, <2>4, <2>5, <2>6, AgentKeeps
<1>8. LinksCover(i)' /\ OneName(i)' /\ Known(i)' /\ Holds(i)' /\ Alive(i)'
  BY <1>1, <1>2, <1>3, <1>4 DEF LinksCover, OneName, Known, Holds, Alive, Inodes, DeletionOf
<1>9. \A j \in Ino \ {i} : Known(j)' /\ Holds(j)' /\ Alive(j)'
  BY <1>1, <1>2, <1>4 DEF Inodes, Known, Holds, Alive, DeletionOf
<1>10. \A j \in Ino : Followed(j)'
  BY <1>1, <1>2 DEF Inodes, Followed
<1> QED
  BY <1>4, <1>5, <1>6, <1>7, <1>8, <1>9, <1>10 DEF Inodes

-----------------------------------------------------------------------------
(***************************************************************************)
(* Unmount.                                                                *)
(***************************************************************************)
LEMMA IdleOther ==
  ASSUME NEW u \in Threads, th'[u] = Idle
  PROVE  Agent(u)'
BY IdleFields
DEF Agent, Steps, Dropper, Linker, Mover, Moving, Creator, Deleter, Dropping, Deleting

(* The unmount begins: every lookup count goes at once.                    *)
LEMMA LookupDestroyKeeps ==
  ASSUME Core, NEW t \in Threads, lookup_destroy(t)
  PROVE  Core'
<1> USE DEF Core
<1> DEFINE r == [Idle EXCEPT !.pc = "next", !.op = "umount", !.todo = {i \in Ino : lut[i].cnt > 0}]
<1>1. /\ phase = "up" /\ phase' = "umount" /\ disk' = disk /\ lut' = lut /\ kernel' = NoKernel
      /\ th' = [th EXCEPT ![t] = r] /\ \A u \in Threads : th[u].pc = "idle" /\ th[u] = Idle
  BY DEF lookup_destroy, At, Agents, Agent, Steps
<1>2. /\ IsThread(r) /\ r.pc = "next" /\ r.op = "umount" /\ r.held = {}
      /\ r.todo = {i \in Ino : lut[i].cnt > 0}
  BY Numbers DEF Idle, IsThread, ThRec, PCs, Ops
<1>3. ThTypes /\ kernel \in KernelRec /\ lut \in [Ino -> NodeRec] /\ IsDisk(disk)
  BY DEF Types, ThTypes
<1> HIDE DEF r
<1>4. StepTo(t, r) /\ ThTypes'
  BY <1>1, <1>2, <1>3, ThreadStep
<1>5. kernel' \in KernelRec /\ \A i \in Ino : kernel'.kn[i] = 0 /\ kernel'.fp[i] = 0
  BY <1>1 DEF NoKernel, KernelRec
<1>6. SameTree(disk, disk') /\ ~Moving(t)
  BY <1>1, <1>3 DEF SameTree, Moving, Dropping
<1>7. /\ IsDisk(disk') /\ \A i \in Ino : Holds(i)' /\ LinksCover(i)' /\ OneName(i)' /\ Alive(i)'
      /\ \A i \in Ino : Name(disk', i) = Name(disk, i) /\ Kids(i)' = Kids(i)
                        /\ (Detached(i)' <=> Detached(i))
  BY <1>1, <1>2, <1>4, <1>6, TreeKeeps
<1>8. Types'
  BY <1>1, <1>3, <1>4, <1>5, <1>7 DEF Types, ThTypes
<1>9. Exclusive'
  BY <1>2, <1>4, ExclusiveKeeps
<1>10. Apart'
  BY <1>2, <1>4, ApartKeeps DEF Deleting
<1>11. Root'
  BY <1>1, <1>5, Numbers DEF Root
<1>12. Unmounting'
  <2>1. \A i \in disk.mark : i \in r.todo
    <3> SUFFICES ASSUME NEW i \in disk.mark PROVE i \in r.todo
      OBVIOUS
    <3>1. i \in Ino /\ Followed(i)
      BY <1>3 DEF Inodes, IsDisk, DiskRec
    <3> QED
      BY <1>1, <1>2, <3>1 DEF Followed, Deleting
  <2>2. \A i \in r.todo : disk.sb[i] = "live"
    <3> SUFFICES ASSUME NEW i \in r.todo PROVE disk.sb[i] = "live"
      OBVIOUS
    <3>1. i \in Ino /\ lut[i].cnt > 0 /\ Known(i) /\ lut[i].cnt = kernel.kn[i] + kernel.fp[i]
      BY <1>1, <1>2 DEF Inodes, Known
    <3> QED
      BY <3>1 DEF Known
  <2>3. Destroyer(t)'
    BY <1>1, <1>2, <1>4, <2>1, <2>2 DEF Destroyer, StepTo, Deleting
  <2> QED
    BY <1>1, <2>3 DEF Unmounting
<1>13. Unlinked'
  BY <1>1, <1>2, <1>4, <1>7, UnlinkedKeeps DEF Doomed, Deleting
<1>14. \A u \in Threads \ {t} : Agent(u)'
  BY <1>1, <1>4, IdleOther DEF StepTo
<1>15. Agent(t)'
  BY <1>2, <1>4
  DEF StepTo, Agent, Steps, Dropper, Linker, Mover, Moving, Creator, Deleter, Dropping, Deleting
<1>16. \A i \in Ino : Known(i)'
  BY <1>1, <1>5 DEF Known, Inodes
<1>17. \A i \in Ino : Followed(i)'
  BY <1>1, <1>2, <1>4, FollowedKeeps DEF Inodes, Deleting
<1> QED
  BY <1>7, <1>8, <1>9, <1>10, <1>11, <1>12, <1>13, <1>14, <1>15, <1>16, <1>17 DEF Agents, Inodes

(* lookup_destroy has the volume to itself.                                *)
LEMMA Alone ==
  ASSUME Core, NEW t \in Threads, th[t].pc = "next"
  PROVE  /\ phase = "umount" /\ th[t].op = "umount" /\ Destroyer(t)
         /\ \A u \in Threads \ {t} : th[u] = Idle
<1> USE DEF Core
<1>1. th[t].op = "umount" /\ phase = "umount"
  BY DEF Agents, Agent, Steps, Unmounting, Types
<1>2. PICK w \in Threads : Destroyer(w)
  BY <1>1 DEF Unmounting
<1>3. w = t
  BY <1>2 DEF Destroyer
<1> QED
  BY <1>1, <1>2, <1>3 DEF Destroyer, Agents, Agent, Steps

(* The unmount begins the deletion of the next marked inode.               *)
LEMMA NextMarkedKeeps ==
  ASSUME Core, NEW t \in Threads, NextMarked(t)
  PROVE  Core'
<1> USE DEF Core
<1>1. th[t].pc = "next" /\ disk' = disk /\ lut' = lut /\ kernel' = kernel /\ phase' = phase
  BY DEF NextMarked, At
<1>2. phase = "umount" /\ th[t].op = "umount" /\ Destroyer(t) /\ \A u \in Threads \ {t} : th[u] = Idle
  BY <1>1, Alone
<1>3. PICK i \in th[t].todo :
        th' = [th EXCEPT ![t].todo = @ \ {i}, ![t].i = i,
                         ![t].pc = IF i \in disk.mark THEN "meta" ELSE "next"]
  BY <1>2 DEF NextMarked, disk_checkdelete
<1>4. ThTypes /\ IsDisk(disk) /\ i \in Ino /\ th[t].todo \subseteq Ino
  BY DEF Types, ThTypes, IsThread, ThRec
<1> DEFINE pc == IF i \in disk.mark THEN "meta" ELSE "next"
           r == [th[t] EXCEPT !.todo = th[t].todo \ {i}, !.i = i, !.pc = pc]
<1>5. /\ IsThread(r) /\ r.pc = pc /\ r.i = i /\ r.todo = th[t].todo \ {i}
      /\ r.op = "umount" /\ r.held = th[t].held
  <2> DEFINE rest == th[t].todo \ {i}
  <2>1. pc \in PCs /\ i \in Ino0 /\ rest \in SUBSET Ino /\ IsThread(th[t])
    BY <1>4, Numbers DEF PCs, Deleting, ThTypes
  <2> HIDE DEF pc, rest
  <2>2. IsThread([th[t] EXCEPT !.todo = rest, !.i = i, !.pc = pc])
    BY <2>1 DEF IsThread, ThRec
  <2> QED
    BY <1>2, <2>1, <2>2 DEF IsThread, ThRec, rest
<1>6. th' = [th EXCEPT ![t] = r]
  BY <1>3, <1>4 DEF ThTypes
<1> HIDE DEF r
<1>7. StepTo(t, r) /\ ThTypes'
  BY <1>4, <1>5, <1>6, ThreadStep
<1>8. SameTree(disk, disk') /\ ~Moving(t)
  BY <1>1, <1>4 DEF SameTree, Moving, Dropping
<1>9. /\ IsDisk(disk') /\ \A j \in Ino : Holds(j)' /\ LinksCover(j)' /\ OneName(j)' /\ Alive(j)'
      /\ \A j \in Ino : Name(disk', j) = Name(disk, j) /\ Kids(j)' = Kids(j)
                        /\ (Detached(j)' <=> Detached(j))
  BY <1>1, <1>5, <1>7, <1>8, TreeKeeps
<1>10. Types'
  BY <1>1, <1>7, <1>9 DEF Types, ThTypes
<1>11. Exclusive'
  BY <1>5, <1>7, ExclusiveKeeps
<1>12. Apart'
  BY <1>2, <1>5, <1>7, ApartKeeps, IdleFields DEF Claims, Deleting
<1>13. Root'
  BY <1>1 DEF Root
<1>14. Unmounting'
  <2>1. Destroyer(t)'
    BY <1>1, <1>2, <1>5, <1>7 DEF Destroyer, StepTo, Deleting
  <2> QED
    BY <1>1, <1>2, <2>1 DEF Unmounting
<1>15. i \in disk.mark => Doomed(i) /\ i # 1 /\ disk.sb[i] = "live"
  <2>1. i \in disk.mark => lut[i].del
    BY <1>1, <1>2, <1>4, IdleFields DEF Inodes, Followed, Deleting
  <2> QED
    BY <1>2, <2>1 DEF Doomed, Root, Destroyer
<1>16. Unlinked'
  BY <1>1, <1>5, <1>7, <1>9, <1>15, UnlinkedKeeps DEF Doomed, Deleting
<1>17. \A u \in Threads \ {t} : Agent(u)'
  BY <1>2, <1>7, IdleOther DEF StepTo
<1>18. kernel.kn[i] = 0 /\ kernel.fp[i] = 0
  BY <1>2, <1>4 DEF Inodes, Known
<1>19. Agent(t)'
  BY <1>1, <1>4, <1>5, <1>7, <1>15, <1>18
  DEF StepTo, Agent, Steps, Dropper, Linker, Mover, Moving, Creator, Deleter, Dropping, Deleting
<1>20. \A j \in Ino : Known(j)'
  BY <1>1 DEF Known, Inodes
<1>21. \A j \in Ino : Followed(j)'
  BY <1>1, <1>7, FollowedKeeps DEF Inodes, Deleting
<1> QED
  BY <1>9, <1>10, <1>11, <1>12, <1>13, <1>14, <1>16, <1>17, <1>19, <1>20, <1>21 DEF Agents, Inodes

(* The unmount has deleted all of them, and the volume is mounted again.   *)
LEMMA LoopDoneKeeps ==
  ASSUME Core, NEW t \in Threads, LoopDone(t)
  PROVE  Core'
<1> USE DEF Core
<1>1. /\ th[t].pc = "next" /\ th[t].todo = {} /\ disk' = disk /\ lut' = NoNodes /\ kernel' = kernel
      /\ phase' = "up"
  BY DEF LoopDone, At
<1>2. phase = "umount" /\ th[t].op = "umount" /\ Destroyer(t) /\ \A u \in Threads \ {t} : th[u] = Idle
  BY <1>1, Alone
<1>3. ThTypes /\ IsDisk(disk)
  BY DEF Types, ThTypes
<1>4. StepTo(t, Idle) /\ ThTypes' /\ \A u \in Threads : th'[u] = Idle
  BY <1>2, <1>3, DoneStep DEF LoopDone, StepTo
<1>5. SameTree(disk, disk') /\ ~Moving(t)
  BY <1>1, <1>3 DEF SameTree, Moving, Dropping
<1>6. /\ IsDisk(disk') /\ \A j \in Ino : Holds(j)' /\ LinksCover(j)' /\ OneName(j)' /\ Alive(j)'
      /\ \A j \in Ino : Name(disk', j) = Name(disk, j) /\ Kids(j)' = Kids(j)
                        /\ (Detached(j)' <=> Detached(j))
  BY <1>1, <1>4, <1>5, TreeKeeps, IdleFields
<1>7. lut' \in [Ino -> NodeRec] /\ \A j \in Ino : lut'[j].cnt = 0 /\ lut'[j].del = FALSE
  BY <1>1 DEF NoNodes, NodeRec
<1>8. disk.mark = {}
  BY <1>1, <1>2 DEF Destroyer, Deleting
<1>9. Types'
  BY <1>1, <1>4, <1>6, <1>7 DEF Types, ThTypes
<1>10. Exclusive' /\ Apart'
  BY <1>4, IdleFields DEF Exclusive, Apart, Claims, Deleting
<1>11. Root' /\ Unmounting'
  BY <1>1, <1>4, IdleFields DEF Root, Unmounting
<1>12. Unlinked'
  BY <1>4, <1>7, IdleFields DEF Unlinked, Doomed, Deleting
<1>13. Agents'
  BY <1>4, IdleOther DEF Agents
<1>14. \A j \in Ino : Known(j)'
  BY <1>1, <1>2, <1>7 DEF Known, Inodes
<1>15. \A j \in Ino : Followed(j)'
  BY <1>1, <1>8 DEF Followed
<1> QED
  BY <1>6, <1>9, <1>10, <1>11, <1>12, <1>13, <1>14, <1>15 DEF Inodes

-----------------------------------------------------------------------------
(***************************************************************************)
(* The removal of a name: the link count and the marker on disk.           *)
(***************************************************************************)
LEMMA DropFacts ==
  ASSUME Core, NEW t \in Threads, th[t].pc \in Dropping
  PROVE  /\ ThTypes /\ IsDisk(disk) /\ Agent(t) /\ phase = "up"
         /\ th[t].op \in {"unlink", "rmdir", "rename"}
         /\ th[t].o \in Ino \ {1} /\ th[t].o \in th[t].held /\ kernel.kn[th[t].o] > 0
         /\ ~BeingMade(th[t].o)
         /\ disk.kind[th[t].o] # "dir" => ~BeingMoved(th[t].o)
         /\ \A u \in Threads \ {t} : th[u].pc = "nlink" => th[u].o # th[t].o
<1> USE DEF Core
<1>1. ThTypes /\ IsDisk(disk) /\ Agent(t)
  BY DEF Types, ThTypes, Agents
<1>2. /\ th[t].op \in {"unlink", "rmdir", "rename"}
      /\ th[t].o \in Ino \ {1} /\ th[t].o \in th[t].held /\ kernel.kn[th[t].o] > 0
  BY <1>1 DEF Agent, Steps, Dropper
<1>3. phase = "up"
  BY <1>2, Mounted DEF Dropping
<1>4. ~BeingMade(th[t].o)
  BY <1>2 DEF BeingMade, Agents, Agent, Steps, Creator
<1>5. ASSUME disk.kind[th[t].o] # "dir", BeingMoved(th[t].o) PROVE FALSE
  <2>1. PICK u \in Threads : Moving(u) /\ th[u].i = th[t].o
    BY <1>5 DEF BeingMoved
  <2>2. th[u].o # th[u].i /\ th[u].i \in th[u].held
    BY <1>5, <2>1 DEF Agents, Agent, Mover
  <2> QED
    BY <1>2, <2>1, <2>2 DEF Exclusive
<1>6. \A u \in Threads \ {t} : th[u].pc = "nlink" => th[u].o # th[t].o
  BY <1>2 DEF Exclusive, Agents, Agent, Dropper, Dropping
<1> QED
  BY <1>1, <1>2, <1>3, <1>4, <1>5, <1>6

(* An inode without a name is marked on disk, then in the lookup table.    *)
LEMMA MarkStep ==
  ASSUME Core, NEW t \in Threads, th[t].pc \in {"dmark", "nlink"}, Detached(th[t].o),
         disk' = disk_markdelete(disk, th[t].o), Goto(t, "lmark"),
         lut' = lut, kernel' = kernel, phase' = phase
  PROVE  Core'
<1> USE DEF Core
<1> DEFINE o == th[t].o
<1>1. /\ ThTypes /\ IsDisk(disk) /\ Agent(t) /\ phase = "up" /\ th[t].op \in {"unlink", "rmdir", "rename"}
      /\ o \in Ino \ {1}
  BY DropFacts DEF Dropping
<1>2. ThTypes' /\ \E r : StepTo(t, r) /\ r.pc = "lmark" /\ Same(r, th[t])
  BY <1>1, GotoStep DEF PCs, Dropping
<1>3. PICK r : StepTo(t, r) /\ r.pc = "lmark" /\ Same(r, th[t])
  BY <1>2
<1>4. /\ IsDisk(disk') /\ disk'.ent = disk.ent /\ disk'.kids = disk.kids /\ disk'.nlink = disk.nlink
      /\ disk'.kind = disk.kind /\ disk'.loc = disk.loc /\ disk'.sb = disk.sb
      /\ disk'.mark = disk.mark \cup {o}
  BY <1>1 DEF IsDisk, DiskRec, disk_markdelete
<1>5. \A i \in Ino : Name(disk', i) = Name(disk, i) /\ Kids(i)' = Kids(i) /\ (Detached(i)' <=> Detached(i))
  BY <1>4 DEF Name, Kids, KidsOf, Detached
<1>6. Types'
  BY <1>1, <1>2, <1>4 DEF Types, ThTypes
<1>7. Exclusive'
  BY <1>3, ExclusiveKeeps DEF Same
<1>8. Apart'
  BY <1>1, <1>3, ApartKeeps DEF Same, Deleting
<1>9. Root'
  BY <1>1, <1>4, <1>5, Numbers DEF Root
<1>10. Unmounting'
  BY <1>1, <1>3, StillMounted DEF Same
<1>11. Unlinked'
  <2>1. Detached(r.o)'
    <3>1. r.o = o
      BY <1>3 DEF Same
    <3>2. Name(disk', r.o) = {} /\ KidsOf(disk', r.o) = {}
      BY <1>1, <1>5, <3>1 DEF Detached, Kids
    <3> QED
      BY <1>3, <3>1, <3>2, <1>4 DEF Detached, Kids, KidsOf, StepTo
  <2> QED
    BY <1>3, <1>5, <2>1, UnlinkedKeeps DEF Doomed, Deleting
<1>12. \A u \in Threads \ {t} : Agent(u)'
  BY <1>3, <1>4, <1>5, OthersKeep
<1>13. Agent(t)'
  BY <1>1, <1>3, <1>4
  DEF StepTo, Same, Agent, Steps, Dropper, Linker, Mover, Moving, Creator, Deleter, Dropping, Creating, Deleting
<1>14. \A i \in Ino : Known(i)' /\ Holds(i)'
  BY <1>4, <1>5 DEF Known, Holds, Inodes
<1>15. \A i \in Ino : LinksCover(i)'
  BY <1>3, <1>4, <1>5, LinksKeep DEF Inodes, Same, Moving, Dropping
<1>16. \A i \in Ino : OneName(i)'
  BY <1>3, <1>4, <1>5, OneNameKeeps DEF Inodes, Same, Moving, Dropping
<1>17. \A i \in Ino : Alive(i)'
  <2> SUFFICES ASSUME NEW i \in Ino PROVE Alive(i)'
    OBVIOUS
  <2>1. CASE i = o
    BY <1>5, <2>1 DEF Alive, Detached
  <2>2. CASE i # o
    BY <1>3, <1>4, <1>5, <2>2, AliveKeeps DEF Inodes
  <2> QED
    BY <2>1, <2>2
<1>18. \A i \in Ino : Followed(i)'
  <2> SUFFICES ASSUME NEW i \in Ino PROVE Followed(i)'
    OBVIOUS
  <2>1. CASE i = o
    BY <1>3, <2>1 DEF Followed, StepTo, Same
  <2>2. CASE i # o
    BY <1>3, <1>4, <2>2, FollowedKeeps DEF Inodes, Deleting
  <2> QED
    BY <2>1, <2>2
<1> QED
  BY <1>6, <1>7, <1>8, <1>9, <1>10, <1>11, <1>12, <1>13, <1>14, <1>15, <1>16, <1>17, <1>18 DEF Agents, Inodes

(* A removed directory is marked.                                          *)
LEMMA MarkDiskKeeps ==
  ASSUME Core, NEW t \in Threads, MarkDisk(t)
  PROVE  Core'
<1>1. /\ th[t].pc = "dmark" /\ disk' = disk_markdelete(disk, th[t].o) /\ Goto(t, "lmark")
      /\ lut' = lut /\ kernel' = kernel /\ phase' = phase
  BY DEF MarkDisk, At
<1>2. th[t].o \in Ino
  BY <1>1, DropFacts DEF Dropping
<1>3. Detached(th[t].o)
  BY <1>1, <1>2 DEF Core, Unlinked, Doomed
<1> QED
  BY <1>1, <1>3, MarkStep

(* A file loses a link, and is marked when it was the last.                *)
LEMMA DecreaseNlinkKeeps ==
  ASSUME Core, NEW t \in Threads, decrease_nlink_inode_file(t)
  PROVE  Core'
<1> USE DEF Core
<1> DEFINE o == th[t].o
<1>1. /\ th[t].pc = "nlink" /\ lut' = lut /\ kernel' = kernel /\ phase' = phase
      /\ disk.kind[o] \in {"file", "lnk"}
  BY DEF decrease_nlink_inode_file, At, Agents, Agent, Dropper
<1>2. /\ ThTypes /\ IsDisk(disk) /\ Agent(t) /\ phase = "up" /\ th[t].op \in {"unlink", "rmdir", "rename"}
      /\ o \in Ino \ {1} /\ ~BeingMade(o) /\ ~BeingMoved(o)
      /\ \A u \in Threads \ {t} : th[u].pc = "nlink" => th[u].o # o
  BY <1>1, DropFacts DEF Dropping
<1>3. disk.nlink[o] \in Int /\ Cardinality(Name(disk, o)) \in Nat /\ Cardinality(Name(disk, o)) < disk.nlink[o]
  <2>1. BeingDropped(o)
    BY <1>1 DEF BeingDropped
  <2> QED
    BY <1>1, <1>2, <2>1, Finite DEF Inodes, LinksCover, IsDisk, DiskRec
<1>4. CASE disk.nlink[o] <= 1
  <2>1. disk' = disk_markdelete(disk, o) /\ Goto(t, "lmark")
    BY <1>4 DEF decrease_nlink_inode_file
  <2>2. Cardinality(Name(disk, o)) = 0
    BY <1>3, <1>4
  <2>3. Name(disk, o) = {}
    BY <2>2, Finite, FS_EmptySet
  <2>4. Kids(o) = {}
    BY <1>1, <1>2 DEF Inodes, Holds
  <2> QED
    BY <1>1, <2>1, <2>3, <2>4, MarkStep DEF Detached
<1>5. CASE ~(disk.nlink[o] <= 1)
  <2>1. disk' = [disk EXCEPT !.nlink[o] = @ - 1] /\ Goto(t, "parent")
    BY <1>5 DEF decrease_nlink_inode_file
  <2>2. ThTypes' /\ \E r : StepTo(t, r) /\ r.pc = "parent" /\ Same(r, th[t])
    BY <1>2, <2>1, GotoStep DEF PCs, Dropping
  <2>3. PICK r : StepTo(t, r) /\ r.pc = "parent" /\ Same(r, th[t])
    BY <2>2
  <2>4. /\ IsDisk(disk') /\ disk'.ent = disk.ent /\ disk'.kids = disk.kids
        /\ disk'.kind = disk.kind /\ disk'.loc = disk.loc /\ disk'.sb = disk.sb /\ disk'.mark = disk.mark
        /\ disk'.nlink[o] = disk.nlink[o] - 1
        /\ \A i \in Ino \ {o} : disk'.nlink[i] = disk.nlink[i]
    <3> DEFINE x == [disk.nlink EXCEPT ![o] = disk.nlink[o] - 1]
    <3>1. disk' = [disk EXCEPT !.nlink = x]
      BY <1>2, <2>1 DEF IsDisk, DiskRec
    <3>2. x \in [Ino -> Int] /\ x[o] = disk.nlink[o] - 1 /\ \A i \in Ino \ {o} : x[i] = disk.nlink[i]
      BY <1>2 DEF IsDisk, DiskRec
    <3> HIDE DEF x
    <3>3. /\ IsDisk(disk') /\ disk'.ent = disk.ent /\ disk'.kids = disk.kids
          /\ disk'.kind = disk.kind /\ disk'.loc = disk.loc /\ disk'.sb = disk.sb /\ disk'.mark = disk.mark
          /\ disk'.nlink = x
      BY <1>2, <3>1, <3>2 DEF IsDisk, DiskRec
    <3> QED
      BY <3>2, <3>3
  <2>5. \A i \in Ino : Name(disk', i) = Name(disk, i) /\ Kids(i)' = Kids(i) /\ (Detached(i)' <=> Detached(i))
    BY <2>4 DEF Name, Kids, KidsOf, Detached
  <2>6. Types'
    BY <1>1, <1>2, <2>2, <2>4 DEF Types, ThTypes
  <2>7. Exclusive'
    BY <2>3, ExclusiveKeeps DEF Same
  <2>8. Apart'
    BY <1>2, <2>3, ApartKeeps DEF Same, Deleting
  <2>9. Root'
    BY <1>1, <1>2, <2>4, <2>5, Numbers DEF Root
  <2>10. Unmounting'
    BY <1>1, <1>2, <2>3, StillMounted DEF Same
  <2>11. Unlinked'
    BY <1>1, <2>3, <2>5, UnlinkedKeeps DEF Doomed, Deleting
  <2>12. \A u \in Threads \ {t} : Agent(u)'
    BY <1>1, <2>3, <2>4, <2>5, OthersKeep
  <2>13. Agent(t)'
    BY <1>1, <1>2, <2>3, <2>4
    DEF StepTo, Same, Agent, Steps, Dropper, Linker, Mover, Moving, Creator, Deleter, Dropping, Creating, Deleting
  <2>14. \A i \in Ino : Known(i)' /\ Holds(i)'
    BY <1>1, <2>4, <2>5 DEF Known, Holds, Inodes
  <2>15. \A i \in Ino : LinksCover(i)'
    <3> SUFFICES ASSUME NEW i \in Ino PROVE LinksCover(i)'
      OBVIOUS
    <3>1. CASE i = o
      <4>1. ~BeingDropped(i)'
        BY <1>2, <2>3, <3>1 DEF BeingDropped, StepTo
      <4>2. Cardinality(Name(disk', i)) <= disk'.nlink[i]
        BY <1>2, <1>3, <2>4, <2>5, <3>1
      <4> QED
        BY <4>1, <4>2 DEF LinksCover
    <3>2. CASE i # o
      BY <1>1, <2>3, <2>4, <2>5, <3>2, LinksKeep DEF Inodes, Same, Moving, Dropping
    <3> QED
      BY <3>1, <3>2
  <2>16. \A i \in Ino : OneName(i)'
    BY <2>3, <2>4, <2>5, OneNameKeeps DEF Inodes, Same, Moving, Dropping
  <2>17. \A i \in Ino : Alive(i)'
    BY <1>1, <2>3, <2>4, <2>5, AliveKeeps DEF Inodes
  <2>18. \A i \in Ino : Followed(i)'
    BY <1>1, <2>3, <2>4, FollowedKeeps DEF Inodes, Deleting
  <2> QED
    BY <2>6, <2>7, <2>8, <2>9, <2>10, <2>11, <2>12, <2>13, <2>14, <2>15, <2>16, <2>17, <2>18 DEF Agents, Inodes
<1> QED
  BY <1>4, <1>5

-----------------------------------------------------------------------------
(***************************************************************************)
(* Creation.                                                               *)
(***************************************************************************)
LEMMA NewInodeKeeps ==
  ASSUME Core, NEW t \in Threads, NEW p \in Ino, NEW n \in Names, NEW k \in Kinds, NewInode(t, p, n, k)
  PROVE  Core'
<1> USE DEF Core
<1>1. PICK i \in Ino :
        /\ disk.sb[i] = "free" /\ disk' = [disk EXCEPT !.sb[i] = "live", !.kind[i] = k]
        /\ th' = [th EXCEPT ![t] = [Idle EXCEPT !.pc = "entry", !.op = "new",
                  !.p = p, !.n = n, !.i = i, !.held = {p}]]
  BY DEF NewInode
<1>2. /\ th[t].pc = "idle" /\ phase = "up" /\ phase' = "up" /\ lut' = lut /\ kernel' = kernel
      /\ ~Locked(p) /\ (p = 1 \/ kernel.kn[p] > 0)
      /\ disk.kind[p] = "dir" /\ (p = 1 \/ Name(disk, p) # {}) /\ disk.ent[p][n] = 0
  BY DEF NewInode, Ready, Usable, lookup_dir, At, Refers
<1>3. ThTypes /\ IsDisk(disk) /\ kernel \in KernelRec
  BY DEF Types, ThTypes
<1> DEFINE r == [Idle EXCEPT !.pc = "entry", !.op = "new", !.p = p, !.n = n, !.i = i, !.held = {p}]
<1>4. IsThread(r) /\ r.pc = "entry" /\ r.op = "new" /\ r.p = p /\ r.n = n /\ r.i = i /\ r.held = {p}
  BY Numbers DEF Idle, IsThread, ThRec, PCs, Ops, Creating
<1> HIDE DEF r
<1>5. StepTo(t, r) /\ ThTypes'
  BY <1>1, <1>3, <1>4, ThreadStep DEF r
<1>6. /\ IsDisk(disk') /\ disk'.ent = disk.ent /\ disk'.kids = disk.kids /\ disk'.nlink = disk.nlink
      /\ disk'.loc = disk.loc /\ disk'.mark = disk.mark
      /\ disk'.sb[i] = "live" /\ disk'.kind[i] = k
      /\ \A j \in Ino \ {i} : disk'.sb[j] = disk.sb[j] /\ disk'.kind[j] = disk.kind[j]
  <2> DEFINE x == [disk.sb EXCEPT ![i] = "live"]
             y == [disk.kind EXCEPT ![i] = k]
  <2>1. disk' = [disk EXCEPT !.sb = x, !.kind = y]
    BY <1>1, <1>3 DEF IsDisk, DiskRec
  <2>2. /\ x \in [Ino -> {"free", "live", "todel", "queued"}] /\ y \in [Ino -> Kinds \cup {"none"}]
        /\ x[i] = "live" /\ y[i] = k /\ \A j \in Ino \ {i} : x[j] = disk.sb[j] /\ y[j] = disk.kind[j]
    BY <1>3 DEF IsDisk, DiskRec
  <2> HIDE DEF x, y
  <2>3. /\ IsDisk(disk') /\ disk'.ent = disk.ent /\ disk'.kids = disk.kids /\ disk'.nlink = disk.nlink
        /\ disk'.loc = disk.loc /\ disk'.mark = disk.mark /\ disk'.sb = x /\ disk'.kind = y
    BY <1>3, <2>1, <2>2 DEF IsDisk, DiskRec
  <2> QED
    BY <2>2, <2>3
<1>7. \A j \in Ino : Name(disk', j) = Name(disk, j) /\ Kids(j)' = Kids(j) /\ (Detached(j)' <=> Detached(j))
  BY <1>6 DEF Name, Kids, KidsOf, Detached
<1>8. i # 1 /\ kernel.kn[i] = 0 /\ kernel.fp[i] = 0 /\ Name(disk, i) = {} /\ Kids(i) = {} /\ i # p
  <2>1. Known(i) /\ Alive(i) /\ Holds(i) /\ kernel.kn[i] \in Nat /\ kernel.fp[i] \in Nat
    BY <1>3 DEF Inodes, KernelRec
  <2>2. i # 1 /\ Name(disk, i) = {} /\ Kids(i) = {} /\ i # p
    BY <1>1, <1>2, <2>1 DEF Alive, Holds, Root
  <2>3. kernel.kn[i] = 0 /\ kernel.fp[i] = 0
    BY <1>1, <2>1, <2>2 DEF Known
  <2> QED
    BY <2>2, <2>3
<1>9. \A u \in Threads : Claims(u) => th[u].i # i
  BY <1>1 DEF Claims, Agents, Agent, Creator, Deleter
<1>10. ~Moving(t)
  BY <1>2 DEF Moving, Dropping
<1>11. Types'
  BY <1>2, <1>5, <1>6 DEF Types, ThTypes
<1>12. Exclusive'
  BY <1>2, <1>4, <1>5, ExclusiveKeeps
<1>13. Apart'
  BY <1>4, <1>5, <1>9, ApartKeeps
<1>14. Root'
  BY <1>2, <1>6, <1>7, <1>8, Numbers DEF Root
<1>15. Unmounting'
  BY <1>2, <1>4, <1>5, StillMounted
<1>16. Unlinked'
  BY <1>2, <1>4, <1>5, <1>7, UnlinkedKeeps DEF Doomed, Deleting
<1>17. \A u \in Threads \ {t} : Agent(u)'
  <2>1. \A j \in Ino : Used(j) => disk'.kind[j] = disk.kind[j]
    BY <1>6, <1>8 DEF Used
  <2>2. \A u \in Threads \ {t} : Claims(u) /\ th[u].i \in Ino => disk'.sb[th[u].i] = disk.sb[th[u].i]
    BY <1>6, <1>9
  <2> QED
    BY <1>2, <1>5, <1>6, <1>7, <2>1, <2>2, OthersKeep
<1>18. Agent(t)'
  <2>1. Steps(t)' /\ Dropper(t)' /\ Linker(t)' /\ Mover(t)' /\ Deleter(t)'
    BY <1>4, <1>5 DEF StepTo, Steps, Dropper, Linker, Mover, Moving, Deleter, Dropping, Creating, Deleting
  <2>2. Creator(t)'
    BY <1>2, <1>4, <1>5, <1>6, <1>7, <1>8 DEF StepTo, Creator, Kids
  <2> QED
    BY <2>1, <2>2 DEF Agent
<1>19. \A j \in Ino : Known(j)'
  BY <1>2, <1>6, <1>8 DEF Known, Inodes
<1>20. \A j \in Ino : Holds(j)'
  BY <1>6, <1>7, <1>8 DEF Holds, Inodes, Kinds
<1>21. \A j \in Ino : LinksCover(j)'
  <2> SUFFICES ASSUME NEW j \in Ino PROVE LinksCover(j)'
    OBVIOUS
  <2>1. CASE j = i
    BY <1>4, <1>5, <2>1, Bits DEF LinksCover
  <2>2. CASE j # i
    BY <1>2, <1>4, <1>5, <1>6, <1>7, <1>10, <2>2, LinksKeep DEF Inodes
  <2> QED
    BY <2>1, <2>2
<1>22. \A j \in Ino : OneName(j)'
  <2> SUFFICES ASSUME NEW j \in Ino PROVE OneName(j)'
    OBVIOUS
  <2>1. CASE j = i
    BY <1>7, <1>8, <2>1 DEF OneName
  <2>2. CASE j # i
    BY <1>5, <1>6, <1>7, <1>10, <2>2, OneNameKeeps DEF Inodes
  <2> QED
    BY <2>1, <2>2
<1>23. \A j \in Ino : Alive(j)'
  <2> SUFFICES ASSUME NEW j \in Ino PROVE Alive(j)'
    OBVIOUS
  <2>1. CASE j = i
    BY <1>7, <1>8, <2>1 DEF Alive
  <2>2. CASE j # i
    BY <1>2, <1>5, <1>6, <1>7, <2>2, AliveKeeps DEF Inodes
  <2> QED
    BY <2>1, <2>2
<1>24. \A j \in Ino : Followed(j)'
  BY <1>2, <1>5, <1>6, FollowedKeeps DEF Inodes, Deleting
<1> QED
  BY <1>11, <1>12, <1>13, <1>14, <1>15, <1>16, <1>17, <1>18, <1>19, <1>20, <1>21, <1>22, <1>23, <1>24
  DEF Agents, Inodes

(* The second half: only the new inode's own metadata.                     *)
SelfRec(D, l, n, k, u) == [D EXCEPT !.loc = l, !.nlink = n, !.kids = k, !.up = u]

(* The metadata of a new inode, of each kind.                              *)
LEMMA SelfFields ==
  ASSUME NEW D, IsDisk(D), NEW i \in Ino, NEW p, D.kids[i] = 0, NEW E,
         \/ (E = mknod_update_meta(D, i) \/ E = symlink_update_meta(D, i)) /\ D.kind[i] # "dir"
         \/ E = mkdir_update_meta(D, i, p) /\ D.kind[i] = "dir"
  PROVE  /\ IsDisk(E) /\ E.ent = D.ent /\ E.kids = D.kids /\ E.kind = D.kind /\ E.sb = D.sb
         /\ E.mark = D.mark /\ E.loc[i] = "meta" /\ E.nlink[i] = (IF D.kind[i] = "dir" THEN 2 ELSE 1)
         /\ \A j \in Ino \ {i} : E.loc[j] = D.loc[j] /\ E.nlink[j] = D.nlink[j]
<1>1. PICK v \in Int, ks \in {D.kids, [D.kids EXCEPT ![i] = 0]},
              up \in {D.up, [D.up EXCEPT ![i] = p]} :
        /\ E = SelfRec(D, [D.loc EXCEPT ![i] = "meta"], [D.nlink EXCEPT ![i] = v], ks, up)
        /\ v = IF D.kind[i] = "dir" THEN 2 ELSE 1
  <2>1. CASE (E = mknod_update_meta(D, i) \/ E = symlink_update_meta(D, i)) /\ D.kind[i] # "dir"
    <3>1. E = SelfRec(D, [D.loc EXCEPT ![i] = "meta"], [D.nlink EXCEPT ![i] = 1], D.kids, D.up)
      BY <2>1 DEF mknod_update_meta, symlink_update_meta, IsDisk, DiskRec, SelfRec
    <3> QED
      BY <2>1, <3>1
  <2>2. CASE E = mkdir_update_meta(D, i, p) /\ D.kind[i] = "dir"
    <3>1. E = SelfRec(D, [D.loc EXCEPT ![i] = "meta"], [D.nlink EXCEPT ![i] = 2],
                     [D.kids EXCEPT ![i] = 0], [D.up EXCEPT ![i] = p])
      BY <2>2 DEF mkdir_update_meta, IsDisk, DiskRec, SelfRec
    <3> QED
      BY <2>2, <3>1
  <2> QED
    BY <2>1, <2>2
<1> DEFINE l == [D.loc EXCEPT ![i] = "meta"]
           n == [D.nlink EXCEPT ![i] = v]
<1>2. /\ l \in [Ino -> {"none", "meta", "todel"}] /\ n \in [Ino -> Int] /\ ks = D.kids
      /\ l[i] = "meta" /\ n[i] = v /\ \A j \in Ino \ {i} : l[j] = D.loc[j] /\ n[j] = D.nlink[j]
  BY DEF IsDisk, DiskRec
<1>3. E = [D EXCEPT !.loc = l, !.nlink = n, !.kids = ks, !.up = up]
  BY <1>1 DEF SelfRec
<1> HIDE DEF l, n
<1>4. IsDisk(E)
  BY <1>2, <1>3 DEF IsDisk, DiskRec
<1>5. /\ E.ent = D.ent /\ E.kids = D.kids /\ E.kind = D.kind /\ E.sb = D.sb
      /\ E.mark = D.mark /\ E.loc = l /\ E.nlink = n
  BY <1>2, <1>3 DEF IsDisk, DiskRec
<1> QED
  BY <1>1, <1>2, <1>4, <1>5

(* Creation writes the metadata of the new inode.                          *)
LEMMA SelfMetaKeeps ==
  ASSUME Core, NEW t \in Threads, SelfMeta(t)
  PROVE  Core'
<1> USE DEF Core
<1> DEFINE i == th[t].i
<1>1. th[t].pc = "self" /\ lut' = lut /\ kernel' = kernel /\ phase' = phase /\ Goto(t, "stat") /\ Agent(t)
  BY DEF SelfMeta, At, Agents
<1>2. /\ th[t].op = "new" /\ i \in Ino \ {1} /\ disk.sb[i] = "live" /\ Kids(i) = {}
      /\ kernel.kn[i] = 0 /\ kernel.fp[i] = 0 /\ Name(disk, i) = {<<th[t].p, th[t].n>>}
  BY <1>1 DEF Agent, Steps, Creator
<1>3. ThTypes /\ IsDisk(disk) /\ phase = "up"
  BY <1>1, <1>2, Mounted DEF Types, ThTypes
<1>4. ThTypes' /\ \E r : StepTo(t, r) /\ r.pc = "stat" /\ Same(r, th[t])
  BY <1>1, <1>3, GotoStep DEF PCs, Creating
<1>5. PICK r : StepTo(t, r) /\ r.pc = "stat" /\ Same(r, th[t])
  BY <1>4
<1>6. disk.kids[i] = 0 /\ disk.kind[i] \in Kinds
  <2>1. Holds(i) /\ Cardinality(Kids(i)) = 0
    BY <1>2, FS_EmptySet DEF Inodes
  <2> QED
    BY <1>2, <1>3, <2>1 DEF Holds, IsDisk, DiskRec
<1>7. /\ IsDisk(disk') /\ disk'.ent = disk.ent /\ disk'.kids = disk.kids /\ disk'.kind = disk.kind
      /\ disk'.sb = disk.sb /\ disk'.mark = disk.mark /\ disk'.loc[i] = "meta"
      /\ disk'.nlink[i] = IF disk.kind[i] = "dir" THEN 2 ELSE 1
      /\ \A j \in Ino \ {i} : disk'.loc[j] = disk.loc[j] /\ disk'.nlink[j] = disk.nlink[j]
  <2>1. \/ (disk' = mknod_update_meta(disk, i) \/ disk' = symlink_update_meta(disk, i)) /\ disk.kind[i] # "dir"
        \/ disk' = mkdir_update_meta(disk, i, th[t].p) /\ disk.kind[i] = "dir"
    BY <1>6 DEF SelfMeta, Kinds
  <2> QED
    BY <1>2, <1>3, <1>6, <2>1, SelfFields
<1>8. \A j \in Ino : Name(disk', j) = Name(disk, j) /\ Kids(j)' = Kids(j) /\ (Detached(j)' <=> Detached(j))
  BY <1>7 DEF Name, Kids, KidsOf, Detached
<1>9. ~Moving(t)
  BY <1>2 DEF Moving
<1>10. Types'
  BY <1>1, <1>3, <1>4, <1>7 DEF Types, ThTypes
<1>11. Exclusive'
  BY <1>5, ExclusiveKeeps DEF Same
<1>12. Apart'
  BY <1>2, <1>5, ApartKeeps DEF Same, Claims
<1>13. Root'
  BY <1>1, <1>7, <1>8, Numbers DEF Root
<1>14. Unmounting'
  BY <1>1, <1>2, <1>3, <1>5, StillMounted DEF Same
<1>15. Unlinked'
  BY <1>1, <1>5, <1>8, UnlinkedKeeps DEF Doomed, Deleting
<1>16. \A u \in Threads \ {t} : Agent(u)'
  BY <1>1, <1>5, <1>7, <1>8, OthersKeep
<1>17. Agent(t)'
  <2>1. Steps(t)' /\ Dropper(t)' /\ Linker(t)' /\ Mover(t)' /\ Deleter(t)'
    BY <1>2, <1>5
    DEF StepTo, Same, Steps, Dropper, Linker, Mover, Moving, Deleter, Dropping, Creating, Deleting
  <2>2. Creator(t)'
    BY <1>1, <1>2, <1>5, <1>7, <1>8 DEF StepTo, Same, Agent, Creator, Kids
  <2> QED
    BY <2>1, <2>2 DEF Agent
<1>18. \A j \in Ino : Known(j)'
  BY <1>1, <1>7 DEF Known, Inodes
<1>19. \A j \in Ino : Holds(j)'
  BY <1>7, <1>8 DEF Holds, Inodes
<1>20. \A j \in Ino : LinksCover(j)'
  <2> SUFFICES ASSUME NEW j \in Ino PROVE LinksCover(j)'
    OBVIOUS
  <2>1. CASE j = i
    <3>1. ~BeingDropped(j)'
      <4>1. ~BeingDropped(j)
        BY <1>2, <2>1 DEF BeingDropped, Agents, Agent, Dropper, Dropping
      <4> QED
        BY <1>5, <4>1, Bits
    <3>2. Cardinality(Name(disk', j)) = 1
      BY <1>2, <1>8, <2>1, FS_Singleton
    <3> QED
      BY <1>7, <2>1, <3>1, <3>2 DEF LinksCover
  <2>2. CASE j # i
    BY <1>5, <1>7, <1>8, <1>9, <2>2, LinksKeep DEF Inodes
  <2> QED
    BY <2>1, <2>2
<1>21. \A j \in Ino : OneName(j)'
  BY <1>5, <1>7, <1>8, <1>9, OneNameKeeps DEF Inodes
<1>22. \A j \in Ino : Alive(j)'
  <2> SUFFICES ASSUME NEW j \in Ino PROVE Alive(j)'
    OBVIOUS
  <2>1. CASE j = i
    BY <1>1, <1>2, <1>5, <1>7, <1>8, <2>1 DEF Alive, Inodes, StepTo
  <2>2. CASE j # i
    BY <1>1, <1>5, <1>7, <1>8, <2>2, AliveKeeps DEF Inodes
  <2> QED
    BY <2>1, <2>2
<1>23. \A j \in Ino : Followed(j)'
  BY <1>1, <1>5, <1>7, FollowedKeeps DEF Inodes, Deleting
<1> QED
  BY <1>10, <1>11, <1>12, <1>13, <1>14, <1>15, <1>16, <1>17, <1>18, <1>19, <1>20, <1>21, <1>22, <1>23
  DEF Agents, Inodes

-----------------------------------------------------------------------------
(***************************************************************************)
(* Directory entries.                                                      *)
(***************************************************************************)
(* The entry n of p stands for x instead of y.                             *)
Edited(p, n, x, y) ==
  /\ IsDisk(disk') /\ disk.ent[p][n] = y /\ x # y
  /\ \A d \in Ino, m \in Names : disk'.ent[d][m] = IF d = p /\ m = n THEN x ELSE disk.ent[d][m]
  /\ disk'.kids = [disk.kids EXCEPT ![p] = @ + (IF x = 0 THEN -1 ELSE IF y = 0 THEN 1 ELSE 0)]
  /\ disk'.kind = disk.kind /\ disk'.loc = disk.loc /\ disk'.sb = disk.sb /\ disk'.mark = disk.mark
  /\ \A j \in Ino : disk'.nlink[j] = disk.nlink[j] \/ disk.kind[j] = "dir" \/ j = x

(* Which names the two inodes have after the edit.                         *)
LEMMA EditedNames ==
  ASSUME IsDisk(disk), NEW p \in Ino, NEW n \in Names, NEW x \in Ino0, NEW y \in Ino0, Edited(p, n, x, y)
  PROVE  /\ \A j \in Ino \ {x, y} : Name(disk', j) = Name(disk, j)
         /\ Name(disk', x) = Name(disk, x) \cup {<<p, n>>} /\ <<p, n>> \notin Name(disk, x)
         /\ Name(disk', y) = Name(disk, y) \ {<<p, n>>} /\ <<p, n>> \in Name(disk, y)
         /\ Cardinality(Name(disk', x)) = Cardinality(Name(disk, x)) + 1
         /\ Cardinality(Name(disk', y)) = Cardinality(Name(disk, y)) - 1
         /\ \A d \in Ino \ {p} : KidsOf(disk', d) = KidsOf(disk, d)
         /\ disk'.kids[p] - Cardinality(KidsOf(disk', p)) = disk.kids[p] - Cardinality(KidsOf(disk, p))
<1>1. /\ Name(disk', x) = Name(disk, x) \cup {<<p, n>>}
      /\ \A j \in Ino0 \ {x} : Name(disk', j) = Name(disk, j) \ {<<p, n>>}
      /\ \A d \in Ino \ {p} : KidsOf(disk', d) = KidsOf(disk, d)
      /\ x # 0 => KidsOf(disk', p) = KidsOf(disk, p) \cup {n}
      /\ x = 0 => KidsOf(disk', p) = KidsOf(disk, p) \ {n}
  BY NameSet DEF Edited
<1>2. <<p, n>> \in Name(disk, y) /\ \A j \in Ino0 \ {y} : <<p, n>> \notin Name(disk, j)
  BY DEF Name, Edited
<1>3. y # 0 <=> n \in KidsOf(disk, p)
  BY DEF KidsOf, Edited
<1>4. x # y /\ x \in Ino0 /\ y \in Ino0
  BY DEF Edited
<1>5. Cardinality(Name(disk', x)) = Cardinality(Name(disk, x)) + 1
  BY <1>1, <1>2, <1>4, Finite, FS_AddElement
<1>6. Cardinality(Name(disk', y)) = Cardinality(Name(disk, y)) - 1
  BY <1>1, <1>2, <1>4, Finite, FS_RemoveElement
<1>7. disk'.kids[p] - Cardinality(KidsOf(disk', p)) = disk.kids[p] - Cardinality(KidsOf(disk, p))
  <2>1. disk'.kids[p] = disk.kids[p] + (IF x = 0 THEN -1 ELSE IF y = 0 THEN 1 ELSE 0) /\ disk.kids[p] \in Int
    BY DEF Edited, IsDisk, DiskRec
  <2>2. Cardinality(KidsOf(disk, p)) \in Nat /\ Cardinality(KidsOf(disk', p)) \in Nat
    BY Finite
  <2>3. CASE x = 0
    <3>1. Cardinality(KidsOf(disk', p)) = Cardinality(KidsOf(disk, p)) - 1
      BY <1>1, <1>3, <1>4, <2>3, Finite, FS_RemoveElement
    <3> QED
      BY <2>1, <2>2, <2>3, <3>1
  <2>4. CASE x # 0 /\ y = 0
    <3>1. Cardinality(KidsOf(disk', p)) = Cardinality(KidsOf(disk, p)) + 1
      BY <1>1, <1>3, <2>4, Finite, FS_AddElement
    <3> QED
      BY <2>1, <2>2, <2>4, <3>1
  <2>5. CASE x # 0 /\ y # 0
    <3>1. KidsOf(disk', p) = KidsOf(disk, p)
      BY <1>1, <1>3, <2>5
    <3> QED
      BY <2>1, <2>2, <2>5, <3>1
  <2> QED
    BY <2>3, <2>4, <2>5
<1>8. \A j \in Ino \ {x, y} : Name(disk', j) = Name(disk, j)
  BY <1>1, <1>2, Numbers
<1> QED
  BY <1>1, <1>2, <1>4, <1>5, <1>6, <1>7, <1>8

(* A step that changes one directory entry keeps the invariant if the      *)
(* thread may change it: no other thread has the directory locked, and     *)
(* what gets the name is not about to be deleted.                          *)
LEMMA EditStep ==
  ASSUME Core, NEW t \in Threads, NEW r, StepTo(t, r), ThTypes',
         NEW p \in Ino, NEW n \in Names, NEW x \in Ino0, NEW y \in Ino0, Edited(p, n, x, y),
         phase = "up", phase' = "up", lut' = lut, kernel' = kernel,
         th[t].pc \in {"idle", "entry", "rmold"}, r.op # "umount", r.pc \notin Deleting \cup {"lmark"},
         r.held \subseteq th[t].held \/ \A d \in r.held : ~Locked(d),
         \A u \in Threads \ {t} : /\ p \notin th[u].held
                                  /\ Claims(u) => th[u].i \notin {p, x, y}
                                  /\ y \in th[u].held => Name(disk', y) # {},
         x # 0 => /\ x # 1 /\ ~Doomed(x) /\ ~Doomed(p)
                  /\ disk.kind[p] = "dir" /\ disk.sb[p] = "live" /\ Alive(x)',
         r.op = "new" => th[t].op = "new" /\ r.i = th[t].i,
         r.pc = "dmark" => Detached(r.o)', r.pc = "nlink" => r.o = y,
         th[t].pc = "entry" => r.pc = "self" /\ r.i = th[t].i,
         Moving(t) => th[t].i = y,
         \A j \in {x, y} \ {0} : LinksCover(j)' /\ OneName(j)',
         Agent(t)'
  PROVE  Core'
<1> USE DEF Core
<1>1. ThTypes /\ IsDisk(disk)
  BY DEF Types, ThTypes
<1>2. /\ \A j \in Ino \ {x, y} : Name(disk', j) = Name(disk, j)
      /\ Name(disk', x) = Name(disk, x) \cup {<<p, n>>}
      /\ Name(disk', y) = Name(disk, y) \ {<<p, n>>} /\ <<p, n>> \in Name(disk, y)
      /\ \A d \in Ino \ {p} : KidsOf(disk', d) = KidsOf(disk, d)
      /\ disk'.kids[p] - Cardinality(KidsOf(disk', p)) = disk.kids[p] - Cardinality(KidsOf(disk, p))
  BY <1>1, EditedNames
<1>3. /\ IsDisk(disk') /\ disk'.kind = disk.kind /\ disk'.loc = disk.loc /\ disk'.sb = disk.sb
      /\ disk'.mark = disk.mark /\ \A j \in Ino \ {p} : disk'.kids[j] = disk.kids[j]
      /\ \A d \in Ino \ {p}, m \in Names : disk'.ent[d][m] = disk.ent[d][m]
      /\ x = 0 => KidsOf(disk', p) \subseteq KidsOf(disk, p)
  <2>1. \A d \in Ino, m \in Names : disk'.ent[d][m] = IF d = p /\ m = n THEN x ELSE disk.ent[d][m]
    BY DEF Edited
  <2>2. x = 0 => KidsOf(disk', p) \subseteq KidsOf(disk, p)
    BY <2>1 DEF KidsOf
  <2>3. /\ IsDisk(disk') /\ disk'.kind = disk.kind /\ disk'.loc = disk.loc /\ disk'.sb = disk.sb
        /\ disk'.mark = disk.mark
    BY DEF Edited
  <2>4. \A j \in Ino \ {p} : disk'.kids[j] = disk.kids[j]
    BY <1>1 DEF Edited, IsDisk, DiskRec
  <2> QED
    BY <2>1, <2>2, <2>3, <2>4
<1>4. \A j \in Ino \ {x} : Name(disk', j) \subseteq Name(disk, j)
  BY <1>2
<1>5. Types'
  BY <1>3 DEF Types, ThTypes
<1>6. Exclusive'
  BY ExclusiveKeeps
<1>7. Apart'
  BY ApartKeeps DEF Claims
<1>8. Root'
  <2>1. x # 1
    BY Numbers
  <2>2. Name(disk', 1) = {}
    BY <1>4, <2>1, Numbers DEF Root
  <2> QED
    BY <1>3, <2>2 DEF Root
<1>9. Unmounting'
  BY StillMounted
<1>10. Unlinked'
  <2>1. \A j \in Ino : Doomed(j) => Name(disk', j) \subseteq Name(disk, j) /\ Kids(j)' \subseteq Kids(j)
    BY <1>2, <1>3, <1>4, Numbers DEF Kids
  <2>2. \A j \in Ino : lut'[j].del => Doomed(j)
    BY DEF Doomed
  <2> QED
    BY <2>1, <2>2, UnlinkedKeeps
<1>11. \A u \in Threads \ {t} : Agent(u)'
  <2> SUFFICES ASSUME NEW u \in Threads \ {t} PROVE Agent(u)'
    OBVIOUS
  <2>1. IsThread(th[u]) /\ Agent(u) /\ th'[u] = th[u] /\ th[u].held \subseteq Ino
    BY DEF Types, Agents, StepTo, IsThread, ThRec
  <2>2. Claims(u) => th[u].i \in Ino /\ kernel.kn[th[u].i] = 0 /\ kernel.fp[th[u].i] = 0
    BY <2>1 DEF Agent, Claims, Creator, Deleter
  <2>3. Claims(u) => /\ kernel'.kn[th[u].i] = 0 /\ kernel'.fp[th[u].i] = 0
                     /\ disk'.sb[th[u].i] = disk.sb[th[u].i]
                     /\ Kids(th[u].i)' = Kids(th[u].i)
                     /\ Name(disk', th[u].i) = Name(disk, th[u].i)
    BY <1>2, <1>3, <2>1, <2>2 DEF Kids
  <2>4. \A d \in th[u].held, m \in Names : disk'.ent[d][m] = disk.ent[d][m]
    BY <1>3, <2>1
  <2>5. \A j \in th[u].held : Name(disk, j) # {} => Name(disk', j) # {}
    BY <1>2, <2>1
  <2> QED
    BY <1>1, <1>3, <2>1, <2>3, <2>4, <2>5, AgentKeeps
<1>12. \A j \in Ino : Known(j)'
  BY <1>3 DEF Known, Inodes
<1>13. \A j \in Ino : Holds(j)'
  <2> SUFFICES ASSUME NEW j \in Ino PROVE Holds(j)'
    OBVIOUS
  <2>1. Holds(j)
    BY DEF Inodes
  <2>2. CASE j # p
    BY <1>2, <1>3, <2>1, <2>2 DEF Holds, Kids
  <2>3. CASE j = p
    <3>1. disk'.kids[p] \in Int /\ disk.kids[p] \in Int
      BY <1>1, <1>3 DEF IsDisk, DiskRec
    <3>2. Cardinality(KidsOf(disk, p)) \in Nat /\ Cardinality(KidsOf(disk', p)) \in Nat
      BY Finite
    <3>3. disk'.kids[p] = Cardinality(KidsOf(disk', p))
      BY <1>2, <2>1, <2>3, <3>1, <3>2 DEF Holds, Kids
    <3>4. Kids(p)' # {} => disk.kind[p] = "dir" /\ disk.sb[p] = "live"
      BY <1>3, <2>1, <2>3 DEF Holds, Kids
    <3> QED
      BY <1>3, <2>1, <2>3, <3>3, <3>4 DEF Holds, Kids
  <2> QED
    BY <2>2, <2>3
<1>14. \A j \in Ino : LinksCover(j)'
  <2> SUFFICES ASSUME NEW j \in Ino \ {x, y} PROVE LinksCover(j)'
    BY Numbers
  <2>1. CASE disk.kind[j] = "dir"
    BY <1>3, <2>1 DEF LinksCover
  <2>2. CASE disk.kind[j] # "dir"
    <3>1. disk'.nlink[j] = disk.nlink[j]
      BY <2>2 DEF Edited
    <3> QED
      BY <1>2, <1>3, <3>1, LinksKeep DEF Inodes
  <2> QED
    BY <2>1, <2>2
<1>15. \A j \in Ino : OneName(j)'
  <2> SUFFICES ASSUME NEW j \in Ino \ {x, y} PROVE OneName(j)'
    BY Numbers
  <2> QED
    BY <1>2, <1>3, OneNameKeeps DEF Inodes
<1>16. \A j \in Ino : Alive(j)'
  <2> SUFFICES ASSUME NEW j \in Ino \ {x} PROVE Alive(j)'
    BY Numbers
  <2> QED
    BY <1>3, <1>4, AliveKeeps DEF Inodes
<1>17. \A j \in Ino : Followed(j)'
  BY <1>3, FollowedKeeps DEF Inodes, Deleting
<1> QED
  BY <1>5, <1>6, <1>7, <1>8, <1>9, <1>10, <1>11, <1>12, <1>13, <1>14, <1>15, <1>16, <1>17 DEF Agents, Inodes

(* A directory that is used to look a name up is not about to be deleted.  *)
LEMMA UsableDirectory ==
  ASSUME Core, phase = "up", NEW p \in Ino, p = 1 \/ Name(disk, p) # {} \/ Kids(p) # {}
  PROVE  disk.sb[p] = "live" /\ ~Doomed(p)
<1> USE DEF Core
<1>1. CASE p = 1
  <2>1. disk.sb[1] = "live" /\ ~lut[1].del
    BY Numbers DEF Types, KernelRec, Root, Inodes, Known
  <2>2. \A u \in Threads : (th[u].pc \in Deleting => th[u].i # 1) /\ (th[u].pc \in {"dmark", "lmark"} => th[u].o # 1)
    BY DEF Agents, Agent, Deleter, Dropper, Dropping
  <2> QED
    BY <1>1, <2>1, <2>2 DEF Doomed
<1>2. CASE Name(disk, p) # {} \/ Kids(p) # {}
  BY <1>2 DEF Unlinked, Detached, Inodes, Alive, Holds
<1> QED
  BY <1>1, <1>2

(* Creation gives the new inode its name.                                  *)
LEMMA AddEntryKeeps ==
  ASSUME Core, NEW t \in Threads, AddEntry(t)
  PROVE  Core'
<1> USE DEF Core
<1>1. th[t].pc = "entry" /\ lut' = lut /\ kernel' = kernel /\ phase' = phase /\ Goto(t, "self") /\ Agent(t)
  BY DEF AddEntry, At, Agents
<1>2. PICK p, n, i : p = th[t].p /\ n = th[t].n /\ i = th[t].i
  OBVIOUS
<1>3. /\ th[t].op = "new" /\ i \in Ino \ {1} /\ p \in Ino /\ n \in Names /\ p \in th[t].held
      /\ disk.sb[i] = "live" /\ Kids(i) = {} /\ kernel.kn[i] = 0 /\ kernel.fp[i] = 0
      /\ disk.ent[p][n] = 0 /\ Name(disk, i) = {} /\ disk.kind[p] = "dir"
      /\ p = 1 \/ (Name(disk, p) # {} /\ kernel.kn[p] > 0)
  BY <1>1, <1>2 DEF Agent, Steps, Creator
<1>4. ThTypes /\ IsDisk(disk) /\ phase = "up" /\ kernel \in KernelRec
  BY <1>1, <1>3, Mounted DEF Types, ThTypes
<1>5. ThTypes' /\ \E r : StepTo(t, r) /\ r.pc = "self" /\ Same(r, th[t])
  BY <1>1, <1>4, GotoStep DEF PCs, Creating
<1>6. PICK r : StepTo(t, r) /\ r.pc = "self" /\ Same(r, th[t])
  BY <1>5
<1>7. p # i
  BY <1>3
<1>8. Edited(p, n, i, 0)
  <2>1. PICK D : D = lookup_add_parent(disk, i, p)
    OBVIOUS
  <2>2. SameTree(disk, D) /\ IsDisk(D)
    BY <1>4, <2>1, ParentFields DEF SameTree
  <2>3. disk' = dir_add_entry(D, p, n, i)
    BY <1>2, <2>1 DEF AddEntry
  <2>4. /\ IsDisk(disk')
        /\ \A d \in Ino, m \in Names : disk'.ent[d][m] = IF d = p /\ m = n THEN i ELSE D.ent[d][m]
        /\ disk'.kids = [D.kids EXCEPT ![p] = D.kids[p] + 1]
        /\ disk'.nlink = [D.nlink EXCEPT ![p] = IF D.kind[i] = "dir" THEN D.nlink[p] + 1 ELSE D.nlink[p]]
        /\ disk'.kind = D.kind /\ disk'.loc = D.loc /\ disk'.sb = D.sb /\ disk'.mark = D.mark
    BY <1>3, <2>2, <2>3, AddFields, SMTT(60)
  <2>5. \A j \in Ino : disk'.nlink[j] = disk.nlink[j] \/ disk.kind[j] = "dir"
    BY <1>3, <1>4, <2>2, <2>4 DEF SameTree, IsDisk, DiskRec
  <2>6. disk'.kids = [disk.kids EXCEPT ![p] = @ + 1]
    BY <2>2, <2>4 DEF SameTree
  <2> QED
    BY <1>3, <2>2, <2>4, <2>5, <2>6, Numbers DEF SameTree, Edited
<1>9. Name(disk', i) = {<<p, n>>}
  <2>1. i \in Ino0 /\ 0 \in Ino0
    BY <1>3, Numbers
  <2>2. Name(disk', i) = Name(disk, i) \cup {<<p, n>>}
    BY <1>3, <1>4, <1>8, <2>1, EditedNames
  <2> QED
    BY <1>3, <2>2
<1>10. \A u \in Threads \ {t} : p \notin th[u].held /\ (Claims(u) => th[u].i \notin {p, i, 0}) /\ 0 \notin th[u].held
  <2> SUFFICES ASSUME NEW u \in Threads \ {t}
               PROVE  p \notin th[u].held /\ (Claims(u) => th[u].i \notin {p, i, 0}) /\ 0 \notin th[u].held
    OBVIOUS
  <2>1. p \notin th[u].held /\ 0 \notin th[u].held
    BY <1>3, <1>4, Numbers DEF Exclusive, ThTypes, IsThread, ThRec
  <2>2. Claims(u) => th[u].i # i
    BY <1>2, <1>3 DEF Apart, Claims
  <2>3. Claims(u) => th[u].i # 0 /\ th[u].i # 1 /\ kernel.kn[th[u].i] = 0
    BY Numbers DEF Agents, Agent, Creator, Deleter, Claims
  <2> QED
    BY <1>3, <2>1, <2>2, <2>3
<1>11. ~lut[i].del /\ ~(lut[i].cnt > 0)
  BY <1>3, <1>4 DEF Inodes, Known
<1>12. \A u \in Threads : th[u].pc \in Deleting => th[u].i # i
  BY <1>1, <1>2, <1>3 DEF Apart, Claims, Deleting
<1>13. \A u \in Threads : th[u].pc \in {"dmark", "lmark"} => th[u].o # i
  BY <1>3 DEF Agents, Agent, Dropper, Dropping
<1>14. ~Doomed(i)
  BY <1>11, <1>12, <1>13 DEF Doomed
<1>15. ~Doomed(p) /\ disk.sb[p] = "live"
  BY <1>3, <1>4, UsableDirectory
<1>16. Alive(i)'
  <2>1. i \in disk.mark => \E u \in Threads : th[u].i = i /\ th[u].pc = "clear"
    BY <1>3, <1>11, <1>12, <1>13 DEF Inodes, Followed
  <2>2. i \in disk'.mark => \E u \in Threads : th'[u].i = i /\ th'[u].pc = "clear"
    BY <1>1, <1>6, <1>8, <2>1 DEF StepTo, Edited
  <2>3. th'[t].i = i /\ th'[t].pc = "self" /\ disk'.sb[i] = "live"
    BY <1>2, <1>3, <1>6, <1>8 DEF StepTo, Same, Edited
  <2> QED
    BY <2>2, <2>3 DEF Alive
<1>17. LinksCover(i)'
  BY <1>2, <1>6, Bits DEF LinksCover, Same
<1>18. OneName(i)'
  BY <1>9 DEF OneName
<1>19. Agent(t)'
  <2>1. Steps(t)' /\ Dropper(t)' /\ Linker(t)' /\ Mover(t)' /\ Deleter(t)'
    BY <1>3, <1>6
    DEF StepTo, Same, Steps, Dropper, Linker, Mover, Moving, Deleter, Dropping, Creating, Deleting
  <2>2. Kids(i)' = {}
    BY <1>3, <1>4, <1>7, <1>8, EditedNames, Numbers DEF Kids
  <2>3. Creator(t)'
    BY <1>1, <1>2, <1>3, <1>6, <1>8, <1>9, <2>2 DEF StepTo, Same, Creator, Edited
  <2> QED
    BY <2>1, <2>3 DEF Agent
<1>20. /\ th[t].pc \in {"idle", "entry", "rmold"} /\ r.op # "umount" /\ r.pc \notin Deleting \cup {"lmark"}
       /\ r.held \subseteq th[t].held /\ r.op = "new" /\ r.i = th[t].i /\ r.pc = "self" /\ ~Moving(t)
  BY <1>1, <1>3, <1>6 DEF Same, Deleting, Moving
<1> QED
  BY <1>1, <1>3, <1>4, <1>5, <1>6, <1>8, <1>10, <1>14, <1>15, <1>16, <1>17, <1>18, <1>19, <1>20, EditStep, Numbers

(* A name the kernel may use: its directory and its inode are not locked,  *)
(* so no other thread is at work on them.                                  *)
LEMMA FreeName ==
  ASSUME Core, phase = "up", NEW i \in Ino, ~Locked(i), i = 1 \/ kernel.kn[i] > 0
  PROVE  /\ i # 1 => disk.sb[i] = "live" /\ disk.loc[i] = "meta"
         /\ \A u \in Threads : Claims(u) => th[u].i # i /\ th[u].i # 0
         /\ \A u \in Threads : th[u].pc \in Dropping => th[u].o # i
         /\ ~BeingMade(i) /\ ~BeingDropped(i) /\ (disk.kind[i] # "dir" => ~BeingMoved(i))
         /\ ~lut[i].del => ~Doomed(i) /\ (i \in disk.mark => \E u \in Threads : th[u].i = i /\ th[u].pc = "clear")
<1> USE DEF Core
<1>1. kernel \in KernelRec /\ disk.sb[1] = "live"
  BY DEF Types, Root
<1>2. i # 1 => disk.sb[i] = "live" /\ disk.loc[i] = "meta"
  BY <1>1 DEF Inodes, Known, KernelRec
<1>3. \A u \in Threads : Claims(u) => th[u].i # i /\ th[u].i # 0
  BY Numbers DEF Agents, Agent, Creator, Deleter, Claims
<1>4. \A u \in Threads : th[u].pc \in Dropping => th[u].o # i
  BY DEF Locked, Agents, Agent, Dropper
<1>5. ~BeingMade(i)
  BY <1>3 DEF BeingMade, Claims, Agents, Agent, Steps
<1>6. ~BeingDropped(i)
  BY <1>4 DEF BeingDropped, Dropping
<1>7. disk.kind[i] # "dir" => ~BeingMoved(i)
  BY DEF BeingMoved, Locked, Agents, Agent, Mover
<1>8. ~lut[i].del => ~Doomed(i)
  BY <1>3, <1>4 DEF Doomed, Claims, Dropping
<1>9. ~lut[i].del => (i \in disk.mark => \E u \in Threads : th[u].i = i /\ th[u].pc = "clear")
  BY <1>3, <1>4 DEF Inodes, Followed, Claims, Dropping
<1> QED
  BY <1>2, <1>3, <1>4, <1>5, <1>6, <1>7, <1>8, <1>9

(* The thread that has just taken a name away.                             *)
LEMMA UnlinkKeeps ==
  ASSUME Core, NEW t \in Threads, NEW p \in Ino, NEW n \in Names, hfuse_ll_unlink(t, p, n)
  PROVE  Core'
<1> USE DEF Core
<1>1. PICK i : i = disk.ent[p][n]
  OBVIOUS
<1>2. /\ i # 0 /\ th[t].pc = "idle" /\ phase = "up" /\ phase' = "up" /\ lut' = lut /\ kernel' = kernel
      /\ ~Locked(p) /\ ~Locked(i) /\ (p = 1 \/ kernel.kn[p] > 0) /\ (i = 1 \/ kernel.kn[i] > 0)
      /\ disk.kind[i] # "dir" /\ disk' = dir_remove_entry(disk, p, n, i)
      /\ th' = [th EXCEPT ![t] = [Idle EXCEPT !.pc = "nlink", !.op = "unlink", !.o = i, !.vp = p, !.held = {p, i}]]
  BY <1>1 DEF hfuse_ll_unlink, Ready, lookup_dir, At, Refers, unlink_update_meta
<1>3. ThTypes /\ IsDisk(disk) /\ i \in Ino /\ i # 1 /\ disk.kind[i] \in {"file", "lnk"}
  <2>1. ThTypes /\ IsDisk(disk) /\ i \in Ino
    BY <1>1, <1>2, Numbers DEF Types, ThTypes, IsDisk, DiskRec
  <2>2. i # 1
    BY <1>2 DEF Root
  <2>3. disk.sb[i] = "live" /\ Holds(i)
    BY <1>2, <2>1, <2>2, FreeName DEF Inodes
  <2> QED
    BY <1>2, <2>1, <2>2, <2>3 DEF Holds, IsDisk, DiskRec, Kinds
<1>4. PICK r : r = [Idle EXCEPT !.pc = "nlink", !.op = "unlink", !.o = i, !.vp = p, !.held = {p, i}]
  OBVIOUS
<1>5. /\ IsThread(r) /\ r.pc = "nlink" /\ r.op = "unlink" /\ r.o = i /\ r.vp = p /\ r.held = {p, i}
  BY <1>3, <1>4, Numbers, ZenonT(60) DEF Idle, IsThread, ThRec, PCs, Ops, Dropping
<1>6. StepTo(t, r) /\ ThTypes'
  BY <1>2, <1>3, <1>4, <1>5, ThreadStep
<1>7. Edited(p, n, 0, i)
  <2>1. /\ IsDisk(disk')
        /\ \A d \in Ino, m \in Names : disk'.ent[d][m] = IF d = p /\ m = n THEN 0 ELSE disk.ent[d][m]
        /\ disk'.kids = [disk.kids EXCEPT ![p] = disk.kids[p] - 1]
        /\ disk'.nlink = [disk.nlink EXCEPT ![p] = IF disk.kind[i] = "dir" THEN disk.nlink[p] - 1 ELSE disk.nlink[p]]
        /\ disk'.kind = disk.kind /\ disk'.loc = disk.loc /\ disk'.sb = disk.sb /\ disk'.mark = disk.mark
    BY <1>2, <1>3, RemoveFields
  <2>2. \A j \in Ino : disk'.nlink[j] = disk.nlink[j]
    BY <1>2, <1>3, <2>1 DEF IsDisk, DiskRec
  <2>3. disk'.kids = [disk.kids EXCEPT ![p] = @ + (-1)]
    BY <1>3, <2>1 DEF IsDisk, DiskRec
  <2> QED
    BY <1>1, <1>2, <2>1, <2>2, <2>3 DEF Edited
<1>8. 0 \in Ino0 /\ i \in Ino0
  BY <1>3, Numbers
<1>9. /\ Name(disk', i) = Name(disk, i) \ {<<p, n>>}
      /\ Cardinality(Name(disk', i)) = Cardinality(Name(disk, i)) - 1
      /\ Cardinality(Name(disk, i)) \in Nat
  BY <1>3, <1>7, <1>8, EditedNames, Finite, ZenonT(60)
<1>10. \A u \in Threads : p \notin th[u].held /\ i \notin th[u].held /\ (Claims(u) => th[u].i \notin {p, 0, i})
  BY <1>2, <1>3, FreeName DEF Locked
<1>11. LinksCover(i)'
  <2>1. ~BeingMade(i) /\ ~BeingMoved(i)
    BY <1>2, <1>3, FreeName
  <2>2. LinksCover(i) /\ disk'.nlink[i] = disk.nlink[i] /\ disk.nlink[i] \in Int
    BY <1>2, <1>3, <1>7 DEF Inodes, Edited, IsDisk, DiskRec
  <2>3. Cardinality(Name(disk, i)) <= disk.nlink[i]
    BY <1>3, <1>9, <2>1, <2>2 DEF LinksCover
  <2> QED
    BY <1>9, <2>2, <2>3 DEF LinksCover
<1>12. OneName(i)'
  BY <1>3, <1>7 DEF OneName, Edited
<1>13. Agent(t)'
  BY <1>2, <1>3, <1>5, <1>6, <1>7
  DEF StepTo, Agent, Steps, Dropper, Linker, Mover, Moving, Creator, Deleter, Dropping, Creating, Deleting, Edited
<1>14. ~Moving(t) /\ r.pc \notin Deleting
  BY <1>2, <1>5 DEF Moving, Dropping, Deleting
<1> QED
  BY <1>2, <1>5, <1>6, <1>7, <1>8, <1>10, <1>11, <1>12, <1>13, <1>14, EditStep

(* The only name of a directory, while no thread has its parent locked.    *)
LEMMA OnlyName ==
  ASSUME Core, NEW p \in Ino, NEW n \in Names, NEW i \in Ino, disk.ent[p][n] = i, ~Locked(p),
         disk.kind[i] = "dir"
  PROVE  Name(disk, i) = {<<p, n>>}
<1> USE DEF Core
<1>1. <<p, n>> \in Name(disk, i)
  BY DEF Name
<1>2. ~\E u \in Threads : TwoNames(u, i)
  <2> SUFFICES ASSUME NEW u \in Threads, TwoNames(u, i) PROVE FALSE
    OBVIOUS
  <2>1. PICK m \in Names : Name(disk, i) \subseteq {<<th[u].p, th[u].n>>, <<th[u].q, m>>}
    BY DEF TwoNames
  <2>2. p = th[u].p \/ p = th[u].q
    BY <1>1, <2>1
  <2>3. th[u].p \in th[u].held /\ th[u].q \in th[u].held
    BY DEF TwoNames, Agents, Agent, Mover
  <2> QED
    BY <2>2, <2>3 DEF Locked
<1>3. \A e, f \in Name(disk, i) : e = f
  BY <1>2 DEF Inodes, OneName
<1> QED
  BY <1>1, <1>3

(* A directory that counts no children holds none.                         *)
LEMMA NoKids ==
  ASSUME Core, NEW i \in Ino, disk.kids[i] = 0
  PROVE  Kids(i) = {}
<1>1. Cardinality(Kids(i)) = 0
  BY DEF Core, Inodes, Holds
<1> QED
  BY <1>1, Finite, FS_EmptySet DEF Kids

(* rmdir takes the name of an empty directory away.                        *)
LEMMA RmdirKeeps ==
  ASSUME Core, NEW t \in Threads, NEW p \in Ino, NEW n \in Names, hfuse_ll_rmdir(t, p, n)
  PROVE  Core'
<1> USE DEF Core
<1>1. PICK i : i = disk.ent[p][n]
  OBVIOUS
<1>2. /\ i # 0 /\ th[t].pc = "idle" /\ phase = "up" /\ phase' = "up" /\ lut' = lut /\ kernel' = kernel
      /\ ~Locked(p) /\ ~Locked(i) /\ (p = 1 \/ kernel.kn[p] > 0) /\ (i = 1 \/ kernel.kn[i] > 0)
      /\ disk.kind[i] = "dir" /\ disk.kids[i] = 0 /\ disk' = dir_remove_entry(disk, p, n, i)
      /\ th' = [th EXCEPT ![t] = [Idle EXCEPT !.pc = "dmark", !.op = "rmdir", !.o = i, !.vp = p, !.held = {p, i}]]
  BY <1>1 DEF hfuse_ll_rmdir, Ready, lookup_dir, At, Refers, rmdir_update_meta
<1>3. ThTypes /\ IsDisk(disk) /\ i \in Ino
  BY <1>1, <1>2, Numbers DEF Types, ThTypes, IsDisk, DiskRec
<1>4. Name(disk, i) = {<<p, n>>} /\ Kids(i) = {} /\ i # 1
  BY <1>1, <1>2, <1>3, OnlyName, NoKids, ZenonT(60) DEF Root
<1>5. i # p /\ disk.kind[p] = "dir"
  <2>1. n \in Kids(p)
    BY <1>1, <1>2 DEF Kids, KidsOf
  <2> QED
    BY <1>4, <2>1 DEF Inodes, Holds
<1>6. PICK r : r = [Idle EXCEPT !.pc = "dmark", !.op = "rmdir", !.o = i, !.vp = p, !.held = {p, i}]
  OBVIOUS
<1>7. IsThread(r) /\ r.pc = "dmark" /\ r.op = "rmdir" /\ r.o = i /\ r.vp = p /\ r.held = {p, i}
  BY <1>3, <1>6, Numbers, ZenonT(60) DEF Idle, IsThread, ThRec, PCs, Ops, Dropping
<1>8. StepTo(t, r) /\ ThTypes'
  BY <1>2, <1>3, <1>6, <1>7, ThreadStep
<1>9. Edited(p, n, 0, i)
  <2>1. /\ IsDisk(disk')
        /\ \A d \in Ino, m \in Names : disk'.ent[d][m] = IF d = p /\ m = n THEN 0 ELSE disk.ent[d][m]
        /\ disk'.kids = [disk.kids EXCEPT ![p] = disk.kids[p] - 1]
        /\ disk'.nlink = [disk.nlink EXCEPT ![p] = IF disk.kind[i] = "dir" THEN disk.nlink[p] - 1 ELSE disk.nlink[p]]
        /\ disk'.kind = disk.kind /\ disk'.loc = disk.loc /\ disk'.sb = disk.sb /\ disk'.mark = disk.mark
    BY <1>2, <1>3, RemoveFields
  <2>2. \A j \in Ino : disk'.nlink[j] = disk.nlink[j] \/ disk.kind[j] = "dir"
    BY <1>3, <1>5, <2>1 DEF IsDisk, DiskRec
  <2>3. disk'.kids = [disk.kids EXCEPT ![p] = @ + (-1)]
    BY <1>3, <2>1 DEF IsDisk, DiskRec
  <2> QED
    BY <1>1, <1>2, <2>1, <2>2, <2>3 DEF Edited
<1>10. 0 \in Ino0 /\ i \in Ino0
  BY <1>3, Numbers
<1>11. Name(disk', i) = {} /\ Kids(i)' = {}
  <2>1. Name(disk', i) = Name(disk, i) \ {<<p, n>>} /\ KidsOf(disk', i) = KidsOf(disk, i)
    BY <1>3, <1>5, <1>9, <1>10, EditedNames
  <2> QED
    BY <1>4, <2>1 DEF Kids
<1>12. \A u \in Threads : p \notin th[u].held /\ i \notin th[u].held /\ (Claims(u) => th[u].i \notin {p, 0, i})
  BY <1>2, <1>3, FreeName DEF Locked
<1>13. LinksCover(i)' /\ OneName(i)' /\ Detached(i)'
  BY <1>2, <1>9, <1>11 DEF LinksCover, OneName, Detached, Edited
<1>14. Agent(t)'
  BY <1>2, <1>3, <1>4, <1>7, <1>8
  DEF StepTo, Agent, Steps, Dropper, Linker, Mover, Moving, Creator, Deleter, Dropping, Creating, Deleting
<1>15. ~Moving(t) /\ r.pc \notin Deleting
  BY <1>2, <1>7 DEF Moving, Dropping, Deleting
<1>16. Detached(r.o)'
  BY <1>7, <1>11 DEF Detached
<1> QED
  BY <1>2, <1>7, <1>8, <1>9, <1>10, <1>12, <1>13, <1>14, <1>15, <1>16, EditStep

(* A second name for a file.                                               *)
LEMMA LinkKeeps ==
  ASSUME Core, NEW t \in Threads, NEW i \in Ino, NEW p \in Ino, NEW n \in Names, hfuse_ll_link(t, i, p, n)
  PROVE  Core'
<1> USE DEF Core
<1>1. /\ th[t].pc = "idle" /\ phase = "up" /\ phase' = "up" /\ lut' = lut /\ kernel' = kernel
      /\ ~Locked(p) /\ ~Locked(i) /\ (p = 1 \/ kernel.kn[p] > 0) /\ (i = 1 \/ kernel.kn[i] > 0)
      /\ disk.kind[p] = "dir" /\ (p = 1 \/ Name(disk, p) # {}) /\ disk.ent[p][n] = 0
      /\ disk.kind[i] = "file" /\ ~lut[i].del /\ disk' = link_update_meta(disk, i, p, n)
      /\ th' = [th EXCEPT ![t] = [Idle EXCEPT !.pc = "stat", !.op = "link", !.p = p, !.i = i, !.held = {p, i}]]
  BY DEF hfuse_ll_link, Ready, Usable, lookup_dir, At, Refers
<1>2. ThTypes /\ IsDisk(disk) /\ i # p /\ i # 1
  BY <1>1 DEF Types, ThTypes, Root
<1>3. PICK r : r = [Idle EXCEPT !.pc = "stat", !.op = "link", !.p = p, !.i = i, !.held = {p, i}]
  OBVIOUS
<1>4. IsThread(r) /\ r.pc = "stat" /\ r.op = "link" /\ r.p = p /\ r.i = i /\ r.held = {p, i}
  BY <1>3, Numbers, ZenonT(60) DEF Idle, IsThread, ThRec, PCs, Ops, Creating
<1>5. StepTo(t, r) /\ ThTypes'
  BY <1>1, <1>2, <1>3, <1>4, ThreadStep
<1>6. Edited(p, n, i, 0) /\ disk'.nlink[i] = disk.nlink[i] + 1
  <2>1. PICK D : D = lookup_add_parent(disk, i, p)
    OBVIOUS
  <2>2. SameTree(disk, D) /\ IsDisk(D)
    BY <1>2, <2>1, ParentFields DEF SameTree
  <2>3. PICK x : x = [D.nlink EXCEPT ![i] = D.nlink[i] + 1]
    OBVIOUS
  <2>4. PICK E : E = [D EXCEPT !.nlink = x]
    OBVIOUS
  <2>5. disk' = dir_add_entry(E, p, n, i)
    BY <1>1, <2>1, <2>2, <2>3, <2>4 DEF link_update_meta, IsDisk, DiskRec
  <2>6. x \in [Ino -> Int] /\ x[i] = D.nlink[i] + 1 /\ \A j \in Ino \ {i} : x[j] = D.nlink[j]
    BY <2>2, <2>3 DEF IsDisk, DiskRec
  <2>7. IsDisk(E)
    BY <2>2, <2>4, <2>6 DEF IsDisk, DiskRec
  <2>8. /\ E.ent = D.ent /\ E.kids = D.kids /\ E.nlink = x /\ E.kind = D.kind /\ E.loc = D.loc
        /\ E.sb = D.sb /\ E.mark = D.mark
    BY <2>2, <2>4 DEF IsDisk, DiskRec
  <2>9. /\ IsDisk(disk')
        /\ \A d \in Ino, m \in Names : disk'.ent[d][m] = IF d = p /\ m = n THEN i ELSE E.ent[d][m]
        /\ disk'.kids = [E.kids EXCEPT ![p] = E.kids[p] + 1]
        /\ disk'.nlink = [E.nlink EXCEPT ![p] = IF E.kind[i] = "dir" THEN E.nlink[p] + 1 ELSE E.nlink[p]]
        /\ disk'.kind = E.kind /\ disk'.loc = E.loc /\ disk'.sb = E.sb /\ disk'.mark = E.mark
    BY <2>5, <2>7, AddFields
  <2>10. disk'.nlink = x
    BY <1>1, <2>2, <2>6, <2>8, <2>9 DEF SameTree
  <2>11. disk'.kids = [disk.kids EXCEPT ![p] = @ + 1]
    BY <2>2, <2>8, <2>9 DEF SameTree
  <2>12. \A j \in Ino : disk'.nlink[j] = disk.nlink[j] \/ j = i
    BY <2>2, <2>6, <2>10 DEF SameTree
  <2>13. Edited(p, n, i, 0)
    BY <1>1, <2>2, <2>8, <2>9, <2>11, <2>12, Numbers DEF SameTree, Edited
  <2> QED
    BY <2>2, <2>6, <2>10, <2>13 DEF SameTree
<1>7. 0 \in Ino0 /\ i \in Ino0 /\ i # 0
  BY Numbers
<1>8. Cardinality(Name(disk', i)) = Cardinality(Name(disk, i)) + 1 /\ Cardinality(Name(disk, i)) \in Nat
  BY <1>2, <1>6, <1>7, EditedNames, Finite, ZenonT(60)
<1>9. \A u \in Threads : p \notin th[u].held /\ (Claims(u) => th[u].i \notin {p, i, 0}) /\ 0 \notin th[u].held
  <2>1. \A u \in Threads : 0 \notin th[u].held
    BY <1>2, Numbers DEF ThTypes, IsThread, ThRec
  <2> QED
    BY <1>1, <2>1, FreeName DEF Locked
<1>10. ~Doomed(i) /\ ~Doomed(p) /\ disk.sb[p] = "live"
  BY <1>1, FreeName, UsableDirectory
<1>11. Alive(i)'
  <2>1. disk.sb[i] = "live" /\ disk.loc[i] = "meta"
    BY <1>1, <1>2, FreeName
  <2>2. i \in disk.mark => \E u \in Threads : th[u].i = i /\ th[u].pc = "clear"
    BY <1>1, FreeName
  <2>3. i \in disk'.mark => \E u \in Threads : th'[u].i = i /\ th'[u].pc = "clear"
    BY <1>1, <1>5, <1>6, <2>2 DEF StepTo, Edited
  <2> QED
    BY <1>6, <2>1, <2>3 DEF Alive, Edited
<1>12. LinksCover(i)'
  <2>1. ~BeingMade(i) /\ ~BeingMoved(i) /\ ~BeingDropped(i)
    BY <1>1, FreeName
  <2>2. ~BeingDropped(i)'
    BY <1>4, <1>5, <2>1, Bits
  <2>3. LinksCover(i) /\ disk.nlink[i] \in Int
    BY <1>2 DEF Inodes, IsDisk, DiskRec
  <2>4. Cardinality(Name(disk, i)) <= disk.nlink[i]
    BY <1>1, <1>8, <2>1, <2>3 DEF LinksCover
  <2> QED
    BY <1>6, <1>8, <2>2, <2>3, <2>4 DEF LinksCover
<1>13. OneName(i)'
  BY <1>1, <1>6 DEF OneName, Edited
<1>14. Agent(t)'
  BY <1>1, <1>2, <1>4, <1>5
  DEF StepTo, Agent, Steps, Dropper, Linker, Mover, Moving, Creator, Deleter, Dropping, Creating, Deleting
<1>15. ~Moving(t) /\ r.pc \notin Deleting
  BY <1>1, <1>4 DEF Moving, Dropping, Deleting
<1> QED
  BY <1>1, <1>2, <1>4, <1>5, <1>6, <1>7, <1>9, <1>10, <1>11, <1>12, <1>13, <1>14, <1>15, EditStep

(* The new name of an inode that moves, and the entry it takes.            *)
LEMMA PlaceFields ==
  ASSUME IsDisk(disk), NEW q \in Ino, NEW m \in Names, NEW i \in Ino, NEW o, o = disk.ent[q][m], i # o,
         disk.kind[q] = "dir", disk' = PlaceName(disk, q, m, i)
  PROVE  Edited(q, m, i, o) /\ (disk.kind[i] # "dir" => disk'.nlink = disk.nlink)
<1>1. i # 0
  BY Numbers
<1>2. CASE o = 0
  <2>1. /\ IsDisk(disk')
        /\ \A d \in Ino, k \in Names : disk'.ent[d][k] = IF d = q /\ k = m THEN i ELSE disk.ent[d][k]
        /\ disk'.kids = [disk.kids EXCEPT ![q] = disk.kids[q] + 1]
        /\ disk'.nlink = [disk.nlink EXCEPT ![q] = IF disk.kind[i] = "dir" THEN disk.nlink[q] + 1 ELSE disk.nlink[q]]
        /\ disk'.kind = disk.kind /\ disk'.loc = disk.loc /\ disk'.sb = disk.sb /\ disk'.mark = disk.mark
    BY <1>2, AddFields DEF PlaceName, lookup_dir
  <2>2. \A j \in Ino : disk'.nlink[j] = disk.nlink[j] \/ disk.kind[j] = "dir"
    BY <2>1 DEF IsDisk, DiskRec
  <2>3. disk.kind[i] # "dir" => disk'.nlink = disk.nlink
    BY <2>1 DEF IsDisk, DiskRec
  <2> QED
    BY <1>1, <1>2, <2>1, <2>2, <2>3 DEF Edited
<1>3. CASE o # 0
  <2>1. disk' = [disk EXCEPT !.ent[q][m] = i]
    BY <1>3 DEF PlaceName, lookup_dir, change_dir_entry_inode
  <2>2. PICK e : e = [disk.ent EXCEPT ![q] = [disk.ent[q] EXCEPT ![m] = i]]
    OBVIOUS
  <2>3. disk' = [disk EXCEPT !.ent = e]
    BY <2>1, <2>2 DEF IsDisk, DiskRec
  <2>4. disk.ent \in [Ino -> [Names -> Ino0]] /\ i \in Ino0
    BY Numbers DEF IsDisk, DiskRec
  <2>5. [disk.ent[q] EXCEPT ![m] = i] \in [Names -> Ino0]
    BY <2>4
  <2>6. /\ e \in [Ino -> [Names -> Ino0]]
        /\ \A d \in Ino, k \in Names : e[d][k] = IF d = q /\ k = m THEN i ELSE disk.ent[d][k]
    BY <2>2, <2>4, <2>5
  <2>7. IsDisk(disk')
    BY <2>3, <2>6 DEF IsDisk, DiskRec
  <2>8. /\ disk'.ent = e /\ disk'.kids = disk.kids /\ disk'.nlink = disk.nlink
        /\ disk'.kind = disk.kind /\ disk'.loc = disk.loc /\ disk'.sb = disk.sb /\ disk'.mark = disk.mark
    BY <2>3 DEF IsDisk, DiskRec
  <2>9. disk'.kids = [disk.kids EXCEPT ![q] = @ + 0]
    BY <2>8 DEF IsDisk, DiskRec
  <2> QED
    BY <1>1, <1>3, <2>6, <2>7, <2>8, <2>9 DEF Edited
<1> QED
  BY <1>2, <1>3

(* rename gives the new name, and takes the place of what had it.          *)
LEMMA RenameKeeps ==
  ASSUME Core, NEW t \in Threads, NEW p \in Ino, NEW n \in Names, NEW q \in Ino, NEW m \in Names,
         hfuse_ll_rename(t, p, n, q, m)
  PROVE  Core'
<1> USE DEF Core
<1>1. PICK i, o : i = disk.ent[p][n] /\ o = disk.ent[q][m]
  OBVIOUS
<1>2. PICK r : r = [Idle EXCEPT !.op = "rename",
             !.pc = IF o = 0 THEN "rmold"
                    ELSE IF disk.kind[o] = "dir" THEN "dmark" ELSE "nlink",
             !.p = p, !.n = n, !.q = q, !.i = i, !.o = o, !.vp = q,
             !.held = ({p, q, o} \cup (IF disk.kind[i] = "dir" THEN {} ELSE {i})) \ {0}]
  OBVIOUS
<1>3. /\ i # 0 /\ th[t].pc = "idle" /\ phase = "up" /\ phase' = "up" /\ lut' = lut /\ kernel' = kernel
      /\ \A d \in {p, q, i} \cup ({o} \ {0}) : ~Locked(d) /\ (d = 1 \/ kernel.kn[d] > 0)
      /\ disk.kind[q] = "dir" /\ (q = 1 \/ Name(disk, q) # {})
      /\ i # o /\ disk' = PlaceName(disk, q, m, i)
      /\ o # 0 => /\ disk.kind[i] = "dir" <=> disk.kind[o] = "dir"
                  /\ disk.kind[o] = "dir" => disk.kids[o] = 0
      /\ th' = [th EXCEPT ![t] = r]
  BY <1>1, <1>2 DEF hfuse_ll_rename, Ready, Usable, lookup_dir, At, Refers, MayReplace
<1>4. ThTypes /\ IsDisk(disk) /\ i \in Ino /\ o \in Ino0 /\ (o # 0 => o \in Ino) /\ i \in Ino0
  BY <1>1, <1>3, Numbers DEF Types, ThTypes, IsDisk, DiskRec
<1>5. <<p, n>> \in Name(disk, i) /\ <<q, m>> \in Name(disk, o) /\ i # 1 /\ o # 1
  <2>1. <<p, n>> \in Name(disk, i) /\ <<q, m>> \in Name(disk, o)
    BY <1>1 DEF Name
  <2> QED
    BY <2>1 DEF Root
<1>6. /\ IsThread(r) /\ r.op = "rename" /\ r.p = p /\ r.n = n /\ r.q = q /\ r.i = i /\ r.o = o /\ r.vp = q
      /\ r.pc = IF o = 0 THEN "rmold" ELSE IF disk.kind[o] = "dir" THEN "dmark" ELSE "nlink"
      /\ r.held = ({p, q, o} \cup (IF disk.kind[i] = "dir" THEN {} ELSE {i})) \ {0}
  <2>1. PICK pc, held : /\ pc = IF o = 0 THEN "rmold" ELSE IF disk.kind[o] = "dir" THEN "dmark" ELSE "nlink"
                        /\ held = ({p, q, o} \cup (IF disk.kind[i] = "dir" THEN {} ELSE {i})) \ {0}
    OBVIOUS
  <2>2. pc \in PCs /\ held \in SUBSET Ino /\ n \in Names \cup {0}
    BY <1>4, <2>1, Numbers DEF PCs, Dropping
  <2>3. r = [pc |-> pc, op |-> "rename", p |-> p, n |-> n, q |-> q, i |-> i, o |-> o, vp |-> q, s |-> 0,
             held |-> held, todo |-> {}]
    BY <1>2, <2>1 DEF Idle
  <2> QED
    BY <1>4, <2>1, <2>2, <2>3, Numbers DEF IsThread, ThRec, Ops
<1>7. StepTo(t, r) /\ ThTypes'
  BY <1>3, <1>4, <1>6, ThreadStep
<1>8. Edited(q, m, i, o) /\ (disk.kind[i] # "dir" => disk'.nlink = disk.nlink)
  BY <1>1, <1>3, <1>4, PlaceFields
<1>9. /\ Name(disk', i) = Name(disk, i) \cup {<<q, m>>} /\ Name(disk', o) = Name(disk, o) \ {<<q, m>>}
      /\ Cardinality(Name(disk', i)) = Cardinality(Name(disk, i)) + 1
      /\ Cardinality(Name(disk', o)) = Cardinality(Name(disk, o)) - 1
      /\ Cardinality(Name(disk, i)) \in Nat /\ Cardinality(Name(disk, o)) \in Nat
      /\ \A d \in Ino \ {q} : KidsOf(disk', d) = KidsOf(disk, d)
  <2>1. Cardinality(Name(disk, i)) \in Nat /\ Cardinality(Name(disk, o)) \in Nat
    BY Finite
  <2>2. IsDisk(disk) /\ Edited(q, m, i, o) /\ i \in Ino0 /\ o \in Ino0
    BY <1>4, <1>8
  <2>3. Name(disk', i) = Name(disk, i) \cup {<<q, m>>}
    BY <2>2, EditedNames
  <2>4. Name(disk', o) = Name(disk, o) \ {<<q, m>>}
    BY <2>2, EditedNames
  <2>5. Cardinality(Name(disk', i)) = Cardinality(Name(disk, i)) + 1
    BY <2>2, EditedNames
  <2>6. Cardinality(Name(disk', o)) = Cardinality(Name(disk, o)) - 1
    <3>1. IsFiniteSet(Name(disk, o))
      BY Finite
    <3> QED
      BY <1>5, <2>4, <3>1, FS_RemoveElement
  <2>7. \A d \in Ino \ {q} : KidsOf(disk', d) = KidsOf(disk, d)
    BY <2>2, EditedNames
  <2> QED
    BY <2>1, <2>3, <2>4, <2>5, <2>6, <2>7
<1>10. \A u \in Threads : /\ q \notin th[u].held /\ o \notin th[u].held
                          /\ Claims(u) => th[u].i \notin {q, i, o}
  <2>1. \A u \in Threads : 0 \notin th[u].held
    BY <1>4, Numbers DEF ThTypes, IsThread, ThRec
  <2>2. \A u \in Threads : Claims(u) => th[u].i # q /\ th[u].i # i /\ th[u].i # 0
    BY <1>3, <1>4, FreeName
  <2>3. o # 0 => \A u \in Threads : Claims(u) => th[u].i # o
    BY <1>3, <1>4, FreeName
  <2> QED
    BY <1>3, <2>1, <2>2, <2>3 DEF Locked
<1>11. ~Doomed(i) /\ ~Doomed(q) /\ disk.sb[q] = "live"
  BY <1>3, <1>4, <1>5, UsableDirectory DEF Unlinked, Detached
<1>12. Alive(i)'
  <2>1. Name(disk, i) # {} /\ Alive(i)
    BY <1>4, <1>5 DEF Inodes
  <2>2. disk'.sb = disk.sb /\ disk'.mark = disk.mark /\ disk'.loc = disk.loc
    BY <1>8 DEF Edited
  <2> QED
    BY <1>3, <1>7, <2>1, <2>2, AliveKeeps
<1>13. LinksCover(i)' /\ OneName(i)'
  <2>1. BeingMoved(i)'
    BY <1>6, <1>7, Bits DEF Dropping
  <2>2. disk'.kind = disk.kind
    BY <1>8 DEF Edited
  <2>3. CASE disk.kind[i] = "dir"
    <3>1. Name(disk, i) = {<<p, n>>}
      BY <1>1, <1>3, <1>4, <2>3, OnlyName
    <3>2. Name(disk', i) \subseteq {<<p, n>>, <<q, m>>}
      BY <1>9, <3>1
    <3>3. TwoNames(t, i)'
      BY <1>6, <1>7, <3>2 DEF TwoNames, StepTo, Moving, Dropping
    <3> QED
      BY <2>2, <2>3, <3>3 DEF OneName, LinksCover
  <2>4. CASE disk.kind[i] # "dir"
    <3>1. ~BeingMade(i) /\ ~BeingMoved(i) /\ ~BeingDropped(i)
      BY <1>3, <1>4, <2>4, FreeName
    <3>2. LinksCover(i) /\ disk.nlink[i] \in Int /\ disk'.nlink[i] = disk.nlink[i]
      BY <1>4, <1>8, <2>4 DEF Inodes, IsDisk, DiskRec
    <3>3. disk.kind[i] \in {"file", "lnk"} => Cardinality(Name(disk, i)) <= disk.nlink[i]
      BY <1>9, <3>1, <3>2 DEF LinksCover
    <3> QED
      BY <1>9, <2>1, <2>2, <2>4, <3>2, <3>3 DEF LinksCover, OneName
  <2> QED
    BY <2>3, <2>4
<1>14. o # 0 => LinksCover(o)' /\ OneName(o)'
  <2> SUFFICES ASSUME o # 0 PROVE LinksCover(o)' /\ OneName(o)'
    OBVIOUS
  <2>1. disk'.kind = disk.kind /\ o \in Ino
    BY <1>4, <1>8 DEF Edited
  <2>2. CASE disk.kind[o] = "dir"
    <3>1. Name(disk, o) = {<<q, m>>}
      BY <1>1, <1>3, <2>1, <2>2, OnlyName
    <3>2. Name(disk', o) = {}
      BY <1>9, <3>1
    <3> QED
      BY <2>1, <2>2, <3>2 DEF LinksCover, OneName
  <2>3. CASE disk.kind[o] # "dir"
    <3>1. ~BeingMade(o) /\ ~BeingMoved(o)
      BY <1>3, <2>1, <2>3, FreeName
    <3>2. LinksCover(o) /\ disk.nlink[o] \in Int /\ disk'.nlink[o] = disk.nlink[o]
      BY <1>3, <1>4, <1>8, <2>1, <2>3 DEF Inodes, IsDisk, DiskRec
    <3>3. disk.kind[o] \in {"file", "lnk"} => Cardinality(Name(disk, o)) <= disk.nlink[o]
      BY <1>9, <3>1, <3>2 DEF LinksCover
    <3> QED
      BY <1>9, <2>1, <2>3, <3>2, <3>3 DEF LinksCover, OneName
  <2> QED
    BY <2>2, <2>3
<1>15. r.pc = "dmark" => Name(disk', r.o) = {} /\ Kids(r.o)' = {}
  <2> SUFFICES ASSUME r.pc = "dmark" PROVE Name(disk', o) = {} /\ KidsOf(disk', o) = {}
    BY <1>6 DEF Kids
  <2>1. o # 0 /\ o \in Ino /\ disk.kind[o] = "dir" /\ disk.kids[o] = 0
    BY <1>3, <1>4, <1>6
  <2>2. Name(disk, o) = {<<q, m>>}
    BY <1>1, <1>3, <2>1, OnlyName
  <2>3. Kids(o) = {}
    BY <2>1, NoKids
  <2>4. m \in Kids(q)
    BY <1>1, <2>1 DEF Kids, KidsOf
  <2>5. o # q
    BY <2>3, <2>4
  <2> QED
    BY <1>9, <2>1, <2>2, <2>3, <2>5 DEF Kids
<1>16. Agent(t)'
  <2>1. Steps(t)' /\ Linker(t)' /\ Creator(t)' /\ Deleter(t)'
    BY <1>6, <1>7 DEF StepTo, Steps, Linker, Creator, Deleter, Dropping, Creating, Deleting
  <2>2. Dropper(t)'
    <3>1. o # 0 => kernel.kn[o] > 0 /\ o \in r.held
      BY <1>3, <1>5, <1>6
    <3>2. r.pc = "nlink" => disk'.kind[o] \in {"file", "lnk"}
      <4> SUFFICES ASSUME r.pc = "nlink" PROVE disk.kind[o] \in {"file", "lnk"}
        BY <1>8 DEF Edited
      <4>1. o # 0 /\ o \in Ino /\ disk.kind[o] # "dir"
        BY <1>4, <1>6
      <4>2. disk.sb[o] = "live" /\ Holds(o)
        BY <1>3, <1>5, <4>1, FreeName DEF Inodes
      <4> QED
        BY <1>4, <4>1, <4>2 DEF Holds, IsDisk, DiskRec, Kinds
    <3>3. r.pc \in Dropping => o # 0
      BY <1>6 DEF Dropping
    <3> QED
      BY <1>3, <1>4, <1>5, <1>6, <1>7, <3>1, <3>2, <3>3 DEF StepTo, Dropper
  <2>3. Mover(t)'
    <3>1. disk'.ent[p][n] = i /\ disk'.ent[q][m] = i /\ <<q, m>> # <<p, n>> /\ disk'.kind = disk.kind
      BY <1>1, <1>3, <1>8 DEF Edited
    <3>2. p \in r.held /\ q \in r.held /\ (disk.kind[i] # "dir" => i \in r.held)
      BY <1>3, <1>6, Numbers
    <3> QED
      BY <1>3, <1>4, <1>6, <1>7, <3>1, <3>2 DEF StepTo, Mover, Moving
  <2> QED
    BY <2>1, <2>2, <2>3 DEF Agent
<1>17. ~Moving(t) /\ r.pc \notin Deleting \cup {"lmark"} /\ (r.pc = "nlink" => r.o = o)
  BY <1>3, <1>6 DEF Moving, Dropping, Deleting
<1>18. \A d \in r.held : ~Locked(d)
  BY <1>3, <1>6
<1>19. r.pc = "dmark" => Detached(r.o)'
  BY <1>15 DEF Detached
<1> QED
  BY <1>3, <1>4, <1>5, <1>6, <1>7, <1>8, <1>10, <1>11, <1>12, <1>13, <1>14, <1>16, <1>17, <1>18, <1>19, EditStep

(* The old name goes.                                                      *)
LEMMA RemoveOldNameKeeps ==
  ASSUME Core, NEW t \in Threads, RemoveOldName(t)
  PROVE  Core'
<1> USE DEF Core
<1>1. th[t].pc = "rmold" /\ lut' = lut /\ kernel' = kernel /\ phase' = phase /\ Agent(t)
  BY DEF RemoveOldName, At, Agents
<1>2. PICK p, n, q, i : p = th[t].p /\ n = th[t].n /\ q = th[t].q /\ i = th[t].i
  OBVIOUS
<1>3. th[t].op = "rename" /\ Moving(t)
  BY <1>1 DEF Agent, Steps, Moving
<1>4. ThTypes /\ IsDisk(disk) /\ phase = "up"
  BY <1>1, <1>3, Mounted DEF Types, ThTypes
<1>5. /\ p \in Ino /\ q \in Ino /\ i \in Ino /\ n \in Names /\ p \in th[t].held /\ q \in th[t].held
      /\ disk.ent[p][n] = i
      /\ disk.kind[i] # "dir" => i \in th[t].held
  BY <1>1, <1>2, <1>3 DEF Agent, Mover
<1>6. PICK m \in Names : disk.ent[q][m] = i /\ <<q, m>> # <<p, n>>
  BY <1>1, <1>2, <1>3 DEF Agent, Mover
<1>7. <<p, n>> \in Name(disk, i) /\ <<q, m>> \in Name(disk, i) /\ n \in Kids(p) /\ disk.kind[p] = "dir"
  <2>1. <<p, n>> \in Name(disk, i) /\ <<q, m>> \in Name(disk, i) /\ n \in Kids(p)
    BY <1>5, <1>6, Numbers DEF Name, Kids, KidsOf
  <2> QED
    BY <1>5, <2>1 DEF Inodes, Holds
<1>8. Edited(p, n, 0, i) /\ (disk.kind[i] # "dir" => disk'.nlink = disk.nlink)
  <2>1. PICK D : D = dir_remove_entry(disk, p, n, i)
    OBVIOUS
  <2>2. /\ IsDisk(D)
        /\ \A d \in Ino, k \in Names : D.ent[d][k] = IF d = p /\ k = n THEN 0 ELSE disk.ent[d][k]
        /\ D.kids = [disk.kids EXCEPT ![p] = disk.kids[p] - 1]
        /\ D.nlink = [disk.nlink EXCEPT ![p] = IF disk.kind[i] = "dir" THEN disk.nlink[p] - 1 ELSE disk.nlink[p]]
        /\ D.kind = disk.kind /\ D.loc = disk.loc /\ D.sb = disk.sb /\ D.mark = disk.mark
    BY <1>4, <1>5, <2>1, RemoveFields, SMTT(60)
  <2>3. disk' = D \/ disk' = change_parent_inode(D, i, q)
    BY <1>2, <2>1 DEF RemoveOldName
  <2>4. SameTree(D, disk')
    BY <2>2, <2>3, ParentFields DEF SameTree
  <2>5. \A j \in Ino : D.nlink[j] = disk.nlink[j] \/ disk.kind[j] = "dir"
    BY <1>4, <1>7, <2>2 DEF IsDisk, DiskRec
  <2>6. D.kids = [disk.kids EXCEPT ![p] = @ + (-1)]
    BY <1>4, <1>5, <2>2 DEF IsDisk, DiskRec
  <2>7. disk.kind[i] # "dir" => D.nlink = disk.nlink
    BY <1>4, <2>2 DEF IsDisk, DiskRec
  <2>8. i # 0
    BY <1>5, Numbers
  <2> QED
    BY <1>5, <2>2, <2>4, <2>5, <2>6, <2>7, <2>8 DEF SameTree, Edited
<1>9. 0 \in Ino0 /\ i \in Ino0
  BY <1>5, Numbers
<1>10. /\ Name(disk', i) = Name(disk, i) \ {<<p, n>>} /\ Cardinality(Name(disk', i)) = Cardinality(Name(disk, i)) - 1
       /\ Cardinality(Name(disk, i)) \in Nat
  <2>1. Cardinality(Name(disk, i)) \in Nat
    BY Finite
  <2>2. Edited(p, n, 0, i) /\ IsDisk(disk) /\ p \in Ino /\ n \in Names
    BY <1>4, <1>5, <1>8
  <2>3. /\ Name(disk', i) = Name(disk, i) \ {<<p, n>>}
        /\ Cardinality(Name(disk', i)) = Cardinality(Name(disk, i)) - 1
    BY <1>9, <2>2, EditedNames, ZenonT(60)
  <2> QED
    BY <2>1, <2>3
<1>11. \A u \in Threads \ {t} : Claims(u) => th[u].i \notin {p, 0, i}
  <2> SUFFICES ASSUME NEW u \in Threads \ {t}, Claims(u) PROVE th[u].i \notin {p, 0, i}
    OBVIOUS
  <2>1. Agent(u) /\ th[u].i \in Ino /\ th[u].i # 0
    BY Numbers DEF Agents, Agent, Claims, Creator, Deleter
  <2>2. CASE th[u].op = "new"
    <3>1. Kids(th[u].i) = {} /\ (Name(disk, th[u].i) = {} \/ Name(disk, th[u].i) = {<<th[u].p, th[u].n>>})
      BY <2>1, <2>2 DEF Agent, Creator
    <3> QED
      BY <1>6, <1>7, <2>1, <3>1
  <2>3. CASE th[u].pc \in Deleting
    <3>1. Doomed(th[u].i)
      BY <2>3 DEF Doomed
    <3>2. Name(disk, th[u].i) = {} /\ Kids(th[u].i) = {}
      BY <2>1, <3>1 DEF Unlinked, Detached
    <3> QED
      BY <1>7, <2>1, <3>2
  <2> QED
    BY <2>2, <2>3 DEF Claims
<1>12. \A u \in Threads \ {t} : p \notin th[u].held
  BY <1>5 DEF Exclusive
<1>13. <<q, m>> \in Name(disk', i)
  BY <1>6, <1>7, <1>10
<1>14. PICK r : /\ StepTo(t, r) /\ r.pc \in {"idle", "rstat"} /\ r.op \in {"", "rename"}
                /\ r.held \subseteq th[t].held
                /\ r = Idle \/ (r.pc = "rstat" /\ Same(r, th[t]))
  <2>1. CASE th[t].p # th[t].q
    <3>1. \E r : StepTo(t, r) /\ r.pc = "rstat" /\ Same(r, th[t])
      BY <1>4, <2>1, GotoStep DEF RemoveOldName, PCs
    <3> QED
      BY <1>3, <3>1 DEF Same
  <2>2. CASE th[t].p = th[t].q
    <3>1. StepTo(t, Idle)
      BY <1>4, <2>2, DoneStep DEF RemoveOldName
    <3> QED
      BY <3>1, IdleFields
  <2> QED
    BY <2>1, <2>2
<1>15. ThTypes'
  BY <1>4, GotoStep, DoneStep DEF RemoveOldName, PCs
<1>16. LinksCover(i)'
  <2> SUFFICES ASSUME disk.kind[i] \in {"file", "lnk"} PROVE LinksCover(i)'
    BY <1>8 DEF LinksCover, Edited
  <2>1. i \in th[t].held
    BY <1>5
  <2>2. ~BeingMade(i)
    BY <1>1, <1>11 DEF BeingMade, Claims, Agents, Agent, Steps
  <2>3. ~BeingDropped(i)
    BY <1>1, <2>1 DEF BeingDropped, Exclusive, Agents, Agent, Dropper, Dropping
  <2>4. ~BeingDropped(i)'
    BY <1>14, <2>3, Bits
  <2>5. LinksCover(i) /\ disk.nlink[i] \in Int /\ disk'.nlink[i] = disk.nlink[i]
    BY <1>4, <1>5, <1>8 DEF Inodes, IsDisk, DiskRec
  <2>6. Cardinality(Name(disk, i)) <= disk.nlink[i] + 1
    BY <1>10, <2>2, <2>5 DEF LinksCover
  <2> QED
    BY <1>10, <2>4, <2>5, <2>6 DEF LinksCover
<1>17. OneName(i)'
  <2> SUFFICES ASSUME disk.kind[i] = "dir" PROVE \A e, f \in Name(disk', i) : e = f
    BY <1>8 DEF OneName, Edited
  <2>1. PICK u \in Threads : TwoNames(u, i)
    BY <1>5, <1>6, <1>7 DEF Inodes, OneName
  <2>2. PICK k \in Names : Name(disk, i) \subseteq {<<th[u].p, th[u].n>>, <<th[u].q, k>>}
    BY <2>1 DEF TwoNames
  <2>3. th[u].p \in th[u].held /\ th[u].q \in th[u].held
    BY <2>1 DEF TwoNames, Agents, Agent, Mover
  <2>4. p = th[u].p \/ p = th[u].q
    BY <1>7, <2>2
  <2>5. u = t
    BY <1>12, <2>3, <2>4
  <2> QED
    BY <1>2, <1>10, <2>2, <2>5
<1>18. Agent(t)'
  <2>1. CASE r = Idle
    BY <1>14, <2>1, IdleAgent
  <2>2. CASE r.pc = "rstat" /\ Same(r, th[t])
    BY <1>2, <1>3, <1>5, <1>14, <2>2
    DEF StepTo, Same, Agent, Steps, Dropper, Linker, Mover, Moving, Creator, Deleter, Dropping, Creating, Deleting
  <2> QED
    BY <1>14, <2>1, <2>2
<1>19. r.pc \notin Deleting \cup {"lmark", "dmark", "nlink"} /\ r.op # "umount" /\ r.op # "new"
  BY <1>14 DEF Deleting
<1>20. /\ Edited(p, n, 0, i) /\ phase' = "up" /\ Name(disk', i) # {} /\ th[t].i = i
       /\ th[t].pc \in {"idle", "entry", "rmold"} /\ th[t].pc # "entry"
  BY <1>1, <1>2, <1>4, <1>8, <1>13
<1>21. /\ StepTo(t, r) /\ r.held \subseteq th[t].held
       /\ r.op # "new" /\ r.pc # "dmark" /\ r.pc # "nlink" /\ r.pc \notin Deleting \cup {"lmark"} /\ r.op # "umount"
  BY <1>14, <1>19
<1> QED
  BY <1>1, <1>4, <1>5, <1>9, <1>11, <1>12, <1>15, <1>16, <1>17, <1>18, <1>20, <1>21, EditStep

-----------------------------------------------------------------------------
(***************************************************************************)
(* The theorems.                                                           *)
(***************************************************************************)
(* The volume of Init: inode 2 in the root, inode 3 in inode 2.            *)
LEMMA InitFields ==
  ASSUME Init
  PROVE  \E sub \in Names :
           /\ \A d \in Ino, n \in Names : disk.ent[d][n] = IF d <= 2 /\ n = sub THEN d + 1 ELSE 0
           /\ \A i \in Ino :
                /\ disk.kind[i] = IF i <= 2 THEN "dir" ELSE IF i = 3 THEN "file" ELSE "none"
                /\ disk.loc[i] = IF i <= 3 THEN "meta" ELSE "none"
                /\ disk.sb[i] = IF i <= 3 THEN "live" ELSE "free"
                /\ disk.nlink[i] = IF i = 1 THEN 3 ELSE IF i = 2 THEN 2 ELSE IF i = 3 THEN 1 ELSE 0
                /\ disk.kids[i] = IF i <= 2 THEN 1 ELSE 0
           /\ disk.mark = {}
           /\ Name(disk, 2) = {<<1, sub>>} /\ Name(disk, 3) = {<<2, sub>>}
           /\ \A i \in Ino \ {2, 3} : Name(disk, i) = {}
           /\ IsDisk(disk)
<1>1. PICK sub \in Names : sub = CHOOSE n \in Names : TRUE
  BY NamespaceAssumption
<1>2. PICK e, kd, lc, sb, nl, ks :
        /\ e = [d \in Ino |-> [n \in Names |-> IF d <= 2 /\ n = sub THEN d + 1 ELSE 0]]
        /\ kd = [i \in Ino |-> CASE i <= 2 -> "dir" [] i = 3 -> "file" [] OTHER -> "none"]
        /\ lc = [i \in Ino |-> IF i <= 3 THEN "meta" ELSE "none"]
        /\ sb = [i \in Ino |-> IF i <= 3 THEN "live" ELSE "free"]
        /\ nl = [i \in Ino |-> CASE i = 1 -> 3 [] i = 2 -> 2 [] i = 3 -> 1 [] OTHER -> 0]
        /\ ks = [i \in Ino |-> IF i <= 2 THEN 1 ELSE 0]
  OBVIOUS
<1>3. PICK up, par, ds : disk = [ent |-> e, kind |-> kd, loc |-> lc, sb |-> sb, nlink |-> nl, kids |-> ks,
                                 up |-> up, par |-> par, dstat |-> ds, mark |-> {}, cloud |-> {}]
  BY <1>1, <1>2 DEF Init
<1>4. \A i \in Ino : i \in Int /\ i >= 1 /\ i <= MaxIno /\ 3 <= MaxIno
  BY NamespaceAssumption DEF Ino
<1>5. \A d \in Ino : d <= 2 => d + 1 \in Ino0
  BY NamespaceAssumption DEF Ino, Ino0
<1>6. e \in [Ino -> [Names -> Ino0]]
  BY <1>2, <1>5, Numbers
<1>7. /\ kd \in [Ino -> Kinds \cup {"none"}] /\ lc \in [Ino -> {"none", "meta", "todel"}]
      /\ sb \in [Ino -> {"free", "live", "todel", "queued"}]
      /\ nl \in [Ino -> Int] /\ ks \in [Ino -> Int]
  BY <1>2 DEF Kinds
<1>8. IsDisk(disk)
  BY <1>3, <1>6, <1>7 DEF IsDisk, DiskRec
<1>9. \A d \in Ino, n \in Names : disk.ent[d][n] = IF d <= 2 /\ n = sub THEN d + 1 ELSE 0
  BY <1>2, <1>3
<1>10. \A i \in Ino :
         /\ disk.kind[i] = IF i <= 2 THEN "dir" ELSE IF i = 3 THEN "file" ELSE "none"
         /\ disk.loc[i] = IF i <= 3 THEN "meta" ELSE "none"
         /\ disk.sb[i] = IF i <= 3 THEN "live" ELSE "free"
         /\ disk.nlink[i] = IF i = 1 THEN 3 ELSE IF i = 2 THEN 2 ELSE IF i = 3 THEN 1 ELSE 0
         /\ disk.kids[i] = IF i <= 2 THEN 1 ELSE 0
  BY <1>2, <1>3, <1>4
<1>11. \A i \in Ino, e1 \in Ino, n \in Names :
         disk.ent[e1][n] = i <=> n = sub /\ ((i = 2 /\ e1 = 1) \/ (i = 3 /\ e1 = 2))
  BY <1>4, <1>9
<1>12. \A i \in Ino \ {2, 3} : Name(disk, i) = {}
  BY <1>11 DEF Name
<1>13. \A i \in Ino, x \in Ino : (i = 2 /\ x = 1) \/ (i = 3 /\ x = 2) => Name(disk, i) = {<<x, sub>>}
  <2> SUFFICES ASSUME NEW i \in Ino, NEW x \in Ino, (i = 2 /\ x = 1) \/ (i = 3 /\ x = 2)
               PROVE  Name(disk, i) = {<<x, sub>>}
    OBVIOUS
  <2>1. \A y \in Name(disk, i) : y = <<x, sub>>
    BY <1>11 DEF Name
  <2>2. <<x, sub>> \in Name(disk, i)
    BY <1>11 DEF Name
  <2> QED
    BY <2>1, <2>2
<1>14. 1 \in Ino /\ 2 \in Ino /\ 3 \in Ino
  BY NamespaceAssumption DEF Ino
<1>15. disk.mark = {}
  BY <1>3
<1> QED
  BY <1>8, <1>9, <1>10, <1>12, <1>13, <1>14, <1>15

LEMMA CoreInit ==
  ASSUME Init
  PROVE  Core
<1> USE DEF Core
<1>1. PICK sub \in Names :
        /\ \A d \in Ino, n \in Names : disk.ent[d][n] = IF d <= 2 /\ n = sub THEN d + 1 ELSE 0
        /\ \A i \in Ino :
             /\ disk.kind[i] = IF i <= 2 THEN "dir" ELSE IF i = 3 THEN "file" ELSE "none"
             /\ disk.loc[i] = IF i <= 3 THEN "meta" ELSE "none"
             /\ disk.sb[i] = IF i <= 3 THEN "live" ELSE "free"
             /\ disk.nlink[i] = IF i = 1 THEN 3 ELSE IF i = 2 THEN 2 ELSE IF i = 3 THEN 1 ELSE 0
             /\ disk.kids[i] = IF i <= 2 THEN 1 ELSE 0
        /\ disk.mark = {}
        /\ Name(disk, 2) = {<<1, sub>>} /\ Name(disk, 3) = {<<2, sub>>}
        /\ \A i \in Ino \ {2, 3} : Name(disk, i) = {}
        /\ IsDisk(disk)
  BY InitFields
<1>2. 1 \in Ino /\ 2 \in Ino /\ 3 \in Ino /\ \A i \in Ino : i \in Int /\ i >= 1
  BY NamespaceAssumption DEF Ino
<1>4. /\ lut \in [Ino -> NodeRec] /\ \A i \in Ino : ~lut[i].del
      /\ \A i \in Ino : lut[i].cnt = IF i = 2 \/ i = 3 THEN 1 ELSE 0
  BY <1>2 DEF Init, NoNodes, NodeRec
<1>5. /\ kernel \in KernelRec
      /\ \A i \in Ino : kernel.kn[i] = (IF i = 2 \/ i = 3 THEN 1 ELSE 0) /\ kernel.fp[i] = 0
  BY <1>2 DEF Init, NoKernel, KernelRec
<1>6. th = [t \in Threads |-> Idle] /\ phase = "up" /\ \A t \in Threads : th[t] = Idle
  BY DEF Init
<1>7. \A d \in Ino : Kids(d) = IF d <= 2 THEN {sub} ELSE {}
  <2> SUFFICES ASSUME NEW d \in Ino PROVE Kids(d) = IF d <= 2 THEN {sub} ELSE {}
    OBVIOUS
  <2>1. \A n \in Names : disk.ent[d][n] # 0 <=> d <= 2 /\ n = sub
    BY <1>1, <1>2
  <2> QED
    BY <2>1 DEF Kids, KidsOf
<1>8. Types
  BY <1>1, <1>4, <1>5, <1>6, IdleFields DEF Types
<1>9. Exclusive /\ Apart
  BY <1>6, IdleFields DEF Exclusive, Apart, Claims, Deleting
<1>10. Root
  BY <1>1, <1>2, <1>5 DEF Root
<1>11. Unmounting
  BY <1>6, IdleFields DEF Unmounting
<1>12. Unlinked
  BY <1>4, <1>6, IdleFields DEF Unlinked, Doomed, Deleting
<1>13. Agents
  BY <1>6, IdleFields
  DEF Agents, Agent, Steps, Dropper, Linker, Mover, Moving, Creator, Deleter, Dropping, Deleting
<1>14. \A i \in Ino : Known(i)
  BY <1>1, <1>2, <1>4, <1>5, <1>6 DEF Known
<1>15. \A i \in Ino : Holds(i)
  <2>1. Cardinality({}) = 0 /\ Cardinality({sub}) = 1
    BY FS_EmptySet, FS_Singleton
  <2>2. \A i \in Ino : disk.kids[i] = Cardinality(Kids(i))
    BY <1>1, <1>7, <2>1
  <2>3. \A i \in Ino : Kids(i) # {} => i <= 2
    BY <1>7
  <2> QED
    BY <1>1, <1>2, <2>2, <2>3 DEF Holds
<1>16. \A i \in Ino : LinksCover(i)
  <2>1. \A i \in Ino : disk.kind[i] \in {"file", "lnk"} => i = 3
    BY <1>1, <1>2
  <2>2. Cardinality(Name(disk, 3)) = 1
    <3>1. Cardinality({<<2, sub>>}) = 1
      BY FS_Singleton
    <3> QED
      BY <1>1, <3>1
  <2>9. disk.nlink[3] = 1
    BY <1>1, <1>2
  <2>3. ~BeingDropped(3)
    BY <1>6, IdleFields DEF BeingDropped
  <2> QED
    BY <2>1, <2>2, <2>9, <2>3 DEF LinksCover
<1>17. \A i \in Ino : OneName(i)
  BY <1>1 DEF OneName
<1>18. \A i \in Ino : Alive(i) /\ Followed(i)
  <2>1. \A i \in Ino : Name(disk, i) # {} => i = 2 \/ i = 3
    BY <1>1
  <2> QED
    BY <1>1, <1>2, <2>1 DEF Alive, Followed
<1> QED
  BY <1>8, <1>9, <1>10, <1>11, <1>12, <1>13, <1>14, <1>15, <1>16, <1>17, <1>18 DEF Inodes

(* A step without a crash, of any thread, of the kernel or of the sync.    *)
LEMMA HandlerKeeps ==
  ASSUME Core, NEW t \in Threads, Handler(t)
  PROVE  Core'
BY AddEntryKeeps, SelfMetaKeeps, NewDoneKeeps, DecreaseNlinkKeeps, MarkDiskKeeps, MarkLookupKeeps,
   DropParentKeeps, RemoveOldNameKeeps, ReadMovedStatKeeps, MoveParentKeeps, DeleteMetaKeeps, ToDeleteKeeps,
   DeleteFileKeeps, FreeNumberKeeps, ClearMarkKeeps, NextMarkedKeeps, LoopDoneKeeps
DEF Handler

(* The first step of each request.                                         *)
LEMMA RequestKeeps ==
  ASSUME Core, NEW t \in Threads, Request(t)
  PROVE  Core'
<1>1. "file" \in Kinds /\ "dir" \in Kinds /\ "lnk" \in Kinds
  BY DEF Kinds
<1>2. ASSUME NEW p \in Ino, NEW n \in Names,
             hfuse_ll_mknod(t, p, n) \/ hfuse_ll_create(t, p, n) \/ hfuse_ll_mkdir(t, p, n)
               \/ symlink_internal(t, p, n)
      PROVE  Core'
  BY <1>1, <1>2, NewInodeKeeps DEF hfuse_ll_mknod, hfuse_ll_create, hfuse_ll_mkdir, symlink_internal
<1>3. ASSUME NEW p \in Ino, NEW n \in Names,
             hfuse_ll_lookup(t, p, n) \/ hfuse_ll_unlink(t, p, n) \/ hfuse_ll_rmdir(t, p, n)
      PROVE  Core'
  BY <1>3, LookupKeeps, UnlinkKeeps, RmdirKeeps
<1>4. ASSUME NEW p \in Ino, NEW q \in Ino, NEW n \in Names, NEW m \in Names, hfuse_ll_rename(t, p, n, q, m)
      PROVE  Core'
  BY <1>4, RenameKeeps
<1>5. ASSUME NEW i \in Ino, NEW p \in Ino, NEW n \in Names, hfuse_ll_link(t, i, p, n)
      PROVE  Core'
  BY <1>5, LinkKeeps
<1>6. ASSUME NEW i \in Ino, hfuse_ll_forget(t, i)
      PROVE  Core'
  BY <1>6, ForgetKeeps
<1> QED
  BY <1>2, <1>3, <1>4, <1>5, <1>6 DEF Request

(* No step after a crash is without one: the count does not come back.     *)
LEMMA CrashCount ==
  ASSUME IsLeft(left), [Next]_vars
  PROVE  IsLeft(left') /\ (left'.crash = left.crash \/ (Crash /\ left'.crash = left.crash - 1))
<1>1. \/ UNCHANGED left
      \/ Spend
      \/ \E x, y : left' = [left EXCEPT !.ops = x, !.stale = y]
      \/ \E x, y : left' = [left EXCEPT !.ops = x, !.umount = y]
      \/ Crash
  <2>1. CASE \E t \in Threads : Handler(t)
    BY <2>1 DEF Handler, AddEntry, SelfMeta, NewDone, decrease_nlink_inode_file, MarkDisk, MarkLookup,
       DropParent, RemoveOldName, ReadMovedStat, MoveParent, DeleteMeta, ToDelete, DeleteFile, FreeNumber,
       ClearMark, NextMarked, LoopDone
  <2>2. ASSUME NEW t \in Threads, NEW p \in Ino, NEW n \in Names, NEW k, NewInode(t, p, n, k)
        PROVE  \E x, y : left' = [left EXCEPT !.ops = x, !.stale = y]
    BY <2>2 DEF NewInode
  <2>3. ASSUME NEW t \in Threads, Request(t)
        PROVE  UNCHANGED left \/ Spend \/ \E x, y : left' = [left EXCEPT !.ops = x, !.stale = y]
    <3>1. ASSUME NEW p \in Ino, NEW n \in Names,
                 hfuse_ll_mknod(t, p, n) \/ hfuse_ll_create(t, p, n) \/ hfuse_ll_mkdir(t, p, n)
                   \/ symlink_internal(t, p, n)
          PROVE  \E x, y : left' = [left EXCEPT !.ops = x, !.stale = y]
      BY <2>2, <3>1 DEF hfuse_ll_mknod, hfuse_ll_create, hfuse_ll_mkdir, symlink_internal
    <3>2. ASSUME NEW p \in Ino, NEW n \in Names,
                 hfuse_ll_lookup(t, p, n) \/ hfuse_ll_unlink(t, p, n) \/ hfuse_ll_rmdir(t, p, n)
          PROVE  UNCHANGED left \/ Spend
      BY <3>2 DEF hfuse_ll_lookup, hfuse_ll_unlink, hfuse_ll_rmdir
    <3>3. ASSUME NEW p \in Ino, NEW q \in Ino, NEW n \in Names, NEW m \in Names, hfuse_ll_rename(t, p, n, q, m)
          PROVE  Spend
      BY <3>3 DEF hfuse_ll_rename
    <3>4. ASSUME NEW i \in Ino, NEW p \in Ino, NEW n \in Names, hfuse_ll_link(t, i, p, n)
          PROVE  Spend
      BY <3>4 DEF hfuse_ll_link
    <3>5. ASSUME NEW i \in Ino, hfuse_ll_forget(t, i)
          PROVE  UNCHANGED left
      BY <3>5 DEF hfuse_ll_forget
    <3> QED
      BY <2>3, <3>1, <3>2, <3>3, <3>4, <3>5 DEF Request
  <2>4. CASE \E t \in Threads : lookup_destroy(t) \/ startup_finish_delete(t)
    BY <2>4 DEF lookup_destroy, startup_finish_delete
  <2>5. CASE \E i \in Ino : Evict(i) \/ dsync_finished(i) \/ uploaded(i)
    BY <2>5 DEF Evict, dsync_finished, uploaded
  <2>6. CASE UNCHANGED vars
    BY <2>6 DEF vars
  <2> QED
    BY <2>1, <2>3, <2>4, <2>5, <2>6 DEF Next
<1>2. CASE UNCHANGED left
  BY <1>2
<1>3. ASSUME NEW x, NEW y, left' = [left EXCEPT !.ops = x, !.stale = y]
      PROVE  IsLeft(left') /\ left'.crash = left.crash
  BY <1>3 DEF IsLeft
<1>4. ASSUME NEW x, NEW y, left' = [left EXCEPT !.ops = x, !.umount = y] \/ left' = [left EXCEPT !.ops = x]
      PROVE  IsLeft(left') /\ left'.crash = left.crash
  BY <1>4 DEF IsLeft
<1>5. CASE Crash
  <2>1. PICK x : left' = [left EXCEPT !.ops = x, !.crash = left.crash - 1]
    BY <1>5 DEF Crash
  <2>2. PICK y \in Int : y = left.crash - 1
    BY DEF IsLeft
  <2>3. left' = [left EXCEPT !.ops = x, !.crash = y]
    BY <2>1, <2>2
  <2>4. IsLeft(left') /\ left'.crash = y
    BY <2>3 DEF IsLeft
  <2> QED
    BY <1>5, <2>2, <2>4
<1>6. CASE Spend
  <2>1. PICK x : left' = [left EXCEPT !.ops = x]
    BY <1>6 DEF Spend
  <2> QED
    BY <1>4, <2>1
<1> QED
  BY <1>1, <1>2, <1>3, <1>4, <1>5, <1>6

(* Every step but a crash keeps the invariant; the clean-up at start only  *)
(* follows a crash.                                                        *)
LEMMA CoreStep ==
  ASSUME Core, Next, ~Crash
  PROVE  Core'
<1>1. ~\E t \in Threads : startup_finish_delete(t)
  BY DEF Core, Types, startup_finish_delete
<1>2. CASE \E t \in Threads : Handler(t) \/ Request(t)
  BY <1>2, HandlerKeeps, RequestKeeps
<1>3. CASE \E t \in Threads : lookup_destroy(t)
  BY <1>3, LookupDestroyKeeps
<1>4. CASE \E i \in Ino : Evict(i) \/ dsync_finished(i) \/ uploaded(i)
  BY <1>4, EvictKeeps, DsyncFinishedKeeps, UploadedKeeps
<1> QED
  BY <1>1, <1>2, <1>3, <1>4 DEF Next

(* The invariant speaks of no other variable.                              *)
LEMMA CoreStutter ==
  ASSUME Core, UNCHANGED vars
  PROVE  Core'
<1>1. disk' = disk /\ lut' = lut /\ kernel' = kernel /\ th' = th /\ phase' = phase
  BY DEF vars
<1>2. Types' /\ Exclusive' /\ Apart' /\ Root'
  BY <1>1 DEF Core, Types, Exclusive, Apart, Claims, Root
<1>3. Unmounting' /\ Unlinked'
  BY <1>1 DEF Core, Unmounting, Destroyer, Unlinked, Doomed, Detached, Kids
<1>4. Agents'
  BY <1>1 DEF Core, Agents, Agent, Steps, Dropper, Linker, Mover, Moving, Creator, Deleter, Kids
<1>5. Inodes'
  BY <1>1 DEF Core, Inodes, Known, Holds, Kids, LinksCover, BeingMade, BeingMoved, BeingDropped, Moving,
     OneName, TwoNames, Alive, Followed
<1> QED
  BY <1>2, <1>3, <1>4, <1>5 DEF Core

(* The inductive invariant.                                                *)
LEMMA NamespaceInvariant == Spec => []IInv
<1>1. Init => IInv
  <2> SUFFICES ASSUME Init PROVE IInv
    OBVIOUS
  <2>1. IsLeft(left) /\ left.crash <= MaxCrash
    BY NamespaceAssumption DEF Init, IsLeft
  <2> QED
    BY <2>1, CoreInit DEF IInv
<1>2. IInv /\ [Next]_vars => IInv'
  <2> SUFFICES ASSUME IInv, [Next]_vars PROVE IInv'
    OBVIOUS
  <2>1. IsLeft(left') /\ (left'.crash = left.crash \/ (Crash /\ left'.crash = left.crash - 1))
    BY CrashCount DEF IInv
  <2>2. left.crash \in Int /\ MaxCrash \in Int /\ left.crash <= MaxCrash
    BY NamespaceAssumption DEF IInv, IsLeft
  <2>3. CASE Crash
    <3>1. left'.crash = left.crash - 1
      BY <2>3 DEF Crash, IInv, IsLeft
    <3> QED
      BY <2>1, <2>2, <3>1 DEF IInv, NoCrash
  <2>4. CASE ~Crash
    <3>1. left'.crash = left.crash
      BY <2>1, <2>4
    <3>2. NoCrash => Core'
      BY <2>4, CoreStep, CoreStutter DEF IInv
    <3> QED
      BY <2>1, <2>2, <3>1, <3>2 DEF IInv, NoCrash
  <2> QED
    BY <2>3, <2>4
<1> QED
  BY <1>1, <1>2, PTL DEF Spec

(* However the steps of creations, links, unlinks, removals, renames, late *)
(* forgets, unmounts and deletions interleave, without a crash no          *)
(* directory entry names an inode that is marked for deletion, being       *)
(* deleted or reclaimed.                                                   *)
THEOREM NamespaceNamedLives == Spec => []NamedLives
<1>1. IInv => NamedLives
  <2> SUFFICES ASSUME IInv, NoCrash, NEW p \in Ino, NEW n \in Names, NEW i, i = disk.ent[p][n], i # 0
               PROVE  /\ disk.sb[i] = "live"
                      /\ i \in disk.mark => \E t \in Threads : th[t].i = i /\ At(t, "clear")
                      /\ disk.loc[i] # "meta" => \E t \in Threads : th[t].i = i /\ At(t, "self")
    BY DEF NamedLives
  <2>1. Core
    BY DEF IInv
  <2>2. i \in Ino
    BY <2>1, Numbers DEF Core, Types, IsDisk, DiskRec
  <2>3. <<p, n>> \in Name(disk, i)
    BY DEF Name
  <2> QED
    BY <2>1, <2>2, <2>3 DEF Core, Inodes, Alive, At
<1> QED
  BY <1>1, NamespaceInvariant, PTL

(* Without a crash every inode marked on disk is marked in its lookup node *)
(* too, or a thread is between the two marks or in the deletion: the last  *)
(* forget, or the unmount, deletes it.                                     *)
THEOREM NamespaceNoLostDelete == Spec => []NoLostDelete
<1>1. IInv => NoLostDelete
  <2> SUFFICES ASSUME IInv, NoCrash, NEW i \in disk.mark
               PROVE  \/ lut[i].cnt > 0 /\ lut[i].del
                      \/ \E t \in Threads : At(t, "lmark") /\ th[t].o = i
                      \/ \E t \in Threads : th[t].pc \in {"meta", "sbdel", "file", "free", "clear"} /\ th[t].i = i
    BY DEF NoLostDelete
  <2>1. Core
    BY DEF IInv
  <2>2. i \in Ino
    BY <2>1 DEF Core, Types, IsDisk, DiskRec
  <2> QED
    BY <2>1, <2>2 DEF Core, Inodes, Followed, Deleting, At
<1> QED
  BY <1>1, NamespaceInvariant, PTL
-----------------------------------------------------------------------------
(***************************************************************************)
(* The link counts.                                                        *)
(***************************************************************************)
(* The names of directories within a directory.                            *)
SubdirsOf(D, d) == {n \in Names : D.ent[d][n] # 0 /\ D.kind[D.ent[d][n]] = "dir"}

(* A directory has a link for each of these, its name and its ".".         *)
DirLinks(d) ==
  disk.kind[d] = "dir" /\ disk.loc[d] = "meta" =>
    disk.nlink[d] = 2 + Cardinality(SubdirsOf(disk, d))

(* A file has a link for each name, one more while a name has gone and the *)
(* count not yet, one less for the second name of a rename; the count of   *)
(* what is marked stays 1.                                                 *)
Due(i) == (IF BeingDropped(i) THEN 1 ELSE 0) - (IF BeingMoved(i) THEN 1 ELSE 0)
FileLinks(i) ==
  disk.kind[i] \in {"file", "lnk"} /\ disk.loc[i] = "meta" =>
    disk.nlink[i] = IF Doomed(i) THEN 1 ELSE Cardinality(Name(disk, i)) + Due(i)

(* Metadata is in place from the second half of a creation up to the first *)
(* step of a deletion.                                                     *)
InPlace(i) == disk.loc[i] = "meta" => disk.sb[i] = "live"
NotInPlace(t) ==
  th[t].pc \in {"entry", "self", "sbdel", "file", "free"} => disk.loc[th[t].i] # "meta"

(* While no number was reused under its old marker, the marker is there    *)
(* as long as the inode is marked in the lookup table or being deleted.    *)
Retires(t) == th[t].pc \in Deleting \cup {"clear"}
MarkedToo(i) ==
  lut[i].del /\ (phase = "up" \/ \E t \in Threads : i \in th[t].todo) => i \in disk.mark
HasMark(t) ==
  /\ th[t].pc = "lmark" => th[t].o \in disk.mark
  /\ Retires(t) => th[t].i \in disk.mark
  /\ th[t].pc = "clear" => disk.sb[th[t].i] \in {"free", "queued"}
OneRetires == \A t, u \in Threads : t # u /\ Retires(t) /\ Retires(u) => th[t].i # th[u].i

(* What lookup_destroy has passed by in the lookup table is gone.          *)
PassedBy(i) ==
  phase = "umount" /\ lut[i].del /\ disk.loc[i] = "meta" =>
    \E t \in Threads : i \in th[t].todo \/ (th[t].pc \in Deleting /\ th[t].i = i)

Links ==
  /\ \A i \in Ino : DirLinks(i) /\ FileLinks(i) /\ InPlace(i) /\ MarkedToo(i) /\ PassedBy(i)
  /\ \A t \in Threads : NotInPlace(t) /\ HasMark(t)
  /\ OneRetires

(* What a thread that is where h says has to do with inode i.              *)
Dooms(h, i) == (h.pc \in Deleting /\ h.i = i) \/ (h.pc \in {"dmark", "lmark"} /\ h.o = i)
Drops(h, i) == h.pc = "nlink" /\ h.o = i
Moves(h, i) == h.op = "rename" /\ h.pc \in Dropping \cup {"rmold"} /\ h.i = i

(* Nothing changes for the link count of i.                                *)
SameUse(i) ==
  (Doomed(i)' <=> Doomed(i)) /\ (BeingDropped(i)' <=> BeingDropped(i)) /\ (BeingMoved(i)' <=> BeingMoved(i))
SameFile(i) ==
  /\ Name(disk', i) = Name(disk, i) /\ disk'.nlink[i] = disk.nlink[i]
  /\ disk'.kind[i] = disk.kind[i] /\ disk'.loc[i] = disk.loc[i]

(* The step of a thread that has the same to do with i.                    *)
LEMMA SameUseBy ==
  ASSUME NEW t \in Threads, NEW r, StepTo(t, r), NEW i,
         lut'[i].del <=> lut[i].del,
         Dooms(r, i) <=> Dooms(th[t], i), Drops(r, i) <=> Drops(th[t], i), Moves(r, i) <=> Moves(th[t], i)
  PROVE  SameUse(i)
<1>1. BeingDropped(i)' <=> BeingDropped(i)
  BY DEF BeingDropped, StepTo, Drops
<1>2. BeingMoved(i)' <=> BeingMoved(i)
  BY DEF BeingMoved, Moving, StepTo, Moves
<1>3. \A u \in Threads : Dooms(th'[u], i) <=> Dooms(th[u], i)
  BY DEF StepTo
<1>4. Doomed(i) <=> lut[i].del \/ \E u \in Threads : Dooms(th[u], i)
  BY DEF Doomed, Dooms
<1>5. Doomed(i)' <=> lut'[i].del \/ \E u \in Threads : Dooms(th'[u], i)
  BY DEF Doomed, Dooms
<1>6. Doomed(i)' <=> Doomed(i)
  BY <1>3, <1>4, <1>5
<1> QED
  BY <1>1, <1>2, <1>6 DEF SameUse

(* The link count of i is still right.                                     *)
LEMMA FileLinksKeep ==
  ASSUME NEW i, FileLinks(i), SameUse(i), SameFile(i)
  PROVE  FileLinks(i)'
BY DEF FileLinks, Due, SameUse, SameFile

(* So is that of a directory when no name in it changes.                   *)
LEMMA SubdirsKeep ==
  ASSUME IsDisk(disk), NEW d \in Ino, \A n \in Names : disk'.ent[d][n] = disk.ent[d][n],
         \A i \in Ino : Name(disk, i) # {} => disk'.kind[i] = disk.kind[i]
  PROVE  SubdirsOf(disk', d) = SubdirsOf(disk, d)
<1>1. \A n \in Names : disk.ent[d][n] # 0 =>
        disk.ent[d][n] \in Ino /\ <<d, n>> \in Name(disk, disk.ent[d][n])
  BY Numbers DEF IsDisk, DiskRec, Name
<1>2. \A n \in Names : disk.ent[d][n] # 0 => disk'.kind[disk.ent[d][n]] = disk.kind[disk.ent[d][n]]
  BY <1>1
<1> QED
  BY <1>2 DEF SubdirsOf

(* The link count of a directory is still right.                           *)
LEMMA DirLinksKeep ==
  ASSUME IsDisk(disk), NEW d \in Ino, DirLinks(d), \A n \in Names : disk'.ent[d][n] = disk.ent[d][n],
         \A i \in Ino : Name(disk, i) # {} => disk'.kind[i] = disk.kind[i],
         disk'.kind[d] = disk.kind[d], disk'.loc[d] = disk.loc[d], disk'.nlink[d] = disk.nlink[d]
  PROVE  DirLinks(d)'
BY SubdirsKeep DEF DirLinks

(* A step that leaves the tree alone while the volume is mounted.          *)
LEMMA TreeLinks ==
  ASSUME Core, Links, SameTree(disk, disk'), phase = "up", phase' = "up",
         \A i \in Ino : SameUse(i),
         \A u \in Threads : HasMark(u)' /\ NotInPlace(u)', OneRetires',
         \A i \in Ino : lut'[i].del => lut[i].del \/ i \in disk.mark
  PROVE  Links'
<1>1. IsDisk(disk) /\ disk'.ent = disk.ent /\ disk'.kind = disk.kind /\ disk'.loc = disk.loc
      /\ disk'.nlink = disk.nlink /\ disk'.sb = disk.sb /\ disk'.mark = disk.mark
  BY DEF Core, Types, SameTree
<1>2. \A i \in Ino : DirLinks(i)'
  BY <1>1, DirLinksKeep DEF Links
<1>3. \A i \in Ino : FileLinks(i)'
  BY <1>1, FileLinksKeep DEF Links, SameFile, Name
<1>4. \A i \in Ino : InPlace(i)' /\ MarkedToo(i)' /\ PassedBy(i)'
  BY <1>1 DEF Links, InPlace, MarkedToo, PassedBy
<1> QED
  BY <1>2, <1>3, <1>4 DEF Links

(* A thread that neither makes nor deletes an inode afterwards.            *)
LEMMA IdlesOn ==
  ASSUME Links, SameTree(disk, disk'), NEW t \in Threads, NEW r, StepTo(t, r),
         r.pc \notin {"entry", "self", "lmark", "clear"} \cup Deleting
  PROVE  (\A u \in Threads : HasMark(u)' /\ NotInPlace(u)') /\ OneRetires'
<1>1. disk'.loc = disk.loc /\ disk'.sb = disk.sb /\ disk'.mark = disk.mark
  BY DEF SameTree
<1>2. th'[t] = r /\ \A u \in Threads \ {t} : th'[u] = th[u]
  BY DEF StepTo
<1>3. ~Retires(t)' /\ HasMark(t)' /\ NotInPlace(t)'
  BY <1>2 DEF Retires, HasMark, NotInPlace, Deleting
<1>4. \A u \in Threads \ {t} : HasMark(u)' /\ NotInPlace(u)' /\ (Retires(u)' <=> Retires(u))
  BY <1>1, <1>2 DEF Links, HasMark, NotInPlace, Retires
<1>5. OneRetires'
  BY <1>2, <1>3, <1>4 DEF Links, OneRetires
<1> QED
  BY <1>3, <1>4, <1>5

(* The steps that only keep the statistics and the parents up to date.     *)
LEMMA StatSteps ==
  ASSUME IsDisk(disk), NEW t \in Threads, DropParent(t) \/ MoveParent(t) \/ NewDone(t)
  PROVE  SameTree(disk, disk')
<1>1. CASE DropParent(t)
  <2>1. PICK D : D = lookup_delete_parent(disk, th[t].o, th[t].vp)
    OBVIOUS
  <2>2. SameTree(disk, D) /\ IsDisk(D)
    BY <2>1, ParentFields DEF SameTree
  <2>3. \/ disk' = update_dirstat_parent(D, th[t].vp, -1) \/ disk' = reset_dirstat_lookup(D, th[t].o)
        \/ disk' = D
    BY <1>1, <2>1 DEF DropParent
  <2>4. SameTree(D, disk') \/ disk' = D
    BY <2>2, <2>3, StatFields, ParentFields
  <2> QED
    BY <2>2, <2>4, SameTreeTrans
<1>2. CASE MoveParent(t)
  <2>1. PICK D, E : /\ D = lookup_replace_parent(disk, th[t].i, th[t].p, th[t].q)
                    /\ E = update_dirstat_parent(D, th[t].q, th[t].s)
    OBVIOUS
  <2>2. SameTree(disk, D) /\ IsDisk(D)
    BY <2>1, ParentFields DEF SameTree
  <2>3. SameTree(D, E) /\ IsDisk(E)
    BY <2>1, <2>2, StatFields DEF SameTree
  <2>4. disk' = update_dirstat_parent(E, th[t].p, -th[t].s)
    BY <1>2, <2>1 DEF MoveParent
  <2>5. SameTree(E, disk')
    BY <2>3, <2>4, StatFields
  <2> QED
    BY <2>2, <2>3, <2>5, SameTreeTrans
<1>3. CASE NewDone(t)
  <2>1. \/ disk' = update_dirstat_parent(disk, th[t].p, 1) \/ disk' = reset_dirstat_lookup(disk, th[t].i)
        \/ disk' = disk
    BY <1>3 DEF NewDone
  <2> QED
    BY <2>1, StatFields, ParentFields DEF SameTree
<1> QED
  BY <1>1, <1>2, <1>3

(* A thread that has nothing to do with any link count, before the step    *)
(* and after.                                                              *)
LEMMA IdleLinks ==
  ASSUME Core, Links, SameTree(disk, disk'), phase = "up", phase' = "up", NEW t \in Threads, NEW r, StepTo(t, r),
         \A i \in Ino : lut'[i].del <=> lut[i].del,
         \A i \in Ino : (Dooms(r, i) <=> Dooms(th[t], i)) /\ (Drops(r, i) <=> Drops(th[t], i))
                        /\ (Moves(r, i) <=> Moves(th[t], i)),
         r.pc \notin {"entry", "self", "lmark", "clear"} \cup Deleting
  PROVE  Links'
<1>1. \A i \in Ino : SameUse(i)
  BY SameUseBy
<1>2. (\A u \in Threads : HasMark(u)' /\ NotInPlace(u)') /\ OneRetires'
  BY IdlesOn
<1> QED
  BY <1>1, <1>2, TreeLinks

(* The mark in the lookup table is for what has its marker on disk.        *)
LEMMA MarkLookupLinks ==
  ASSUME Core, Links, NEW t \in Threads, MarkLookup(t)
  PROVE  Links'
<1> DEFINE o == th[t].o
<1>1. th[t].pc = "lmark" /\ disk' = disk /\ phase' = phase /\ lut' = lookup_markdelete(lut, o)
  BY DEF MarkLookup, At
<1>2. ThTypes /\ IsDisk(disk) /\ phase = "up" /\ o \in Ino /\ kernel.kn[o] > 0
  BY <1>1, DropFacts DEF Dropping
<1>3. PICK r : StepTo(t, r) /\ r.pc = "parent" /\ Same(r, th[t])
  BY <1>2, GotoStep DEF MarkLookup, PCs, Dropping
<1>4. lut[o].cnt > 0 /\ lut \in [Ino -> NodeRec]
  BY <1>2 DEF Core, Inodes, Known, Types, KernelRec
<1>5. \A j \in Ino : lut'[j].del <=> (lut[j].del \/ j = o)
  BY <1>1, <1>4 DEF lookup_markdelete, NodeRec
<1>6. SameTree(disk, disk') /\ o \in disk.mark
  BY <1>1, <1>2 DEF SameTree, Links, HasMark
<1>7. \A i \in Ino : SameUse(i)
  <2> SUFFICES ASSUME NEW i \in Ino PROVE SameUse(i)
    OBVIOUS
  <2>1. CASE i # o
    <3>1. lut'[i].del <=> lut[i].del
      BY <1>5, <2>1
    <3> QED
      BY <1>1, <1>3, <2>1, <3>1, SameUseBy DEF Same, Dooms, Drops, Moves, Deleting, Dropping
  <2>2. CASE i = o
    <3>1. Doomed(i) /\ Doomed(i)'
      BY <1>1, <1>5, <2>2 DEF Doomed
    <3>2. BeingDropped(i)' <=> BeingDropped(i)
      BY <1>1, <1>3 DEF BeingDropped, StepTo
    <3>3. BeingMoved(i)' <=> BeingMoved(i)
      BY <1>1, <1>3 DEF BeingMoved, Moving, StepTo, Same, Dropping
    <3> QED
      BY <3>1, <3>2, <3>3 DEF SameUse
  <2> QED
    BY <2>1, <2>2
<1>8. (\A u \in Threads : HasMark(u)' /\ NotInPlace(u)') /\ OneRetires'
  BY <1>3, <1>6, IdlesOn DEF Deleting
<1>9. \A i \in Ino : lut'[i].del => lut[i].del \/ i \in disk.mark
  BY <1>5, <1>6
<1> QED
  BY <1>1, <1>2, <1>6, <1>7, <1>8, <1>9, TreeLinks

(* The end of a removal, of a rename and of a creation.                    *)
LEMMA StatLinks ==
  ASSUME Core, Links, NEW t \in Threads, DropParent(t) \/ ReadMovedStat(t) \/ MoveParent(t) \/ NewDone(t)
  PROVE  Links'
<1>0. ThTypes /\ IsDisk(disk) /\ Agent(t) /\ lut \in [Ino -> NodeRec] /\ kernel \in KernelRec
  BY DEF Core, Types, ThTypes, Agents
<1>1. CASE DropParent(t)
  <2>1. th[t].pc = "parent" /\ lut' = lut /\ phase' = phase /\ phase = "up"
    BY <1>1, DropFacts DEF DropParent, At, Dropping
  <2>2. PICK r : /\ StepTo(t, r)
                 /\ \/ r = Idle /\ th[t].op # "rename"
                    \/ r.pc = "rmold" /\ Same(r, th[t])
    <3>1. CASE th[t].op = "rename"
      BY <1>0, <1>1, <3>1, GotoStep DEF DropParent, PCs
    <3>2. CASE th[t].op # "rename"
      BY <1>0, <1>1, <3>2, DoneStep DEF DropParent
    <3> QED
      BY <3>1, <3>2
  <2>3. r.pc \in {"idle", "rmold"}
    BY <2>2, IdleFields
  <2>4. \A i \in Ino : ~Dooms(r, i) /\ ~Dooms(th[t], i) /\ ~Drops(r, i) /\ ~Drops(th[t], i)
    BY <2>1, <2>3 DEF Dooms, Drops, Deleting
  <2>5. \A i \in Ino : Moves(r, i) <=> Moves(th[t], i)
    BY <2>1, <2>2, IdleFields DEF Moves, Same, Dropping
  <2>6. r.pc \notin {"entry", "self", "lmark", "clear"} \cup Deleting
    BY <2>3 DEF Deleting
  <2>7. SameTree(disk, disk')
    BY <1>0, <1>1, StatSteps
  <2> QED
    BY <2>1, <2>2, <2>4, <2>5, <2>6, <2>7, IdleLinks
<1>2. CASE ReadMovedStat(t)
  <2>1. th[t].pc = "rstat" /\ lut' = lut /\ phase' = phase /\ disk' = disk
    BY <1>2 DEF ReadMovedStat, At
  <2>2. th[t].op = "rename" /\ phase = "up"
    BY <1>0, <2>1, Mounted DEF Agent, Steps, Core
  <2>3. PICK v : th' = [th EXCEPT ![t].pc = "rpar", ![t].s = v]
    BY <1>2 DEF ReadMovedStat
  <2>4. PICK r : r = [th[t] EXCEPT !.pc = "rpar", !.s = v]
    OBVIOUS
  <2>5. r.pc = "rpar" /\ StepTo(t, r)
    BY <1>0, <2>3, <2>4 DEF ThTypes, IsThread, ThRec, StepTo
  <2>6. \A i \in Ino : /\ ~Dooms(r, i) /\ ~Dooms(th[t], i) /\ ~Drops(r, i) /\ ~Drops(th[t], i)
                       /\ ~Moves(r, i) /\ ~Moves(th[t], i)
    BY <2>1, <2>5 DEF Dooms, Drops, Deleting, Moves, Dropping
  <2>7. r.pc \notin {"entry", "self", "lmark", "clear"} \cup Deleting /\ SameTree(disk, disk')
    BY <1>0, <2>1, <2>5 DEF Deleting, SameTree
  <2> QED
    BY <2>1, <2>2, <2>5, <2>6, <2>7, IdleLinks
<1>3. CASE MoveParent(t) \/ NewDone(t)
  <2>1. th[t].pc \in {"rpar", "stat"} /\ phase' = phase /\ \A i \in Ino : lut'[i].del <=> lut[i].del
    <3>1. CASE MoveParent(t)
      BY <3>1 DEF MoveParent, At
    <3>2. CASE NewDone(t)
      <4>1. th[t].pc = "stat" /\ phase' = phase /\ lut' = lookup_increase(lut, th[t].i) /\ Reply(th[t].i)
        BY <3>2 DEF NewDone, At
      <4>2. th[t].i \in Ino
        BY <1>0, <4>1 DEF Agent, Steps, Creator, Linker
      <4> QED
        BY <1>0, <4>1, <4>2, IncreaseFields
    <3> QED
      BY <1>3, <3>1, <3>2
  <2>2. phase = "up"
    BY <1>0, <2>1, Mounted DEF Agent, Steps, Core
  <2>3. StepTo(t, Idle)
    BY <1>0, <1>3, DoneStep DEF MoveParent, NewDone
  <2>4. \A i \in Ino : /\ ~Dooms(Idle, i) /\ ~Dooms(th[t], i) /\ ~Drops(Idle, i) /\ ~Drops(th[t], i)
                       /\ ~Moves(Idle, i) /\ ~Moves(th[t], i)
    BY <2>1, IdleFields DEF Dooms, Drops, Deleting, Moves, Dropping
  <2>5. Idle.pc \notin {"entry", "self", "lmark", "clear"} \cup Deleting /\ SameTree(disk, disk')
    BY <1>0, <1>3, IdleFields, StatSteps DEF Deleting
  <2> QED
    BY <2>1, <2>2, <2>3, <2>4, <2>5, IdleLinks
<1> QED
  BY <1>1, <1>2, <1>3

(* What happens beside the handlers and leaves the tree alone.             *)
LEMMA StillLinks ==
  ASSUME Core, Links, SameTree(disk, disk'), phase' = phase, th' = th, \A i \in Ino : lut'[i].del <=> lut[i].del
  PROVE  Links'
<1>1. /\ IsDisk(disk) /\ disk'.ent = disk.ent /\ disk'.kind = disk.kind /\ disk'.loc = disk.loc
      /\ disk'.nlink = disk.nlink /\ disk'.sb = disk.sb /\ disk'.mark = disk.mark
  BY DEF Core, Types, SameTree
<1>2. \A i \in Ino : DirLinks(i)'
  BY <1>1, DirLinksKeep DEF Links
<1>3. \A i \in Ino : SameUse(i)
  BY DEF SameUse, Doomed, BeingDropped, BeingMoved, Moving
<1>4. \A i \in Ino : FileLinks(i)'
  BY <1>1, <1>3, FileLinksKeep DEF Links, SameFile, Name
<1>5. \A i \in Ino : InPlace(i)' /\ MarkedToo(i)' /\ PassedBy(i)'
  BY <1>1 DEF Links, InPlace, MarkedToo, PassedBy
<1>6. \A u \in Threads : HasMark(u)' /\ NotInPlace(u)' /\ (Retires(u)' <=> Retires(u))
  BY <1>1 DEF Links, HasMark, NotInPlace, Retires
<1>7. OneRetires'
  BY <1>6 DEF Links, OneRetires
<1> QED
  BY <1>2, <1>4, <1>5, <1>6, <1>7 DEF Links

(* A lookup, an eviction, an upload.                                       *)
LEMMA BesideLinks ==
  ASSUME Core, Links,
         \/ \E t \in Threads, p \in Ino, n \in Names : hfuse_ll_lookup(t, p, n)
         \/ \E i \in Ino : Evict(i) \/ uploaded(i)
         \/ UNCHANGED vars
  PROVE  Links'
<1>0. IsDisk(disk) /\ lut \in [Ino -> NodeRec] /\ kernel \in KernelRec
  BY DEF Core, Types
<1>1. ASSUME NEW t \in Threads, NEW p \in Ino, NEW n \in Names, hfuse_ll_lookup(t, p, n) PROVE Links'
  <2>1. PICK i : i = disk.ent[p][n]
    OBVIOUS
  <2>2. i # 0 /\ lut' = lookup_increase(lut, i) /\ Reply(i) /\ disk' = disk /\ th' = th /\ phase' = phase
    BY <1>1, <2>1 DEF hfuse_ll_lookup, lookup_dir
  <2>3. i \in Ino
    BY <1>0, <2>1, <2>2, Numbers DEF IsDisk, DiskRec
  <2>4. \A j \in Ino : lut'[j].del = lut[j].del
    BY <1>0, <2>2, <2>3, IncreaseFields
  <2>5. SameTree(disk, disk')
    BY <1>0, <2>2 DEF SameTree
  <2> QED
    BY <2>2, <2>4, <2>5, StillLinks
<1>2. ASSUME NEW i \in Ino, Evict(i) PROVE Links'
  BY <1>0, <1>2, StillLinks DEF Evict, SameTree
<1>3. ASSUME NEW i \in Ino, uploaded(i) PROVE Links'
  <2>1. SameTree(disk, disk')
    BY <1>0, <1>3 DEF uploaded, SameTree, IsDisk, DiskRec
  <2> QED
    BY <1>3, <2>1, StillLinks DEF uploaded
<1>4. CASE UNCHANGED vars
  BY <1>0, <1>4, StillLinks DEF vars, SameTree
<1> QED
  BY <1>1, <1>2, <1>3, <1>4

(* A thread that begins to delete what was marked and is still in place.   *)
LEMMA BeginsDeletion ==
  ASSUME Core, Links, NEW t \in Threads, NEW r, StepTo(t, r), NEW i \in Ino, r.pc = "meta", r.i = i,
         SameTree(disk, disk'), i \in disk.mark, disk.sb[i] = "live",
         \A u \in Threads \ {t} : th[u].pc \in Deleting => th[u].i # i
  PROVE  (\A u \in Threads : HasMark(u)' /\ NotInPlace(u)') /\ OneRetires'
<1>1. disk'.loc = disk.loc /\ disk'.sb = disk.sb /\ disk'.mark = disk.mark
  BY DEF SameTree
<1>2. th'[t] = r /\ \A u \in Threads \ {t} : th'[u] = th[u]
  BY DEF StepTo
<1>3. HasMark(t)' /\ NotInPlace(t)'
  BY <1>1, <1>2 DEF Retires, HasMark, NotInPlace
<1>4. \A u \in Threads \ {t} : HasMark(u)' /\ NotInPlace(u)' /\ (Retires(u)' <=> Retires(u))
  BY <1>1, <1>2 DEF Links, HasMark, NotInPlace, Retires
<1>5. \A u \in Threads \ {t} : Retires(u) => th[u].i # i
  BY DEF Links, HasMark, Retires
<1>6. OneRetires'
  BY <1>2, <1>4, <1>5 DEF Links, OneRetires
<1> QED
  BY <1>3, <1>4, <1>6

(* The last FORGET of a marked inode.                                      *)
LEMMA ForgetLinks ==
  ASSUME Core, Links, NEW t \in Threads, NEW i \in Ino, hfuse_ll_forget(t, i)
  PROVE  Links'
<1>1. ThTypes /\ IsDisk(disk) /\ lut \in [Ino -> NodeRec] /\ kernel \in KernelRec
  BY DEF Core, Types, ThTypes
<1>2. /\ th[t].pc = "idle" /\ phase = "up" /\ phase' = "up" /\ kernel.fp[i] > 0
      /\ lut' = lookup_decrease(lut, i, kernel.fp[i]) /\ disk' = disk
  BY DEF hfuse_ll_forget, At
<1>3. /\ kernel.kn[i] \in Nat /\ kernel.fp[i] \in Nat /\ disk.sb[i] = "live"
      /\ lut[i].cnt = kernel.kn[i] + kernel.fp[i]
  BY <1>1, <1>2 DEF Core, Inodes, Known, KernelRec
<1>4. SameTree(disk, disk')
  BY <1>1, <1>2 DEF SameTree
<1>5. CASE kernel.kn[i] > 0
  <2> DEFINE x == [lut[i] EXCEPT !.cnt = lut[i].cnt - kernel.fp[i]]
  <2>1. lut' = [lut EXCEPT ![i] = x]
    BY <1>2, <1>3, <1>5 DEF lookup_decrease
  <2>2. x.cnt = kernel.kn[i] /\ x.del = lut[i].del
    BY <1>1, <1>3 DEF NodeRec
  <2> HIDE DEF x
  <2>3. (\A j \in Ino : lut'[j].del <=> lut[j].del) /\ lut'[i].cnt > 0
    BY <1>1, <1>5, <2>1, <2>2
  <2>4. th' = th
    BY <1>2, <2>3 DEF hfuse_ll_forget
  <2> QED
    BY <1>2, <1>4, <2>3, <2>4, StillLinks
<1>6. CASE kernel.kn[i] = 0
  <2>1. lut' = [lut EXCEPT ![i] = [cnt |-> 0, del |-> FALSE]]
    BY <1>2, <1>3, <1>6 DEF lookup_decrease
  <2>2. lut'[i].cnt = 0 /\ lut'[i].del = FALSE /\ \A j \in Ino \ {i} : lut'[j] = lut[j]
    BY <1>1, <2>1
  <2>3. CASE lut[i].del
    <3> DEFINE r == [Idle EXCEPT !.pc = "meta", !.op = "forget", !.i = i]
    <3>1. th' = [th EXCEPT ![t] = r]
      BY <2>2, <2>3 DEF hfuse_ll_forget
    <3>2. r.pc = "meta" /\ r.op = "forget" /\ r.i = i
      BY DEF Idle
    <3> HIDE DEF r
    <3>3. StepTo(t, r)
      BY <1>1, <3>1 DEF StepTo, ThTypes
    <3>4. i \in disk.mark
      BY <1>2, <2>3 DEF Links, MarkedToo
    <3>5. \A u \in Threads : th[u].pc \in Deleting => th[u].i # i
      BY <1>2 DEF Core, Agents, Agent, Deleter
    <3>6. (\A u \in Threads : HasMark(u)' /\ NotInPlace(u)') /\ OneRetires'
      BY <1>3, <1>4, <3>2, <3>3, <3>4, <3>5, BeginsDeletion
    <3>7. \A j \in Ino : SameUse(j)
      <4> SUFFICES ASSUME NEW j \in Ino PROVE SameUse(j)
        OBVIOUS
      <4>1. CASE j # i
        BY <1>2, <2>2, <3>2, <3>3, <4>1, SameUseBy DEF Dooms, Drops, Moves, Dropping, Deleting
      <4>2. CASE j = i
        <5>1. Doomed(j) /\ Doomed(j)'
          BY <2>3, <3>2, <3>3, <4>2 DEF Doomed, StepTo, Deleting
        <5>2. BeingDropped(j)' <=> BeingDropped(j)
          BY <1>2, <3>2, <3>3 DEF BeingDropped, StepTo
        <5>3. BeingMoved(j)' <=> BeingMoved(j)
          BY <1>2, <3>2, <3>3 DEF BeingMoved, Moving, StepTo, Dropping
        <5> QED
          BY <5>1, <5>2, <5>3 DEF SameUse
      <4> QED
        BY <4>1, <4>2
    <3>8. \A j \in Ino : lut'[j].del => lut[j].del
      BY <2>2
    <3> QED
      BY <1>2, <1>4, <3>6, <3>7, <3>8, TreeLinks
  <2>4. CASE ~lut[i].del
    <3>1. th' = th /\ \A j \in Ino : lut'[j].del <=> lut[j].del
      BY <2>2, <2>4 DEF hfuse_ll_forget
    <3> QED
      BY <1>2, <1>4, <3>1, StillLinks
  <2> QED
    BY <2>3, <2>4
<1> QED
  BY <1>3, <1>5, <1>6

(* The parts of Links that a step leaves alone with the tree and the uses. *)
LEMMA SameLinks ==
  ASSUME Core, Links, SameTree(disk, disk'), \A i \in Ino : disk.loc[i] = "meta" => SameUse(i)
  PROVE  \A i \in Ino : DirLinks(i)' /\ FileLinks(i)' /\ InPlace(i)'
<1>1. /\ IsDisk(disk) /\ disk'.ent = disk.ent /\ disk'.kind = disk.kind /\ disk'.loc = disk.loc
      /\ disk'.nlink = disk.nlink /\ disk'.sb = disk.sb
  BY DEF Core, Types, SameTree
<1>2. \A i \in Ino : DirLinks(i)'
  BY <1>1, DirLinksKeep DEF Links
<1>3. \A i \in Ino : disk.loc[i] = "meta" => FileLinks(i)'
  BY <1>1, FileLinksKeep DEF Links, SameFile, Name
<1>4. \A i \in Ino : FileLinks(i)'
  BY <1>1, <1>3 DEF FileLinks
<1> QED
  BY <1>1, <1>2, <1>4 DEF Links, InPlace

(* The unmount begins: what is marked in the table is still to be passed.  *)
LEMMA LookupDestroyLinks ==
  ASSUME Core, Links, NEW t \in Threads, lookup_destroy(t)
  PROVE  Links'
<1> DEFINE r == [Idle EXCEPT !.pc = "next", !.op = "umount", !.todo = {i \in Ino : lut[i].cnt > 0}]
<1>1. /\ phase = "up" /\ phase' = "umount" /\ disk' = disk /\ lut' = lut
      /\ th' = [th EXCEPT ![t] = r] /\ th[t].pc = "idle"
  BY DEF lookup_destroy, At
<1>2. r.pc = "next" /\ r.op = "umount" /\ r.todo = {i \in Ino : lut[i].cnt > 0}
  BY DEF Idle
<1>3. ThTypes /\ IsDisk(disk) /\ lut \in [Ino -> NodeRec]
  BY DEF Core, Types, ThTypes
<1> HIDE DEF r
<1>4. StepTo(t, r) /\ SameTree(disk, disk')
  BY <1>1, <1>3 DEF StepTo, ThTypes, SameTree
<1>5. \A i \in Ino : SameUse(i)
  BY <1>1, <1>2, <1>4, SameUseBy DEF Dooms, Drops, Moves, Dropping, Deleting
<1>6. (\A u \in Threads : HasMark(u)' /\ NotInPlace(u)') /\ OneRetires'
  BY <1>2, <1>4, IdlesOn DEF Deleting
<1>7. \A i \in Ino : DirLinks(i)' /\ FileLinks(i)' /\ InPlace(i)'
  BY <1>4, <1>5, SameLinks
<1>8. \A i \in Ino : MarkedToo(i)'
  BY <1>1 DEF Links, MarkedToo
<1>9. \A i \in Ino : lut[i].del => i \in r.todo
  BY <1>2, <1>3 DEF Core, Inodes, Known, NodeRec
<1>10. \A i \in Ino : PassedBy(i)'
  BY <1>1, <1>4, <1>9 DEF PassedBy, StepTo
<1> QED
  BY <1>6, <1>7, <1>8, <1>10 DEF Links

(* The unmount passes an inode, or begins to delete it.                    *)
LEMMA NextMarkedLinks ==
  ASSUME Core, Links, NEW t \in Threads, NextMarked(t)
  PROVE  Links'
<1>1. th[t].pc = "next" /\ disk' = disk /\ lut' = lut /\ phase' = phase
  BY DEF NextMarked, At
<1>2. phase = "umount" /\ th[t].op = "umount" /\ Destroyer(t) /\ \A u \in Threads \ {t} : th[u] = Idle
  BY <1>1, Alone
<1>3. PICK i \in th[t].todo :
        th' = [th EXCEPT ![t].todo = @ \ {i}, ![t].i = i,
                         ![t].pc = IF i \in disk.mark THEN "meta" ELSE "next"]
  BY <1>2 DEF NextMarked, disk_checkdelete
<1>4. ThTypes /\ IsDisk(disk) /\ i \in Ino /\ IsThread(th[t])
  BY DEF Core, Types, ThTypes, IsThread, ThRec
<1> DEFINE pc == IF i \in disk.mark THEN "meta" ELSE "next"
           r == [th[t] EXCEPT !.todo = th[t].todo \ {i}, !.i = i, !.pc = pc]
<1>5. r.pc = pc /\ r.i = i /\ r.todo = th[t].todo \ {i} /\ r.op = "umount"
  BY <1>2, <1>4, ZenonT(60) DEF IsThread, ThRec
<1>6. th' = [th EXCEPT ![t] = r]
  BY <1>3, <1>4 DEF ThTypes
<1> HIDE DEF r
<1>7. StepTo(t, r) /\ SameTree(disk, disk')
  BY <1>1, <1>4, <1>6 DEF StepTo, ThTypes, SameTree
<1>8. (i \in disk.mark <=> lut[i].del) /\ disk.sb[i] = "live"
  <2>1. i \in disk.mark => lut[i].del
    BY <1>1, <1>2, <1>4, IdleFields DEF Core, Inodes, Followed, Deleting
  <2>2. lut[i].del => i \in disk.mark
    BY <1>4 DEF Links, MarkedToo
  <2> QED
    BY <1>2, <2>1, <2>2 DEF Destroyer
<1>9. \A u \in Threads : Idle.todo = {} /\ th[u].pc \notin Deleting
  BY <1>1, <1>2, IdleFields DEF Idle, Deleting
<1>10. \A j \in Ino : SameUse(j)
  <2> SUFFICES ASSUME NEW j \in Ino PROVE SameUse(j)
    OBVIOUS
  <2>1. BeingDropped(j)' <=> BeingDropped(j)
    BY <1>1, <1>5, <1>7 DEF BeingDropped, StepTo
  <2>2. BeingMoved(j)' <=> BeingMoved(j)
    BY <1>1, <1>5, <1>7 DEF BeingMoved, Moving, StepTo, Dropping
  <2>3. CASE lut[j].del
    BY <1>1, <2>1, <2>2, <2>3 DEF SameUse, Doomed
  <2>4. CASE ~lut[j].del
    <3>1. ~Dooms(r, j) /\ ~Dooms(th[t], j)
      BY <1>1, <1>5, <1>8, <2>4 DEF Dooms, Deleting
    <3>2. (Drops(r, j) <=> Drops(th[t], j)) /\ (Moves(r, j) <=> Moves(th[t], j))
      BY <1>1, <1>5 DEF Drops, Moves, Dropping
    <3> QED
      BY <1>1, <1>7, <3>1, <3>2, SameUseBy
  <2> QED
    BY <2>3, <2>4
<1>11. \A j \in Ino : DirLinks(j)' /\ FileLinks(j)' /\ InPlace(j)'
  BY <1>7, <1>10, SameLinks
<1>12. (\A u \in Threads : HasMark(u)' /\ NotInPlace(u)') /\ OneRetires'
  <2>1. CASE i \in disk.mark
    BY <1>4, <1>5, <1>7, <1>8, <1>9, <2>1, BeginsDeletion
  <2>2. CASE i \notin disk.mark
    BY <1>5, <1>7, <2>2, IdlesOn DEF Deleting
  <2> QED
    BY <2>1, <2>2
<1>13. \A j \in Ino : MarkedToo(j)'
  <2>1. \A j \in Ino, u \in Threads : j \in th'[u].todo => j \in th[u].todo
    BY <1>5, <1>7 DEF StepTo
  <2> QED
    BY <1>1, <1>2, <2>1 DEF Links, MarkedToo
<1>14. \A j \in Ino : PassedBy(j)'
  <2> SUFFICES ASSUME NEW j \in Ino, lut[j].del, disk.loc[j] = "meta"
               PROVE  \E u \in Threads : j \in th'[u].todo \/ (th'[u].pc \in Deleting /\ th'[u].i = j)
    BY <1>1 DEF PassedBy
  <2>1. j \in th[t].todo
    BY <1>2, <1>9 DEF Links, PassedBy
  <2>2. CASE j = i
    BY <1>5, <1>7, <1>8, <2>2 DEF StepTo, Deleting
  <2>3. CASE j # i
    BY <1>5, <1>7, <2>1, <2>3 DEF StepTo
  <2> QED
    BY <2>2, <2>3
<1> QED
  BY <1>11, <1>12, <1>13, <1>14 DEF Links

(* The unmount has passed them all.                                        *)
LEMMA LoopDoneLinks ==
  ASSUME Core, Links, NEW t \in Threads, LoopDone(t)
  PROVE  Links'
<1>1. /\ th[t].pc = "next" /\ th[t].todo = {} /\ disk' = disk /\ lut' = NoNodes /\ phase' = "up"
  BY DEF LoopDone, At
<1>2. phase = "umount" /\ \A u \in Threads \ {t} : th[u] = Idle
  BY <1>1, Alone
<1>3. ThTypes /\ IsDisk(disk)
  BY DEF Core, Types, ThTypes
<1>4. StepTo(t, Idle) /\ SameTree(disk, disk')
  BY <1>1, <1>3, DoneStep DEF LoopDone, SameTree
<1>5. \A j \in Ino : lut'[j].del = FALSE
  BY <1>1 DEF NoNodes
<1>6. \A u \in Threads : th[u].todo = {} /\ th[u].pc \notin Deleting
  <2>1. Idle.todo = {} /\ Idle.pc = "idle"
    BY DEF Idle
  <2>2. th[t].todo = {} /\ th[t].pc \notin Deleting
    BY <1>1 DEF Deleting
  <2>3. \A u \in Threads \ {t} : th[u].todo = {} /\ th[u].pc \notin Deleting
    BY <1>2, <2>1 DEF Deleting
  <2> QED
    BY <2>2, <2>3
<1>7. \A j \in Ino : disk.loc[j] = "meta" => ~lut[j].del
  BY <1>2, <1>6 DEF Links, PassedBy
<1>8. \A j \in Ino : disk.loc[j] = "meta" => SameUse(j)
  BY <1>1, <1>4, <1>5, <1>7, SameUseBy, IdleFields DEF Dooms, Drops, Moves, Dropping, Deleting
<1>9. \A j \in Ino : DirLinks(j)' /\ FileLinks(j)' /\ InPlace(j)'
  BY <1>4, <1>8, SameLinks
<1>10. (\A u \in Threads : HasMark(u)' /\ NotInPlace(u)') /\ OneRetires'
  BY <1>4, IdlesOn, IdleFields DEF Deleting
<1>11. \A j \in Ino : MarkedToo(j)' /\ PassedBy(j)'
  BY <1>5 DEF MarkedToo, PassedBy
<1> QED
  BY <1>9, <1>10, <1>11 DEF Links

(* A step of a deletion after which the metadata is not in place.          *)
LEMMA DeleteLinks ==
  ASSUME Core, Links, NEW t \in Threads, NEW r, StepTo(t, r),
         th[t].pc \in Deleting \cup {"clear"}, DeletionOf(th[t].i, disk, disk'),
         disk'.loc[th[t].i] # "meta", lut' = lut, phase' = phase,
         \/ r = Idle /\ th[t].op = "forget"
         \/ Same(r, th[t]) /\ r.pc \in Deleting \cup {"clear"} /\ th[t].i \in disk'.mark
         \/ Same(r, th[t]) /\ r.pc = "next",
         r.pc = "clear" => disk'.sb[th[t].i] \in {"free", "queued"}
  PROVE  Links'
<1> DEFINE i == th[t].i
<1>1. /\ ThTypes /\ IsDisk(disk) /\ i \in Ino /\ th[t].op \in {"forget", "umount"} /\ Retires(t)
      /\ th'[t] = r /\ \A u \in Threads \ {t} : th'[u] = th[u]
  BY DeletingFacts DEF StepTo, Retires
<1>2. Name(disk, i) = {} /\ (phase = "up" => ~lut[i].del)
  <2>1. Known(i) /\ Alive(i) /\ Agent(t) /\ kernel.kn[i] \in Nat /\ kernel.fp[i] \in Nat
    BY <1>1 DEF Core, Inodes, Agents, Types, KernelRec
  <2>2. CASE th[t].pc \in Deleting
    <3>1. Doomed(i)
      BY <2>2 DEF Doomed
    <3>2. Name(disk, i) = {}
      BY <1>1, <3>1 DEF Core, Unlinked, Detached
    <3> QED
      BY <2>1, <2>2, <3>2 DEF Known, Agent, Deleter
  <2>3. CASE th[t].pc = "clear"
    <3>1. disk.sb[i] # "live"
      BY <2>3 DEF Links, HasMark
    <3> QED
      BY <2>1, <3>1 DEF Known, Alive
  <2> QED
    BY <2>2, <2>3
<1>3. /\ \A j \in Ino \ {i} : /\ disk'.kind[j] = disk.kind[j] /\ disk'.sb[j] = disk.sb[j]
                              /\ disk'.loc[j] = disk.loc[j] /\ disk'.nlink[j] = disk.nlink[j]
                              /\ (j \in disk'.mark <=> j \in disk.mark)
      /\ disk'.ent = disk.ent
  BY <1>1 DEF DeletionOf
<1>4. \A j \in Ino : DirLinks(j)'
  <2> SUFFICES ASSUME NEW j \in Ino PROVE DirLinks(j)'
    OBVIOUS
  <2>1. CASE j = i
    BY <2>1 DEF DirLinks
  <2>2. CASE j # i
    <3>1. \A k \in Ino : Name(disk, k) # {} => disk'.kind[k] = disk.kind[k]
      BY <1>2, <1>3
    <3>2. DirLinks(j)
      BY DEF Links
    <3> QED
      BY <1>1, <1>3, <2>2, <3>1, <3>2, DirLinksKeep
  <2> QED
    BY <2>1, <2>2
<1>5. (r.pc \in Deleting \cup {"clear"} => r.i = i) /\ r.op \in {"", "forget", "umount"}
      /\ r.pc \in {"idle", "next", "clear"} \cup Deleting
  BY <1>1, IdleFields DEF Same, Deleting
<1>6. \A j \in Ino : FileLinks(j)'
  <2> SUFFICES ASSUME NEW j \in Ino PROVE FileLinks(j)'
    OBVIOUS
  <2>1. CASE j = i
    BY <2>1 DEF FileLinks
  <2>2. CASE j # i
    <3>1. ~Dooms(r, j) /\ ~Dooms(th[t], j)
      BY <1>5, <2>2 DEF Dooms, Deleting
    <3>2. ~Drops(r, j) /\ ~Drops(th[t], j) /\ ~Moves(r, j) /\ ~Moves(th[t], j)
      BY <1>1, <1>5 DEF Drops, Moves, Deleting
    <3>3. SameUse(j)
      BY <1>1, <3>1, <3>2, SameUseBy
    <3>4. SameFile(j)
      BY <1>3, <2>2 DEF SameFile, Name
    <3> QED
      BY <3>3, <3>4, FileLinksKeep DEF Links
  <2> QED
    BY <2>1, <2>2
<1>7. \A j \in Ino : InPlace(j)'
  BY <1>3 DEF Links, InPlace
<1>8. ASSUME phase = "umount"
      PROVE  th[t].op = "umount" /\ i \notin th[t].todo /\ \A u \in Threads \ {t} : th[u] = Idle
  <2>1. PICK w \in Threads : Destroyer(w)
    BY <1>8 DEF Core, Unmounting
  <2>2. w = t
    BY <2>1 DEF Destroyer, Deleting
  <2> QED
    BY <2>1, <2>2 DEF Destroyer, Core, Agents, Agent, Steps
<1>9. Idle.todo = {}
  BY DEF Idle
<1>10. r.todo = {} \/ r.todo = th[t].todo
  BY <1>9 DEF Same
<1>11. \A j \in Ino : MarkedToo(j)'
  <2> SUFFICES ASSUME NEW j \in Ino, lut[j].del, phase = "up" \/ \E u \in Threads : j \in th'[u].todo
               PROVE  j \in disk'.mark
    BY DEF MarkedToo
  <2>1. phase = "up" \/ \E u \in Threads : j \in th[u].todo
    BY <1>1, <1>10
  <2>2. j # i
    BY <1>1, <1>2, <1>8, <1>9, <2>1 DEF Core, Types
  <2> QED
    BY <1>3, <2>1, <2>2 DEF Links, MarkedToo
<1>12. \A j \in Ino : PassedBy(j)'
  <2> SUFFICES ASSUME NEW j \in Ino, phase = "umount", lut[j].del, disk'.loc[j] = "meta"
               PROVE  \E u \in Threads : j \in th'[u].todo \/ (th'[u].pc \in Deleting /\ th'[u].i = j)
    BY DEF PassedBy
  <2>1. j # i /\ disk.loc[j] = "meta"
    BY <1>3
  <2>2. PICK u \in Threads : j \in th[u].todo \/ (th[u].pc \in Deleting /\ th[u].i = j)
    BY <2>1 DEF Links, PassedBy
  <2>3. CASE u = t
    <3>1. r.todo = th[t].todo
      BY <1>8 DEF Same
    <3> QED
      BY <1>1, <2>1, <2>2, <2>3, <3>1
  <2>4. CASE u # t
    BY <1>1, <2>2, <2>4
  <2> QED
    BY <2>3, <2>4
<1>13. \A u \in Threads : NotInPlace(u)'
  <2>1. \A j \in Ino : disk'.loc[j] = "meta" => disk.loc[j] = "meta"
    BY <1>3
  <2>2. NotInPlace(t)'
    BY <1>1, <1>5 DEF NotInPlace, Deleting
  <2>3. ASSUME NEW u \in Threads \ {t} PROVE NotInPlace(u)'
    <3>1. th[u].pc \in {"entry", "self", "sbdel", "file", "free"} => th[u].i \in Ino
      BY DEF Core, Agents, Agent, Steps, Creator, Deleter, Deleting
    <3> QED
      BY <1>1, <2>1, <3>1 DEF Links, NotInPlace
  <2> QED
    BY <2>2, <2>3
<1>14. \A u \in Threads : HasMark(u)'
  <2>1. HasMark(t)'
    <3>1. r.pc # "lmark"
      BY <1>5 DEF Deleting
    <3>2. r.pc \in Deleting \cup {"clear"} => i \in disk'.mark
      BY IdleFields DEF Deleting
    <3> QED
      BY <1>1, <1>5, <3>1, <3>2 DEF HasMark, Retires
  <2>2. ASSUME NEW u \in Threads \ {t} PROVE HasMark(u)'
    <3>1. HasMark(u) /\ Agent(u) /\ th'[u] = th[u]
      BY <1>1 DEF Links, Core, Agents
    <3>2. Retires(u) => th[u].i \in Ino \ {i}
      BY <1>1, <3>1 DEF Links, OneRetires, Retires, Agent, Deleter
    <3>3. th[u].pc = "lmark" => th[u].o \in Ino \ {i}
      <4> SUFFICES ASSUME th[u].pc = "lmark" PROVE th[u].o \in Ino \ {i}
        OBVIOUS
      <4>1. th[u].o \in Ino /\ kernel.kn[th[u].o] > 0
        BY <3>1 DEF Agent, Dropper, Dropping
      <4>2. kernel.kn[i] = 0
        <5>1. Known(i) /\ kernel.kn[i] \in Nat /\ kernel.fp[i] \in Nat /\ Agent(t)
          BY <1>1 DEF Core, Inodes, Agents, Types, KernelRec
        <5>2. th[t].pc = "clear" => disk.sb[i] # "live"
          BY DEF Links, HasMark
        <5> QED
          BY <5>1, <5>2 DEF Known, Agent, Deleter
      <4> QED
        BY <4>1, <4>2
    <3> QED
      BY <1>3, <3>1, <3>2, <3>3 DEF HasMark, Retires
  <2> QED
    BY <2>1, <2>2
<1>15. OneRetires'
  <2>1. \A u \in Threads \ {t} : Retires(u)' => Retires(u) /\ th'[u].i # i
    BY <1>1 DEF Links, OneRetires, Retires
  <2>2. Retires(t)' => th'[t].i = i
    BY <1>1, <1>5 DEF Retires
  <2> QED
    BY <1>1, <2>1, <2>2 DEF Links, OneRetires
<1> QED
  BY <1>4, <1>6, <1>7, <1>11, <1>12, <1>13, <1>14, <1>15 DEF Links


(* The steps of a deletion.                                                *)
LEMMA DeletionLinks ==
  ASSUME Core, Links, NEW t \in Threads,
         DeleteMeta(t) \/ ToDelete(t) \/ DeleteFile(t) \/ FreeNumber(t) \/ ClearMark(t)
  PROVE  Links'
<1> DEFINE i == th[t].i
<1>1. th[t].pc \in Deleting \cup {"clear"} /\ lut' = lut /\ phase' = phase
  BY DEF DeleteMeta, ToDelete, DeleteFile, FreeNumber, ClearMark, At, Deleting
<1>2. /\ ThTypes /\ IsDisk(disk) /\ i \in Ino /\ th[t].op \in {"forget", "umount"}
      /\ i \in disk.mark
  BY <1>1, DeletingFacts DEF Links, HasMark, Retires
<1>3. th[t].pc # "meta" => disk.loc[i] # "meta"
  BY <1>1, <1>2 DEF Links, NotInPlace, HasMark, InPlace, Deleting
<1>4. ASSUME DeletionOf(i, disk, disk'), disk'.loc[i] # "meta", disk'.mark = disk.mark,
             NEW pc \in Deleting \cup {"clear"}, Goto(t, pc),
             pc = "clear" => disk'.sb[i] \in {"free", "queued"}
      PROVE  Links'
  <2>1. PICK r : StepTo(t, r) /\ r.pc = pc /\ Same(r, th[t])
    BY <1>2, <1>4, GotoStep DEF PCs
  <2> QED
    BY <1>1, <1>2, <1>4, <2>1, DeleteLinks
<1>5. ASSUME disk.loc[i] # "meta", disk' = disk_cleardelete(disk, i), After(t)
      PROVE  Links'
  <2>1. DeletionOf(i, disk, disk') /\ disk'.loc = disk.loc
    BY <1>2, <1>5, ClearFields
  <2>2. PICK r : /\ StepTo(t, r) /\ r.pc \in {"idle", "next"}
                 /\ \/ r = Idle /\ th[t].op = "forget"
                    \/ Same(r, th[t]) /\ th[t].op = "umount" /\ r.pc = "next"
    BY <1>2, <1>5, AfterStep
  <2> QED
    BY <1>1, <1>2, <1>5, <2>1, <2>2, DeleteLinks
<1>6. CASE DeleteMeta(t)
  <2>1. CASE disk.loc[i] = "meta"
    <3>1. Goto(t, "sbdel") /\ \E l \in {"none", "todel"} : disk' = [disk EXCEPT !.loc[i] = l]
      BY <1>6, <2>1 DEF DeleteMeta, delete_inode_meta, directly_delete_inode_meta
    <3>2. DeletionOf(i, disk, disk') /\ disk'.mark = disk.mark
      BY <1>2, <3>1, LocFields
    <3>3. disk'.loc[i] # "meta"
      BY <1>2, <3>1, LocFields
    <3> QED
      BY <3>1, <3>2, <3>3, <1>4 DEF Deleting
  <2>2. CASE disk.loc[i] = "todel" /\ disk.kind[i] = "file"
    <3>1. Goto(t, "file") /\ disk' = disk
      BY <1>6, <2>2 DEF DeleteMeta
    <3>2. DeletionOf(i, disk, disk')
      BY <1>2, <3>1 DEF DeletionOf
    <3> QED
      BY <2>2, <3>1, <3>2, <1>4 DEF Deleting
  <2>3. CASE disk.loc[i] # "meta" /\ ~(disk.loc[i] = "todel" /\ disk.kind[i] = "file")
    <3>1. After(t) /\ disk' = disk_cleardelete(disk, i)
      BY <1>2, <1>6, <2>3 DEF DeleteMeta
    <3> QED
      BY <2>3, <3>1, <1>5
  <2> QED
    BY <2>1, <2>2, <2>3
<1>7. CASE ToDelete(t)
  <2>1. th[t].pc = "sbdel"
    BY <1>7 DEF ToDelete, At
  <2>2. PICK b \in {"todel", "queued"}, pc \in {"clear", "file", "free"} :
          disk' = [disk EXCEPT !.sb[i] = b] /\ Goto(t, pc) /\ (pc = "clear" => b = "queued")
    BY <1>7 DEF ToDelete
  <2>3. DeletionOf(i, disk, disk') /\ disk'.mark = disk.mark /\ disk'.sb[i] = b
    BY <1>2, <2>2, StatusFields
  <2>4. disk'.loc[i] # "meta"
    BY <1>2, <1>3, <2>1, <2>2, StatusFields
  <2> QED
    BY <2>2, <2>3, <2>4, <1>4 DEF Deleting
<1>8. CASE DeleteFile(t)
  <2>1. th[t].pc = "file"
    BY <1>8 DEF DeleteFile, At
  <2>2. CASE check_meta_on_cloud(disk, i)
    <3>1. disk' = [disk EXCEPT !.sb[i] = "queued"] /\ Goto(t, "clear")
      BY <1>8, <2>2 DEF DeleteFile
    <3>2. DeletionOf(i, disk, disk') /\ disk'.mark = disk.mark /\ disk'.sb[i] = "queued"
      BY <1>2, <3>1, StatusFields
    <3>3. disk'.loc[i] # "meta"
      BY <1>2, <1>3, <2>1, <3>1, StatusFields
    <3> QED
      BY <3>1, <3>2, <3>3, <1>4
  <2>3. CASE ~check_meta_on_cloud(disk, i)
    <3>1. disk' = [disk EXCEPT !.loc[i] = "none"] /\ Goto(t, "free")
      BY <1>8, <2>3 DEF DeleteFile
    <3>2. DeletionOf(i, disk, disk') /\ disk'.mark = disk.mark
      BY <1>2, <3>1, LocFields
    <3>3. disk'.loc[i] = "none"
      BY <1>2, <3>1, LocFields
    <3> QED
      BY <3>1, <3>2, <3>3, <1>4 DEF Deleting
  <2> QED
    BY <2>2, <2>3
<1>9. CASE FreeNumber(t)
  <2>1. disk' = Reclaimed(disk, i) /\ Goto(t, "clear")
    BY <1>9 DEF FreeNumber
  <2>2. DeletionOf(i, disk, disk') /\ disk'.mark = disk.mark /\ disk'.sb[i] = "free"
    BY <1>2, <2>1, ReclaimFields
  <2>3. disk'.loc[i] # "meta"
    BY <1>2, <2>1, ReclaimFields
  <2> QED
    BY <2>1, <2>2, <2>3, <1>4
<1>10. CASE ClearMark(t)
  BY <1>3, <1>5, <1>10 DEF ClearMark, At
<1> QED
  BY <1>6, <1>7, <1>8, <1>9, <1>10

(* The backend has deleted the inode.                                      *)
LEMMA DsyncLinks ==
  ASSUME Core, Links, NEW i \in Ino, dsync_finished(i)
  PROVE  Links'
<1>1. /\ disk.sb[i] = "queued" /\ lut' = lut /\ th' = th /\ phase' = phase
      /\ disk' = Reclaimed(disk, i) /\ IsDisk(disk)
  BY DEF dsync_finished, Core, Types
<1>2. /\ DeletionOf(i, disk, disk') /\ disk'.sb[i] = "free" /\ disk'.mark = disk.mark
      /\ disk'.loc[i] # "meta"
  BY <1>1, ReclaimFields
<1>3. Name(disk, i) = {}
  BY <1>1 DEF Core, Inodes, Alive
<1>4. /\ \A j \in Ino \ {i} : /\ disk'.kind[j] = disk.kind[j] /\ disk'.sb[j] = disk.sb[j]
                              /\ disk'.loc[j] = disk.loc[j] /\ disk'.nlink[j] = disk.nlink[j]
      /\ disk'.ent = disk.ent
  BY <1>2 DEF DeletionOf
<1>5. \A j \in Ino : DirLinks(j)'
  <2> SUFFICES ASSUME NEW j \in Ino PROVE DirLinks(j)'
    OBVIOUS
  <2>1. CASE j = i
    BY <1>2, <2>1 DEF DirLinks
  <2>2. CASE j # i
    <3>1. \A k \in Ino : Name(disk, k) # {} => disk'.kind[k] = disk.kind[k]
      BY <1>3, <1>4
    <3>2. DirLinks(j)
      BY DEF Links
    <3> QED
      BY <1>1, <1>4, <2>2, <3>1, <3>2, DirLinksKeep
  <2> QED
    BY <2>1, <2>2
<1>6. \A j \in Ino : FileLinks(j)'
  <2> SUFFICES ASSUME NEW j \in Ino PROVE FileLinks(j)'
    OBVIOUS
  <2>1. CASE j = i
    BY <1>2, <2>1 DEF FileLinks
  <2>2. CASE j # i
    <3>1. SameUse(j)
      BY <1>1 DEF SameUse, Doomed, BeingDropped, BeingMoved, Moving
    <3>2. SameFile(j)
      BY <1>4, <2>2 DEF SameFile, Name
    <3> QED
      BY <3>1, <3>2, FileLinksKeep DEF Links
  <2> QED
    BY <2>1, <2>2
<1>7. \A j \in Ino : disk'.loc[j] = "meta" => disk.loc[j] = "meta" /\ disk'.sb[j] = disk.sb[j]
  BY <1>2, <1>4
<1>8. \A j \in Ino : InPlace(j)' /\ MarkedToo(j)' /\ PassedBy(j)'
  BY <1>1, <1>2, <1>7 DEF Links, InPlace, MarkedToo, PassedBy
<1>9. \A u \in Threads : NotInPlace(u)' /\ HasMark(u)' /\ (Retires(u)' <=> Retires(u))
  <2> SUFFICES ASSUME NEW u \in Threads PROVE NotInPlace(u)' /\ HasMark(u)' /\ (Retires(u)' <=> Retires(u))
    OBVIOUS
  <2>1. th[u].pc \in {"entry", "self", "sbdel", "file", "free", "clear"} => th[u].i \in Ino
    BY DEF Core, Agents, Agent, Steps, Creator, Deleter, Deleting
  <2>2. NotInPlace(u)'
    BY <1>1, <1>7, <2>1 DEF Links, NotInPlace
  <2>3. th[u].pc = "clear" => disk'.sb[th[u].i] \in {"free", "queued"}
    BY <1>2, <1>4, <2>1 DEF Links, HasMark
  <2>4. HasMark(u)'
    BY <1>1, <1>2, <2>3 DEF Links, HasMark, Retires
  <2> QED
    BY <1>1, <2>2, <2>4 DEF Retires
<1>10. OneRetires'
  BY <1>1, <1>9 DEF Links, OneRetires
<1> QED
  BY <1>5, <1>6, <1>8, <1>9, <1>10 DEF Links

(* What a thread that drops a name of o leaves alone.                      *)
LEMMA DropLinks ==
  ASSUME Core, Links, NEW t \in Threads, th[t].pc \in {"dmark", "nlink"}, NEW r, StepTo(t, r), Same(r, th[t]),
         NEW o \in Ino, o = th[t].o,
         \/ r.pc = "lmark" /\ o \in disk'.mark
         \/ r.pc = "parent",
         disk'.ent = disk.ent /\ disk'.kind = disk.kind /\ disk'.loc = disk.loc /\ disk'.sb = disk.sb,
         \A j \in Ino \ {o} : disk'.nlink[j] = disk.nlink[j],
         disk.kind[o] = "dir" => disk'.nlink[o] = disk.nlink[o],
         disk'.mark \in {disk.mark, disk.mark \cup {o}}, lut' = lut, phase' = phase,
         FileLinks(o)'
  PROVE  Links'
<1>1. IsDisk(disk) /\ th'[t] = r /\ \A u \in Threads \ {t} : th'[u] = th[u]
  BY DEF Core, Types, StepTo
<1>2. \A j \in Ino : DirLinks(j)'
  <2> SUFFICES ASSUME NEW j \in Ino PROVE DirLinks(j)'
    OBVIOUS
  <2>1. SubdirsOf(disk', j) = SubdirsOf(disk, j)
    BY DEF SubdirsOf
  <2>2. disk.kind[j] = "dir" => disk'.nlink[j] = disk.nlink[j]
    OBVIOUS
  <2> QED
    BY <2>1, <2>2 DEF DirLinks, Links
<1>3. \A j \in Ino : FileLinks(j)'
  <2> SUFFICES \A j \in Ino \ {o} : FileLinks(j)'
    OBVIOUS
  <2> TAKE j \in Ino \ {o}
  <2>1. SameUse(j)
    BY SameUseBy DEF Same, Dooms, Drops, Moves, Deleting, Dropping
  <2>2. SameFile(j)
    BY DEF SameFile, Name
  <2> QED
    BY <2>1, <2>2, FileLinksKeep DEF Links
<1>4. \A j \in Ino, u \in Threads : j \in th'[u].todo <=> j \in th[u].todo
  BY <1>1 DEF Same
<1>5. \A j \in Ino, u \in Threads :
        th'[u].pc \in Deleting /\ th'[u].i = j <=> th[u].pc \in Deleting /\ th[u].i = j
  BY <1>1 DEF Deleting
<1>6. \A j \in Ino : InPlace(j)' /\ MarkedToo(j)'
  BY <1>4 DEF Links, InPlace, MarkedToo
<1>7. \A j \in Ino : PassedBy(j)'
  BY <1>4, <1>5 DEF Links, PassedBy
<1>8. \A u \in Threads : NotInPlace(u)' /\ HasMark(u)' /\ (Retires(u)' => Retires(u) /\ th'[u] = th[u])
  <2>1. NotInPlace(t)' /\ HasMark(t)' /\ ~Retires(t)'
    BY <1>1 DEF NotInPlace, HasMark, Retires, Deleting, Same
  <2>2. \A u \in Threads \ {t} : NotInPlace(u)' /\ HasMark(u)' /\ (Retires(u)' => Retires(u) /\ th'[u] = th[u])
    BY <1>1 DEF Links, NotInPlace, HasMark, Retires
  <2> QED
    BY <2>1, <2>2
<1>9. OneRetires'
  BY <1>8 DEF Links, OneRetires
<1> QED
  BY <1>2, <1>3, <1>6, <1>7, <1>8, <1>9 DEF Links

(* The marker of a directory; the link count of a file.                    *)
LEMMA MarkDiskLinks ==
  ASSUME Core, Links, NEW t \in Threads, MarkDisk(t)
  PROVE  Links'
<1>0. PICK o : o = th[t].o
  OBVIOUS
<1>1. /\ th[t].pc = "dmark" /\ disk' = disk_markdelete(disk, o) /\ Goto(t, "lmark")
      /\ lut' = lut /\ phase' = phase
  BY <1>0 DEF MarkDisk, At
<1>2. ThTypes /\ IsDisk(disk) /\ o \in Ino
  BY <1>0, <1>1, DropFacts DEF Dropping
<1>3. PICK r : StepTo(t, r) /\ r.pc = "lmark" /\ Same(r, th[t])
  BY <1>0, <1>1, <1>2, GotoStep DEF PCs, Dropping
<1>4. /\ disk'.ent = disk.ent /\ disk'.kids = disk.kids /\ disk'.nlink = disk.nlink
      /\ disk'.kind = disk.kind /\ disk'.loc = disk.loc /\ disk'.sb = disk.sb
      /\ disk'.mark = disk.mark \cup {o}
  BY <1>0, <1>1, <1>2 DEF IsDisk, DiskRec, disk_markdelete
<1>5. SameUse(o)
  BY <1>0, <1>1, <1>3, SameUseBy DEF Same, Dooms, Drops, Moves, Deleting, Dropping
<1>6. SameFile(o)
  BY <1>0, <1>4 DEF SameFile, Name
<1>7. FileLinks(o)'
  BY <1>0, <1>2, <1>5, <1>6, FileLinksKeep DEF Links
<1> QED
  BY <1>0, <1>1, <1>3, <1>4, <1>2, <1>7, DropLinks

(* The last name only marks the inode.                                     *)
LEMMA DecreaseNlinkLinks ==
  ASSUME Core, Links, NEW t \in Threads, decrease_nlink_inode_file(t)
  PROVE  Links'
<1>0. PICK o : o = th[t].o
  OBVIOUS
<1>1. /\ th[t].pc = "nlink" /\ lut' = lut /\ phase' = phase /\ disk.kind[o] \in {"file", "lnk"}
  BY <1>0 DEF decrease_nlink_inode_file, At, Core, Agents, Agent, Dropper
<1>2. /\ ThTypes /\ IsDisk(disk) /\ o \in Ino \ {1} /\ ~BeingMoved(o) /\ kernel.kn[o] > 0
      /\ \A u \in Threads \ {t} : th[u].pc = "nlink" => th[u].o # o
  BY <1>0, <1>1, DropFacts DEF Dropping
<1>3. BeingDropped(o)
  BY <1>0, <1>1 DEF BeingDropped
<1>4. /\ disk.nlink[o] \in Int /\ Cardinality(Name(disk, o)) \in Nat
      /\ Cardinality(Name(disk, o)) < disk.nlink[o]
  <2>1. ~BeingMade(o) /\ LinksCover(o)
    BY <1>0, <1>1, <1>2, DropFacts DEF Dropping, Core, Inodes
  <2> QED
    BY <1>0, <1>1, <1>2, <1>3, <2>1, Finite DEF LinksCover, IsDisk, DiskRec
<1>5. disk.loc[o] = "meta"
  <2>1. Known(o) /\ kernel.kn[o] \in Nat /\ kernel.fp[o] \in Nat
    BY <1>0, <1>2 DEF Core, Inodes, Types, KernelRec
  <2> QED
    BY <1>0, <1>2, <2>1 DEF Known
<1>6. FileLinks(o)
  BY <1>0, <1>2 DEF Links
<1>7. CASE disk.nlink[o] <= 1
  <2>1. disk' = disk_markdelete(disk, o) /\ Goto(t, "lmark")
    BY <1>0, <1>7 DEF decrease_nlink_inode_file
  <2>2. PICK r : StepTo(t, r) /\ r.pc = "lmark" /\ Same(r, th[t])
    BY <1>0, <1>2, <2>1, GotoStep DEF PCs, Dropping
  <2>3. /\ disk'.ent = disk.ent /\ disk'.kids = disk.kids /\ disk'.nlink = disk.nlink
        /\ disk'.kind = disk.kind /\ disk'.loc = disk.loc /\ disk'.sb = disk.sb
        /\ disk'.mark = disk.mark \cup {o}
    BY <1>0, <1>2, <2>1 DEF IsDisk, DiskRec, disk_markdelete
  <2>4. disk.nlink[o] = 1
    BY <1>0, <1>4, <1>7
  <2>5. Doomed(o)'
    BY <1>0, <2>2 DEF Doomed, StepTo, Same
  <2>6. FileLinks(o)'
    BY <1>0, <2>3, <2>4, <2>5 DEF FileLinks
  <2> QED
    BY <1>0, <1>1, <2>2, <2>3, <1>2, <2>6, DropLinks
<1>8. CASE ~(disk.nlink[o] <= 1)
  <2>1. disk' = [disk EXCEPT !.nlink[o] = @ - 1] /\ Goto(t, "parent")
    BY <1>0, <1>8 DEF decrease_nlink_inode_file
  <2>2. PICK r : StepTo(t, r) /\ r.pc = "parent" /\ Same(r, th[t])
    BY <1>0, <1>2, <2>1, GotoStep DEF PCs, Dropping
  <2>3. /\ disk'.ent = disk.ent
        /\ disk'.kind = disk.kind /\ disk'.loc = disk.loc /\ disk'.sb = disk.sb /\ disk'.mark = disk.mark
        /\ disk'.nlink[o] = disk.nlink[o] - 1
        /\ \A i \in Ino \ {o} : disk'.nlink[i] = disk.nlink[i]
    BY <1>0, <1>2, <2>1 DEF IsDisk, DiskRec
  <2>4. ~Doomed(o)
    BY <1>0, <1>1, <1>4, <1>5, <1>6, <1>8 DEF FileLinks
  <2>5. disk.nlink[o] = Cardinality(Name(disk, o)) + 1
    BY <1>0, <1>1, <1>2, <1>3, <1>4, <1>5, <1>6, <2>4 DEF FileLinks, Due
  <2>6. ~BeingDropped(o)'
    BY <1>0, <1>2, <2>2 DEF BeingDropped, StepTo
  <2>7. ~BeingMoved(o)'
    BY <1>0, <1>1, <1>2, <2>2 DEF BeingMoved, Moving, StepTo, Same, Dropping
  <2>8. ~Doomed(o)'
    BY <1>0, <1>1, <2>2, <2>4 DEF Doomed, StepTo, Deleting
  <2>9. FileLinks(o)'
    <3>1. Name(disk', o) = Name(disk, o)
      BY <1>0, <2>3 DEF Name
    <3> QED
      BY <1>0, <1>4, <2>3, <2>5, <2>6, <2>7, <2>8, <3>1 DEF FileLinks, Due
  <2> QED
    BY <1>0, <1>1, <2>2, <2>3, <1>2, <2>9, DropLinks
<1> QED
  BY <1>0, <1>7, <1>8

(* A number that is not reused under its old marker.                       *)
LEMMA NewInodeLinks ==
  ASSUME Core, Links, IsLeft(left), ~left'.stale,
         NEW t \in Threads, NEW p \in Ino, NEW n \in Names, NEW k \in Kinds, NewInode(t, p, n, k)
  PROVE  Links'
<1>1. PICK i \in Ino :
        /\ disk.sb[i] = "free" /\ disk' = [disk EXCEPT !.sb[i] = "live", !.kind[i] = k]
        /\ th' = [th EXCEPT ![t] = [Idle EXCEPT !.pc = "entry", !.op = "new",
                  !.p = p, !.n = n, !.i = i, !.held = {p}]]
        /\ left' = [left EXCEPT !.ops = @ - 1, !.stale = @ \/ disk_checkdelete(disk, i)]
  BY DEF NewInode
<1>2. th[t].pc = "idle" /\ phase = "up" /\ phase' = "up" /\ lut' = lut
  BY DEF NewInode, Ready, At
<1>3. ThTypes /\ IsDisk(disk) /\ th[t] = Idle
  BY <1>2 DEF Core, Types, ThTypes, Agents, Agent, Steps
<1> DEFINE r == [Idle EXCEPT !.pc = "entry", !.op = "new", !.p = p, !.n = n, !.i = i, !.held = {p}]
<1>4. r.pc = "entry" /\ r.op = "new" /\ r.i = i
  BY DEF Idle
<1> HIDE DEF r
<1>5. StepTo(t, r) /\ th'[t] = r /\ \A u \in Threads \ {t} : th'[u] = th[u]
  BY <1>1, <1>3 DEF r, StepTo, ThTypes
<1>6. /\ disk'.ent = disk.ent /\ disk'.nlink = disk.nlink
      /\ disk'.loc = disk.loc /\ disk'.mark = disk.mark /\ disk'.sb[i] = "live"
      /\ \A j \in Ino \ {i} : disk'.sb[j] = disk.sb[j] /\ disk'.kind[j] = disk.kind[j]
  BY <1>1, <1>3 DEF IsDisk, DiskRec
<1>7. i \notin disk.mark
  <2>1. left'.stale = (left.stale \/ i \in disk.mark)
    BY <1>1 DEF IsLeft, disk_checkdelete
  <2> QED
    BY <2>1
<1>8. disk.loc[i] # "meta" /\ Name(disk, i) = {}
  BY <1>1 DEF Links, InPlace, Core, Inodes, Alive
<1>9. \A j \in Ino : DirLinks(j)'
  <2> SUFFICES ASSUME NEW j \in Ino PROVE DirLinks(j)'
    OBVIOUS
  <2>1. CASE j = i
    BY <1>6, <1>8, <2>1 DEF DirLinks
  <2>2. CASE j # i
    <3>1. \A l \in Ino : Name(disk, l) # {} => disk'.kind[l] = disk.kind[l]
      BY <1>6, <1>8
    <3>2. DirLinks(j)
      BY DEF Links
    <3> QED
      BY <1>3, <1>6, <2>2, <3>1, <3>2, DirLinksKeep
  <2> QED
    BY <2>1, <2>2
<1>10. \A j \in Ino : FileLinks(j)'
  <2> SUFFICES ASSUME NEW j \in Ino PROVE FileLinks(j)'
    OBVIOUS
  <2>1. CASE j = i
    BY <1>6, <1>8, <2>1 DEF FileLinks
  <2>2. CASE j # i
    <3>1. SameUse(j)
      BY <1>2, <1>4, <1>5, SameUseBy DEF Dooms, Drops, Moves, Deleting, Dropping
    <3>2. SameFile(j)
      BY <1>6, <2>2 DEF SameFile, Name
    <3> QED
      BY <3>1, <3>2, FileLinksKeep DEF Links
  <2> QED
    BY <2>1, <2>2
<1>11. \A j \in Ino : InPlace(j)' /\ MarkedToo(j)' /\ PassedBy(j)'
  BY <1>2, <1>6, <1>8 DEF Links, InPlace, MarkedToo, PassedBy
<1>12. \A u \in Threads : NotInPlace(u)' /\ HasMark(u)' /\ (Retires(u)' => Retires(u) /\ th'[u] = th[u])
  <2>1. NotInPlace(t)' /\ HasMark(t)' /\ ~Retires(t)'
    BY <1>4, <1>5, <1>6, <1>8 DEF NotInPlace, HasMark, Retires, Deleting
  <2>2. ASSUME NEW u \in Threads \ {t}
        PROVE  NotInPlace(u)' /\ HasMark(u)' /\ (Retires(u)' => Retires(u) /\ th'[u] = th[u])
    <3>1. th[u].pc = "clear" => th[u].i \in Ino \ {i}
      BY <1>7 DEF Links, HasMark, Retires, Core, Agents, Agent, Deleter
    <3> QED
      BY <1>5, <1>6, <3>1 DEF Links, NotInPlace, HasMark, Retires
  <2> QED
    BY <2>1, <2>2
<1>13. OneRetires'
  BY <1>12 DEF Links, OneRetires
<1> QED
  BY <1>9, <1>10, <1>11, <1>12, <1>13 DEF Links

(* What has been made has the names its link count says.                   *)
LEMMA SelfMetaLinks ==
  ASSUME Core, Links, NEW t \in Threads, SelfMeta(t)
  PROVE  Links'
<1>0. PICK i : i = th[t].i
  OBVIOUS
<1>1. th[t].pc = "self" /\ lut' = lut /\ phase' = phase /\ Goto(t, "stat") /\ Agent(t)
  BY DEF SelfMeta, At, Core, Agents
<1>2. /\ th[t].op = "new" /\ i \in Ino \ {1} /\ disk.sb[i] = "live" /\ Kids(i) = {}
      /\ kernel.kn[i] = 0 /\ kernel.fp[i] = 0 /\ Name(disk, i) = {<<th[t].p, th[t].n>>}
  BY <1>0, <1>1 DEF Agent, Steps, Creator
<1>3. ThTypes /\ IsDisk(disk) /\ phase = "up"
  BY <1>1, <1>2, Mounted DEF Core, Types, ThTypes
<1>4. PICK r : StepTo(t, r) /\ r.pc = "stat" /\ Same(r, th[t])
  BY <1>1, <1>3, GotoStep DEF PCs, Creating
<1>5. th'[t] = r /\ \A u \in Threads \ {t} : th'[u] = th[u]
  BY <1>4 DEF StepTo
<1>6. disk.kids[i] = 0 /\ disk.kind[i] \in Kinds
  <2>1. Holds(i) /\ Cardinality(Kids(i)) = 0
    BY <1>2, FS_EmptySet DEF Core, Inodes
  <2> QED
    BY <1>2, <1>3, <2>1 DEF Holds, IsDisk, DiskRec
<1>7. /\ disk'.ent = disk.ent /\ disk'.kind = disk.kind
      /\ disk'.sb = disk.sb /\ disk'.mark = disk.mark /\ disk'.loc[i] = "meta"
      /\ disk'.nlink[i] = IF disk.kind[i] = "dir" THEN 2 ELSE 1
      /\ \A j \in Ino \ {i} : disk'.loc[j] = disk.loc[j] /\ disk'.nlink[j] = disk.nlink[j]
  <2>1. \/ (disk' = mknod_update_meta(disk, i) \/ disk' = symlink_update_meta(disk, i)) /\ disk.kind[i] # "dir"
        \/ disk' = mkdir_update_meta(disk, i, th[t].p) /\ disk.kind[i] = "dir"
    BY <1>0, <1>6 DEF SelfMeta, Kinds
  <2> QED
    BY <1>2, <1>3, <1>6, <2>1, SelfFields
<1>8. \A j \in Ino : Name(disk', j) = Name(disk, j) /\ SubdirsOf(disk', j) = SubdirsOf(disk, j)
  BY <1>7 DEF Name, SubdirsOf
<1>9. \A j \in Ino : DirLinks(j)'
  <2> SUFFICES ASSUME NEW j \in Ino PROVE DirLinks(j)'
    OBVIOUS
  <2>1. CASE j = i
    <3>1. SubdirsOf(disk, i) = {}
      BY <1>2 DEF SubdirsOf, Kids, KidsOf
    <3>2. Cardinality(SubdirsOf(disk', i)) = 0
      BY <1>2, <1>8, <3>1, FS_EmptySet
    <3> QED
      BY <1>7, <2>1, <3>2 DEF DirLinks
  <2>2. CASE j # i
    BY <1>7, <1>8, <2>2 DEF Links, DirLinks
  <2> QED
    BY <2>1, <2>2
<1>10. \A j \in Ino : FileLinks(j)'
  <2> SUFFICES ASSUME NEW j \in Ino PROVE FileLinks(j)'
    OBVIOUS
  <2>1. CASE j = i
    <3>1. ~BeingDropped(i)'
      <4>1. ~BeingDropped(i)
        BY <1>2 DEF BeingDropped, Core, Agents, Agent, Dropper, Dropping
      <4> QED
        BY <1>4, <4>1, Bits
    <3>2. ~BeingMoved(i)'
      <4>1. ASSUME NEW u \in Threads, Moving(u), th[u].i = i PROVE FALSE
        <5>1. PICK m \in Names : /\ disk.ent[th[u].q][m] = i /\ disk.ent[th[u].p][th[u].n] = i
                                 /\ <<th[u].q, m>> # <<th[u].p, th[u].n>> /\ th[u].n \in Names
          BY <4>1 DEF Core, Agents, Agent, Mover
        <5>2. th[u].p \in Ino /\ th[u].q \in Ino
          BY <4>1 DEF Core, Agents, Agent, Mover, Moving
        <5>3. <<th[u].q, m>> \in Name(disk, i) /\ <<th[u].p, th[u].n>> \in Name(disk, i)
          BY <5>1, <5>2 DEF Name
        <5> QED
          BY <1>2, <5>1, <5>3
      <4>2. ~Moving(t)'
        BY <1>2, <1>4, <1>5 DEF Moving, Same
      <4>3. \A u \in Threads \ {t} : Moving(u)' => Moving(u)
        BY <1>5 DEF Moving
      <4> QED
        BY <1>5, <4>1, <4>2, <4>3 DEF BeingMoved
    <3>3. Cardinality(Name(disk', i)) = 1
      BY <1>2, <1>8, FS_Singleton
    <3> QED
      BY <1>7, <2>1, <3>1, <3>2, <3>3 DEF FileLinks, Due
  <2>2. CASE j # i
    <3>1. SameUse(j)
      BY <1>1, <1>2, <1>4, SameUseBy DEF Dooms, Drops, Moves, Deleting, Dropping, Same
    <3>2. SameFile(j)
      BY <1>7, <1>8, <2>2 DEF SameFile
    <3> QED
      BY <3>1, <3>2, FileLinksKeep DEF Links
  <2> QED
    BY <2>1, <2>2
<1>11. \A j \in Ino : InPlace(j)' /\ MarkedToo(j)' /\ PassedBy(j)'
  BY <1>1, <1>2, <1>3, <1>7 DEF Links, InPlace, MarkedToo, PassedBy
<1>12. \A u \in Threads : NotInPlace(u)' /\ HasMark(u)' /\ (Retires(u)' => Retires(u) /\ th'[u] = th[u])
  <2>1. NotInPlace(t)' /\ HasMark(t)' /\ ~Retires(t)'
    BY <1>4, <1>5 DEF NotInPlace, HasMark, Retires, Deleting
  <2>2. ASSUME NEW u \in Threads \ {t}
        PROVE  NotInPlace(u)' /\ HasMark(u)' /\ (Retires(u)' => Retires(u) /\ th'[u] = th[u])
    <3>1. th[u].pc \in {"entry", "self", "sbdel", "file", "free"} => Claims(u) /\ th[u].i \in Ino
      BY DEF Claims, Core, Agents, Agent, Steps, Creator, Deleter, Deleting
    <3>2. Claims(t)
      BY <1>2 DEF Claims
    <3>3. th[u].pc \in {"entry", "self", "sbdel", "file", "free"} => th[u].i \in Ino \ {i}
      BY <1>0, <3>1, <3>2 DEF Core, Apart
    <3> QED
      BY <1>5, <1>7, <3>3 DEF Links, NotInPlace, HasMark, Retires
  <2> QED
    BY <2>1, <2>2
<1>13. OneRetires'
  BY <1>12 DEF Links, OneRetires
<1> QED
  BY <1>9, <1>10, <1>11, <1>12, <1>13 DEF Links

(* What a single step makes of the uses of i.                              *)
LEMMA UseBits ==
  ASSUME NEW t \in Threads, NEW r, StepTo(t, r), NEW i, lut' = lut
  PROVE  /\ Drops(r, i) => BeingDropped(i)'
         /\ ~Drops(r, i) /\ (\A u \in Threads \ {t} : ~Drops(th[u], i)) => ~BeingDropped(i)'
         /\ Moves(r, i) => BeingMoved(i)'
         /\ ~Moves(r, i) /\ (\A u \in Threads \ {t} : ~Moves(th[u], i)) => ~BeingMoved(i)'
         /\ ~Dooms(r, i) /\ ~Doomed(i) => ~Doomed(i)'
         /\ ~BeingDropped(i) => \A u \in Threads : ~Drops(th[u], i)
         /\ ~BeingMoved(i) => \A u \in Threads : ~Moves(th[u], i)
<1>1. th'[t] = r /\ \A u \in Threads \ {t} : th'[u] = th[u]
  BY DEF StepTo
<1>2. BeingDropped(i)' <=> \E u \in Threads : Drops(th'[u], i)
  BY DEF BeingDropped, Drops
<1>3. BeingMoved(i)' <=> \E u \in Threads : Moves(th'[u], i)
  BY DEF BeingMoved, Moving, Moves
<1>4. Doomed(i)' <=> lut'[i].del \/ \E u \in Threads : Dooms(th'[u], i)
  BY DEF Doomed, Dooms
<1>5. Doomed(i) <=> lut[i].del \/ \E u \in Threads : Dooms(th[u], i)
  BY DEF Doomed, Dooms
<1>6. ~Dooms(r, i) /\ ~Doomed(i) => ~Doomed(i)'
  BY <1>1, <1>4, <1>5
<1>7. (~BeingDropped(i) => \A u \in Threads : ~Drops(th[u], i)) /\ (~BeingMoved(i) => \A u \in Threads : ~Moves(th[u], i))
  BY DEF BeingDropped, BeingMoved, Moving, Drops, Moves
<1> QED
  BY <1>1, <1>2, <1>3, <1>6, <1>7

(* An inode that is a directory counts in the directory that names it.     *)
DirBit(i) == IF i # 0 /\ disk.kind[i] = "dir" THEN 1 ELSE 0
Counted(p, x, y) ==
  /\ disk.kind[p] = "dir" /\ disk'.nlink[p] = disk.nlink[p] + DirBit(x) - DirBit(y)
  /\ \A j \in Ino \ {p} : disk'.nlink[j] = disk.nlink[j] \/ (j = x /\ disk.kind[x] # "dir")

(* One name of a directory changes.                                        *)
LEMMA EditedSubdirs ==
  ASSUME IsDisk(disk), NEW p \in Ino, NEW n \in Names, NEW x \in Ino0, NEW y \in Ino0, Edited(p, n, x, y)
  PROVE  /\ Cardinality(SubdirsOf(disk', p)) = Cardinality(SubdirsOf(disk, p)) + DirBit(x) - DirBit(y)
         /\ Cardinality(SubdirsOf(disk, p)) \in Nat
<1> DEFINE S == SubdirsOf(disk, p)
<1>1. IsFiniteSet(S) /\ Cardinality(S) \in Nat
  BY NamespaceAssumption, FS_Subset, FS_CardinalityType DEF SubdirsOf
<1>2. /\ \A m \in Names : disk'.ent[p][m] = IF m = n THEN x ELSE disk.ent[p][m]
      /\ disk.ent[p][n] = y /\ disk'.kind = disk.kind
  BY DEF Edited
<1>3. n \in S <=> DirBit(y) = 1
  BY <1>2 DEF SubdirsOf, DirBit
<1>4. SubdirsOf(disk', p) = IF DirBit(x) = 1 THEN S \cup {n} ELSE S \ {n}
  BY <1>2 DEF SubdirsOf, DirBit
<1>5. DirBit(x) \in {0, 1} /\ DirBit(y) \in {0, 1}
  BY DEF DirBit
<1> HIDE DEF S
<1>6. Cardinality(S \cup {n}) = IF n \in S THEN Cardinality(S) ELSE Cardinality(S) + 1
  BY <1>1, FS_AddElement
<1>7. Cardinality(S \ {n}) = IF n \in S THEN Cardinality(S) - 1 ELSE Cardinality(S)
  BY <1>1, FS_RemoveElement
<1>8. CASE DirBit(x) = 1 /\ DirBit(y) = 1
  BY <1>1, <1>3, <1>4, <1>6, <1>8 DEF S
<1>9. CASE DirBit(x) = 1 /\ DirBit(y) = 0
  BY <1>1, <1>3, <1>4, <1>6, <1>9 DEF S
<1>10. CASE DirBit(x) = 0 /\ DirBit(y) = 1
  BY <1>1, <1>3, <1>4, <1>7, <1>10 DEF S
<1>11. CASE DirBit(x) = 0 /\ DirBit(y) = 0
  BY <1>1, <1>3, <1>4, <1>7, <1>11 DEF S
<1> QED
  BY <1>5, <1>8, <1>9, <1>10, <1>11

(* What an edit does to the number of names of the inode it takes one from *)
(* and of the one it gives one to.                                         *)
LEMMA EditedGives ==
  ASSUME IsDisk(disk), NEW p \in Ino, NEW n \in Names, NEW x \in Ino0, NEW y \in Ino0, Edited(p, n, x, y)
  PROVE  Cardinality(Name(disk', x)) = Cardinality(Name(disk, x)) + 1
BY EditedNames

LEMMA EditedTakes ==
  ASSUME IsDisk(disk), NEW p \in Ino, NEW n \in Names, NEW x \in Ino0, NEW y \in Ino0, Edited(p, n, x, y)
  PROVE  Cardinality(Name(disk', y)) = Cardinality(Name(disk, y)) - 1
BY EditedNames

(* A step that changes one directory entry.                                *)
LEMMA EditLinks ==
  ASSUME Core, Links, NEW t \in Threads, NEW r, StepTo(t, r),
         NEW p \in Ino, NEW n \in Names, NEW x \in Ino0, NEW y \in Ino0, Edited(p, n, x, y), Counted(p, x, y),
         phase = "up", phase' = "up", lut' = lut,
         r.pc \notin Deleting \cup {"entry", "clear", "lmark"},
         r.pc = "self" => disk.loc[r.i] # "meta",
         \A j \in Ino \ {x, y} : /\ Dooms(r, j) <=> Dooms(th[t], j)
                                 /\ Drops(r, j) <=> Drops(th[t], j)
                                 /\ Moves(r, j) <=> Moves(th[t], j),
         \A j \in {x, y} \ {0} : FileLinks(j)'
  PROVE  Links'
<1>1. IsDisk(disk) /\ th'[t] = r /\ \A u \in Threads \ {t} : th'[u] = th[u]
  BY DEF Core, Types, StepTo
<1>2. disk'.kind = disk.kind /\ disk'.loc = disk.loc /\ disk'.sb = disk.sb /\ disk'.mark = disk.mark
  BY DEF Edited
<1>3. \A j \in Ino : DirLinks(j)'
  <2> SUFFICES ASSUME NEW j \in Ino PROVE DirLinks(j)'
    OBVIOUS
  <2>1. DirLinks(j)
    BY DEF Links
  <2>2. CASE j = p
    <3>1. /\ Cardinality(SubdirsOf(disk', p)) = Cardinality(SubdirsOf(disk, p)) + DirBit(x) - DirBit(y)
          /\ Cardinality(SubdirsOf(disk, p)) \in Nat
      BY <1>1, EditedSubdirs
    <3>2. DirBit(x) \in {0, 1} /\ DirBit(y) \in {0, 1}
      BY DEF DirBit
    <3>3. disk'.nlink[p] = disk.nlink[p] + DirBit(x) - DirBit(y)
      BY DEF Counted
    <3>4. disk.loc[p] = "meta" => disk'.nlink[p] = 2 + Cardinality(SubdirsOf(disk', p))
      <4> SUFFICES ASSUME disk.loc[p] = "meta" PROVE disk'.nlink[p] = 2 + Cardinality(SubdirsOf(disk', p))
        OBVIOUS
      <4>1. disk.nlink[p] = 2 + Cardinality(SubdirsOf(disk, p))
        BY <2>1, <2>2 DEF DirLinks, Counted
      <4> QED
        BY <3>1, <3>2, <3>3, <4>1
    <3> QED
      BY <1>2, <2>2, <3>4 DEF DirLinks
  <2>3. CASE j # p
    <3>1. \A m \in Names : disk'.ent[j][m] = disk.ent[j][m]
      BY <2>3 DEF Edited
    <3>2. disk.kind[j] = "dir" => disk'.nlink[j] = disk.nlink[j]
      BY <2>3 DEF Counted
    <3>3. SubdirsOf(disk', j) = SubdirsOf(disk, j)
      BY <1>2, <3>1 DEF SubdirsOf
    <3> QED
      BY <1>2, <2>1, <3>2, <3>3 DEF DirLinks
  <2> QED
    BY <2>2, <2>3
<1>4. \A j \in Ino : FileLinks(j)'
  <2> SUFFICES \A j \in Ino \ {x, y} : FileLinks(j)'
    BY Numbers
  <2> TAKE j \in Ino \ {x, y}
  <2>1. SameUse(j)
    BY SameUseBy
  <2>2. Name(disk', j) = Name(disk, j)
    BY <1>1, EditedNames
  <2>3. CASE disk.kind[j] = "dir"
    BY <1>2, <2>3 DEF FileLinks
  <2>4. CASE disk.kind[j] # "dir"
    <3>1. SameFile(j)
      BY <1>2, <2>2, <2>4 DEF SameFile, Counted
    <3> QED
      BY <2>1, <3>1, FileLinksKeep DEF Links
  <2> QED
    BY <2>3, <2>4
<1>5. \A j \in Ino : InPlace(j)' /\ MarkedToo(j)' /\ PassedBy(j)'
  BY <1>2 DEF Links, InPlace, MarkedToo, PassedBy
<1>6. \A u \in Threads : NotInPlace(u)' /\ HasMark(u)' /\ (Retires(u)' => Retires(u) /\ th'[u] = th[u])
  <2>1. NotInPlace(t)' /\ HasMark(t)' /\ ~Retires(t)'
    BY <1>1, <1>2 DEF NotInPlace, HasMark, Retires, Deleting
  <2>2. \A u \in Threads \ {t} : NotInPlace(u)' /\ HasMark(u)' /\ (Retires(u)' => Retires(u) /\ th'[u] = th[u])
    BY <1>1, <1>2 DEF Links, NotInPlace, HasMark, Retires
  <2> QED
    BY <2>1, <2>2
<1>7. OneRetires'
  BY <1>6 DEF Links, OneRetires
<1> QED
  BY <1>3, <1>4, <1>5, <1>6, <1>7 DEF Links

(* dir_add_entry and dir_remove_entry as edits.                            *)
LEMMA AddEdits ==
  ASSUME IsDisk(disk), NEW D, SameTree(disk, D), NEW p \in Ino, NEW n \in Names, NEW i \in Ino,
         disk' = dir_add_entry(D, p, n, i), disk.ent[p][n] = 0, disk.kind[p] = "dir"
  PROVE  Edited(p, n, i, 0) /\ Counted(p, i, 0)
<1>1. IsDisk(D) /\ i # 0 /\ disk.nlink[p] \in Int
  BY Numbers DEF SameTree, IsDisk, DiskRec
<1>2. /\ IsDisk(disk')
      /\ \A d \in Ino, m \in Names : disk'.ent[d][m] = IF d = p /\ m = n THEN i ELSE D.ent[d][m]
      /\ disk'.kids = [D.kids EXCEPT ![p] = D.kids[p] + 1]
      /\ disk'.nlink = [D.nlink EXCEPT ![p] = IF D.kind[i] = "dir" THEN D.nlink[p] + 1 ELSE D.nlink[p]]
      /\ disk'.kind = D.kind /\ disk'.loc = D.loc /\ disk'.sb = D.sb /\ disk'.mark = D.mark
  BY <1>1, AddFields, SMTT(60)
<1>3. disk'.nlink = [disk.nlink EXCEPT ![p] = disk.nlink[p] + DirBit(i)]
  BY <1>1, <1>2 DEF SameTree, DirBit
<1>4. DirBit(0) = 0 /\ DirBit(i) \in Int
  BY DEF DirBit
<1>5. /\ disk'.nlink[p] = disk.nlink[p] + DirBit(i)
      /\ \A j \in Ino \ {p} : disk'.nlink[j] = disk.nlink[j]
  BY <1>3 DEF IsDisk, DiskRec
<1>6. Counted(p, i, 0)
  BY <1>1, <1>4, <1>5 DEF Counted
<1>7. disk'.kids = [disk.kids EXCEPT ![p] = @ + 1]
  BY <1>2 DEF SameTree
<1>8. \A j \in Ino : disk'.nlink[j] = disk.nlink[j] \/ disk.kind[j] = "dir"
  BY <1>5
<1>9. Edited(p, n, i, 0)
  BY <1>1, <1>2, <1>7, <1>8 DEF SameTree, Edited
<1> QED
  BY <1>6, <1>9

(* The same for a name that goes.                                          *)
LEMMA RemoveEdits ==
  ASSUME IsDisk(disk), NEW p \in Ino, NEW n \in Names, NEW i \in Ino,
         NEW D, D = dir_remove_entry(disk, p, n, i), SameTree(D, disk'),
         disk.ent[p][n] = i, disk.kind[p] = "dir"
  PROVE  Edited(p, n, 0, i) /\ Counted(p, 0, i)
<1>1. i # 0 /\ disk.nlink[p] \in Int /\ disk.kids[p] \in Int
  BY Numbers DEF IsDisk, DiskRec
<1>2. /\ IsDisk(D)
      /\ \A d \in Ino, k \in Names : D.ent[d][k] = IF d = p /\ k = n THEN 0 ELSE disk.ent[d][k]
      /\ D.kids = [disk.kids EXCEPT ![p] = disk.kids[p] - 1]
      /\ D.nlink = [disk.nlink EXCEPT ![p] = IF disk.kind[i] = "dir" THEN disk.nlink[p] - 1 ELSE disk.nlink[p]]
      /\ D.kind = disk.kind /\ D.loc = disk.loc /\ D.sb = disk.sb /\ D.mark = disk.mark
  BY RemoveFields, SMTT(60)
<1>3. disk'.nlink = [disk.nlink EXCEPT ![p] = disk.nlink[p] - DirBit(i)]
  BY <1>1, <1>2 DEF SameTree, DirBit
<1>4. DirBit(0) = 0 /\ DirBit(i) \in Int
  BY DEF DirBit
<1>5. /\ disk'.nlink[p] = disk.nlink[p] - DirBit(i)
      /\ \A j \in Ino \ {p} : disk'.nlink[j] = disk.nlink[j]
  BY <1>3 DEF IsDisk, DiskRec
<1>6. Counted(p, 0, i)
  BY <1>1, <1>4, <1>5 DEF Counted
<1>7. disk'.kids = [disk.kids EXCEPT ![p] = @ + (-1)]
  BY <1>1, <1>2 DEF SameTree
<1>8. \A j \in Ino : disk'.nlink[j] = disk.nlink[j] \/ disk.kind[j] = "dir"
  BY <1>5
<1>9. Edited(p, n, 0, i)
  BY <1>1, <1>2, <1>7, <1>8 DEF SameTree, Edited
<1> QED
  BY <1>6, <1>9

(* What the link count of a named file that no thread works on says.       *)
LEMMA NamedCount ==
  ASSUME Core, Links, NEW i \in Ino, disk.kind[i] # "dir", Name(disk, i) # {} \/ ~lut[i].del,
         phase = "up", ~Locked(i), i = 1 \/ kernel.kn[i] > 0
  PROVE  /\ ~Doomed(i) /\ ~BeingDropped(i) /\ ~BeingMoved(i)
         /\ disk.kind[i] \in {"file", "lnk"} => disk.nlink[i] = Cardinality(Name(disk, i))
         /\ Cardinality(Name(disk, i)) \in Nat
<1>1. ~BeingDropped(i) /\ ~BeingMoved(i)
  BY FreeName
<1>2. ~Doomed(i)
  <2>1. CASE Name(disk, i) # {}
    BY <2>1 DEF Core, Unlinked, Detached
  <2>2. CASE ~lut[i].del
    BY <2>2, FreeName
  <2> QED
    BY <2>1, <2>2
<1>3. i # 1 /\ disk.loc[i] = "meta"
  BY FreeName DEF Core, Root
<1>4. Cardinality(Name(disk, i)) \in Nat
  BY Finite
<1> QED
  BY <1>1, <1>2, <1>3, <1>4 DEF Links, FileLinks, Due

(* Creation gives the new inode its name.                                  *)
LEMMA AddEntryLinks ==
  ASSUME Core, Links, NEW t \in Threads, AddEntry(t)
  PROVE  Links'
<1>1. th[t].pc = "entry" /\ lut' = lut /\ phase' = phase /\ Goto(t, "self") /\ Agent(t)
  BY DEF AddEntry, At, Core, Agents
<1>2. PICK p, n, i : p = th[t].p /\ n = th[t].n /\ i = th[t].i
  OBVIOUS
<1>3. /\ th[t].op = "new" /\ i \in Ino \ {1} /\ p \in Ino /\ n \in Names
      /\ disk.ent[p][n] = 0 /\ disk.kind[p] = "dir"
  BY <1>1, <1>2 DEF Agent, Steps, Creator
<1>4. ThTypes /\ IsDisk(disk) /\ phase = "up"
  BY <1>1, <1>3, Mounted DEF Core, Types, ThTypes
<1>5. PICK r : StepTo(t, r) /\ r.pc = "self" /\ Same(r, th[t])
  BY <1>1, <1>4, GotoStep DEF PCs, Creating
<1>6. Edited(p, n, i, 0) /\ Counted(p, i, 0)
  <2>1. PICK D : D = lookup_add_parent(disk, i, p)
    OBVIOUS
  <2>2. SameTree(disk, D)
    BY <1>4, <2>1, ParentFields
  <2>3. disk' = dir_add_entry(D, p, n, i)
    BY <1>2, <2>1 DEF AddEntry
  <2> QED
    BY <1>3, <1>4, <2>2, <2>3, AddEdits
<1>7. disk.loc[i] # "meta"
  BY <1>1, <1>2 DEF Links, NotInPlace
<1>8. FileLinks(i)'
  BY <1>6, <1>7 DEF FileLinks, Edited
<1>9. i \in Ino0 /\ 0 \in Ino0
  BY <1>3, Numbers
<1>10. r.i = i /\ r.pc \notin Deleting \cup {"entry", "clear", "lmark"}
  BY <1>2, <1>5 DEF Same, Deleting
<1>11. \A j \in Ino : /\ ~Dooms(r, j) /\ ~Dooms(th[t], j) /\ ~Drops(r, j) /\ ~Drops(th[t], j)
                      /\ ~Moves(r, j) /\ ~Moves(th[t], j)
  BY <1>1, <1>3, <1>5 DEF Dooms, Drops, Moves, Deleting, Same
<1>12. \A j \in {i, 0} \ {0} : FileLinks(j)'
  BY <1>8
<1> QED
  BY <1>1, <1>3, <1>4, <1>5, <1>6, <1>7, <1>9, <1>10, <1>11, <1>12, EditLinks

(* A removed name is one the link count does not know of yet.              *)
LEMMA UnlinkLinks ==
  ASSUME Core, Links, NEW t \in Threads, NEW p \in Ino, NEW n \in Names, hfuse_ll_unlink(t, p, n)
  PROVE  Links'
<1>1. PICK i : i = disk.ent[p][n]
  OBVIOUS
<1>2. /\ i # 0 /\ th[t].pc = "idle" /\ phase = "up" /\ phase' = "up" /\ lut' = lut
      /\ ~Locked(i) /\ (i = 1 \/ kernel.kn[i] > 0)
      /\ disk.kind[i] # "dir" /\ disk' = dir_remove_entry(disk, p, n, i)
      /\ th' = [th EXCEPT ![t] = [Idle EXCEPT !.pc = "nlink", !.op = "unlink", !.o = i, !.vp = p, !.held = {p, i}]]
  BY <1>1 DEF hfuse_ll_unlink, Ready, lookup_dir, At, Refers, unlink_update_meta
<1>3. ThTypes /\ IsDisk(disk) /\ i \in Ino /\ i \in Ino0 /\ 0 \in Ino0
  BY <1>1, <1>2, Numbers DEF Core, Types, ThTypes, IsDisk, DiskRec
<1>4. PICK r : r = [Idle EXCEPT !.pc = "nlink", !.op = "unlink", !.o = i, !.vp = p, !.held = {p, i}]
  OBVIOUS
<1>5. r.pc = "nlink" /\ r.op = "unlink" /\ r.o = i
  BY <1>4 DEF Idle
<1>6. StepTo(t, r)
  BY <1>2, <1>3, <1>4 DEF StepTo, ThTypes
<1>7. <<p, n>> \in Name(disk, i) /\ n \in Kids(p)
  BY <1>1, <1>2 DEF Name, Kids, KidsOf
<1>8. disk.kind[p] = "dir"
  BY <1>7 DEF Core, Inodes, Holds
<1>9. IsDisk(disk')
  BY <1>2, <1>3, RemoveFields
<1>10. SameTree(disk', disk')
  BY <1>9 DEF SameTree
<1>11. Edited(p, n, 0, i) /\ Counted(p, 0, i)
  BY <1>1, <1>2, <1>3, <1>8, <1>10, RemoveEdits
<1>12. /\ ~Doomed(i) /\ ~BeingDropped(i) /\ ~BeingMoved(i) /\ Cardinality(Name(disk, i)) \in Nat
       /\ disk.kind[i] \in {"file", "lnk"} => disk.nlink[i] = Cardinality(Name(disk, i))
  BY <1>2, <1>3, <1>7, NamedCount
<1>13. Drops(r, i) /\ ~Moves(r, i) /\ ~Dooms(r, i)
  BY <1>5 DEF Drops, Moves, Dooms, Deleting
<1>14. BeingDropped(i)' /\ ~BeingMoved(i)' /\ ~Doomed(i)'
  BY <1>2, <1>6, <1>12, <1>13, UseBits
<1>15. Cardinality(Name(disk', i)) = Cardinality(Name(disk, i)) - 1
  <2>1. Edited(p, n, 0, i) /\ IsDisk(disk) /\ i \in Ino0 /\ 0 \in Ino0
    BY <1>3, <1>11
  <2> QED
    BY <2>1, EditedTakes
<1>16. disk'.nlink[i] = disk.nlink[i] /\ disk'.kind = disk.kind
  BY <1>2, <1>3, <1>8, <1>11 DEF Edited, Counted
<1>17. FileLinks(i)'
  BY <1>12, <1>14, <1>15, <1>16 DEF FileLinks, Due
<1>18. r.pc \notin Deleting \cup {"entry", "clear", "lmark"} /\ r.pc # "self"
  BY <1>5 DEF Deleting
<1>19. \A j \in Ino \ {0, i} : /\ ~Dooms(r, j) /\ ~Dooms(th[t], j) /\ ~Drops(r, j) /\ ~Drops(th[t], j)
                               /\ ~Moves(r, j) /\ ~Moves(th[t], j)
  BY <1>2, <1>5 DEF Dooms, Drops, Moves, Deleting, Dropping
<1>20. \A j \in {0, i} \ {0} : FileLinks(j)'
  BY <1>17
<1> QED
  BY <1>2, <1>3, <1>6, <1>11, <1>18, <1>19, <1>20, EditLinks

(* A removed directory was a link of its parent.                           *)
LEMMA RmdirLinks ==
  ASSUME Core, Links, NEW t \in Threads, NEW p \in Ino, NEW n \in Names, hfuse_ll_rmdir(t, p, n)
  PROVE  Links'
<1>1. PICK i : i = disk.ent[p][n]
  OBVIOUS
<1>2. /\ i # 0 /\ th[t].pc = "idle" /\ phase = "up" /\ phase' = "up" /\ lut' = lut
      /\ disk.kind[i] = "dir" /\ disk' = dir_remove_entry(disk, p, n, i)
      /\ th' = [th EXCEPT ![t] = [Idle EXCEPT !.pc = "dmark", !.op = "rmdir", !.o = i, !.vp = p, !.held = {p, i}]]
  BY <1>1 DEF hfuse_ll_rmdir, Ready, lookup_dir, At, rmdir_update_meta
<1>3. ThTypes /\ IsDisk(disk) /\ i \in Ino /\ i \in Ino0 /\ 0 \in Ino0
  BY <1>1, <1>2, Numbers DEF Core, Types, ThTypes, IsDisk, DiskRec
<1>4. PICK r : r = [Idle EXCEPT !.pc = "dmark", !.op = "rmdir", !.o = i, !.vp = p, !.held = {p, i}]
  OBVIOUS
<1>5. r.pc = "dmark" /\ r.op = "rmdir" /\ r.o = i
  BY <1>4 DEF Idle
<1>6. StepTo(t, r)
  BY <1>2, <1>3, <1>4 DEF StepTo, ThTypes
<1>7. n \in Kids(p)
  BY <1>1, <1>2 DEF Kids, KidsOf
<1>8. disk.kind[p] = "dir"
  BY <1>7 DEF Core, Inodes, Holds
<1>9. IsDisk(disk')
  BY <1>2, <1>3, RemoveFields
<1>10. SameTree(disk', disk')
  BY <1>9 DEF SameTree
<1>11. Edited(p, n, 0, i) /\ Counted(p, 0, i)
  BY <1>1, <1>2, <1>3, <1>8, <1>10, RemoveEdits
<1>12. FileLinks(i)'
  BY <1>2, <1>11 DEF FileLinks, Edited
<1>13. r.pc \notin Deleting \cup {"entry", "clear", "lmark"} /\ r.pc # "self"
  BY <1>5 DEF Deleting
<1>14. \A j \in Ino \ {0, i} : /\ ~Dooms(r, j) /\ ~Dooms(th[t], j) /\ ~Drops(r, j) /\ ~Drops(th[t], j)
                               /\ ~Moves(r, j) /\ ~Moves(th[t], j)
  BY <1>2, <1>5 DEF Dooms, Drops, Moves, Deleting, Dropping
<1>15. \A j \in {0, i} \ {0} : FileLinks(j)'
  BY <1>12
<1> QED
  BY <1>2, <1>3, <1>6, <1>11, <1>13, <1>14, <1>15, EditLinks

(* A second name is a second link.                                         *)
LEMMA LinkLinks ==
  ASSUME Core, Links, NEW t \in Threads, NEW i \in Ino, NEW p \in Ino, NEW n \in Names, hfuse_ll_link(t, i, p, n)
  PROVE  Links'
<1>1. /\ th[t].pc = "idle" /\ phase = "up" /\ phase' = "up" /\ lut' = lut
      /\ ~Locked(i) /\ (i = 1 \/ kernel.kn[i] > 0)
      /\ disk.kind[p] = "dir" /\ disk.ent[p][n] = 0
      /\ disk.kind[i] = "file" /\ ~lut[i].del /\ disk' = link_update_meta(disk, i, p, n)
      /\ th' = [th EXCEPT ![t] = [Idle EXCEPT !.pc = "stat", !.op = "link", !.p = p, !.i = i, !.held = {p, i}]]
  BY DEF hfuse_ll_link, Ready, Usable, lookup_dir, At, Refers
<1>2. ThTypes /\ IsDisk(disk) /\ i # p /\ i # 0 /\ i \in Ino0 /\ 0 \in Ino0
  BY <1>1, Numbers DEF Core, Types, ThTypes
<1>3. PICK r : r = [Idle EXCEPT !.pc = "stat", !.op = "link", !.p = p, !.i = i, !.held = {p, i}]
  OBVIOUS
<1>4. r.pc = "stat" /\ r.op = "link" /\ r.i = i
  BY <1>3 DEF Idle
<1>5. StepTo(t, r)
  BY <1>1, <1>2, <1>3 DEF StepTo, ThTypes
<1>6. Edited(p, n, i, 0) /\ Counted(p, i, 0) /\ disk'.nlink[i] = disk.nlink[i] + 1
  <2>1. PICK D : D = lookup_add_parent(disk, i, p)
    OBVIOUS
  <2>2. SameTree(disk, D) /\ IsDisk(D)
    BY <1>2, <2>1, ParentFields DEF SameTree
  <2>3. PICK x : x = [D.nlink EXCEPT ![i] = D.nlink[i] + 1]
    OBVIOUS
  <2>4. PICK E : E = [D EXCEPT !.nlink = x]
    OBVIOUS
  <2>5. disk' = dir_add_entry(E, p, n, i)
    BY <1>1, <2>1, <2>2, <2>3, <2>4 DEF link_update_meta, IsDisk, DiskRec
  <2>6. x \in [Ino -> Int] /\ x[i] = D.nlink[i] + 1 /\ \A j \in Ino \ {i} : x[j] = D.nlink[j]
    BY <2>2, <2>3 DEF IsDisk, DiskRec
  <2>7. IsDisk(E)
    BY <2>2, <2>4, <2>6 DEF IsDisk, DiskRec
  <2>8. /\ E.ent = D.ent /\ E.kids = D.kids /\ E.nlink = x /\ E.kind = D.kind /\ E.loc = D.loc
        /\ E.sb = D.sb /\ E.mark = D.mark
    BY <2>2, <2>4 DEF IsDisk, DiskRec
  <2>9. /\ IsDisk(disk')
        /\ \A d \in Ino, m \in Names : disk'.ent[d][m] = IF d = p /\ m = n THEN i ELSE E.ent[d][m]
        /\ disk'.kids = [E.kids EXCEPT ![p] = E.kids[p] + 1]
        /\ disk'.nlink = [E.nlink EXCEPT ![p] = IF E.kind[i] = "dir" THEN E.nlink[p] + 1 ELSE E.nlink[p]]
        /\ disk'.kind = E.kind /\ disk'.loc = E.loc /\ disk'.sb = E.sb /\ disk'.mark = E.mark
    BY <2>5, <2>7, AddFields
  <2>10. disk'.nlink = x
    BY <1>1, <2>2, <2>6, <2>8, <2>9 DEF SameTree
  <2>11. disk'.kids = [disk.kids EXCEPT ![p] = @ + 1]
    BY <2>2, <2>8, <2>9 DEF SameTree
  <2>12. \A j \in Ino \ {i} : disk'.nlink[j] = disk.nlink[j]
    BY <2>2, <2>6, <2>10 DEF SameTree
  <2>13. Edited(p, n, i, 0)
    BY <1>1, <1>2, <2>2, <2>8, <2>9, <2>11, <2>12 DEF SameTree, Edited
  <2>14. disk.nlink[p] \in Int /\ DirBit(i) = 0 /\ DirBit(0) = 0
    BY <1>1, <1>2 DEF IsDisk, DiskRec, DirBit
  <2>15. Counted(p, i, 0)
    BY <1>1, <1>2, <2>12, <2>14 DEF Counted
  <2> QED
    BY <2>2, <2>6, <2>10, <2>13, <2>15 DEF SameTree
<1>7. /\ ~Doomed(i) /\ ~BeingDropped(i) /\ ~BeingMoved(i) /\ Cardinality(Name(disk, i)) \in Nat
      /\ disk.nlink[i] = Cardinality(Name(disk, i))
  BY <1>1, NamedCount
<1>8. ~Drops(r, i) /\ ~Moves(r, i) /\ ~Dooms(r, i)
  BY <1>4 DEF Drops, Moves, Dooms, Deleting
<1>9. ~BeingDropped(i)' /\ ~BeingMoved(i)' /\ ~Doomed(i)'
  BY <1>1, <1>5, <1>7, <1>8, UseBits
<1>10. Cardinality(Name(disk', i)) = Cardinality(Name(disk, i)) + 1
  BY <1>2, <1>6, EditedGives
<1>11. FileLinks(i)'
  BY <1>6, <1>7, <1>9, <1>10 DEF FileLinks, Due
<1>12. r.pc \notin Deleting \cup {"entry", "clear", "lmark"} /\ r.pc # "self"
  BY <1>4 DEF Deleting
<1>13. \A j \in Ino : /\ ~Dooms(r, j) /\ ~Dooms(th[t], j) /\ ~Drops(r, j) /\ ~Drops(th[t], j)
                      /\ ~Moves(r, j) /\ ~Moves(th[t], j)
  BY <1>1, <1>4 DEF Dooms, Drops, Moves, Deleting, Dropping
<1>14. \A j \in {i, 0} \ {0} : FileLinks(j)'
  BY <1>11
<1> QED
  BY <1>1, <1>2, <1>5, <1>6, <1>12, <1>13, <1>14, EditLinks

(* rename: a second name that is not counted, and a name that goes.        *)
LEMMA RenameLinks ==
  ASSUME Core, Links, NEW t \in Threads, NEW p \in Ino, NEW n \in Names, NEW q \in Ino, NEW m \in Names,
         hfuse_ll_rename(t, p, n, q, m)
  PROVE  Links'
<1>1. PICK i, o : i = disk.ent[p][n] /\ o = disk.ent[q][m]
  OBVIOUS
<1>2. PICK r : r = [Idle EXCEPT !.op = "rename",
             !.pc = IF o = 0 THEN "rmold"
                    ELSE IF disk.kind[o] = "dir" THEN "dmark" ELSE "nlink",
             !.p = p, !.n = n, !.q = q, !.i = i, !.o = o, !.vp = q,
             !.held = ({p, q, o} \cup (IF disk.kind[i] = "dir" THEN {} ELSE {i})) \ {0}]
  OBVIOUS
<1>3. /\ i # 0 /\ th[t].pc = "idle" /\ phase = "up" /\ phase' = "up" /\ lut' = lut
      /\ \A d \in {p, q, i} \cup ({o} \ {0}) : ~Locked(d) /\ (d = 1 \/ kernel.kn[d] > 0)
      /\ disk.kind[q] = "dir" /\ i # o /\ disk' = PlaceName(disk, q, m, i)
      /\ o # 0 => (disk.kind[i] = "dir" <=> disk.kind[o] = "dir")
      /\ th' = [th EXCEPT ![t] = r]
  BY <1>1, <1>2 DEF hfuse_ll_rename, Ready, Usable, lookup_dir, At, Refers, MayReplace
<1>4. ThTypes /\ IsDisk(disk) /\ i \in Ino /\ o \in Ino0 /\ (o # 0 => o \in Ino) /\ i \in Ino0
  BY <1>1, <1>3, Numbers DEF Core, Types, ThTypes, IsDisk, DiskRec
<1>5. <<p, n>> \in Name(disk, i) /\ <<q, m>> \in Name(disk, o)
  BY <1>1 DEF Name
<1>6. /\ r.op = "rename" /\ r.i = i /\ r.o = o
      /\ r.pc = IF o = 0 THEN "rmold" ELSE IF disk.kind[o] = "dir" THEN "dmark" ELSE "nlink"
  BY <1>2 DEF Idle
<1>7. StepTo(t, r)
  BY <1>3, <1>4 DEF StepTo, ThTypes
<1>8. Edited(q, m, i, o)
  BY <1>1, <1>3, <1>4, PlaceFields
<1>9. Counted(q, i, o)
  <2>1. disk.nlink[q] \in Int /\ DirBit(0) = 0 /\ DirBit(i) \in Int
    BY <1>4 DEF IsDisk, DiskRec, DirBit
  <2>2. CASE o = 0
    <3>1. disk' = dir_add_entry(disk, q, m, i) /\ SameTree(disk, disk)
      BY <1>1, <1>3, <1>4, <2>2 DEF PlaceName, lookup_dir, SameTree
    <3> QED
      BY <1>1, <1>3, <1>4, <2>2, <3>1, AddEdits
  <2>3. CASE o # 0
    <3>1. disk' = [disk EXCEPT !.ent[q][m] = i]
      BY <1>1, <1>3, <2>3 DEF PlaceName, lookup_dir, change_dir_entry_inode
    <3>2. disk'.nlink = disk.nlink
      BY <1>4, <3>1 DEF IsDisk, DiskRec
    <3>3. DirBit(i) = DirBit(o)
      BY <1>3, <2>3 DEF DirBit
    <3> QED
      BY <1>3, <2>1, <3>2, <3>3 DEF Counted
  <2> QED
    BY <2>2, <2>3
<1>10. disk'.kind = disk.kind /\ \A j \in Ino : disk.kind[j] # "dir" => disk'.nlink[j] = disk.nlink[j]
  <2>1. disk.kind[i] # "dir" => disk'.nlink = disk.nlink
    BY <1>1, <1>3, <1>4, PlaceFields
  <2> QED
    BY <1>8, <2>1 DEF Edited
<1>11. /\ Cardinality(Name(disk', i)) = Cardinality(Name(disk, i)) + 1
       /\ Cardinality(Name(disk', o)) = Cardinality(Name(disk, o)) - 1
  <2>1. IsDisk(disk) /\ Edited(q, m, i, o) /\ i \in Ino0 /\ o \in Ino0
    BY <1>4, <1>8
  <2>2. Cardinality(Name(disk', i)) = Cardinality(Name(disk, i)) + 1
    BY <2>1, EditedGives
  <2>3. Cardinality(Name(disk', o)) = Cardinality(Name(disk, o)) - 1
    BY <2>1, EditedTakes
  <2> QED
    BY <2>2, <2>3
<1>12. FileLinks(i)'
  <2>1. CASE disk.kind[i] = "dir"
    BY <1>10, <2>1 DEF FileLinks
  <2>2. CASE disk.kind[i] # "dir"
    <3>1. /\ ~Doomed(i) /\ ~BeingDropped(i) /\ ~BeingMoved(i) /\ Cardinality(Name(disk, i)) \in Nat
          /\ disk.kind[i] \in {"file", "lnk"} => disk.nlink[i] = Cardinality(Name(disk, i))
      BY <1>3, <1>4, <1>5, <2>2, NamedCount
    <3>2. ~Drops(r, i) /\ Moves(r, i) /\ ~Dooms(r, i)
      BY <1>3, <1>6 DEF Drops, Moves, Dooms, Deleting, Dropping
    <3>3. ~BeingDropped(i)' /\ BeingMoved(i)' /\ ~Doomed(i)'
      BY <1>3, <1>7, <3>1, <3>2, UseBits
    <3>4. disk'.nlink[i] = disk.nlink[i]
      BY <1>4, <1>10, <2>2
    <3> QED
      BY <1>10, <1>11, <3>1, <3>3, <3>4 DEF FileLinks, Due
  <2> QED
    BY <2>1, <2>2
<1>13. o # 0 => FileLinks(o)'
  <2> SUFFICES ASSUME o # 0 PROVE FileLinks(o)'
    OBVIOUS
  <2>0. o \in Ino
    BY <1>4
  <2>1. CASE disk.kind[o] = "dir"
    BY <1>10, <2>1 DEF FileLinks
  <2>2. CASE disk.kind[o] # "dir"
    <3>1. /\ ~Doomed(o) /\ ~BeingDropped(o) /\ ~BeingMoved(o) /\ Cardinality(Name(disk, o)) \in Nat
          /\ disk.kind[o] \in {"file", "lnk"} => disk.nlink[o] = Cardinality(Name(disk, o))
      BY <1>3, <1>5, <2>0, <2>2, NamedCount
    <3>2. Drops(r, o) /\ ~Moves(r, o) /\ ~Dooms(r, o)
      BY <1>3, <1>6, <2>2 DEF Drops, Moves, Dooms, Deleting, Dropping
    <3>3. BeingDropped(o)' /\ ~BeingMoved(o)' /\ ~Doomed(o)'
      BY <1>3, <1>7, <3>1, <3>2, UseBits
    <3>4. disk'.nlink[o] = disk.nlink[o]
      BY <1>10, <2>0, <2>2
    <3> QED
      BY <1>10, <1>11, <3>1, <3>3, <3>4 DEF FileLinks, Due
  <2> QED
    BY <2>1, <2>2
<1>14. r.pc \notin Deleting \cup {"entry", "clear", "lmark"} /\ r.pc # "self"
  BY <1>6 DEF Deleting
<1>15. \A j \in Ino \ {i, o} : /\ ~Dooms(r, j) /\ ~Dooms(th[t], j) /\ ~Drops(r, j) /\ ~Drops(th[t], j)
                               /\ ~Moves(r, j) /\ ~Moves(th[t], j)
  BY <1>3, <1>6 DEF Dooms, Drops, Moves, Deleting, Dropping
<1>16. \A j \in {i, o} \ {0} : FileLinks(j)'
  BY <1>12, <1>13
<1> QED
  BY <1>3, <1>4, <1>7, <1>8, <1>9, <1>14, <1>15, <1>16, EditLinks

(* The old name goes: the count is again that of the names.                *)
LEMMA RemoveOldNameLinks ==
  ASSUME Core, Links, NEW t \in Threads, RemoveOldName(t)
  PROVE  Links'
<1>1. th[t].pc = "rmold" /\ lut' = lut /\ phase' = phase /\ Agent(t)
  BY DEF RemoveOldName, At, Core, Agents
<1>2. PICK p, n, q, i : p = th[t].p /\ n = th[t].n /\ q = th[t].q /\ i = th[t].i
  OBVIOUS
<1>3. th[t].op = "rename" /\ Moving(t)
  BY <1>1 DEF Agent, Steps, Moving
<1>4. ThTypes /\ IsDisk(disk) /\ phase = "up"
  BY <1>1, <1>3, Mounted DEF Core, Types, ThTypes
<1>5. /\ p \in Ino /\ i \in Ino /\ n \in Names /\ disk.ent[p][n] = i
      /\ disk.kind[i] # "dir" => i \in th[t].held
  BY <1>1, <1>2, <1>3 DEF Agent, Mover
<1>6. <<p, n>> \in Name(disk, i) /\ n \in Kids(p) /\ i # 0 /\ i \in Ino0 /\ 0 \in Ino0
  BY <1>5, Numbers DEF Name, Kids, KidsOf
<1>7. disk.kind[p] = "dir"
  BY <1>5, <1>6 DEF Core, Inodes, Holds
<1>8. Edited(p, n, 0, i) /\ Counted(p, 0, i)
  <2>1. PICK D : D = dir_remove_entry(disk, p, n, i)
    OBVIOUS
  <2>2. IsDisk(D)
    BY <1>4, <1>5, <2>1, RemoveFields
  <2>3. disk' = D \/ disk' = change_parent_inode(D, i, q)
    BY <1>2, <2>1 DEF RemoveOldName
  <2>4. SameTree(D, disk')
    BY <2>2, <2>3, ParentFields DEF SameTree
  <2> QED
    BY <1>4, <1>5, <1>7, <2>1, <2>4, RemoveEdits
<1>9. PICK r : StepTo(t, r) /\ r.pc \in {"idle", "rstat"}
  <2>1. CASE th[t].p # th[t].q
    BY <1>4, <2>1, GotoStep DEF RemoveOldName, PCs
  <2>2. CASE th[t].p = th[t].q
    BY <1>4, <2>2, DoneStep, IdleFields DEF RemoveOldName
  <2> QED
    BY <2>1, <2>2
<1>10. \A j \in Ino : ~Dooms(r, j) /\ ~Dooms(th[t], j) /\ ~Drops(r, j) /\ ~Drops(th[t], j) /\ ~Moves(r, j)
  BY <1>1, <1>9 DEF Dooms, Drops, Moves, Deleting, Dropping
<1>11. \A j \in Ino \ {0, i} : ~Moves(th[t], j)
  BY <1>2 DEF Moves
<1>12. FileLinks(i)'
  <2>1. CASE disk.kind[i] = "dir"
    BY <1>8, <2>1 DEF FileLinks, Edited
  <2>2. CASE disk.kind[i] # "dir"
    <3>1. i \in th[t].held
      BY <1>5, <2>2
    <3>2. ~BeingDropped(i)
      BY <1>1, <3>1 DEF BeingDropped, Core, Exclusive, Agents, Agent, Dropper, Dropping
    <3>3. BeingMoved(i)
      BY <1>2, <1>3 DEF BeingMoved
    <3>4. \A u \in Threads \ {t} : ~Moves(th[u], i)
      <4> SUFFICES ASSUME NEW u \in Threads \ {t}, Moves(th[u], i) PROVE FALSE
        OBVIOUS
      <4>1. Moving(u) /\ th[u].i = i
        BY DEF Moves, Moving
      <4>2. i \in th[u].held
        BY <2>2, <4>1 DEF Core, Agents, Agent, Mover
      <4> QED
        BY <3>1, <4>2 DEF Core, Exclusive
    <3>5. ~Doomed(i)
      BY <1>5, <1>6 DEF Core, Unlinked, Detached
    <3>6. ~Doomed(i)'
      BY <1>1, <1>5, <1>9, <1>10, <3>5, UseBits
    <3>7. ~BeingMoved(i)'
      BY <1>1, <1>5, <1>9, <1>10, <3>4, UseBits
    <3>8. ~BeingDropped(i)'
      BY <1>1, <1>5, <1>9, <1>10, <3>2, UseBits
    <3>9. Cardinality(Name(disk', i)) = Cardinality(Name(disk, i)) - 1
      <4>1. Edited(p, n, 0, i) /\ IsDisk(disk) /\ p \in Ino /\ n \in Names
        BY <1>4, <1>5, <1>8
      <4> QED
        BY <1>6, <4>1, EditedTakes
    <3>10. disk'.nlink[i] = disk.nlink[i] /\ disk'.kind = disk.kind /\ disk'.loc = disk.loc
      BY <1>5, <1>7, <1>8, <2>2 DEF Edited, Counted
    <3>11. Cardinality(Name(disk, i)) \in Nat
      BY Finite
    <3>12. FileLinks(i)
      BY <1>5 DEF Links
    <3> QED
      BY <3>2, <3>3, <3>5, <3>6, <3>7, <3>8, <3>9, <3>10, <3>11, <3>12 DEF FileLinks, Due
  <2> QED
    BY <2>1, <2>2
<1>13. r.pc \notin Deleting \cup {"entry", "clear", "lmark"} /\ r.pc # "self"
  BY <1>9 DEF Deleting
<1>14. \A j \in {0, i} \ {0} : FileLinks(j)'
  BY <1>12
<1> QED
  BY <1>1, <1>4, <1>5, <1>6, <1>8, <1>9, <1>10, <1>11, <1>13, <1>14, EditLinks

-----------------------------------------------------------------------------
LEMMA LinksInit ==
  ASSUME Init
  PROVE  Links
<1>1. PICK sub \in Names :
        /\ \A d \in Ino, n \in Names : disk.ent[d][n] = IF d <= 2 /\ n = sub THEN d + 1 ELSE 0
        /\ \A i \in Ino :
             /\ disk.kind[i] = IF i <= 2 THEN "dir" ELSE IF i = 3 THEN "file" ELSE "none"
             /\ disk.loc[i] = IF i <= 3 THEN "meta" ELSE "none"
             /\ disk.sb[i] = IF i <= 3 THEN "live" ELSE "free"
             /\ disk.nlink[i] = IF i = 1 THEN 3 ELSE IF i = 2 THEN 2 ELSE IF i = 3 THEN 1 ELSE 0
        /\ Name(disk, 3) = {<<2, sub>>}
  BY InitFields
<1>2. 1 \in Ino /\ 2 \in Ino /\ 3 \in Ino /\ \A i \in Ino : i \in Int /\ i >= 1
  BY NamespaceAssumption DEF Ino
<1>3. \A i \in Ino : ~lut[i].del
  BY <1>2 DEF Init, NoNodes
<1>4. phase = "up" /\ \A t \in Threads : th[t].pc = "idle"
  BY IdleFields DEF Init
<1>5. disk.kind[2] = "dir" /\ disk.kind[3] = "file"
  BY <1>1, <1>2
<1>6. SubdirsOf(disk, 1) = {sub} /\ SubdirsOf(disk, 2) = {}
  <2>1. \A n \in Names : disk.ent[1][n] = (IF n = sub THEN 2 ELSE 0) /\ disk.ent[2][n] = IF n = sub THEN 3 ELSE 0
    BY <1>1, <1>2
  <2> QED
    BY <1>5, <2>1 DEF SubdirsOf
<1>7. \A i \in Ino : DirLinks(i)
  <2>1. Cardinality({}) = 0 /\ Cardinality({sub}) = 1
    BY FS_EmptySet, FS_Singleton
  <2>2. \A i \in Ino : disk.kind[i] = "dir" => i = 1 \/ i = 2
    BY <1>1, <1>2
  <2>3. disk.nlink[1] = 2 + Cardinality(SubdirsOf(disk, 1)) /\ disk.nlink[2] = 2 + Cardinality(SubdirsOf(disk, 2))
    <3>1. disk.nlink[1] = 3 /\ disk.nlink[2] = 2
      BY <1>1, <1>2
    <3>2. Cardinality(SubdirsOf(disk, 1)) = 1 /\ Cardinality(SubdirsOf(disk, 2)) = 0
      BY <1>6, <2>1
    <3> QED
      BY <3>1, <3>2
  <2> QED
    BY <2>2, <2>3 DEF DirLinks
<1>8. \A i \in Ino : FileLinks(i) /\ InPlace(i)
  <2>1. \A i \in Ino : disk.kind[i] \in {"file", "lnk"} => i = 3
    BY <1>1, <1>2
  <2>2. Cardinality(Name(disk, 3)) = 1
    <3>1. Cardinality({<<2, sub>>}) = 1
      BY FS_Singleton
    <3> QED
      BY <1>1, <3>1
  <2>9. disk.nlink[3] = 1
    BY <1>1, <1>2
  <2>3. ~BeingDropped(3) /\ ~BeingMoved(3)
    BY <1>4 DEF BeingDropped, BeingMoved, Moving, Dropping
  <2>4. \A i \in Ino : FileLinks(i)
    BY <2>1, <2>2, <2>9, <2>3 DEF FileLinks, Due
  <2>5. \A i \in Ino : InPlace(i)
    BY <1>1 DEF InPlace
  <2> QED
    BY <2>4, <2>5
<1>9. \A i \in Ino : MarkedToo(i) /\ PassedBy(i)
  BY <1>3 DEF MarkedToo, PassedBy
<1>10. \A t \in Threads : NotInPlace(t) /\ HasMark(t) /\ ~Retires(t)
  BY <1>4 DEF NotInPlace, HasMark, Retires, Deleting
<1> QED
  BY <1>7, <1>8, <1>9, <1>10 DEF Links, OneRetires

(* A step without a crash and without a reuse under an old marker.         *)
LEMMA HandlerLinks ==
  ASSUME Core, Links, NEW t \in Threads, Handler(t)
  PROVE  Links'
BY AddEntryLinks, SelfMetaLinks, StatLinks, DecreaseNlinkLinks, MarkDiskLinks, MarkLookupLinks,
   RemoveOldNameLinks, DeletionLinks, NextMarkedLinks, LoopDoneLinks
DEF Handler

LEMMA RequestLinks ==
  ASSUME Core, Links, IsLeft(left), ~left'.stale, NEW t \in Threads, Request(t)
  PROVE  Links'
<1>1. "file" \in Kinds /\ "dir" \in Kinds /\ "lnk" \in Kinds
  BY DEF Kinds
<1>2. ASSUME NEW p \in Ino, NEW n \in Names,
             hfuse_ll_mknod(t, p, n) \/ hfuse_ll_create(t, p, n) \/ hfuse_ll_mkdir(t, p, n)
               \/ symlink_internal(t, p, n)
      PROVE  Links'
  BY <1>1, <1>2, NewInodeLinks DEF hfuse_ll_mknod, hfuse_ll_create, hfuse_ll_mkdir, symlink_internal
<1>3. ASSUME NEW p \in Ino, NEW n \in Names,
             hfuse_ll_lookup(t, p, n) \/ hfuse_ll_unlink(t, p, n) \/ hfuse_ll_rmdir(t, p, n)
      PROVE  Links'
  BY <1>3, BesideLinks, UnlinkLinks, RmdirLinks
<1>4. ASSUME NEW p \in Ino, NEW q \in Ino, NEW n \in Names, NEW m \in Names, hfuse_ll_rename(t, p, n, q, m)
      PROVE  Links'
  BY <1>4, RenameLinks
<1>5. ASSUME NEW i \in Ino, NEW p \in Ino, NEW n \in Names, hfuse_ll_link(t, i, p, n)
      PROVE  Links'
  BY <1>5, LinkLinks
<1>6. ASSUME NEW i \in Ino, hfuse_ll_forget(t, i)
      PROVE  Links'
  BY <1>6, ForgetLinks
<1> QED
  BY <1>2, <1>3, <1>4, <1>5, <1>6 DEF Request

LEMMA LinksStep ==
  ASSUME Core, Links, IsLeft(left), ~left'.stale, [Next]_vars, ~Crash
  PROVE  Links'
<1>1. ~\E t \in Threads : startup_finish_delete(t)
  BY DEF Core, Types, startup_finish_delete
<1>2. CASE \E t \in Threads : Handler(t) \/ Request(t)
  BY <1>2, HandlerLinks, RequestLinks
<1>3. CASE \E t \in Threads : lookup_destroy(t)
  BY <1>3, LookupDestroyLinks
<1>4. CASE \E i \in Ino : Evict(i) \/ dsync_finished(i) \/ uploaded(i)
  BY <1>4, BesideLinks, DsyncLinks
<1>5. CASE UNCHANGED vars
  BY <1>5, BesideLinks
<1> QED
  BY <1>1, <1>2, <1>3, <1>4, <1>5 DEF Next

(* Once a number was reused under its old marker, that stays recorded.     *)
LEMMA StaleStays ==
  ASSUME IsLeft(left), [Next]_vars, ~Crash, left.stale
  PROVE  left'.stale
<1>1. ASSUME NEW t \in Threads, NEW p \in Ino, NEW n \in Names, NEW k, NewInode(t, p, n, k)
      PROVE  left'.stale
  <2>1. PICK x, y : left' = [left EXCEPT !.ops = x, !.stale = left.stale \/ y]
    BY <1>1 DEF NewInode
  <2> QED
    BY <2>1 DEF IsLeft
<1>2. ASSUME NEW x, left' = left \/ left' = [left EXCEPT !.ops = x]
        \/ \E y : left' = [left EXCEPT !.ops = x, !.umount = y]
      PROVE  left'.stale
  BY <1>2 DEF IsLeft
<1>3. CASE Spend
  BY <1>2, <1>3 DEF Spend
<1>4. CASE \E t \in Threads : Handler(t)
  <2>1. left' = left
    BY <1>4 DEF Handler, AddEntry, SelfMeta, NewDone, decrease_nlink_inode_file, MarkDisk, MarkLookup,
       DropParent, RemoveOldName, ReadMovedStat, MoveParent, DeleteMeta, ToDelete, DeleteFile, FreeNumber,
       ClearMark, NextMarked, LoopDone
  <2> QED
    BY <2>1
<1>5. CASE \E t \in Threads : Request(t)
  <2>1. PICK t \in Threads : Request(t)
    BY <1>5
  <2>2. ASSUME NEW p \in Ino, NEW n \in Names,
               hfuse_ll_mknod(t, p, n) \/ hfuse_ll_create(t, p, n) \/ hfuse_ll_mkdir(t, p, n)
                 \/ symlink_internal(t, p, n)
        PROVE  left'.stale
    BY <1>1, <2>2 DEF hfuse_ll_mknod, hfuse_ll_create, hfuse_ll_mkdir, symlink_internal
  <2>3. ASSUME NEW p \in Ino, NEW n \in Names,
               hfuse_ll_lookup(t, p, n) \/ hfuse_ll_unlink(t, p, n) \/ hfuse_ll_rmdir(t, p, n)
        PROVE  left'.stale
    <3>1. UNCHANGED left \/ Spend
      BY <2>3 DEF hfuse_ll_lookup, hfuse_ll_unlink, hfuse_ll_rmdir
    <3> QED
      BY <1>3, <3>1
  <2>4. ASSUME NEW p \in Ino, NEW q \in Ino, NEW n \in Names, NEW m \in Names, hfuse_ll_rename(t, p, n, q, m)
        PROVE  left'.stale
    <3>1. Spend
      BY <2>4 DEF hfuse_ll_rename
    <3> QED
      BY <1>3, <3>1
  <2>5. ASSUME NEW i \in Ino, NEW p \in Ino, NEW n \in Names, hfuse_ll_link(t, i, p, n)
        PROVE  left'.stale
    <3>1. Spend
      BY <2>5 DEF hfuse_ll_link
    <3> QED
      BY <1>3, <3>1
  <2>6. ASSUME NEW i \in Ino, hfuse_ll_forget(t, i)
        PROVE  left'.stale
    BY <2>6 DEF hfuse_ll_forget
  <2> QED
    BY <2>1, <2>2, <2>3, <2>4, <2>5, <2>6 DEF Request
<1>6. CASE \E t \in Threads : lookup_destroy(t) \/ startup_finish_delete(t)
  <2>1. left' = left \/ \E x, y : left' = [left EXCEPT !.ops = x, !.umount = y]
    BY <1>6 DEF lookup_destroy, startup_finish_delete
  <2> QED
    BY <1>2, <2>1
<1>7. CASE \E i \in Ino : Evict(i) \/ dsync_finished(i) \/ uploaded(i)
  BY <1>7 DEF Evict, dsync_finished, uploaded
<1>8. CASE UNCHANGED vars
  BY <1>8 DEF vars
<1> QED
  BY <1>4, <1>5, <1>6, <1>7, <1>8 DEF Next

(* The link counts are an invariant on top of Core.                        *)
LinksInv == NoCrash /\ ~left.stale => Links

LEMMA LinksInvariant == Spec => []LinksInv
<1>1. Init => LinksInv
  BY LinksInit DEF LinksInv
<1>2. IInv /\ LinksInv /\ [Next]_vars => LinksInv'
  <2> SUFFICES ASSUME IInv, LinksInv, [Next]_vars, NoCrash', ~left'.stale PROVE Links'
    BY DEF LinksInv
  <2>1. IsLeft(left') /\ (left'.crash = left.crash \/ (Crash /\ left'.crash = left.crash - 1))
    BY CrashCount DEF IInv
  <2>2. left.crash \in Int /\ MaxCrash \in Int /\ left.crash <= MaxCrash
    BY NamespaceAssumption DEF IInv, IsLeft
  <2>3. ~Crash /\ NoCrash
    <3>1. Crash => left'.crash = left.crash - 1
      BY DEF Crash, IInv, IsLeft
    <3> QED
      BY <2>1, <2>2, <3>1 DEF NoCrash
  <2>4. IsLeft(left) /\ ~left.stale
    BY <2>3, StaleStays DEF IInv
  <2>5. Core /\ Links
    BY <2>3, <2>4 DEF IInv, LinksInv
  <2> QED
    BY <2>3, <2>4, <2>5, LinksStep
<1> QED
  BY <1>1, <1>2, NamespaceInvariant, PTL DEF Spec

(* The link counts of hfuse_ll_link, unlink, rmdir, rename and the         *)
(* creations: without a crash, and while no number was reused under its    *)
(* old marker, an inode no handler is working on has as many links as      *)
(* names, or the 1 that is left of a marked one, and a directory's nlink   *)
(* and total_children count its subdirectories and its entries.            *)
THEOREM NamespaceLinkCounts == Spec => []LinkCountExact
<1>1. IInv /\ LinksInv => LinkCountExact
  <2> SUFFICES ASSUME Core, Links, NEW i \in Ino, disk.loc[i] = "meta", Untouched(i)
               PROVE  IF disk.kind[i] = "dir"
                      THEN LET E == {n \in Names : disk.ent[i][n] # 0} IN
                           /\ disk.kids[i] = Cardinality(E)
                           /\ disk.nlink[i] = 2 + Cardinality({n \in E : disk.kind[disk.ent[i][n]] = "dir"})
                      ELSE IF lut[i].del THEN Name(disk, i) = {} /\ disk.nlink[i] = 1
                      ELSE disk.nlink[i] = Cardinality(Name(disk, i))
    BY DEF LinkCountExact, IInv, LinksInv
  <2>1. CASE disk.kind[i] = "dir"
    <3> DEFINE E == {n \in Names : disk.ent[i][n] # 0}
    <3>1. E = Kids(i) /\ disk.kids[i] = Cardinality(Kids(i))
      BY DEF Core, Inodes, Holds, Kids, KidsOf
    <3>2. {n \in E : disk.kind[disk.ent[i][n]] = "dir"} = SubdirsOf(disk, i)
      BY DEF SubdirsOf
    <3>3. disk.nlink[i] = 2 + Cardinality(SubdirsOf(disk, i))
      BY <2>1 DEF Links, DirLinks
    <3> QED
      BY <2>1, <3>1, <3>2, <3>3
  <2>2. CASE disk.kind[i] # "dir"
    <3>1. disk.kind[i] \in {"file", "lnk"}
      <4>1. disk.kind[i] \in Kinds \cup {"none"}
        BY DEF Core, Types, IsDisk, DiskRec
      <4>2. disk.kind[i] # "none"
        BY DEF Links, InPlace, Core, Inodes, Holds
      <4> QED
        BY <2>2, <4>1, <4>2 DEF Kinds
    <3>2. disk.nlink[i] = IF Doomed(i) THEN 1 ELSE Cardinality(Name(disk, i)) + Due(i)
      BY <3>1 DEF Links, FileLinks
    <3>3. lut[i].del => Doomed(i) /\ Name(disk, i) = {}
      BY DEF Core, Unlinked, Doomed, Detached
    <3>4. ~lut[i].del => ~Doomed(i)
      BY DEF Untouched, Doomed
    <3>5. ~BeingDropped(i) /\ ~BeingMoved(i) /\ Cardinality(Name(disk, i)) \in Nat
      BY Finite DEF Untouched, BeingDropped, BeingMoved
    <3>6. Due(i) = 0
      BY <3>5 DEF Due
    <3> QED
      BY <2>2, <3>2, <3>3, <3>4, <3>5, <3>6
  <2> QED
    BY <2>1, <2>2
<1> QED
  BY <1>1, NamespaceInvariant, LinksInvariant, PTL
=============================================================================
