----------------------------- MODULE Components -----------------------------
(***************************************************************************)
(* The components that share no state in the models, checked side by side: *)
(* one of them runs in a behaviour, and its variable is the only one that  *)
(* changes.  The bounds and the small instances of all of them are here.   *)
(***************************************************************************)
EXTENDS ParentLookup, QueueRecovery, RebuildSB, FullScan, MetaCache, DirPageCache,
        CloudDelete, Restoration, Volumes, Directory, Xattr, EventQueue, FuseNotify,
        CacheLoop, Pinning, PathCache, PageTree, MinApkTable, TLC

VARIABLE part

state == <<pl, qr, rb, fs, mc, dc, cd, rs, vm, dt, xa, ev, fn, cl, pn, pk, pt, hl>>
vars == <<part, state>>

-----------------------------------------------------------------------------
(* Instances.                                                              *)

RootDirs == <<1>>
DirsIn == (1 :> <<2>>) @@ (2 :> <<>>) @@ (3 :> <<>>) @@ (4 :> <<>>)
FilesIn == (1 :> <<3>>) @@ (2 :> <<4>>) @@ (3 :> <<>>) @@ (4 :> <<>>)
BlocksInCloud == (1 :> {"b1", "b2"}) @@ (2 :> {"b1"})

Kid(i, n, t) == [ino |-> i, name |-> n, type |-> t]
BackedUp ==
  << [vol |-> "app", root |-> 1], [vol |-> "data", root |-> 2],
     [vol |-> "ext", root |-> 3], [vol |-> "smart", root |-> 4] >>
ChildrenOf ==
  (1 :> <<Kid(11, "pkg", "dir")>>)
    @@ (2 :> <<Kid(21, "link1", "link"), Kid(22, "link2", "link")>>)
    @@ (3 :> <<Kid(31, "Android", "dir"), Kid(32, "skipped", "file")>>)
    @@ (4 :> <<Kid(41, "hcfsblock", "file")>>)
    @@ (11 :> <<Kid(13, "lib", "dir"), Kid(14, "base.apk", "file"), Kid(15, "oat", "file")>>)
    @@ (13 :> <<Kid(17, "so", "file")>>)
    @@ (31 :> <<>>)
BlocksOfFile == (14 :> 1..2) @@ (15 :> {1}) @@ (17 :> {1}) @@ (41 :> 1..2) @@ (32 :> {1})

MountSites == {<<1, 1>>, <<2, 1>>, <<2, 2>>, <<2, 3>>}
VolumeBound(s, d, m, u) == [stats |-> s, dbs |-> d, mounts |-> m, uploads |-> u]
VolumeBounds == {VolumeBound(2, 2, 3, 0), VolumeBound(0, 4, 1, 2), VolumeBound(0, 2, 4, 0)}

(* Directories made by a history of additions and removals.                *)
Added(a, b) == [i \in 1..(b - a + 1) |-> <<a + i - 1, TRUE>>]
AddedBackwards(a, b) == [i \in 1..(b - a + 1) |-> <<b - i + 1, TRUE>>]
Removed(s) == [i \in 1..Len(s) |-> <<s[i], FALSE>>]
DirCase(hist, ops, opens) == [hist |-> hist, ops |-> ops, opens |-> opens]
Directories ==
  { DirCase(Added(1, 11) \o Removed(<<9, 10, 5>>), 3, 0),
    DirCase(Added(1, 47) \o Removed(<<17, 18, 21, 19, 1, 2, 5, 3, 9, 10, 13, 11, 4, 30, 31, 25>>), 2, 0),
    DirCase(Added(1, 36) \o Removed([i \in 1..12 |-> i]), 2, 0),
    DirCase(AddedBackwards(1, 31), 0, 0),
    DirCase(Added(1, 6), 1, 1),
    DirCase(Added(1, 7), 1, 2),
    DirCase(Added(1, 31), 1, 1) }

AttributeNames ==
  {<<"USER", 1>>, <<"USER", 3>>, <<"SECURITY", 1>>, <<"SECURITY", 2>>, <<"USER", 5>>}

CleanBlocks == (1 :> 1) @@ (2 :> 1)
DirtyBlocks == (1 :> 0) @@ (2 :> 1)

FilesInDir == 9 :> <<1>>
DirsInDir == 9 :> <<>>
CloudOnly == (1 :> 1) @@ (2 :> 2)
PinTargets == {<<9>>, <<2>>}
PinBound(o, r, x) == [ops |-> o, errors |-> r, extends |-> x]
PinningBounds == {PinBound(2, 1, 0), PinBound(1, 1, 1)}

-----------------------------------------------------------------------------
Off == <<>>

Init ==
  /\ part \in {"lookup", "queue", "rebuild", "scan", "meta", "pages", "delete", "restore",
               "volumes", "dirs", "xattr", "events", "notices", "cache", "pin", "paths",
               "tree", "apk"}
  /\ PLInit
  /\ IF part = "queue" THEN QRInit ELSE qr = Off
  /\ IF part = "rebuild" THEN RBInit ELSE rb = Off
  /\ IF part = "scan" THEN FSInit ELSE fs = Off
  /\ IF part = "meta" THEN MCInit ELSE mc = Off
  /\ IF part = "pages" THEN DCInit ELSE dc = Off
  /\ IF part = "delete" THEN CDInit ELSE cd = Off
  /\ IF part = "restore" THEN RSInit ELSE rs = Off
  /\ IF part = "volumes" THEN VMInit ELSE vm = Off
  /\ IF part = "dirs" THEN DTInit ELSE dt = Off
  /\ IF part = "xattr" THEN XAInit ELSE xa = Off
  /\ IF part = "events" THEN EQInit ELSE ev = Off
  /\ IF part = "notices" THEN FNInit ELSE fn = Off
  /\ IF part = "cache" THEN CLInit ELSE cl = Off
  /\ IF part = "pin" THEN PNInit ELSE pn = Off
  /\ IF part = "paths" THEN PKInit ELSE pk = Off
  /\ IF part = "tree" THEN PTInit ELSE pt = Off
  /\ IF part = "apk" THEN HLInit ELSE hl = Off

(* One step of the part that runs.                                         *)
Next ==
  \/ part = "lookup" /\ PLNext
       /\ UNCHANGED <<part, qr, rb, fs, mc, dc, cd, rs, vm, dt, xa, ev, fn, cl, pn, pk, pt, hl>>
  \/ part = "queue" /\ QRNext
       /\ UNCHANGED <<part, pl, rb, fs, mc, dc, cd, rs, vm, dt, xa, ev, fn, cl, pn, pk, pt, hl>>
  \/ part = "rebuild" /\ RBNext
       /\ UNCHANGED <<part, pl, qr, fs, mc, dc, cd, rs, vm, dt, xa, ev, fn, cl, pn, pk, pt, hl>>
  \/ part = "scan" /\ FSNext
       /\ UNCHANGED <<part, pl, qr, rb, mc, dc, cd, rs, vm, dt, xa, ev, fn, cl, pn, pk, pt, hl>>
  \/ part = "meta" /\ MCNext
       /\ UNCHANGED <<part, pl, qr, rb, fs, dc, cd, rs, vm, dt, xa, ev, fn, cl, pn, pk, pt, hl>>
  \/ part = "pages" /\ DCNext
       /\ UNCHANGED <<part, pl, qr, rb, fs, mc, cd, rs, vm, dt, xa, ev, fn, cl, pn, pk, pt, hl>>
  \/ part = "delete" /\ CDNext
       /\ UNCHANGED <<part, pl, qr, rb, fs, mc, dc, rs, vm, dt, xa, ev, fn, cl, pn, pk, pt, hl>>
  \/ part = "restore" /\ RSNext
       /\ UNCHANGED <<part, pl, qr, rb, fs, mc, dc, cd, vm, dt, xa, ev, fn, cl, pn, pk, pt, hl>>
  \/ part = "volumes" /\ VMNext
       /\ UNCHANGED <<part, pl, qr, rb, fs, mc, dc, cd, rs, dt, xa, ev, fn, cl, pn, pk, pt, hl>>
  \/ part = "dirs" /\ DTNext
       /\ UNCHANGED <<part, pl, qr, rb, fs, mc, dc, cd, rs, vm, xa, ev, fn, cl, pn, pk, pt, hl>>
  \/ part = "xattr" /\ XANext
       /\ UNCHANGED <<part, pl, qr, rb, fs, mc, dc, cd, rs, vm, dt, ev, fn, cl, pn, pk, pt, hl>>
  \/ part = "events" /\ EQNext
       /\ UNCHANGED <<part, pl, qr, rb, fs, mc, dc, cd, rs, vm, dt, xa, fn, cl, pn, pk, pt, hl>>
  \/ part = "notices" /\ FNNext
       /\ UNCHANGED <<part, pl, qr, rb, fs, mc, dc, cd, rs, vm, dt, xa, ev, cl, pn, pk, pt, hl>>
  \/ part = "cache" /\ CLNext
       /\ UNCHANGED <<part, pl, qr, rb, fs, mc, dc, cd, rs, vm, dt, xa, ev, fn, pn, pk, pt, hl>>
  \/ part = "pin" /\ PNNext
       /\ UNCHANGED <<part, pl, qr, rb, fs, mc, dc, cd, rs, vm, dt, xa, ev, fn, cl, pk, pt, hl>>
  \/ part = "paths" /\ PKNext
       /\ UNCHANGED <<part, pl, qr, rb, fs, mc, dc, cd, rs, vm, dt, xa, ev, fn, cl, pn, pt, hl>>
  \/ part = "tree" /\ PTNext
       /\ UNCHANGED <<part, pl, qr, rb, fs, mc, dc, cd, rs, vm, dt, xa, ev, fn, cl, pn, pk, hl>>
  \/ part = "apk" /\ HLNext
       /\ UNCHANGED <<part, pl, qr, rb, fs, mc, dc, cd, rs, vm, dt, xa, ev, fn, cl, pn, pk, pt>>

Spec == Init /\ [][Next]_vars

-----------------------------------------------------------------------------
(* Every variable keeps to its type.                                       *)
TypeOK ==
  CASE part = "lookup" -> PLTypeOK
    [] part = "queue" -> QRTypeOK
    [] part = "rebuild" -> RBTypeOK
    [] part = "scan" -> FSTypeOK
    [] part = "meta" -> MCTypeOK
    [] part = "pages" -> DCTypeOK
    [] part = "delete" -> CDTypeOK
    [] part = "restore" -> RSTypeOK
    [] part = "volumes" -> VMTypeOK
    [] part = "dirs" -> DTTypeOK
    [] part = "xattr" -> XATypeOK
    [] part = "events" -> EQTypeOK
    [] part = "notices" -> FNTypeOK
    [] part = "cache" -> CLTypeOK
    [] part = "pin" -> PNTypeOK
    [] part = "paths" -> PKTypeOK
    [] part = "tree" -> PTTypeOK
    [] part = "apk" -> HLTypeOK

(* lookup_add_parent, lookup_delete_parent, lookup_replace_parent: the     *)
(* pages of plookup2 give every inode the parents the abstract table gives *)
(* it, step by step.                                                       *)
LookupRefines == Implements

(* Recovery of the dirty queue, rebuilding of the super block and the full *)
(* scan for numbers to be used again: whatever the crashes, restarts and   *)
(* operations in between, the queue, the entries and the reclaim list are  *)
(* the ones the entries and the file systems call for.                     *)
SuperBlockRepaired ==
  /\ part = "queue" => QueueExact
  /\ part = "rebuild" => RebuildComplete
  /\ part = "scan" => ReclaimSound

(* Deletion from the cloud and restoration: a number is freed only when no *)
(* object of it is left; what is put in place is complete and usable,      *)
(* after any crash.                                                        *)
CloudSound ==
  /\ part = "delete" => DeletedClean
  /\ part = "restore" => RestorationSound

(* The metadata of a file or directory on disk and in memory: cached       *)
(* entries and pages, the B-tree of a directory, extended attributes, the  *)
(* page tree of a file and its upload progress.                            *)
MetadataSound ==
  /\ part = "meta" => EntriesHeld /\ DeadlockCauses
  /\ part = "pages" => PagesCoherent
  /\ part = "dirs" => DirectorySound
  /\ part = "xattr" => XattrSound
  /\ part = "tree" => TreesExact

(* The tables: parents of an inode (no page in two chains or in none),     *)
(* mounted volumes and their statistics, cached paths, minimal apks.       *)
TablesSound ==
  /\ part = "lookup" => PagesConserved
  /\ part = "volumes" => VolumesSound
  /\ part = "paths" => PathsExact
  /\ part = "apk" => MinApkExact

(* The two ring buffers hand every event and every notice on once, in      *)
(* order, and forget none.                                                 *)
QueuesSound ==
  /\ part = "events" => EventsExact
  /\ part = "notices" => NoticesExact

(* The cache loop and the pinning scheduler: no block is removed that is   *)
(* not stored elsewhere, and counters and queues say what is there.        *)
CacheSound ==
  /\ part = "cache" => CacheLoopSound
  /\ part = "pin" => PinningSound
=============================================================================
