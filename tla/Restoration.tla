----------------------------- MODULE Restoration -----------------------------
(***************************************************************************)
(* do_restoration.c and control_smartcache.c: the first stage of restoring *)
(* a device from the cloud.  The volumes are walked from their roots; the  *)
(* metadata of every entry and the blocks of pinned files are fetched; an  *)
(* entry whose object is missing is pruned, or the walk fails.  The smart  *)
(* cache image is moved into the running system, repaired there and moved  *)
(* back.  A tag on disk tells the next start at which stage it is.  The    *)
(* program may stop between any two steps; the walk then starts anew.      *)
(***************************************************************************)
EXTENDS Naturals, Sequences, SequencesExt, FiniteSets

CONSTANTS RVolumes,        \* sequence of [vol, root], as in FSmgr
          RKids,           \* directory -> sequence of [ino, name, type]
          RBlocks,         \* file -> its blocks in the cloud, a set 1..n
          RPinned,         \* files whose blocks are restored
          HighPri,         \* directories pinned with high priority
          SmartDirs,       \* names with a folder in the smart cache image
          RCacheLimit,     \* cache limit, in blocks
          MaxMissing,      \* bound: objects missing in the cloud
          MaxRestoreCrashes \* bound: restarts

ASSUME RestorationAssumption ==
  \A i \in 1..Len(RVolumes) : RVolumes[i].vol \in {"app", "data", "ext", "smart"}

VARIABLE rs  \* on disk: tag, rtag (its link in the restored path), mpath and bpath (which
             \* metadata and blocks are current), meta, ents (names in a restored directory), st (status of
             \* the blocks in restored metadata), blk (restored blocks), info (smart cache
             \* record); in the running system: inj (smart cache blocks moved there);
             \* in memory: pc, stack, v (volume), used (cache_blocks of the restored
             \* system), smart (restored_smartcache_ino), already; gone (missing objects), own (blocks in the
             \* cache of the running system),
             \* crashes; histories: fetched (directories expanded), skip (entries passed
             \* over), clamped,
             \* torn (a crash fell in a window of the tag)

RDirs == DOMAIN RKids
RFiles == DOMAIN RBlocks
REntries == UNION {ToSet(RKids[d]) : d \in RDirs}
RInodes == {e.ino : e \in REntries} \cup {RVolumes[i].root : i \in DOMAIN RVolumes}
SmartVol == {i \in DOMAIN RVolumes : RVolumes[i].vol = "smart"}
SmartRoot == RVolumes[CHOOSE i \in SmartVol : TRUE].root
SmartFile == RKids[SmartRoot][1].ino
BlockIds(f) == {<<f, b>> : b \in RBlocks[f]}
Meta(i) == <<i, 0>>
Objects == {Meta(i) : i \in RInodes} \cup UNION {BlockIds(f) : f \in RFiles}
Top == Head(rs.stack)
Entry(f) == RKids[f.dir][f.k]
Lookup(n) == CHOOSE e \in REntries : e.ino = n

(* _check_expand; a directory pinned with high priority is always          *)
(* expanded.  run_download_minimal walks the data volume under the path    *)
(* /dev/MY-TERA (do_restoration.c:2928), so that no path of the walk       *)
(* begins with /data/data: what the code does for such a path (NEED_FETCH  *)
(* and APP_DATA_FOLDER here, the lib-only rule, the repair of a missing    *)
(* object from the device) is never reached, and a high-priority directory *)
(* is the only kind of that volume that is expanded.                       *)
_check_expand(d, vol, depth, android) ==
  CASE d \in HighPri -> "NEED_FETCH"
    [] vol = "smart" -> "NEED_FETCH"
    [] vol = "app" -> "IS_APP_BIN"
    [] vol = "ext" /\ depth = 0 -> "EMULATED_ROOT"
    [] vol = "ext" /\ android /\ depth \in 1..3 -> "NEED_FETCH"
    [] vol = "ext" /\ depth \in 2..3 -> "NEED_FETCH"
    [] vol = "ext" /\ depth = 1 -> "EMULATED_USER_ROOT"
    [] OTHER -> "NO_FETCH"

Skipped(f) == \/ f.expand = "EMULATED_ROOT" /\ Entry(f).name \notin {"Android", "0"}
              \/ f.expand = "EMULATED_USER_ROOT" /\ Entry(f).name # "Android"

Frame(d, vol, depth, android) ==
  [dir |-> d, vol |-> vol, depth |-> depth, android |-> android, k |-> 1,
   expand |-> _check_expand(d, vol, depth, android), can |-> vol \in {"smart", "app"},
   prune |-> {}, b |-> 0]

-----------------------------------------------------------------------------
(* The tag is kept in the metadata path, and linked into the restored one. *)
(* tag_restoration removes it, writes it, removes the link and links it:   *)
(* step n of the four.                                                     *)
NoTag == "none"
tag_restoration(r, t, n) ==
  CASE n = 1 -> [r EXCEPT !.tag = NoTag]
    [] n = 2 -> [r EXCEPT !.tag = t]
    [] n = 3 -> [r EXCEPT !.rtag = NoTag]
    [] n = 4 -> [r EXCEPT !.rtag = t]

initiate_restoration ==
  /\ rs.pc = "off" /\ rs.tag = NoTag
  /\ rs' = [tag_restoration(tag_restoration(rs, "downloading_minimal", 2), "downloading_minimal", 4)
              EXCEPT !.pc = "boot"]

check_restoration_status == rs.tag

(* Start-up in stage 1; the counts of the restored system start at zero.   *)
start_download_minimal ==
  /\ rs.pc = "boot" /\ check_restoration_status = "downloading_minimal" /\ rs.mpath = "old"
  /\ rs' = [rs EXCEPT !.pc = IF SmartVol = {} THEN "volumes" ELSE "smart", !.used = 0,
                      !.smart = FALSE, !.already = FALSE, !.v = 1, !.stack = <<>>]

(* Start-up in stage 2: the restored paths replace the current ones, one   *)
(* rename at a time, and the tag goes with the path it is in.              *)
_check_partial_storage ==
  /\ rs.pc = "boot" /\ check_restoration_status = "rebuilding_meta"
  /\ rs' = CASE rs.mpath = "old" -> [rs EXCEPT !.mpath = "none", !.tag = NoTag, !.pc = "swap"]
             [] rs.bpath = "old" -> [rs EXCEPT !.bpath = "none"]
             [] rs.bpath = "none" -> [rs EXCEPT !.bpath = "restored"]
             [] OTHER -> [rs EXCEPT !.pc = "stage2"]
RenameRestored ==
  /\ rs.pc = "swap"
  /\ rs' = [rs EXCEPT !.mpath = "restored", !.tag = rs.rtag, !.pc = "boot"]

(* A start that finds no stage to continue, although one was under way.    *)
LoseStage ==
  /\ rs.pc = "boot"
  /\ rs.tag = NoTag \/ (rs.tag = "downloading_minimal" /\ rs.mpath # "old")
  /\ rs' = [rs EXCEPT !.pc = "lost"]

update_restored_cache_usage(r, n) ==
  [r EXCEPT !.used = @ + n]
(* A subtraction below zero is cut off at zero.                            *)
LowerUsage(r, n) == [r EXCEPT !.used = IF n > @ THEN 0 ELSE @ - n,
                              !.clamped = @ \/ n > r.used]

_fetch_meta(r, i) ==
  [r EXCEPT !.meta[i] = "here",
            !.ents = IF i \in RDirs THEN [@ EXCEPT ![i] = {e.ino : e \in ToSet(RKids[i])}] ELSE @,
            !.st = IF i \in RFiles THEN [@ EXCEPT ![i] = [b \in RBlocks[i] |-> "ST_CLOUD"]] ELSE @]

_mark_delete(r, i) == [r EXCEPT !.meta[i] = "todelete"]

delete_meta_blocks(r, i) ==
  LET mine == IF i \in RFiles THEN {x \in BlockIds(i) \cap r.blk : r.st[i][x[2]] = "ST_BOTH"} ELSE {}
  IN IF r.meta[i] # "here" THEN r
     ELSE _mark_delete([LowerUsage(r, Cardinality(mine)) EXCEPT !.blk = @ \ mine], i)

(* Everything below a pruned directory; the directory itself is unlinked.  *)
(* RDepth levels below it are enough for the tree.                         *)
Below(r, d) ==
  LET next(S) == S \cup UNION {r.ents[x] : x \in {y \in S \cap RDirs : r.meta[y] = "here"}}
  IN next(next(next({d})))
_recursive_prune(r, d) ==
  LET all == Below(r, d)
      leaves == FoldLeft(delete_meta_blocks, r, SetToSeq(all \ RDirs))
  IN [leaves EXCEPT !.meta = [i \in RInodes |-> IF i \in all \cap RDirs THEN "none" ELSE @[i]]]

(* Variant for testing RestorationSound: pruned directories are kept.          *)
_prune_missing_entries_kept(r, d, list) ==
  LET prune(s, i) == [(IF i \in RDirs THEN s ELSE delete_meta_blocks(s, i))
                       EXCEPT !.ents[d] = @ \ {i}]
  IN FoldLeft(prune, r, SetToSeq(list))

_prune_missing_entries(r, d, list) ==
  LET prune(s, i) == [(IF i \in RDirs THEN _recursive_prune(s, i) ELSE delete_meta_blocks(s, i))
                       EXCEPT !.ents[d] = @ \ {i}]
  IN FoldLeft(prune, r, SetToSeq(list))

_add_to_prunelist(r, i) == [r EXCEPT !.stack[1].prune = @ \cup {i}]
Step(r) == [r EXCEPT !.stack[1].k = @ + 1, !.stack[1].b = 0]

Push(r, f) == IF f.expand = "NO_FETCH" THEN IF r.stack = <<>> THEN r ELSE Step(r)
              ELSE [r EXCEPT !.stack = <<f>> \o @, !.fetched = @ \cup {f.dir}]

-----------------------------------------------------------------------------
(* A failed walk: a package is pruned at the top of the application volume *)
(* when an object is missing below it; the smart cache volume may fail.    *)
Fail(r, code) ==
  LET n == Len(r.stack)
      smart == r.stack[n].vol = "smart"
  IN IF r.stack[n].vol = "app" /\ n > 1 /\ code = "ENOENT"
     THEN LET s == [r EXCEPT !.stack = <<@[n]>>]
          IN Step(_add_to_prunelist(s, Entry(s.stack[1]).ino))
     ELSE [r EXCEPT !.stack = <<>>, !.pc = IF smart THEN "inject" ELSE "failed"]

TagSteps == <<"tag1", "tag2", "tag3", "tag4">>

(* One entry of the directory being expanded.  The test of NoSmart for a   *)
(* path that is not below /data/data holds on every path of the walk.      *)
NoSmart(f, e) == ~rs.smart /\ f.depth = 0 /\ e.type = "link"
Examine ==
  /\ rs.pc = "walk" /\ rs.stack # <<>> /\ Top.k <= Len(RKids[Top.dir]) /\ Top.b = 0
  /\ LET f == Top
         e == Entry(f)
         r == _fetch_meta(rs, e.ino)
     IN rs' =
        CASE Skipped(f) -> [Step(rs) EXCEPT !.skip = @ \cup {e.ino}]
          [] ~Skipped(f) /\ NoSmart(f, e) -> Step(_add_to_prunelist(rs, e.ino))
          [] ~Skipped(f) /\ ~NoSmart(f, e) /\ Meta(e.ino) \in rs.gone ->
               LET lost == [rs EXCEPT !.meta[e.ino] = "none"]
               IN IF f.can /\ ~(f.depth = 1 /\ e.name = "base.apk")
                  THEN Step(_add_to_prunelist(lost, e.ino)) ELSE Fail(lost, "ENOENT")
          [] OTHER ->
               CASE e.type = "link" ->
                      Step(IF f.depth = 0 /\ f.vol # "smart" /\ e.name \notin SmartDirs
                           THEN _add_to_prunelist(r, e.ino) ELSE r)
                 [] e.type = "file" ->
                      [r EXCEPT !.stack[1].can = FALSE, !.stack[1].b = 1,
                                !.smart = @ \/ f.vol = "smart"]
                 [] e.type = "dir" ->
                      Push(r, Frame(e.ino, f.vol, f.depth + 1, f.android \/ e.name = "Android"))

(* _fetch_pinned: one block after another; the statuses are written last.  *)
FetchBlock ==
  /\ rs.pc = "walk" /\ rs.stack # <<>> /\ Top.b > 0
  /\ LET i == Entry(Top).ino
         mine == BlockIds(i)
     IN /\ i \in RPinned /\ Top.b \in RBlocks[i]
        /\ rs' = IF <<i, Top.b>> \notin rs.gone
                 THEN [rs EXCEPT !.blk = @ \cup {<<i, Top.b>>}, !.stack[1].b = @ + 1]
                 ELSE IF Top.vol = "smart" THEN [rs EXCEPT !.blk = @ \ {<<i, Top.b>>},
                                                           !.stack[1].b = @ + 1]
                 ELSE Fail([rs EXCEPT !.blk = @ \ {x \in mine : x[2] <= Top.b}], "ENOENT")

_fetch_pinned ==
  /\ rs.pc = "walk" /\ rs.stack # <<>> /\ Top.b > 0
  /\ LET i == Entry(Top).ino
         got == BlockIds(i) \cap rs.blk
         r == [rs EXCEPT !.st[i] = [b \in RBlocks[i] |-> IF <<i, b>> \in got THEN "ST_BOTH"
                                                         ELSE "ST_NONE"]]
     IN IF i \notin RPinned THEN rs' = Step(rs)
        ELSE /\ Top.b \notin RBlocks[i]
             /\ rs' = IF rs.own + rs.used + Cardinality(got) > RCacheLimit THEN Fail(r, "ENOSPC")
                      ELSE Step(update_restored_cache_usage(r, Cardinality(got)))

_expand_and_fetch ==
  /\ rs.pc = "walk" /\ rs.stack # <<>> /\ Top.k > Len(RKids[Top.dir])
  /\ LET r == [_prune_missing_entries(rs, Top.dir, Top.prune) EXCEPT !.stack = Tail(@)]
     IN rs' = IF r.stack # <<>> THEN Step(r)
              ELSE [r EXCEPT !.pc = IF Top.vol = "smart" THEN "inject"
                                    ELSE IF Top.vol = "data" /\ rs.smart THEN "extract"
                                    ELSE "volumes"]

(* The next volume: its root is fetched and expanded.                      *)
WalkVolumes(r, i, after) ==
  LET f == Frame(RVolumes[i].root, RVolumes[i].vol, 0, FALSE)
      s == Push(_fetch_meta(r, f.dir), f)
  IN IF Meta(f.dir) \in r.gone THEN [r EXCEPT !.meta[f.dir] = "none",
                                        !.pc = IF after = "inject" THEN after ELSE "failed"]
     ELSE IF s.stack = <<>> THEN [s EXCEPT !.pc = after] ELSE [s EXCEPT !.pc = "walk"]

run_download_minimal ==
  /\ rs.pc = "volumes"
  /\ rs' = IF rs.v > Len(RVolumes) THEN [rs EXCEPT !.pc = "tag1"]
           ELSE LET r == [rs EXCEPT !.v = @ + 1]
                IN IF rs.v \in SmartVol THEN r
                   ELSE WalkVolumes(r, rs.v, IF RVolumes[rs.v].vol = "data" /\ rs.smart
                                      THEN "extract" ELSE "volumes")

(* The smart cache: either the copy of an earlier attempt is in the        *)
(* running system, or the volume is walked.                                *)
_restore_smart_cache_vol ==
  /\ rs.pc = "smart"
  /\ \/ /\ rs.info
        /\ \/ rs.inj # {} /\ rs' = [rs EXCEPT !.smart = TRUE, !.already = TRUE, !.pc = "volumes"]
           \/ rs' = [rs EXCEPT !.pc = "dead", !.inj = {}]
     \/ /\ ~rs.info
        /\ rs' = WalkVolumes([rs EXCEPT !.inj = {}], CHOOSE i \in SmartVol : TRUE, "inject")

(* Blocks and metadata move to the running system; the record follows.     *)
inject_restored_smartcache ==
  /\ rs.pc = "inject"
  /\ LET moved == BlockIds(SmartFile) \cap rs.blk
         total == Cardinality(RBlocks[SmartFile])
         r == update_restored_cache_usage(LowerUsage(rs, total), total - Cardinality(moved))
     IN rs' = IF ~rs.smart THEN [rs EXCEPT !.pc = "volumes"]
              ELSE [r EXCEPT !.blk = @ \ moved, !.inj = moved, !.meta[SmartFile] = "injected",
                             !.pc = "record"]

write_restored_smartcache_info ==
  /\ rs.pc = "record" /\ rs' = [rs EXCEPT !.info = TRUE, !.pc = "repair"]

(* Moves the image back.  total is added and the blocks that did not move  *)
(* are subtracted again.                                                   *)
extract_restored_smartcache(r) ==
  LET total == Cardinality(RBlocks[SmartFile])
  IN [LowerUsage(update_restored_cache_usage(r, total), total - Cardinality(r.inj)) EXCEPT
       !.blk = @ \cup r.inj, !.inj = {}, !.meta[SmartFile] = "here", !.info = FALSE]

mount_and_repair_restored_smartcache ==
  /\ rs.pc = "repair"
  /\ \/ rs' = [rs EXCEPT !.pc = "volumes"]
     \/ rs' = [rs EXCEPT !.pc = "failed"]
     \/ rs' = [_prune_missing_entries(extract_restored_smartcache(rs), SmartRoot, {SmartFile})
                EXCEPT !.smart = FALSE, !.pc = "volumes"]

Extract ==
  /\ rs.pc = "extract"
  /\ rs' = [extract_restored_smartcache(rs) EXCEPT !.pc = "volumes"]

(* Stage 1 ends: the tag is replaced, and the next start is in stage 2.    *)
Finish ==
  \E n \in 1..4 :
    /\ rs.pc = TagSteps[n]
    /\ rs' = [tag_restoration(rs, "rebuilding_meta", n) EXCEPT
                !.pc = IF n = 4 THEN "done" ELSE TagSteps[n + 1]]
Reboot == rs.pc = "done" /\ rs' = [rs EXCEPT !.pc = "boot"]

RestoreCrash ==
  /\ rs.pc \notin {"off", "done", "lost"} /\ rs.crashes < MaxRestoreCrashes
  /\ rs' = [rs EXCEPT !.pc = "boot", !.stack = <<>>, !.used = 0, !.clamped = FALSE,
                      !.crashes = @ + 1,
                      !.torn = @ \/ rs.pc \in {"tag2", "tag3", "tag4", "swap"}]

-----------------------------------------------------------------------------
RSInit ==
  \E gone \in UNION {kSubset(n, Objects) : n \in 0..MaxMissing}, own \in {0, 1} :
    rs = [tag |-> NoTag, rtag |-> NoTag, mpath |-> "old", bpath |-> "old", torn |-> FALSE, meta |-> [i \in RInodes |-> "none"], ents |-> [d \in RDirs |-> {}],
             st |-> [f \in RFiles |-> [b \in RBlocks[f] |-> "ST_NONE"]], blk |-> {},
             info |-> FALSE, inj |-> {}, pc |-> "off", stack |-> <<>>, v |-> 1, used |-> 0,
             smart |-> FALSE, already |-> FALSE, gone |-> gone, own |-> own, crashes |-> 0, fetched |-> {},
             skip |-> {}, clamped |-> FALSE]

RSNext ==
  \/ initiate_restoration \/ start_download_minimal \/ _check_partial_storage
  \/ RenameRestored \/ LoseStage \/ Reboot \/ _restore_smart_cache_vol
  \/ inject_restored_smartcache \/ write_restored_smartcache_info
  \/ mount_and_repair_restored_smartcache \/ run_download_minimal \/ Examine
  \/ FetchBlock \/ _fetch_pinned \/ _expand_and_fetch \/ Extract \/ Finish \/ RestoreCrash

RSTypeOK ==
  /\ {rs.tag, rs.rtag} \subseteq {NoTag, "downloading_minimal", "rebuilding_meta"}
  /\ {rs.mpath, rs.bpath} \subseteq {"old", "none", "restored"}
  /\ rs.meta \in [RInodes -> {"none", "here", "todelete", "injected"}]
  /\ rs.blk \subseteq Objects /\ rs.inj \subseteq Objects
  /\ rs.used \in Nat /\ rs.crashes <= MaxRestoreCrashes

(* What the second stage starts from (rebuilding_meta): every entry left   *)
(* in a directory that was expanded has its metadata, every pinned file    *)
(* its blocks, nothing that was pruned is left behind, the smart cache is  *)
(* back, and the cache usage handed over is the number of blocks restored. *)
(* LowerUsage is where it cannot be: inject_restored_smartcache takes off  *)
(* more blocks than were counted when the image has holes.                 *)
RestoredTree ==
  rs.pc \in {"done", "stage2"} =>
    LET dirs == {d \in rs.fetched : rs.meta[d] = "here"}
        roots == {RVolumes[i].root : i \in DOMAIN RVolumes}
        named == UNION {rs.ents[d] : d \in dirs}
        files == {f \in RFiles : rs.meta[f] = "here"}
    IN /\ \A d \in dirs, e \in REntries :
            e.ino \in rs.ents[d] \ rs.skip => rs.meta[e.ino] = "here"
       /\ \A i \in RInodes \ roots : rs.meta[i] = "here" => i \in named
       /\ \A f \in files \cap RPinned : \A b \in RBlocks[f] :
            /\ rs.st[f][b] = "ST_BOTH" <=> <<f, b>> \in rs.blk
            /\ rs.st[f][b] # "ST_CLOUD"
       /\ rs.blk \subseteq UNION {BlockIds(f) : f \in files}
       /\ rs.inj = {} /\ ~rs.info
       /\ rs.pc = "done" =>
            rs.used >= Cardinality(rs.blk) /\ (rs.used = Cardinality(rs.blk) \/ rs.clamped)

(* Stage 2 runs on the restored paths and on no others, and the stage is   *)
(* lost only by a crash inside tag_restoration or between the renames of   *)
(* the metadata path (_check_partial_storage).                             *)
StageKept ==
  /\ rs.pc = "stage2" => rs.mpath = "restored" /\ rs.bpath = "restored"
  /\ rs.pc = "lost" => rs.torn

(* run_download_minimal and _check_partial_storage: what the walk leaves   *)
(* and the stage at which the next start goes on.                          *)
RestorationSound == RestoredTree /\ StageKept
=============================================================================
