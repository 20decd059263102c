------------------------------ MODULE PathCache ------------------------------
(***************************************************************************)
(* path_reconstruct.c: the cache of (child, parent) pairs from which the   *)
(* path of an inode is put together, on Android's external volumes.        *)
(* A node is in the chain of its hash bucket, most used first, and in a    *)
(* global list, least used first, from whose head nodes are dropped.       *)
(* lookup_name asks the cache, then the parent table (lock                 *)
(* pathlookup_data_lock), then the directory (its metadata lock), all      *)
(* under pathcache_lock; rename and unlink change directory and table and  *)
(* drop a node.                                                            *)
(***************************************************************************)
EXTENDS Integers, Sequences, SequencesExt, FiniteSets, FiniteSetsExt

CONSTANTS PathRoot, PathDirs, PathFiles, PathThreads,
          NUM_LOOKUP_ENTRY, MAX_LOOKUP_NODES, NUM_NODES_DROP,
          MaxPathOps          \* bound: operations started

ASSUME PathCacheAssumption ==
  /\ NUM_LOOKUP_ENTRY \in Nat \ {0} /\ MAX_LOOKUP_NODES \in Nat \ {0} /\ NUM_NODES_DROP \in Nat \ {0}
  /\ PathRoot \in PathDirs /\ PathDirs \cap PathFiles = {}

VARIABLE pk  \* ent (directory entries <<parent, child>>), par (the parent table), meta
             \* (holder of each directory's lock), lock (holder of pathcache_lock), data
             \* (pathlookup_data_lock), chain, glist, node, th, ops (left); known cases:
             \* posted (the lock was posted once too often), moved (renamed, node kept),
             \* failed (an unlink gave up)

PathInodes == (PathDirs \cup PathFiles) \ {PathRoot}
NoOne == "none"
Bucket(i) == i % NUM_LOOKUP_ENTRY
CachedNodes == ToSet(pk.glist)
IdlePath == [pc |-> "idle", op |-> "stat", ino |-> 0, parent |-> 0, f |-> 0, from |-> 0, to |-> 0, target |-> 0]
Without(s, i) == SelectSeq(s, LAMBDA x : x # i)

init_pathcache == [chain |-> [b \in 0..(NUM_LOOKUP_ENTRY - 1) |-> <<>>], glist |-> <<>>,
                   node |-> [i \in PathInodes |-> [parent |-> 0, count |-> 0]]]

-----------------------------------------------------------------------------
(* The two lists.                                                          *)
Dropped(r, i) == [r EXCEPT !.glist = Without(@, i), !.chain[Bucket(i)] = Without(@, i),
                           !.node[i] = [parent |-> 0, count |-> 0]]

(* Variant for testing PathsExact: the node stays in the chain.            *)
drop_cache_entry_chained(r) ==
  FoldLeft(LAMBDA q, i : [q EXCEPT !.glist = Without(@, i)], r,
           SubSeq(r.glist, 1, Min({NUM_NODES_DROP, Len(r.glist)})))

drop_cache_entry(r) == FoldLeft(Dropped, r, SubSeq(r.glist, 1, Min({NUM_NODES_DROP, Len(r.glist)})))

add_cache_entry(r, i, p) ==
  LET q == IF Len(r.glist) >= MAX_LOOKUP_NODES THEN drop_cache_entry(r) ELSE r
  IN [q EXCEPT !.chain[Bucket(i)] = Append(@, i), !.glist = <<i>> \o @,
               !.node[i] = [parent |-> p, count |-> 1]]

(* Towards the head of the chain past less used nodes, towards the end of  *)
(* the global list past less used ones.                                    *)
_node_reposition(r, i) ==
  LET c == Without(r.chain[Bucket(i)], i)
      g == Without(r.glist, i)
      less(j) == r.node[j].count < r.node[i].count
      was(s) == CHOOSE k \in DOMAIN s : s[k] = i
      up == {k \in 1..was(r.chain[Bucket(i)]) : \A j \in k..(was(r.chain[Bucket(i)]) - 1) : less(r.chain[Bucket(i)][j])}
      down == {k \in was(r.glist)..Len(r.glist) : \A j \in (was(r.glist) + 1)..k : less(r.glist[j])}
  IN [r EXCEPT !.chain[Bucket(i)] = InsertAt(c, Min(up), i), !.glist = InsertAt(g, Max(down), i)]

-----------------------------------------------------------------------------
(* Threads; after the path of a victim is known its deletion goes on.      *)
PathAt(t, pc) == pk.th[t].pc = pc
Start(t, rec) == /\ PathAt(t, "idle") /\ pk.ops > 0
                 /\ pk' = [pk EXCEPT !.ops = @ - 1, !.th[t] = rec]
UnlockDirs(r, t) == [r EXCEPT !.meta = [d \in PathDirs |-> IF @[d] = t THEN NoOne ELSE @[d]]]

(* _rewrite_stat: the path of an inode for its permissions.                *)
_rewrite_stat(t, i) == Start(t, [IdlePath EXCEPT !.pc = "begin", !.ino = i])

construct_path(t) ==
  /\ PathAt(t, "begin") /\ pk.lock = NoOne
  /\ pk' = [pk EXCEPT !.lock = t, !.th[t].pc = "iterate"]

(* From child to parent up to the root.                                    *)
After == [stat |-> "idle", unlink |-> "forget", rename |-> "forget"]
construct_path_iterate(t) ==
  LET i == pk.th[t].ino
      hit == [pk EXCEPT !.node[i].count = @ + 1, !.th[t].ino = pk.node[i].parent]
  IN /\ PathAt(t, "iterate")
     /\ pk' = IF i = PathRoot
              THEN [pk EXCEPT !.lock = NoOne, !.th[t].pc = After[pk.th[t].op],
                              !.th[t].ino = IF pk.th[t].op = "stat" THEN 0 ELSE @]
              ELSE IF i \in CachedNodes THEN _node_reposition(hit, i)
              ELSE [pk EXCEPT !.th[t].pc = "wait"]

(* No path: the stat, unlink or rename ends with an error.                 *)
NoPath(r, t) == [UnlockDirs(r, t) EXCEPT !.lock = NoOne, !.th[t] = IdlePath,
                                       !.failed = @ \/ r.th[t].op # "stat"]

TakeData(t, pc, next) == /\ PathAt(t, pc) /\ pk.data > 0
                         /\ pk' = [pk EXCEPT !.data = @ - 1, !.th[t].pc = next]

(* fetch_all_parents under the lock.                                       *)
FetchParents(t) ==
  LET p == pk.par[pk.th[t].ino]
      r == [pk EXCEPT !.data = @ + 1]
  IN /\ PathAt(t, "parents")
     /\ pk' = IF p = 0 THEN NoPath(r, t) ELSE [r EXCEPT !.th[t].pc = "search", !.th[t].parent = p]

(* The entry is looked for without the lock; when it is gone the error     *)
(* path posts the lock a second time.                                      *)
search_inode(t) ==
  LET i == pk.th[t].ino
      p == pk.th[t].parent
  IN /\ PathAt(t, "search") /\ pk.meta[p] = NoOne
     /\ pk' = IF <<p, i>> \in pk.ent
              THEN [add_cache_entry(pk, i, p) EXCEPT !.th[t].ino = p, !.th[t].pc = "iterate"]
              ELSE NoPath([pk EXCEPT !.data = @ + 1, !.posted = TRUE], t)
lookup_name(t) == TakeData(t, "wait", "parents") \/ FetchParents(t) \/ search_inode(t)

(* hfuse_ll_unlink: the entry, the path of the victim (disk_markdelete),   *)
(* the parent table, the cached node.                                      *)
UnlinkFile(t, p, f) ==
  /\ <<p, f>> \in pk.ent /\ pk.meta[p] = NoOne /\ PathAt(t, "idle") /\ pk.ops > 0
  /\ pk' = [pk EXCEPT !.ent = @ \ {<<p, f>>}, !.ops = @ - 1,
              !.th[t] = [IdlePath EXCEPT !.pc = "begin", !.op = "unlink", !.ino = f, !.target = f]]

(* hfuse_ll_rename, to a free name or over another file, with both         *)
(* directories locked to the end.                                          *)
RenameFile(t, p, q, f, g) ==
  /\ <<p, f>> \in pk.ent /\ g # f
  /\ g = 0 \/ <<q, g>> \in pk.ent
  /\ pk.meta[p] = NoOne /\ pk.meta[q] = NoOne /\ PathAt(t, "idle") /\ pk.ops > 0
  /\ pk' = [pk EXCEPT !.ent = (@ \ {<<p, f>>, <<q, g>>}) \cup {<<q, f>>}, !.ops = @ - 1,
              !.meta = [d \in PathDirs |-> IF d \in {p, q} THEN t ELSE @[d]],
              !.th[t] = [IdlePath EXCEPT !.pc = IF g = 0 THEN "reparent" ELSE "begin", !.op = "rename",
                           !.ino = g, !.f = f, !.from = p, !.to = q, !.target = g]]

(* lookup_delete_parent of the victim.                                     *)
ForgetParent(t) ==
  \/ TakeData(t, "forget", "forgetting")
  \/ /\ PathAt(t, "forgetting")
     /\ pk' = [pk EXCEPT !.par[pk.th[t].target] = 0, !.data = @ + 1,
                 !.th[t].pc = IF pk.th[t].op = "rename" THEN "reparent" ELSE "drop"]

(* lookup_replace_parent of the moved file.                                *)
Reparent(t) ==
  \/ /\ PathAt(t, "reparent") /\ pk.th[t].from = pk.th[t].to
     /\ pk' = [pk EXCEPT !.th[t].pc = "drop"]
  \/ pk.th[t].from # pk.th[t].to /\ TakeData(t, "reparent", "reparenting")
  \/ /\ PathAt(t, "reparenting")
     /\ pk' = [pk EXCEPT !.par[pk.th[t].f] = pk.th[t].to, !.data = @ + 1, !.th[t].pc = "drop",
                 !.moved = @ \cup {pk.th[t].f}]

(* The node of the victim is dropped; rename drops no node of the file it  *)
(* moved.                                                                  *)
delete_pathcache_node(t) ==
  LET g == pk.th[t].target
      r == IF g \in CachedNodes THEN Dropped(pk, g) ELSE pk
  IN /\ PathAt(t, "drop") /\ pk.lock = NoOne
     /\ pk' = [UnlockDirs(r, t) EXCEPT !.th[t] = IdlePath]

PKInit ==
  pk = [ent |-> {<<PathRoot, i>> : i \in PathInodes}, par |-> [i \in PathInodes |-> PathRoot],
        meta |-> [d \in PathDirs |-> NoOne], lock |-> NoOne, data |-> 1, chain |-> init_pathcache.chain,
        glist |-> init_pathcache.glist, node |-> init_pathcache.node,
        th |-> [t \in PathThreads |-> IdlePath], ops |-> MaxPathOps, posted |-> FALSE, moved |-> {},
        failed |-> FALSE]

PKNext ==
  \/ \E t \in PathThreads :
       \/ construct_path(t) \/ construct_path_iterate(t) \/ lookup_name(t)
       \/ ForgetParent(t) \/ Reparent(t) \/ delete_pathcache_node(t)
       \/ \E i \in PathInodes : _rewrite_stat(t, i)
       \/ \E p \in PathDirs, f \in PathFiles :
            \/ UnlinkFile(t, p, f)
            \/ \E q \in PathDirs, g \in PathFiles \cup {0} : RenameFile(t, p, q, f, g)

PKTypeOK ==
  /\ pk.par \in [PathInodes -> PathDirs \cup {0}] /\ pk.data \in Nat
  /\ pk.lock \in PathThreads \cup {NoOne} /\ pk.meta \in [PathDirs -> PathThreads \cup {NoOne}]
  /\ CachedNodes \subseteq PathInodes

-----------------------------------------------------------------------------
InData == {t \in PathThreads : pk.th[t].pc \in {"parents", "forgetting", "reparenting"}}
TruePath(i) == <<pk.node[i].parent, i>> \in pk.ent
Touched(i) == \E t \in PathThreads : pk.th[t].pc # "idle" /\ i \in {pk.th[t].f, pk.th[t].target}

PathBlocked(t) == \/ pk.th[t].pc \in {"begin", "drop"} /\ pk.lock # NoOne
                  \/ pk.th[t].pc = "search" /\ pk.meta[pk.th[t].parent] # NoOne
                  \/ pk.th[t].pc \in {"wait", "forget", "reparent"} /\ pk.data = 0
Working == {t \in PathThreads : pk.th[t].pc # "idle"}
(* A lookup waits for a directory held by a rename (itself or another)     *)
(* that waits for pathcache_lock.                                          *)
PathStuck ==
  \E t \in Working : PathAt(t, "search") /\
     LET h == pk.meta[pk.th[t].parent]
     IN h = t \/ (h \in Working /\ pk.th[h].pc \in {"begin", "drop"} /\ pk.lock = t)

(* Chains and global list hold the same nodes, each once, ordered by use   *)
(* in opposite senses, never more than fit; the parent table has one user  *)
(* at a time, unless a failed search posted its lock twice                 *)
(* (path_reconstruct.c:345 and 375); outside a rename or unlink of the     *)
(* file a cached parent is its parent, unless a rename moved it (its node  *)
(* is kept, fuseop.c:2631) or an unlink gave up half-way; and threads that *)
(* wait for each other for ever are a lookup and a rename that holds the   *)
(* directory (fuseop.c:2631, or its own lookup at 2403).                   *)
PathsExact ==
  /\ \A b \in DOMAIN pk.chain : LET c == pk.chain[b] IN
       \A j, k \in DOMAIN c : j < k => c[j] # c[k] /\ pk.node[c[j]].count >= pk.node[c[k]].count
  /\ \A j, k \in DOMAIN pk.glist : j < k =>
       pk.glist[j] # pk.glist[k] /\ pk.node[pk.glist[j]].count <= pk.node[pk.glist[k]].count
  /\ UNION {{<<b, i>> : i \in ToSet(pk.chain[b])} : b \in DOMAIN pk.chain} = {<<Bucket(i), i>> : i \in CachedNodes}
  /\ Len(pk.glist) <= MAX_LOOKUP_NODES
  /\ pk.posted \/ (Cardinality(InData) <= 1 /\ pk.data = 1 - Cardinality(InData))
  /\ \A i \in CachedNodes : TruePath(i) \/ Touched(i) \/ i \in pk.moved \/ pk.failed
  /\ (Working # {} /\ \A t \in Working : PathBlocked(t)) => PathStuck

(* What the comment at fuseop.c:2629 says of rename: a cached parent is    *)
(* the parent whenever no operation on the file is under way.              *)
CachedPathTrue == \A i \in CachedNodes : TruePath(i) \/ Touched(i) \/ pk.failed
==================================================
