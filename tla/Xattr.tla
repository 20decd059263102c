-------------------------------- MODULE Xattr --------------------------------
(***************************************************************************)
(* The extended attributes of one inode (xattr_ops.c, fetch_xattr_page,    *)
(* inherit_xattr and the FUSE handlers): hash tables of lists of sorted    *)
(* key pages per name space, chains of value blocks, and lists of          *)
(* reclaimed pages and blocks in the meta file.  Every operation holds the *)
(* meta cache entry.  Keys are numbers in their order; a value is the      *)
(* sequence of its blocks' contents, and may be empty.                     *)
(***************************************************************************)
EXTENDS Naturals, Sequences, SequencesExt, FiniteSets

CONSTANTS XNames,                  \* name spaces and keys of the attributes
          XTags,                  \* what tells values apart
          MAX_KEY_HASH_ENTRY, MAX_KEY_ENTRY_PER_LIST,
          MaxValueBlocks,         \* bound: blocks of a value
          SkippedKey,             \* "restorecon_last"
          MaxXattrOps             \* bound

ASSUME XattrAssumption ==
  /\ XNames \subseteq {"USER", "SECURITY"} \X Nat
  /\ {MAX_KEY_HASH_ENTRY, MAX_KEY_ENTRY_PER_LIST} \subseteq Nat \ {0}

VARIABLE xa  \* made (next_xattr_page is set), table, num, kfree, vfree (the xattr page),
             \* kpage, vblock (the rest of the file), ops; histories: is (the attributes),
             \* shared (an empty value took a block that has a successor)

NameSpaces == {"USER", "SECURITY"}
XHashes == 0..(MAX_KEY_HASH_ENTRY - 1)
hash(k) == k % MAX_KEY_HASH_ENTRY
XValues == {[i \in 1..n |-> <<v, i>>] : v \in XTags, n \in 0..MaxValueBlocks}
NoValue == << <<"none", 0>> >>

RECURSIVE XChain(_, _)
XChain(pages, x) == IF x = 0 THEN <<>> ELSE <<x>> \o XChain(pages, pages[x].next)

-----------------------------------------------------------------------------
get_usable_key_list_filepos(r) ==
  IF r.kfree # 0
  THEN [pos |-> r.kfree, r |-> [r EXCEPT !.kfree = r.kpage[r.kfree].next]]
  ELSE [pos |-> Len(r.kpage) + 1,
        r |-> [r EXCEPT !.kpage = Append(@, [keys |-> <<>>, next |-> 0])]]

(* A block: the next one of the value that is replaced (rep), a reclaimed  *)
(* one or one at the end of the file.                                      *)
get_usable_value_filepos(r, rep) ==
  IF rep # 0 THEN [pos |-> rep, rep |-> r.vblock[rep].next, r |-> r]
  ELSE IF r.vfree # 0
       THEN [pos |-> r.vfree, rep |-> 0, r |-> [r EXCEPT !.vfree = r.vblock[r.vfree].next]]
  ELSE [pos |-> Len(r.vblock) + 1, rep |-> 0,
        r |-> [r EXCEPT !.vblock = Append(@, [val |-> <<>>, next |-> 0])]]

RECURSIVE write_value_data(_, _, _, _)
write_value_data(r, rep, pos, value) ==
  IF value = <<>> THEN [r |-> r, rep |-> rep]
  ELSE IF Len(value) = 1
       THEN [r |-> [r EXCEPT !.vblock[pos] = [val |-> value[1], next |-> 0]], rep |-> rep]
  ELSE LET u == get_usable_value_filepos(r, rep)
           s == [u.r EXCEPT !.vblock[pos] = [val |-> value[1], next |-> u.pos]]
       IN write_value_data(s, u.rep, u.pos, Tail(value))

(* The blocks from rep on go to the head of the reclaimed list.            *)
reclaim_replace_value_block(r, rep) ==
  IF rep = 0 THEN r
  ELSE [r EXCEPT !.vblock[Last(XChain(r.vblock, rep))].next = r.vfree, !.vfree = rep]

key_binary_search(keys, k) == Cardinality({i \in 1..Len(keys) : keys[i].key < k}) + 1
HasKey(keys, k) == \E i \in 1..Len(keys) : keys[i].key = k

(* The page that holds the key (hit), else the first one with room, else   *)
(* the last one.                                                           *)
find_key_entry(r, ns, k) ==
  LET chain == XChain(r.kpage, r.table[ns][hash(k)])
      hit == SelectSeq(chain, LAMBDA x : HasKey(r.kpage[x].keys, k))
      room == SelectSeq(chain, LAMBDA x : Len(r.kpage[x].keys) < MAX_KEY_ENTRY_PER_LIST)
  IN [hit |-> hit # <<>>, room |-> room # <<>>,
      pos |-> IF hit # <<>> THEN Head(hit)
              ELSE IF room # <<>> THEN Head(room)
              ELSE IF chain # <<>> THEN Last(chain) ELSE 0]

AddKey(r, ns, x, k, size, first) ==
  [r EXCEPT !.kpage[x].keys = InsertAt(@, key_binary_search(@, k),
                                       [key |-> k, size |-> size, first |-> first]),
            !.num[ns] = @ + 1]

(* The page for a new key: a first one for the hash value, one with room,  *)
(* or one at the end of the list.                                          *)
KeyPage(r, ns, k) ==
  LET f == find_key_entry(r, ns, k)
      u == get_usable_key_list_filepos(r)
      s == [u.r EXCEPT !.kpage[u.pos] = [keys |-> <<>>, next |-> 0]]
  IN IF f.room THEN [r |-> r, pos |-> f.pos]
     ELSE [pos |-> u.pos,
           r |-> IF f.pos = 0 THEN [s EXCEPT !.table[ns][hash(k)] = u.pos]
                 ELSE [s EXCEPT !.kpage[f.pos].next = u.pos]]

(* The value is written to block pos and those that follow; for an empty   *)
(* one nothing is written, not even the end of the chain.                  *)
Store(r, rep, pos, ns, k, value) ==
  LET w == write_value_data(r, rep, pos, value)
  IN [reclaim_replace_value_block(w.r, w.rep) EXCEPT
        !.is[<<ns, k>>] = value,
        !.shared = @ \/ (value = <<>> /\ w.r.vblock[pos].next # 0)]

insert_xattr(r, ns, k, value, flag) ==
  LET f == find_key_entry(r, ns, k)
      kp == KeyPage(r, ns, k)
      u == get_usable_value_filepos(kp.r, 0)
      i == key_binary_search(r.kpage[f.pos].keys, k)
      first == r.kpage[f.pos].keys[i].first
      o == get_usable_value_filepos(r, first)
  IN IF f.hit
     THEN IF flag = "CREATE" THEN r
          ELSE Store([o.r EXCEPT !.kpage[f.pos].keys[i].size = Len(value)],
                     o.rep, o.pos, ns, k, value)
     ELSE IF flag = "REPLACE" THEN r
          ELSE Store(AddKey(u.r, ns, kp.pos, k, Len(value), u.pos), 0, u.pos, ns, k, value)

RECURSIVE read_value_data(_, _, _)
read_value_data(r, x, n) ==
  IF n = 0 THEN <<>> ELSE <<r.vblock[x].val>> \o read_value_data(r, r.vblock[x].next, n - 1)

get_xattr(r, ns, k) ==
  LET f == find_key_entry(r, ns, k)
      e == r.kpage[f.pos].keys[key_binary_search(r.kpage[f.pos].keys, k)]
  IN IF f.hit THEN read_value_data(r, e.first, e.size) ELSE NoValue

list_xattr(r) ==
  LET Listed(ns) ==
        IF r.num[ns] = 0 THEN <<>>
        ELSE FlattenSeq([h \in 1..MAX_KEY_HASH_ENTRY |->
               LET chain == XChain(r.kpage, r.table[ns][h - 1]) IN
               FlattenSeq([i \in 1..Len(chain) |->
                 [j \in 1..Len(r.kpage[chain[i]].keys) |-> <<ns, r.kpage[chain[i]].keys[j].key>>]])])
  IN Listed("USER") \o Listed("SECURITY")

(* Variant for testing XattrSound: the reclaimed page is not cut off the   *)
(* list.                                                                   *)
UnlinkKeyPage_linked(r, ns, k, x) ==
  [r EXCEPT !.kpage[x] = [keys |-> <<>>, next |-> r.kfree], !.kfree = x]

(* A key page that becomes empty leaves its list and is reclaimed.         *)
UnlinkKeyPage(r, ns, k, x) ==
  LET chain == XChain(r.kpage, r.table[ns][hash(k)])
      i == SelectInSeq(chain, LAMBDA y : y = x)
      s == IF i = 1 THEN [r EXCEPT !.table[ns][hash(k)] = r.kpage[x].next]
           ELSE [r EXCEPT !.kpage[chain[i - 1]].next = r.kpage[x].next]
  IN [s EXCEPT !.kpage[x] = [keys |-> <<>>, next |-> r.kfree], !.kfree = x]

remove_xattr(r, ns, k) ==
  LET f == find_key_entry(r, ns, k)
      keys == r.kpage[f.pos].keys
      i == key_binary_search(keys, k)
      s == IF Len(keys) > 1 THEN [r EXCEPT !.kpage[f.pos].keys = RemoveAt(@, i)]
           ELSE UnlinkKeyPage(r, ns, k, f.pos)
  IN IF ~f.hit THEN r
     ELSE [reclaim_replace_value_block(s, keys[i].first) EXCEPT
             !.num[ns] = @ - 1, !.is[<<ns, k>>] = NoValue]

(* The attributes a new inode takes over from its parent directory.        *)
NoXattrs ==
  [made |-> FALSE, table |-> [ns \in NameSpaces |-> [h \in XHashes |-> 0]],
   num |-> [ns \in NameSpaces |-> 0], kfree |-> 0, vfree |-> 0, kpage |-> <<>>,
   vblock |-> <<>>, ops |-> 0, is |-> [n \in XNames |-> NoValue], shared |-> FALSE]

_skip_inherit_key(ns, k) == ns # "SECURITY" \/ k = SkippedKey

inherit_xattr(r) ==
  IF ~r.made THEN NoXattrs
  ELSE FoldLeft(LAMBDA s, n : IF _skip_inherit_key(n[1], n[2]) THEN s
                              ELSE insert_xattr(s, n[1], n[2], get_xattr(r, n[1], n[2]), "ANY"),
                [NoXattrs EXCEPT !.made = TRUE], list_xattr(r))

-----------------------------------------------------------------------------
fetch_xattr_page(r) == [r EXCEPT !.made = TRUE]
Count(r) == [r EXCEPT !.ops = @ + 1]

(* NO_META_SPACE refuses all but replacing: nothing changes.               *)
hfuse_ll_setxattr(ns, k, value, flag) ==
  xa' = Count(insert_xattr(fetch_xattr_page(xa), ns, k, value, flag))

hfuse_ll_removexattr(ns, k) == xa.made /\ xa' = Count(remove_xattr(xa, ns, k))

(* What a caller is told that has room for size blocks, or for size names. *)
(* With room for nothing it is told the size.                              *)
Reply(err, size, val) == [err |-> err, size |-> size, val |-> val]
Fill(size, val) ==
  IF size = 0 THEN Reply("none", Len(val), <<>>)
  ELSE IF size < Len(val) THEN Reply("ERANGE", 0, <<>>)
  ELSE Reply("none", Len(val), val)

hfuse_ll_getxattr(r, ns, k, size) ==
  IF ~r.made \/ get_xattr(r, ns, k) = NoValue THEN Reply("ENODATA", 0, <<>>)
  ELSE Fill(size, get_xattr(r, ns, k))

hfuse_ll_listxattr(r, size) ==
  IF r.made THEN Fill(size, list_xattr(r)) ELSE Reply("none", 0, <<>>)

XAInit == xa = NoXattrs

XANext ==
  /\ xa.ops < MaxXattrOps /\ ~xa.shared
  /\ \E n \in XNames :
       \/ \E value \in XValues, flag \in {"ANY", "CREATE", "REPLACE"} :
            hfuse_ll_setxattr(n[1], n[2], value, flag)
       \/ hfuse_ll_removexattr(n[1], n[2])

-----------------------------------------------------------------------------
XATypeOK ==
  /\ xa.kfree \in 0..Len(xa.kpage) /\ xa.vfree \in 0..Len(xa.vblock)
  /\ \A ns \in NameSpaces : xa.num[ns] \in 0..Cardinality(XNames)

(* A caller that asks for the size and then for the data gets is.          *)
Holds(r, is) ==
  /\ \A n \in XNames :
       LET a == hfuse_ll_getxattr(r, n[1], n[2], 0)
           b == hfuse_ll_getxattr(r, n[1], n[2], a.size)
       IN IF is[n] = NoValue THEN a.err = "ENODATA" ELSE a.err = "none" /\ b.val = is[n]
  /\ LET l == hfuse_ll_listxattr(r, hfuse_ll_listxattr(r, 0).size).val IN
     IsInjective(l) /\ ToSet(l) = {n \in XNames : is[n] # NoValue}

(* Every value block belongs to one value or to the reclaimed list, every  *)
(* key page to one list: nothing is used twice and nothing is lost.        *)
BlocksConserved ==
  LET used == {n \in XNames : xa.is[n] # NoValue}
      First(n) == LET keys == xa.kpage[find_key_entry(xa, n[1], n[2]).pos].keys
                  IN keys[key_binary_search(keys, n[2])].first
      free == XChain(xa.vblock, xa.vfree)
      lists == {XChain(xa.kpage, xa.table[ns][h]) : ns \in NameSpaces, h \in XHashes}
                 \cup {XChain(xa.kpage, xa.kfree)}
  IN /\ \A x \in 1..Len(xa.vblock) :
          Cardinality({n \in used : Contains(XChain(xa.vblock, First(n)), x)})
            + (IF Contains(free, x) THEN 1 ELSE 0) = 1
     /\ \A x \in 1..Len(xa.kpage) : Cardinality({l \in lists : Contains(l, x)}) = 1

(* The attributes read and listed are those set and not removed, with      *)
(* their values, a new inode inherits the security attributes of its       *)
(* parent, and pages and blocks are conserved, until an empty value takes  *)
(* a block whose successor is somebody else's.                             *)
XattrSound ==
  /\ Holds(xa, xa.is)
  /\ ~xa.shared =>
       /\ BlocksConserved
       /\ Holds(inherit_xattr(xa),
                [n \in XNames |-> IF _skip_inherit_key(n[1], n[2]) THEN NoValue ELSE xa.is[n]])
=============================================================================
