----------------------------- MODULE FuseNotify -----------------------------
(***************************************************************************)
(* fuse_notify.c: the buffer of notices to the kernel (an entry was        *)
(* deleted, an entry is stale).  A ring holds the first notices and a      *)
(* linked list the ones that do not fit; the notify loop takes one notice  *)
(* from the ring, moves one from the list into the freed place, and calls  *)
(* the kernel.  A notice owns a copy of its name, to be freed once.        *)
(***************************************************************************)
EXTENDS Naturals, Sequences, SequencesExt, FiniteSets

CONSTANTS Notifiers,                   \* threads that send notices
          Channels,                    \* mount channels (mount_global.ch)
          FUSE_NOTIFY_RINGBUF_MAXLEN,
          MaxNotices,                  \* bound: notices ever sent
          MaxNoMem                     \* bound: allocations that fail

ASSUME FuseNotifyAssumption == FUSE_NOTIFY_RINGBUF_MAXLEN \in Nat \ {0}

VARIABLE fn  \* ring, list, len, in, out, notEmpty and access (semaphores), loop
             \* [pc, data], todo (channels a notifier still has to serve), down,
             \* noMem, made (notices made); histories: pending (queued, not yet
             \* taken), freed (names freed), leaked (names no longer reachable),
             \* double (a name freed twice)

RingPos == 0..(FUSE_NOTIFY_RINGBUF_MAXLEN - 1)

inc_buf_idx(x) == IF x + 1 = FUSE_NOTIFY_RINGBUF_MAXLEN THEN 0 ELSE x + 1

init_notify_buf ==
  [ring |-> [i \in RingPos |-> 0], list |-> <<>>, len |-> 0,
   in |-> FUSE_NOTIFY_RINGBUF_MAXLEN - 1, out |-> 0, notEmpty |-> 0, access |-> 1,
   loop |-> [pc |-> "look", data |-> 0], todo |-> [t \in Notifiers |-> {}], down |-> FALSE,
   noMem |-> 0, made |-> 0, pending |-> <<>>, freed |-> {}, leaked |-> {}, double |-> FALSE]

(* FREE and free of a name.                                                *)
FreeName(r, x) == [r EXCEPT !.freed = @ \cup {x}, !.double = @ \/ x \in r.freed]

-----------------------------------------------------------------------------
_linked_list_enqueue(r, x) == [r EXCEPT !.list = Append(@, x)]
_ring_buffer_enqueue(r, x) == [r EXCEPT !.in = inc_buf_idx(@), !.ring[inc_buf_idx(r.in)] = x]

(* One critical section of access_sem; the list may be out of memory.      *)
notify_buf_enqueue(r, x) ==
  LET q == IF r.len >= FUSE_NOTIFY_RINGBUF_MAXLEN THEN _linked_list_enqueue(r, x)
           ELSE _ring_buffer_enqueue(r, x)
  IN [q EXCEPT !.len = @ + 1, !.pending = Append(@, x),
               !.notEmpty = IF r.len + 1 = 1 THEN @ + 1 ELSE @]

(* hfuse_ll_notify_delete and hfuse_ll_notify_inval_ent: one notice with a *)
(* copy of the name, which the caller frees when it could not be queued.   *)
hfuse_ll_notify_delete(t, ch) ==
  LET x == fn.made + 1
      r == [fn EXCEPT !.made = x, !.todo[t] = @ \ {ch}]
  IN /\ ch \in fn.todo[t]
     /\ \/ ~fn.down /\ fn.access > 0 /\ fn' = notify_buf_enqueue(r, x)
        \/ fn.down /\ fn' = [FreeName(r, x) EXCEPT !.todo[t] = {}]
        \/ /\ fn.len >= FUSE_NOTIFY_RINGBUF_MAXLEN /\ fn.noMem < MaxNoMem /\ ~fn.down
           /\ fn' = [FreeName(r, x) EXCEPT !.todo[t] = {}, !.noMem = @ + 1]

(* Every mount but the one the request came through, unless the name       *)
(* differs in case.                                                        *)
hfuse_ll_notify_delete_mp(t, ch, samecase) ==
  LET to == IF samecase THEN Channels \ {ch} ELSE Channels IN
  /\ fn.todo[t] = {} /\ ~fn.down
  /\ fn.made + Cardinality(to) + Cardinality(UNION {{<<u, c>> : c \in fn.todo[u]} : u \in Notifiers})
       <= MaxNotices
  /\ fn' = [fn EXCEPT !.todo[t] = to]

-----------------------------------------------------------------------------
_ring_buffer_dequeue(r) == [r EXCEPT !.out = inc_buf_idx(@), !.loop.data = r.ring[r.out]]
_linked_list_dequeue(r) == [r EXCEPT !.list = Tail(@)]

(* Variant for testing NoticesExact: the place freed in the ring is not    *)
(* refilled from the list.                                                 *)
Refilled_not(r) == r

(* The head of the list moves into the ring.                               *)
Refilled(r) == IF r.list = <<>> THEN r ELSE _linked_list_dequeue(_ring_buffer_enqueue(r, Head(r.list)))

(* The loop leaves when the program stops, after a post of access_sem it   *)
(* did not take when it was asleep or had not begun to look.  A notice for *)
(* which there is no memory stays in the ring for the next turn.           *)
notify_buf_dequeue ==
  /\ fn.loop.pc = "look"
  /\ \/ fn.down /\ fn' = [fn EXCEPT !.access = @ + 1, !.loop.pc = "ended"]
     \/ /\ ~fn.down /\ fn.len = 0 /\ fn' = [fn EXCEPT !.loop.pc = "sleep"]
     \/ /\ ~fn.down /\ fn.len > 0
        /\ LET r == Refilled([_ring_buffer_dequeue(fn) EXCEPT !.len = @ - 1])
           IN fn' = [r EXCEPT !.pending = Tail(@), !.loop.pc = "run"]
     \/ ~fn.down /\ fn.len > 0 /\ fn.noMem < MaxNoMem /\ fn' = [fn EXCEPT !.noMem = @ + 1]

Wake == fn.loop.pc = "sleep" /\ fn.notEmpty > 0
        /\ fn' = [fn EXCEPT !.notEmpty = @ - 1, !.loop.pc = "look"]

(* The kernel's answer does not matter; the name is freed either way.      *)
_do_hfuse_ll_notify_delete(r) == [FreeName(r, r.loop.data) EXCEPT !.loop = [pc |-> "look", data |-> 0]]

(* A notice taken when the program stops loses its name.                   *)
hfuse_ll_notify_loop ==
  /\ fn.loop.pc = "run"
  /\ fn' = IF fn.down THEN [fn EXCEPT !.leaked = @ \cup {fn.loop.data}, !.loop = [pc |-> "ended", data |-> 0]]
           ELSE _do_hfuse_ll_notify_delete(fn)

GoDown == ~fn.down /\ fn' = [fn EXCEPT !.down = TRUE]
PostNotEmpty == fn.down /\ fn.loop.pc = "sleep" /\ fn.notEmpty = 0
                /\ fn' = [fn EXCEPT !.notEmpty = @ + 1]

(* After the join: len places of the ring are freed, the notices of the    *)
(* list counting as places of the ring (a name set to NULL is freed again  *)
(* without harm); the list itself is not freed.                            *)
destory_notify_buf ==
  LET left == {fn.pending[k] : k \in DOMAIN fn.pending}
      inRing == left \ ToSet(fn.list)
  IN /\ fn.loop.pc = "ended"
     /\ fn' = [fn EXCEPT !.freed = @ \cup inRing, !.double = @ \/ (inRing \cap fn.freed) # {},
                         !.leaked = @ \cup ToSet(fn.list), !.pending = <<>>, !.list = <<>>,
                         !.loop.pc = "destroyed"]
destory_hfuse_ll_notify_loop == GoDown \/ PostNotEmpty \/ destory_notify_buf

FNInit == fn = init_notify_buf
FNNext ==
  \/ \E t \in Notifiers, ch \in Channels :
       hfuse_ll_notify_delete(t, ch) \/ \E same \in BOOLEAN : hfuse_ll_notify_delete_mp(t, ch, same)
  \/ notify_buf_dequeue \/ Wake \/ hfuse_ll_notify_loop \/ destory_hfuse_ll_notify_loop

FNTypeOK ==
  /\ fn.ring \in [RingPos -> 0..MaxNotices] /\ fn.in \in RingPos /\ fn.out \in RingPos
  /\ fn.len \in 0..MaxNotices /\ fn.access \in 1..2
  /\ fn.loop.pc \in {"look", "sleep", "run", "ended", "destroyed"}

(* While the program runs, ring and list together hold exactly the notices *)
(* queued and not taken, in the order they were queued; no name is freed   *)
(* twice, and every name is freed, pending, or in a notifier's or the      *)
(* loop's hands; a name is lost only at the end, one in the loop's hands   *)
(* and those of the list; and the loop does not sleep over a notice.       *)
NoticesExact ==
  /\ ~fn.double
  /\ fn.freed \cap (ToSet(fn.pending) \cup fn.leaked) = {}
  /\ fn.freed \cup ToSet(fn.pending) \cup fn.leaked \cup ({fn.loop.data} \ {0}) = 1..fn.made
  /\ ~fn.down => fn.leaked = {}
  /\ fn.loop.pc \notin {"ended", "destroyed"} =>
       LET inRing == IF fn.len < FUSE_NOTIFY_RINGBUF_MAXLEN THEN fn.len ELSE FUSE_NOTIFY_RINGBUF_MAXLEN
       IN /\ fn.len = Len(fn.pending)
          /\ fn.pending = [k \in 1..inRing |-> fn.ring[(fn.out + k - 1) % FUSE_NOTIFY_RINGBUF_MAXLEN]] \o fn.list
          /\ fn.loop.pc = "sleep" /\ fn.notEmpty = 0 => fn.len = 0
=============================================================================
