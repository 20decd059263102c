----------------------------- MODULE EventQueue -----------------------------
(***************************************************************************)
(* event_notification.c and event_filter.c: the ring of events on their    *)
(* way to the management application.  Producers of any thread add events, *)
(* a semaphore counts the free places; one worker sleeps on a condition    *)
(* variable, copies up to MAX_NUM_EVENT_SEND events from the head, sends   *)
(* them and removes them when the server answered.  The server may refuse, *)
(* be replaced, or answer too late; the program may be told to stop.       *)
(***************************************************************************)
EXTENDS Integers, Sequences, SequencesExt, FiniteSets, FiniteSetsExt

CONSTANTS EventProducers, EVENT_QUEUE_SIZE, MAX_NUM_EVENT_SEND,
          MaxEvents,        \* bound: events ever added
          MaxRefusals       \* bound: sends that fail

ASSUME EventQueueAssumption ==
  EVENT_QUEUE_SIZE \in Nat \ {0} /\ MAX_NUM_EVENT_SEND \in Nat \ {0}

VARIABLE ev  \* events, num, head, rear (-1 when empty), full (queue_full_sem),
             \* worker [pc, batch], prod, recent (the rate-limited event was sent
             \* in this interval), path (notify_server_path: old, new, or new with
             \* the old one freed in use), down, refusals, last (events made);
             \* histories: queue (added and not taken), unsent (an event was taken
             \* that was not in the batch); known cases: overrun, missed

Places == 0..(EVENT_QUEUE_SIZE - 1)
Limited(e) == e = 1      \* TOKEN_EXPIRED, the only event with an interval
IdleProducer == [pc |-> "idle", e |-> 0]

init_event_queue ==
  [events |-> [i \in Places |-> 0], num |-> 0, head |-> -1, rear |-> -1,
   full |-> EVENT_QUEUE_SIZE, worker |-> [pc |-> "begin", batch |-> <<>>],
   prod |-> [p \in EventProducers |-> IdleProducer], recent |-> FALSE, path |-> "old",
   down |-> FALSE, refusals |-> 0, last |-> 0, queue |-> <<>>, unsent |-> FALSE,
   overrun |-> FALSE, missed |-> FALSE]

-----------------------------------------------------------------------------
(* Producers.                                                              *)
check_send_interval(e) == ~(Limited(e) /\ ev.recent)
check_event_filter(e) == check_send_interval(e)

(* The filter, then the test for a full ring, both without the lock.       *)
add_notify_event_obj(p, e, blocking) ==
  /\ ev.prod[p] = IdleProducer /\ check_event_filter(e)
  /\ blocking \/ ev.num < EVENT_QUEUE_SIZE
  /\ ev' = [ev EXCEPT !.prod[p] = [pc |-> "room", e |-> e], !.last = @ + 1]

(* An event is either one of the limited kind (1) or a fresh one; callers  *)
(* of both sorts, blocking or not, exist.                                  *)
add_notify_event(p) ==
  \E e \in {1, ev.last + 1} :
    /\ ~ev.down /\ ev.last < MaxEvents
    /\ add_notify_event_obj(p, e, e % 2 = 0)

TakeRoom(p) ==
  /\ ev.prod[p].pc = "room" /\ ev.full > 0
  /\ ev' = [ev EXCEPT !.full = @ - 1, !.prod[p].pc = "put"]

(* Under queue_access_sem.                                                 *)
event_enqueue(p) ==
  LET e == ev.prod[p].e
      pos == IF ev.num <= 0 THEN 0 ELSE (ev.rear + 1) % EVENT_QUEUE_SIZE
  IN /\ ev.prod[p].pc = "put"
     /\ ev' = [ev EXCEPT !.head = IF ev.num <= 0 THEN 0 ELSE @, !.rear = pos,
                         !.events[pos] = e, !.num = @ + 1, !.queue = Append(@, e),
                         !.recent = @ \/ Limited(e),  !.prod[p].pc = "signal"]

(* A signal wakes the worker only when it waits already.                   *)
Signalled(r) == IF r.worker.pc \in {"wait", "backoff"} THEN [r EXCEPT !.worker.pc = "loop"]
                ELSE [r EXCEPT !.missed = @ \/ r.worker.pc = "begin"]
Signal(p) ==
  /\ ev.prod[p].pc = "signal"
  /\ ev' = Signalled([ev EXCEPT !.prod[p] = IdleProducer])

IntervalOver == ev.recent /\ ev' = [ev EXCEPT !.recent = FALSE]

-----------------------------------------------------------------------------
(* The worker.                                                             *)
BeginWait ==
  /\ ev.worker.pc = "begin"
  /\ ev' = [ev EXCEPT !.worker.pc = IF ev.down THEN "ended" ELSE "wait"]

(* The batch is read from head on without wrapping at the end of the ring: *)
(* past it lies foreign memory (0).                                        *)
Batch(n) == [k \in 1..n |-> IF ev.head + k - 1 < EVENT_QUEUE_SIZE THEN ev.events[ev.head + k - 1] ELSE 0]
event_worker_loop ==
  LET n == Min({ev.num, MAX_NUM_EVENT_SEND}) IN
  /\ ev.worker.pc = "loop"
  /\ ev' = IF ev.num > 0 /\ ~ev.down
           THEN [ev EXCEPT !.worker = [pc |-> "send", batch |-> Batch(n)],
                           !.overrun = @ \/ ev.head + n > EVENT_QUEUE_SIZE]
           ELSE [ev EXCEPT !.worker.pc = "begin"]

send_event_to_server ==
  /\ ev.worker.pc = "send"
  /\ \/ ev' = [ev EXCEPT !.worker.pc = "dequeue"]
     \/ /\ ev.refusals < MaxRefusals
        /\ ev' = [ev EXCEPT !.worker = [pc |-> "backoff", batch |-> <<>>], !.refusals = @ + 1]

(* What event_dequeue takes, against what was sent.                        *)
Take(n) ==
  LET unsent == \E k \in 1..n : ev.events[(ev.head + k - 1) % EVENT_QUEUE_SIZE] # ev.worker.batch[k]
  IN [ev EXCEPT !.num = @ - n, !.full = @ + n, !.queue = SubSeq(@, n + 1, Len(@)),
                !.unsent = @ \/ unsent, !.worker = [pc |-> "loop", batch |-> <<>>]]

(* Variant for testing EventsExact: head does not wrap at the end.         *)
event_dequeue_nowrap ==
  LET n == Min({Len(ev.worker.batch), ev.num})
      empty == ev.num = n
  IN /\ ev.worker.pc = "dequeue"
     /\ ev' = [Take(n) EXCEPT !.head = IF empty THEN -1 ELSE Min({@ + n, EVENT_QUEUE_SIZE - 1}),
                              !.rear = IF empty THEN -1 ELSE @]

event_dequeue ==
  LET n == Min({Len(ev.worker.batch), ev.num})
      empty == ev.num = n
  IN /\ ev.worker.pc = "dequeue"
     /\ ev' = [Take(n) EXCEPT !.head = IF empty THEN -1 ELSE (@ + n) % EVENT_QUEUE_SIZE,
                              !.rear = IF empty THEN -1 ELSE @]

BackoffOver == ev.worker.pc = "backoff" /\ ev' = [ev EXCEPT !.worker.pc = "loop"]

(* A reachable new server replaces the old one; the old path is freed even *)
(* when the worker is about to connect to it.                              *)
set_event_notify_server ==
  /\ ev.path = "old" /\ ~ev.down
  /\ ev' = [ev EXCEPT !.path = IF ev.worker.pc = "send" THEN "freed" ELSE "new"]

(* One signal, and posts until a place is seen free: blocked producers run *)
(* on, the ring being over its size.                                       *)
destroy_event_worker_loop_thread ==
  /\ ~ev.down
  /\ ev' = Signalled([ev EXCEPT !.down = TRUE, !.full = @ + IF @ = 0 THEN 2 ELSE 1])

EQInit == ev = init_event_queue
EQNext ==
  \/ \E p \in EventProducers : add_notify_event(p) \/ TakeRoom(p) \/ event_enqueue(p) \/ Signal(p)
  \/ IntervalOver \/ BeginWait \/ event_worker_loop \/ send_event_to_server \/ event_dequeue
  \/ BackoffOver \/ set_event_notify_server \/ destroy_event_worker_loop_thread

EQTypeOK ==
  /\ ev.events \in [Places -> 0..MaxEvents] /\ ev.num \in Nat
  /\ ev.head \in -1..(EVENT_QUEUE_SIZE - 1) /\ ev.rear \in -1..(EVENT_QUEUE_SIZE - 1)
  /\ ev.full \in 0..(EVENT_QUEUE_SIZE + 2)
  /\ ev.worker.pc \in {"begin", "wait", "loop", "send", "dequeue", "backoff", "ended"}

(* Until the program stops: the ring holds exactly the events added and    *)
(* not taken, in order; free places are counted; an event leaves only      *)
(* after it was sent, unless the batch ran past the end of the ring        *)
(* (event_notification.c:440); and the worker never sleeps over an event   *)
(* nobody will signal, unless a signal came in the moment before the wait  *)
(* (:416 to :411).                                                         *)
EventsExact ==
  ~ev.down =>
    /\ ev.num = Len(ev.queue)
    /\ \A k \in 1..ev.num : ev.events[(ev.head + k - 1) % EVENT_QUEUE_SIZE] = ev.queue[k]
    /\ ev.full + ev.num + Cardinality({p \in EventProducers : ev.prod[p].pc = "put"}) = EVENT_QUEUE_SIZE
    /\ ev.unsent => ev.overrun
    /\ ev.worker.pc = "wait" /\ ev.num > 0 =>
         ev.missed \/ \E p \in EventProducers : ev.prod[p].pc = "signal"
=============================================================================
