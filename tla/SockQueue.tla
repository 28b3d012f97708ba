------------------------------ MODULE SockQueue ------------------------------
(***************************************************************************)
(* The queue of accepted sockets between Mongoose's master thread and its  *)
(* workers (mongoose.c: produce_socket, consume_socket): an array used as  *)
(* a ring, its two indices, and the two condition variables.               *)
(*                                                                         *)
(* Each function holds ctx->mutex from its first line to its last, except  *)
(* while it waits, so each passage between two waits is one step.          *)
(*                                                                         *)
(* The operators named Bug... are the next definition with a bug in it;    *)
(* nothing here uses them (see EventRing).                                 *)
(***************************************************************************)
EXTENDS Integers, Sequences

CONSTANTS
    Conns,             \* sockets
    Workers,           \* worker threads
    QSIZE,             \* ARRAY_SIZE(ctx->queue)
    NULL               \* no socket

ASSUME QueueAssumption ==
    /\ QSIZE \in Nat \ {0}
    /\ NULL \notin Conns

VARIABLES
    queue,             \* ctx->queue
    sq_head, sq_tail,  \* ctx->sq_head, ctx->sq_tail
    asleep,            \* workers that wait for sq_full
    blocked,           \* does the master wait for sq_empty?
    waiting            \* history: the sockets that were put in and not taken out, in order

queueVars == <<queue, sq_head, sq_tail, asleep, blocked, waiting>>

QInit ==
    /\ queue = [i \in 0 .. QSIZE - 1 |-> NULL]
    /\ sq_head = 0 /\ sq_tail = 0
    /\ asleep = {} /\ blocked = FALSE
    /\ waiting = <<>>

\* pthread_cond_signal(&ctx->sq_full): one of the sleepers goes on
BugWake == IF sq_head - sq_tail + 1 = QSIZE THEN asleep' = {} ELSE UNCHANGED asleep
Wake ==
    \/ asleep = {} /\ UNCHANGED asleep
    \/ \E w \in asleep : asleep' = asleep \ {w}

\* produce_socket of socket c: it waits while the queue is full
ProduceWaits ==
    /\ ~blocked /\ sq_head - sq_tail >= QSIZE
    /\ blocked' = TRUE
    /\ UNCHANGED <<queue, sq_head, sq_tail, asleep, waiting>>

Produce(c) ==
    /\ ~blocked /\ sq_head - sq_tail < QSIZE
    /\ queue' = [queue EXCEPT ![sq_head % QSIZE] = c]
    /\ sq_head' = sq_head + 1
    /\ Wake
    /\ waiting' = Append(waiting, c)
    /\ UNCHANGED <<sq_tail, blocked>>

\* consume_socket of worker w, on entry and again whenever it is woken
ConsumeWaits(w) ==
    /\ w \notin asleep /\ sq_head = sq_tail
    /\ asleep' = asleep \cup {w}
    /\ UNCHANGED <<queue, sq_head, sq_tail, blocked, waiting>>

\* What sq_tail and sq_head are taken back by when sq_tail has run past the array
BugWrap == IF sq_tail + 1 > QSIZE THEN QSIZE + 1 ELSE 0
Wrap == IF sq_tail + 1 > QSIZE THEN QSIZE ELSE 0

Consume(w, c) ==
    /\ w \notin asleep /\ sq_head # sq_tail
    /\ c = queue[sq_tail % QSIZE]
    /\ sq_tail' = sq_tail + 1 - Wrap
    /\ sq_head' = sq_head - Wrap
    /\ queue' = [queue EXCEPT ![sq_tail % QSIZE] = NULL]    \* never read again
    /\ blocked' = FALSE
    /\ waiting' = Tail(waiting)
    /\ UNCHANGED asleep

-----------------------------------------------------------------------------
(* What the queue is to its users: a sequence.                             *)

\* The sockets between the indices, oldest first, are exactly those that were put in and not
\* taken out, and the indices stay in the array's reach, however often they wrap
\* (mongoose.c:3852-3870, 3925-3931)
QueueInOrder ==
    /\ sq_tail \in 0 .. QSIZE
    /\ sq_head - sq_tail = Len(waiting)
    /\ Len(waiting) <= QSIZE
    /\ \A i \in 1 .. Len(waiting) : waiting[i] = queue[(sq_tail + i - 1) % QSIZE]
=============================================================================
