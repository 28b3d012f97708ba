----------------------------- MODULE EventRing -----------------------------
(***************************************************************************)
(* The event store of one logged-in account (events.c, and the parts of    *)
(* worlds.c, net.c, users.c that queue events): the user's ring of the     *)
(* last MAX_USER_EVENTS events, one ring per open world, the reference     *)
(* count the rings share, and the threads that wait in event_wait on the   *)
(* condition variable evtAlarm.                                            *)
(*                                                                         *)
(* An event is named by its updateCount.  Everything below happens under   *)
(* the user's mutex; a critical section that queues several events is the  *)
(* sequence `section' of what its holder still has to do, one entry per    *)
(* step, and the mutex is free exactly when that sequence is empty.        *)
(*                                                                         *)
(* BugWrap, BugSlot, BugReplaySlot, BugReleased and BugWaitEnds are the    *)
(* next definition with a bug in it; nothing here uses them, they are      *)
(* there to see that the properties would notice.                          *)
(***************************************************************************)
EXTENDS Integers, Sequences, FiniteSets, Functions

CONSTANTS
    Worlds,            \* the slots of user->worlds[]
    Polls,             \* server threads that may serve an update request
    NULL,              \* "no world" where queueEvent takes a world
    MAX_USER_EVENTS,   \* conf.h
    MAX_WORLD_EVENTS,  \* conf.h
    MAX_LINES,         \* net.c: lines one raw_read hands over
    MaxEcho,           \* bound: lines of one world_echo text
    MaxUpdates,        \* bound: events of one life of the user slot
    MaxLives,          \* bound: logins of the account, each after a clean-up
    MaxThreads,        \* bound: connecting threads of one world at a time
    OutOfMemory        \* may vasprintf fail in queueEvent?

ASSUME SizesAssumption ==
    /\ MAX_USER_EVENTS \in Nat \ {0}
    /\ MAX_WORLD_EVENTS \in Nat \ {0}
    /\ MAX_LINES \in Nat \ {0}
    /\ MaxEcho \in Nat \ {0}
    /\ MaxUpdates \in Nat
    /\ MaxLives \in Nat \ {0}
    /\ MaxThreads \in Nat
    /\ OutOfMemory \in BOOLEAN
    /\ IsFiniteSet(Worlds)
    /\ NULL \notin Worlds

NoEvent == -1
Ids == 0 .. MaxUpdates - 1
Slots == 0 .. MAX_USER_EVENTS - 1
WSlots == 0 .. MAX_WORLD_EVENTS - 1

VARIABLES
    updateCount,       \* user->updateCount
    events,            \* user->events[]: the updateCount of the event, or NoEvent
    evtS, evtE,        \* user->evtS, user->evtE
    wEvents,           \* world->events[], per world
    wEvtS, wEvtE,      \* world->evtS, world->evtE
    refcount,          \* event->refcount; 0 once freed (or not yet made)
    open,              \* worlds whose name is set
    netstatus,         \* world->netstatus
    threads,           \* per world slot: thread_connect threads not done yet
    section,           \* what the holder of user->mutex has still to do
    alive,             \* the user slot is in use (refcount >= 0)
    lives,             \* logins so far
    failed,            \* history: an event of this life was counted and not stored
    pc, want,          \* per poll: where its thread is, the updateCount it asked
    reply,             \* per poll: what was written to its connection
    wlog               \* history: the events queued for each open world

ringVars == <<events, evtS, evtE, wEvents, wEvtS, wEvtE, refcount>>
worldVars == <<open, netstatus, threads>>
slotVars == <<lives, failed>>
pollVars == <<pc, want, reply>>
vars == <<updateCount, ringVars, worldVars, section, alive, slotVars, pollVars, wlog>>

-----------------------------------------------------------------------------
(* What a critical section is made of.                                     *)

\* queueEvent for a world's ring and the user's, without and with its alarm
Line(w) == [do |-> "queue", world |-> w, alarm |-> FALSE]
AddEvent(w) == [do |-> "queue", world |-> w, alarm |-> TRUE]
\* pthread_cond_broadcast; the end of net_disconnect; the end of world_free
Wake == [do |-> "wake", world |-> NULL, alarm |-> TRUE]
Down(w) == [do |-> "down", world |-> w, alarm |-> FALSE]
Free(w) == [do |-> "free", world |-> w, alarm |-> FALSE]

Jobs == {Line(w) : w \in Worlds} \cup {AddEvent(w) : w \in Worlds \cup {NULL}}
        \cup {Wake} \cup {Down(w) : w \in Worlds} \cup {Free(w) : w \in Worlds}

Copies(n, job) == [i \in 1 .. n |-> job]

\* Take the user's mutex to do jobs; the guard on MaxUpdates only bounds the model.
Begin(jobs) ==
    /\ alive
    /\ section = <<>>
    /\ updateCount + Len(jobs) <= MaxUpdates
    /\ section' = jobs

-----------------------------------------------------------------------------
(* Ring arithmetic.                                                        *)

\* x % n for the values the code takes it of: 0 <= x < 2n
BugWrap(x, n) == IF x > n THEN x - n ELSE x
Wrap(x, n) == IF x >= n THEN x - n ELSE x

\* evtE - c, "if (i < 0) i += MAX": the slot written c events ago
Back(e, c, n) == IF e - c < 0 THEN e - c + n ELSE e - c

BugSlot(c) == Back(evtE + 1, c, MAX_USER_EVENTS)
Slot(c) == Back(evtE, c, MAX_USER_EVENTS)

\* event_wait, the events behind: how many, how many were dropped, which slots
Behind(asked) == updateCount - asked
Dropped(asked) ==
    IF Behind(asked) > MAX_USER_EVENTS THEN Behind(asked) - MAX_USER_EVENTS ELSE 0
Batch(asked) ==
    LET count == Behind(asked) - Dropped(asked)
    IN  [i \in 1 .. count |-> events[Wrap(Slot(count) + i - 1, MAX_USER_EVENTS)]]

\* event_startup: a world's ring from evtS up to its first empty slot
BugReplaySlot(w, j) == Wrap(j, MAX_WORLD_EVENTS)
ReplaySlot(w, j) == Wrap(wEvtS[w] + j, MAX_WORLD_EVENTS)
ReplayLength(w) ==
    CHOOSE n \in 0 .. MAX_WORLD_EVENTS :
        /\ \A j \in 0 .. n - 1 : wEvents[w][ReplaySlot(w, j)] # NoEvent
        /\ n < MAX_WORLD_EVENTS => wEvents[w][ReplaySlot(w, n)] = NoEvent
Replay(w) == [j \in 1 .. ReplayLength(w) |-> wEvents[w][ReplaySlot(w, j - 1)]]

-----------------------------------------------------------------------------
(* What an update request is answered with.                                *)

Replies == [kind: {"none", "error", "startup", "events"}, count: Nat,
            lost: Nat, batch: Seq(Int)]

NoReply == [kind |-> "none", count |-> 0, lost |-> 0, batch |-> <<>>]
ErrorReply == [NoReply EXCEPT !.kind = "error"]
StartupReply == [NoReply EXCEPT !.kind = "startup", !.count = updateCount]
UpdateReply(asked) ==
    IF updateCount > asked
    THEN [kind |-> "events", count |-> updateCount,
          lost |-> Dropped(asked), batch |-> Batch(asked)]
    ELSE [NoReply EXCEPT !.kind = "events", !.count = updateCount]

FreshRings ==
    /\ updateCount = 0
    /\ events = [s \in Slots |-> NoEvent]
    /\ evtS = 0
    /\ evtE = 0
    /\ wEvents = [w \in Worlds |-> [s \in WSlots |-> NoEvent]]
    /\ wEvtS = [w \in Worlds |-> 0]
    /\ wEvtE = [w \in Worlds |-> 0]
    /\ refcount = [e \in Ids |-> 0]
    /\ open = {}
    /\ netstatus = [w \in Worlds |-> "disconnected"]
    /\ threads = [w \in Worlds |-> 0]
    /\ section = <<>>
    /\ alive = TRUE
    /\ wlog = [w \in Worlds |-> <<>>]

Init ==
    /\ FreshRings
    /\ lives = 1
    /\ failed = FALSE
    /\ pc = [p \in Polls |-> "idle"]
    /\ want = [p \in Polls |-> 0]
    /\ reply = [p \in Polls |-> NoReply]

-----------------------------------------------------------------------------
(* Critical sections that other code opens on the user's mutex.            *)

\* messageEvent: system messages, connect progress, file notices; no world ring
MessageEvent ==
    /\ Begin(<<AddEvent(NULL)>>)
    /\ UNCHANGED <<updateCount, ringVars, worldVars, alive, slotVars, pollVars, wlog>>

\* world_open on a free slot
WorldOpen(w) ==
    /\ w \notin open
    /\ Begin(<<AddEvent(NULL)>>)
    /\ open' = open \cup {w}
    /\ UNCHANGED <<updateCount, ringVars, netstatus, threads, alive, slotVars, pollVars, wlog>>

\* world_echo: each line of the text is an event of the user, not of the world
WorldEcho(w) ==
    /\ w \in open
    /\ \E n \in 1 .. MaxEcho : Begin(Copies(n, AddEvent(NULL)))
    /\ UNCHANGED <<updateCount, ringVars, worldVars, alive, slotVars, pollVars, wlog>>

\* world_connect, net_connect: refused unless disconnected, else a thread is started
WorldConnect(w) ==
    /\ w \in open
    /\ Begin(<<AddEvent(NULL)>>)
    /\ IF netstatus[w] = "disconnected"
       THEN /\ threads[w] < MaxThreads
            /\ threads' = [threads EXCEPT ![w] = @ + 1]
            /\ netstatus' = [netstatus EXCEPT ![w] = "connecting"]
       ELSE UNCHANGED <<threads, netstatus>>
    /\ UNCHANGED <<updateCount, ringVars, open, alive, slotVars, pollVars, wlog>>

\* The end of thread_connect: it sets the status without the mutex, and whatever
\* has become of the world since.  Its messages are MessageEvents.
ThreadEnds(w) ==
    /\ threads[w] > 0
    /\ threads' = [threads EXCEPT ![w] = @ - 1]
    /\ \E status \in {"connected", "disconnected"} :
          netstatus' = [netstatus EXCEPT ![w] = status]
    /\ UNCHANGED <<updateCount, ringVars, open, section, alive, slotVars, pollVars, wlog>>

\* world_dc_event
DisconnectEvent(w) == IF netstatus[w] = "disconnected" THEN <<>> ELSE <<AddEvent(w)>>

WorldDisconnect(w) ==
    /\ w \in open
    /\ netstatus[w] # "disconnected"
    /\ Begin(DisconnectEvent(w) \o <<Down(w)>>)
    /\ UNCHANGED <<updateCount, ringVars, worldVars, alive, slotVars, pollVars, wlog>>

\* world_close, world_free(w, 1)
WorldClose(w) ==
    /\ w \in open
    /\ Begin(DisconnectEvent(w) \o <<AddEvent(NULL), Down(w), Free(w)>>)
    /\ UNCHANGED <<updateCount, ringVars, worldVars, alive, slotVars, pollVars, wlog>>

\* net_read, raw_read, addLines: n lines without an alarm, then one broadcast;
\* then a prompt, or the remote end has closed, or there is nothing more to read.
\* raw_read stops at MAX_LINES lines before it looks for either.
NetRead(w) ==
    /\ w \in open
    /\ netstatus[w] = "connected"
    /\ \E n \in 0 .. MAX_LINES, end \in {"nothing", "prompt", "closed"} :
          /\ n = MAX_LINES => end = "nothing"
          /\ n > 0 \/ end # "nothing"
          /\ Begin(Copies(n, Line(w))
                   \o (IF n > 0 THEN <<Wake>> ELSE <<>>)
                   \o (CASE end = "prompt" -> <<AddEvent(w)>>
                         [] end = "closed" -> <<AddEvent(w), Down(w)>>
                         [] OTHER -> <<>>))
    /\ UNCHANGED <<updateCount, ringVars, worldVars, alive, slotVars, pollVars, wlog>>

\* net_poll on EPOLLERR: the same event and the same end as a closed socket.  It has
\* the net mutex, which everyone needs who acts on the status, but not the user's.
NetError(w) ==
    /\ w \in open
    /\ netstatus[w] = "connected"
    /\ Begin(DisconnectEvent(w) \o <<Down(w)>>)
    /\ UNCHANGED <<updateCount, ringVars, worldVars, alive, slotVars, pollVars, wlog>>

-----------------------------------------------------------------------------
(* The steps inside a critical section.                                    *)

\* n more references to event e, seen from event x
Refers(n, e, x) == IF x = e THEN n ELSE 0

\* event_free on the event that a ring slot is about to lose, if any
BugReleased(slot, x) == 0
Released(slot, x) == IF slot = x THEN 1 ELSE 0

Broadcast(polls) ==
    pc' = [p \in Polls |-> IF p \in polls /\ pc[p] = "asleep" THEN "woken" ELSE pc[p]]

\* queueEvent: number the event, put it in the user's ring and the world's,
\* drop the references of the events it overwrites, then ring the alarm.
QueueEvent ==
    /\ section # <<>>
    /\ Head(section).do = "queue"
    /\ LET w == Head(section).world
           e == updateCount
       IN  /\ events' = [events EXCEPT ![evtE] = e]
           /\ evtS' = IF events[evtE] # NoEvent
                      THEN Wrap(evtS + 1, MAX_USER_EVENTS) ELSE evtS
           /\ evtE' = Wrap(evtE + 1, MAX_USER_EVENTS)
           /\ IF w = NULL
              THEN /\ refcount' = [x \in Ids |-> refcount[x] + Refers(1, e, x)
                                                - Released(events[evtE], x)]
                   /\ UNCHANGED <<wEvents, wEvtS, wEvtE, wlog>>
              ELSE /\ refcount' = [x \in Ids |-> refcount[x] + Refers(2, e, x)
                                                - Released(events[evtE], x)
                                                - Released(wEvents[w][wEvtE[w]], x)]
                   /\ wEvents' = [wEvents EXCEPT ![w][wEvtE[w]] = e]
                   /\ wEvtS' = [wEvtS EXCEPT ![w] =
                                   IF wEvents[w][wEvtE[w]] # NoEvent
                                   THEN Wrap(@ + 1, MAX_WORLD_EVENTS) ELSE @]
                   /\ wEvtE' = [wEvtE EXCEPT ![w] = Wrap(@ + 1, MAX_WORLD_EVENTS)]
                   /\ wlog' = [wlog EXCEPT ![w] = Append(@, e)]
    /\ updateCount' = updateCount + 1
    /\ Broadcast(IF Head(section).alarm THEN Polls ELSE {})
    /\ section' = Tail(section)
    /\ UNCHANGED <<worldVars, alive, slotVars, want, reply>>

\* queueEvent when vasprintf fails: the event has its number and nothing else
QueueEventFails ==
    /\ OutOfMemory
    /\ section # <<>>
    /\ Head(section).do = "queue"
    /\ updateCount' = updateCount + 1
    /\ section' = Tail(section)
    /\ failed' = TRUE
    /\ UNCHANGED <<ringVars, worldVars, alive, lives, pollVars, wlog>>

\* addLines' pthread_cond_broadcast
WakePolls ==
    /\ section # <<>>
    /\ Head(section).do = "wake"
    /\ Broadcast(Polls)
    /\ section' = Tail(section)
    /\ UNCHANGED <<updateCount, ringVars, worldVars, alive, slotVars, want, reply, wlog>>

\* netstatus = WORLD_DISCONNECTED, in net_disconnect, net_read and net_poll
NetDown ==
    /\ section # <<>>
    /\ Head(section).do = "down"
    /\ netstatus' = [netstatus EXCEPT ![Head(section).world] = "disconnected"]
    /\ section' = Tail(section)
    /\ UNCHANGED <<updateCount, ringVars, open, threads, alive, slotVars, pollVars, wlog>>

Holds(ring, e) == Cardinality({s \in DOMAIN ring : ring[s] = e})

\* the end of world_free: release the ring's events, memset the world
WorldFree ==
    /\ section # <<>>
    /\ Head(section).do = "free"
    /\ LET w == Head(section).world
       IN  /\ refcount' = [e \in Ids |-> refcount[e] - Holds(wEvents[w], e)]
           /\ wEvents' = [wEvents EXCEPT ![w] = [s \in WSlots |-> NoEvent]]
           /\ wEvtS' = [wEvtS EXCEPT ![w] = 0]
           /\ wEvtE' = [wEvtE EXCEPT ![w] = 0]
           /\ open' = open \ {w}
           /\ netstatus' = [netstatus EXCEPT ![w] = "disconnected"]
           /\ wlog' = [wlog EXCEPT ![w] = <<>>]
    /\ section' = Tail(section)
    /\ UNCHANGED <<updateCount, events, evtS, evtE, threads, alive, slotVars, pollVars>>

-----------------------------------------------------------------------------
(* Update requests: handle_update, event_startup, event_wait.              *)

\* handle_update up to the call: the check reads updateCount without the mutex.
\* A request that finds no user is told "You are logged out." (event_handler).
Ask(p, asked) ==
    /\ pc[p] = "idle"
    /\ IF ~alive \/ asked > updateCount
       THEN /\ reply' = [reply EXCEPT ![p] = ErrorReply]
            /\ pc' = [pc EXCEPT ![p] = "replied"]
            /\ UNCHANGED want
       ELSE /\ pc' = [pc EXCEPT ![p] = "asked"]
            /\ want' = [want EXCEPT ![p] = asked]
            /\ UNCHANGED reply
    /\ UNCHANGED <<updateCount, ringVars, worldVars, section, alive, slotVars, wlog>>

Answer(p, r) ==
    /\ reply' = [reply EXCEPT ![p] = r]
    /\ pc' = [pc EXCEPT ![p] = "replied"]
    /\ want' = [want EXCEPT ![p] = 0]

\* event_startup: what it replays is Replay(w) of every open world
EventStartup(p) ==
    /\ pc[p] = "asked"
    /\ section = <<>>
    /\ want[p] < 0
    /\ Answer(p, StartupReply)
    /\ UNCHANGED <<updateCount, ringVars, worldVars, section, alive, slotVars, wlog>>

\* event_wait to its pthread_cond_timedwait, or to its end when it has events
EventWait(p) ==
    /\ pc[p] = "asked"
    /\ section = <<>>
    /\ want[p] >= 0
    /\ IF updateCount <= want[p]
       THEN /\ pc' = [pc EXCEPT ![p] = "asleep"]
            /\ UNCHANGED <<want, reply>>
       ELSE Answer(p, UpdateReply(want[p]))
    /\ UNCHANGED <<updateCount, ringVars, worldVars, section, alive, slotVars, wlog>>

\* LONG_POLL_SECONDS are over, or the wait ends spuriously
BugWaitEnds(p) == pc[p] = "asleep" /\ UNCHANGED vars
WaitEnds(p) ==
    /\ pc[p] = "asleep"
    /\ pc' = [pc EXCEPT ![p] = "woken"]
    /\ UNCHANGED <<updateCount, ringVars, worldVars, section, alive, slotVars, want, reply, wlog>>

\* event_wait from the mutex regained; it waits once and does not test again
EventWaitEnds(p) ==
    /\ pc[p] = "woken"
    /\ section = <<>>
    /\ Answer(p, UpdateReply(want[p]))
    /\ UNCHANGED <<updateCount, ringVars, worldVars, section, alive, slotVars, wlog>>

\* the connection is closed: what was written is with the page, or lost
Sent(p) ==
    /\ pc[p] = "replied"
    /\ pc' = [pc EXCEPT ![p] = "idle"]
    /\ reply' = [reply EXCEPT ![p] = NoReply]
    /\ UNCHANGED <<updateCount, ringVars, worldVars, section, alive, slotVars, want, wlog>>

-----------------------------------------------------------------------------
(* The slot of the account: user_clean and the next user_login.            *)

\* user_clean: every event of the user's ring, then world_free of every world.
\* It runs with no request of the account inside event_wait (see Lifecycle).
UserClean ==
    /\ alive
    /\ section = <<>>
    /\ \A p \in Polls : pc[p] \in {"idle", "replied"}
    /\ refcount' = [e \in Ids |->
                       refcount[e] - Holds(events, e)
                         - Cardinality({x \in open \X WSlots : wEvents[x[1]][x[2]] = e})]
    /\ wEvents' = [w \in Worlds |-> [s \in WSlots |-> NoEvent]]
    /\ wEvtS' = [w \in Worlds |-> 0]
    /\ wEvtE' = [w \in Worlds |-> 0]
    /\ open' = {}
    /\ netstatus' = [w \in Worlds |-> "disconnected"]
    /\ wlog' = [w \in Worlds |-> <<>>]
    /\ alive' = FALSE
    /\ UNCHANGED <<updateCount, events, evtS, evtE, threads, section, slotVars, pollVars>>

\* user_login on the free slot: memset, then the account is in use again
UserLogin ==
    /\ ~alive
    /\ lives < MaxLives
    /\ lives' = lives + 1
    /\ failed' = FALSE
    /\ updateCount' = 0
    /\ events' = [s \in Slots |-> NoEvent]
    /\ evtS' = 0
    /\ evtE' = 0
    /\ netstatus' = [w \in Worlds |-> "disconnected"]
    /\ alive' = TRUE
    /\ UNCHANGED <<wEvents, wEvtS, wEvtE, refcount, open, threads, section, pollVars, wlog>>

-----------------------------------------------------------------------------
UserOps ==
    \/ MessageEvent
    \/ \E w \in Worlds : \/ WorldOpen(w) \/ WorldEcho(w) \/ WorldConnect(w)
                         \/ WorldDisconnect(w) \/ WorldClose(w)

NetOps == \E w \in Worlds : ThreadEnds(w) \/ NetRead(w) \/ NetError(w)

SectionStep == QueueEvent \/ QueueEventFails \/ WakePolls \/ NetDown \/ WorldFree

PollStep(p) == EventStartup(p) \/ EventWait(p) \/ WaitEnds(p) \/ EventWaitEnds(p)

SlotOps == UserClean \/ UserLogin

Server == UserOps \/ NetOps \/ SectionStep \/ SlotOps \/ \E p \in Polls : PollStep(p)

\* The browser's side: what it may ask, and that it takes what it is sent.
Client == \E p \in Polls : Sent(p) \/ \E asked \in -1 .. MaxUpdates : Ask(p, asked)

Next == Server \/ Client

\* The holder of the mutex goes on, and so does every thread in event_wait; a
\* wait for evtAlarm ends at the latest after LONG_POLL_SECONDS.
Fairness == WF_vars(SectionStep) /\ \A p \in Polls : SF_vars(PollStep(p))

Spec == Init /\ [][Next]_vars

FairSpec == Spec /\ Fairness

-----------------------------------------------------------------------------
(* Properties.                                                             *)

\* Every variable has its type; the slots in use are those of the arrays.
TypeOK ==
    /\ updateCount \in 0 .. MaxUpdates
    /\ events \in [Slots -> Ids \cup {NoEvent}]
    /\ evtS \in Slots
    /\ evtE \in Slots
    /\ wEvents \in [Worlds -> [WSlots -> Ids \cup {NoEvent}]]
    /\ wEvtS \in [Worlds -> WSlots]
    /\ wEvtE \in [Worlds -> WSlots]
    /\ refcount \in [Ids -> Int]
    /\ open \in SUBSET Worlds
    /\ netstatus \in [Worlds -> {"disconnected", "connecting", "connected"}]
    /\ threads \in [Worlds -> 0 .. MaxThreads]
    /\ section \in Seq(Jobs)
    /\ alive \in BOOLEAN
    /\ lives \in 1 .. MaxLives
    /\ failed \in BOOLEAN
    /\ pc \in [Polls -> {"idle", "asked", "asleep", "woken", "replied"}]
    /\ want \in [Polls -> Int]
    /\ reply \in [Polls -> Replies]
    /\ wlog \in [Worlds -> Seq(Ids)]

\* Whatever updateCount a request asks from, event_wait's walk over the ring
\* sends the newest events, each once, in order and up to the last one, and the
\* overflow it reports is exactly what it leaves out (events.c:281-300); unless an
\* event was counted and then not stored (events.c:67-77).
BatchIsLatest ==
    alive /\ ~failed => \A asked \in 0 .. updateCount - 1 :
        /\ Len(Batch(asked)) + Dropped(asked) = updateCount - asked
        /\ Len(Batch(asked)) = updateCount - asked \/ Len(Batch(asked)) = MAX_USER_EVENTS
        /\ \A i \in 1 .. Len(Batch(asked)) :
              Batch(asked)[i] = updateCount - Len(Batch(asked)) + i - 1

\* A page that loads gets, for every open world, the last MAX_WORLD_EVENTS
\* events queued for it since it was opened, in order (events.c:248-262).
ReplayIsLatest ==
    \A w \in Worlds :
        LET n == Len(wlog[w])
            k == IF n > MAX_WORLD_EVENTS THEN MAX_WORLD_EVENTS ELSE n
        IN  Replay(w) = SubSeq(wlog[w], n - k + 1, n)

\* An event's reference count is the number of rings that hold it, so event_free
\* frees it when the last of them lets go: no ring slot dangles, and once
\* user_clean is done nothing is left (events.c:26-33, users.c:158-167).
RefcountExact ==
    \A e \in Ids :
        refcount[e] = IF alive
                      THEN Holds(events, e)
                           + Cardinality({x \in Worlds \X WSlots : wEvents[x[1]][x[2]] = e})
                      ELSE 0

\* No wake-up is lost: a thread asleep in event_wait while there is an event for
\* it sleeps only until the holder of the mutex reaches its broadcast; addLines
\* queues whole batches without an alarm (events.c:40-50, 106-111, 274-280).  An
\* event that is not stored rings no alarm.
Rings(job) == job.do = "wake" \/ (job.do = "queue" /\ job.alarm)
NoLostWakeup ==
    ~failed => \A p \in Polls :
        pc[p] = "asleep" /\ updateCount > want[p]
            => \E i \in 1 .. Len(section) : Rings(section[i])

\* Every request is answered (events.c:268-307).
EveryPollAnswered ==
    \A p \in Polls : pc[p] = "asked" ~> pc[p] = "replied"
=============================================================================
