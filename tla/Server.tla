------------------------------- MODULE Server -------------------------------
(***************************************************************************)
(* The threads of the server and the mutexes they share.  Mongoose's       *)
(* workers take connections from the queue and run a handler each, the     *)
(* main thread is the network thread (net_poll), connecting worlds have a  *)
(* thread of their own, and a signal makes the main thread shut down.      *)
(*                                                                         *)
(* What a thread does is the sequence of things it can be held up by:      *)
(*   <<"lock", m>>, <<"unlock", m>>    a recursive mutex                   *)
(*   <<"pass", m>>                     lock and unlock, no other between   *)
(*   <<"write">>, <<"connect">>        mg_printf to a browser that may be  *)
(*                                     slow; connect to an address         *)
(*   <<"spawn", u>>                    net_connect: a thread_connect,      *)
(*                                     unless the world has a connection   *)
(* What it does to the state meanwhile is the matter of other modules.     *)
(* The mutexes are net (sockmutex), sessions, users and every user's; the  *)
(* loggers' are left out, nothing else is asked for under them.            *)
(*                                                                         *)
(* The operators named Bug... are the next definition with a bug in it;    *)
(* nothing here uses them (see EventRing).                                 *)
(***************************************************************************)
EXTENDS SockQueue, FiniteSets

CONSTANTS
    Users,             \* users logged in
    Connectors,        \* bound: connecting threads at a time
    MAIN,              \* the main thread
    Loads              \* bound: which browsers make which kinds of requests in a run

ASSUME ServerAssumption ==
    /\ MAIN \notin Workers \cup Connectors /\ Workers \cap Connectors = {}
    /\ IsFiniteSet(Users) /\ Users \cap {"net", "sessions", "users"} = {}
    /\ NULL \notin Workers \cup Connectors \cup {MAIN}

Threads == Workers \cup Connectors \cup {MAIN}
Mutexes == {"net", "sessions", "users"} \cup Users

VARIABLES
    load,              \* the load of this run
    hand,              \* the socket accept gave to the master, or NULL
    serves,            \* per worker: its connection, or NULL
    prog,              \* per thread: what it has still to do
    owner, depth,      \* per mutex: who holds it, how often
    exited             \* "no", "stopping" (in do_shutdown), or "yes"

threadVars == <<prog, owner, depth>>
vars == <<load, queueVars, hand, serves, threadVars, exited>>

-----------------------------------------------------------------------------
(* What handlers and threads do.                                           *)

\* What is done with mutex m held; nothing but to have got it
Under(m, steps) == << <<"lock", m>> >> \o steps \o << <<"unlock", m>> >>
Pass(m) == << <<"pass", m>> >>
Write == << <<"write">> >>

\* session_get and user_get, at the start of every request (event_handler)
Lookup == Pass("sessions") \o Pass("users")

\* event_startup; event_wait with its one wait, which gives the user's mutex back
Startup(u) == Under(u, Write)
BugEventWait(u) == Under(u, Write \o Pass("users"))
EventWait(u) == Under(u, <<>>) \o Under(u, Write)

\* world_disconnect, world_close, world_send: an event is queued under both mutexes
BugWorldOp(u) == Under(u, Under("net", Pass(u)))
WorldOp(u) == Under("net", Under(u, Pass(u)))
WorldConnect(u) == Under("net", Under(u, << <<"spawn", u>> >> \o Pass(u)))
\* world_open, world_echo: no net mutex
WorldOpen(u) == Under(u, <<>>)

\* handle_login: session_make and user_login; session_logout
Login == Pass("sessions") \o Pass("users") \o Write
Logout == Write \o Pass("sessions")
\* a page for somebody who is not logged in
Page == Write

Kinds == {"startup", "wait", "world", "connect", "open", "login", "page", "logout"}
Handler(kind, u) ==
    CASE kind = "startup" -> Lookup \o Startup(u)
      [] kind = "wait"    -> Lookup \o EventWait(u)
      [] kind = "world"   -> Lookup \o WorldOp(u)
      [] kind = "connect" -> Lookup \o WorldConnect(u)
      [] kind = "open"    -> Lookup \o WorldOpen(u)
      [] kind = "login"   -> Pass("sessions") \o Login
      [] kind = "page"    -> Pass("sessions") \o Page
      [] kind = "logout"  -> Lookup \o Logout

ASSUME LoadsAssumption == \A l \in Loads : l.conns \subseteq Conns /\ l.kinds \subseteq Kinds

\* net_read for a world of u, in net_poll's loop
PollRead(u) == Under("net", Under("net", Under(u, <<>>)))
\* sessions_expire with user_expire for u, then users_cleanup with user_clean of u
Sweep(u) ==
    Under("net", Under("sessions", Under("users", Under(u, <<>>))) \o Under("users", Pass(u)))

\* thread_connect for a world of u; connect is tried under the net mutex
ThreadConnect(u, succeeds) ==
    Pass(u) \o Under("net", << <<"connect">> >>)
      \o (IF succeeds THEN Pass("net") ELSE <<>>) \o Pass(u)

\* do_shutdown: users_shutdown cleans every user, under the users mutex, without the net
\* mutex, on top of whatever main was doing
InOrder == CHOOSE s \in [1 .. Cardinality(Users) -> Users] : \A u \in Users : \E i \in DOMAIN s : s[i] = u
Shutdown ==
    Under("users", [i \in 1 .. 2 * Cardinality(Users) |->
                       <<IF i % 2 = 1 THEN "lock" ELSE "unlock", InOrder[(i + 1) \div 2]>>])

-----------------------------------------------------------------------------
(* Threads at work.                                                        *)

Free(t, m) == owner[m] \in {t, NULL}

Lock(t, m) ==
    /\ Free(t, m)
    /\ owner' = [owner EXCEPT ![m] = t]
    /\ depth' = [depth EXCEPT ![m] = @ + 1]

Unlock(t, m) ==
    /\ depth' = [depth EXCEPT ![m] = @ - 1]
    /\ owner' = [owner EXCEPT ![m] = IF depth[m] = 1 THEN NULL ELSE t]

Idle(t) == prog[t] = <<>>

\* The next thing of thread t
Do(t) ==
    /\ exited # "yes" /\ ~Idle(t)
    /\ LET step == Head(prog[t]) IN
       /\ \/ step[1] = "lock" /\ Lock(t, step[2])
          \/ step[1] = "unlock" /\ Unlock(t, step[2])
          \/ step[1] = "pass" /\ Free(t, step[2]) /\ UNCHANGED <<owner, depth>>
          \/ step[1] \in {"write", "connect", "spawn"} /\ UNCHANGED <<owner, depth>>
       /\ \/ prog' = [prog EXCEPT ![t] = Tail(@)]
          \/ /\ step[1] = "spawn"
             /\ \E c \in Connectors, succeeds \in BOOLEAN :
                   /\ Idle(c)
                   /\ prog' = [prog EXCEPT ![t] = Tail(@), ![c] = ThreadConnect(step[2], succeeds)]
    /\ exited' = IF t = MAIN /\ exited = "stopping" /\ Len(prog[t]) = 1 THEN "yes" ELSE exited
    /\ UNCHANGED <<load, queueVars, hand, serves>>

-----------------------------------------------------------------------------
(* Mongoose's master and its workers, once main has set everything up.     *)

Busy == {serves[w] : w \in Workers} \cup {hand}
\* accept_new_connection: the master takes a connection when it has none in hand
Accept(c) ==
    /\ exited = "no" /\ hand = NULL
    /\ c \in load.conns \ Busy
    /\ \A i \in DOMAIN waiting : waiting[i] # c
    /\ hand' = c
    /\ UNCHANGED <<load, queueVars, serves, threadVars, exited>>

MasterWaits ==
    /\ exited # "yes" /\ hand # NULL /\ ProduceWaits
    /\ UNCHANGED <<load, hand, serves, threadVars, exited>>

MasterQueues ==
    /\ exited # "yes" /\ hand # NULL /\ Produce(hand)
    /\ hand' = NULL
    /\ UNCHANGED <<load, serves, threadVars, exited>>

\* worker_thread's loop: consume_socket, process_new_connection with the one request of a
\* connection, close_connection
WorkerWaits(w) ==
    /\ exited # "yes" /\ serves[w] = NULL /\ ConsumeWaits(w)
    /\ UNCHANGED <<load, hand, serves, threadVars, exited>>

WorkerTakes(w) ==
    /\ exited # "yes" /\ serves[w] = NULL
    /\ \E c \in Conns \cup {NULL}, kind \in load.kinds, u \in Users :
          /\ Consume(w, c)
          /\ serves' = [serves EXCEPT ![w] = c]
          /\ prog' = [prog EXCEPT ![w] = Handler(kind, u)]
    /\ UNCHANGED <<load, hand, owner, depth, exited>>

WorkerCloses(w) ==
    /\ exited # "yes" /\ serves[w] # NULL /\ Idle(w)
    /\ serves' = [serves EXCEPT ![w] = NULL]
    /\ UNCHANGED <<load, queueVars, hand, threadVars, exited>>

-----------------------------------------------------------------------------
(* The main thread.                                                        *)

\* epoll_wait returned: something to read, or time to clean up
NetPoll ==
    /\ exited = "no" /\ Idle(MAIN)
    /\ \E u \in Users, p \in {"read", "sweep"} :
          prog' = [prog EXCEPT ![MAIN] = IF p = "read" THEN PollRead(u) ELSE Sweep(u)]
    /\ UNCHANGED <<load, queueVars, hand, serves, owner, depth, exited>>

\* SIGTERM: main leaves what it was doing and never comes back to it
Signal ==
    /\ exited = "no"
    /\ exited' = "stopping"
    /\ prog' = [prog EXCEPT ![MAIN] = Shutdown]
    /\ UNCHANGED <<load, queueVars, hand, serves, owner, depth>>

Init ==
    /\ load \in Loads
    /\ QInit
    /\ hand = NULL
    /\ serves = [w \in Workers |-> NULL]
    /\ prog = [t \in Threads |-> <<>>]
    /\ owner = [m \in Mutexes |-> NULL]
    /\ depth = [m \in Mutexes |-> 0]
    /\ exited = "no"

Next ==
    \/ \E c \in Conns : Accept(c)
    \/ MasterWaits \/ MasterQueues
    \/ \E w \in Workers : WorkerWaits(w) \/ WorkerTakes(w) \/ WorkerCloses(w)
    \/ \E t \in Threads : Do(t)
    \/ NetPoll \/ Signal

Spec == Init /\ [][Next]_vars

\* Every thread runs, browsers and addresses answer in the end, and a mutex that is free
\* again and again is got in the end
FairSpec ==
    /\ Spec
    /\ WF_vars(MasterWaits) /\ WF_vars(MasterQueues)
    /\ \A w \in Workers : WF_vars(WorkerWaits(w)) /\ WF_vars(WorkerTakes(w)) /\ WF_vars(WorkerCloses(w))
    /\ \A t \in Threads : SF_vars(Do(t))

-----------------------------------------------------------------------------
(* Properties.                                                             *)

\* The order of the mutexes: net, sessions, users, a user's
Rank(m) ==
    CASE m = "net" -> 1 [] m = "sessions" -> 2 [] m = "users" -> 3 [] m \in Users -> 4

Wants(t, m) == ~Idle(t) /\ Head(prog[t])[1] \in {"lock", "pass"} /\ Head(prog[t])[2] = m

\* No thread asks for a mutex while it holds a later one, or the mutex of another user; only
\* the signal handler does, on top of what main holds (net.c:597-624, worlds.c, users.c)
LocksInOrder ==
    \A t \in Threads, m, n \in Mutexes :
        Wants(t, m) /\ owner[n] = t /\ ~(t = MAIN /\ exited = "stopping") =>
            m = n \/ Rank(n) < Rank(m)

\* There is no circle of threads that each wait for a mutex of the next, not even when the
\* signal handler asks for mutexes out of order (banana.c:332-346)
NoCircle ==
    \A S \in (SUBSET Threads) \ {{}} :
        \E t \in S : \A m \in Mutexes : Wants(t, m) => owner[m] \notin S \ {t}

\* A browser that has been accepted is served, and its worker is done with it in the end.
\* Browsers and workers are interchangeable, one stands for all.
ABrowser == CHOOSE c \in Conns : \A l \in Loads : c \in l.conns
AWorker == CHOOSE w \in Workers : TRUE
EveryoneIsServed ==
    /\ hand = ABrowser ~> exited # "no" \/ \E w \in Workers : serves[w] = ABrowser
    /\ serves[AWorker] # NULL ~> exited # "no" \/ serves[AWorker] = NULL

\* A shutdown comes to its end, wherever main was when the signal came
ShutdownEnds == exited = "stopping" ~> exited = "yes"
=============================================================================
