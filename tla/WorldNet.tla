------------------------------ MODULE WorldNet ------------------------------
(***************************************************************************)
(* The connections of one user's worlds (net.c, and worlds.c where it      *)
(* calls it): a thread per connect that resolves, connects, registers its  *)
(* socket with epoll and declares the world connected; the network thread  *)
(* that reads what epoll reports; and the operations that take a           *)
(* connection down, signalling its thread if it is still connecting.       *)
(*                                                                         *)
(* Whatever the code does under the net mutex is one step.  Descriptors    *)
(* are the kernel's: the lowest free one is given out, closing one takes   *)
(* it out of epoll.  What is read and sent is EventRing's matter.          *)
(*                                                                         *)
(* The operators named Bug... are the next definition with a bug in it;    *)
(* nothing here uses them (see EventRing).                                 *)
(***************************************************************************)
EXTENDS Integers, FiniteSets

CONSTANTS
    Worlds,            \* the slots of user->worlds[]
    Threads,           \* bound: connecting threads at a time
    NULL,              \* no world, no thread
    MaxFd,             \* bound: descriptors are 3 .. MaxFd
    Users              \* the users there may be: the worlds they open, whether they act on
                       \* one that is still connecting, the descriptors left for them

Fds == 3 .. MaxFd

ASSUME NetAssumption ==
    /\ NULL \notin Worlds \cup Threads
    /\ MaxFd \in Nat
    /\ Users \subseteq [opens : SUBSET Worlds, impatient : BOOLEAN, fds : SUBSET Fds]

VARIABLES
    user,              \* whose worlds these are
    open,              \* worlds whose name is set
    status,            \* world->netstatus
    fd,                \* world->fd
    connthread,        \* world->connthread
    stage,             \* per thread: where thread_connect is
    target,            \* per thread: its world
    sock,              \* per thread: its sockfd, -1 before pthread_setspecific
    signals,           \* threads with a SIGUSR1 on its way
    file,              \* per descriptor: "free", or how its connection is
    watch,             \* epoll: the world a descriptor is registered for
    owner,             \* history: the world a descriptor was made for
    batch,             \* what epoll_wait returned and net_poll has still to handle
    balance            \* history: CONNECT events minus DISCONNECT events, per world,
                       \* followed no further than -2 and 2

worldVars == <<open, status, fd, connthread, balance>>
threadVars == <<stage, target, sock>>
fileVars == <<file, watch, owner>>
vars == <<user, worldVars, threadVars, signals, fileVars, batch>>

Init ==
    /\ user \in Users
    /\ open = {}
    /\ status = [w \in Worlds |-> "disconnected"]
    /\ fd = [w \in Worlds |-> 0]
    /\ connthread = [w \in Worlds |-> NULL]
    /\ stage = [t \in Threads |-> "none"]
    /\ target = [t \in Threads |-> NULL]
    /\ sock = [t \in Threads |-> -1]
    /\ signals = {}
    /\ file = [f \in Fds |-> "free"]
    /\ watch = [f \in Fds |-> NULL]
    /\ owner = [f \in Fds |-> NULL]
    /\ batch = {}
    /\ balance = [w \in Worlds |-> 0]

-----------------------------------------------------------------------------
(* The kernel's part.                                                      *)

\* close, which closes nothing when f is no open descriptor
ClosedBy(f, g) == g = f /\ file[g] # "free"
CloseFd(f) ==
    /\ file' = [g \in Fds |-> IF ClosedBy(f, g) THEN "free" ELSE file[g]]
    /\ watch' = [g \in Fds |-> IF ClosedBy(f, g) THEN NULL ELSE watch[g]]
    /\ owner' = [g \in Fds |-> IF ClosedBy(f, g) THEN NULL ELSE owner[g]]

\* the server at the other end of descriptor f closes, or the connection breaks
RemoteEnds(f) ==
    /\ file[f] = "alive"
    /\ \E end \in {"closed", "broken"} : file' = [file EXCEPT ![f] = end]
    /\ UNCHANGED <<worldVars, threadVars, signals, watch, owner, batch>>

-----------------------------------------------------------------------------
(* thread_connect.                                                         *)

Go(t, s) == stage' = [stage EXCEPT ![t] = s]

Leave(t) ==
    /\ Go(t, "none")
    /\ target' = [target EXCEPT ![t] = NULL]
    /\ sock' = [sock EXCEPT ![t] = -1]

\* getaddrinfo
Resolve(t) ==
    /\ stage[t] = "resolving"
    /\ \E s \in {"resolved", "failed"} : Go(t, s)
    /\ UNCHANGED <<worldVars, target, sock, signals, fileVars, batch>>

\* where a thread goes that no address lets in (BugRefused: it starts again)
BugRefused(t) == "resolving"
Refused(t) == "failed"

\* under the net mutex: socket and connect, for one address or another, and
\* pthread_setspecific
MakeSocket(t) ==
    /\ stage[t] = "resolved"
    /\ \/ /\ Go(t, Refused(t))
          /\ UNCHANGED <<sock, fileVars>>
       \/ \E f \in user.fds :
             /\ file[f] = "free"
             /\ \A g \in user.fds : g < f => file[g] # "free"
             /\ file' = [file EXCEPT ![f] = "alive"]
             /\ owner' = [owner EXCEPT ![f] = target[t]]
             /\ sock' = [sock EXCEPT ![t] = f]
             /\ Go(t, "socket")
             /\ UNCHANGED watch
    /\ UNCHANGED <<worldVars, target, signals, batch>>

\* the CONNFAIL event, and then netstatus
ThreadFails(t) ==
    /\ stage[t] = "failed"
    /\ status' = [status EXCEPT ![target[t]] = "disconnected"]
    /\ Leave(t)
    /\ UNCHANGED <<open, fd, connthread, balance, signals, fileVars, batch>>

\* the world epoll reports for f after EPOLL_CTL_ADD: no change if it has it already
BugAdded(f, w) == watch[f]
Added(f, w) == IF file[f] # "free" /\ watch[f] = NULL THEN w ELSE watch[f]

\* under the net mutex: world->fd, epoll_ctl
Register(t) ==
    /\ stage[t] = "socket"
    /\ fd' = [fd EXCEPT ![target[t]] = sock[t]]
    /\ watch' = [watch EXCEPT ![sock[t]] = Added(sock[t], target[t])]
    /\ Go(t, "added")
    /\ UNCHANGED <<open, status, connthread, balance, target, sock, signals, file, owner, batch>>

\* netstatus = WORLD_CONNECTED, under no mutex, with the CONNECT event it announces
SetConnected(t) ==
    /\ stage[t] = "added"
    /\ status' = [status EXCEPT ![target[t]] = "connected"]
    /\ balance' = [balance EXCEPT ![target[t]] = IF @ < 2 THEN @ + 1 ELSE @]
    /\ Go(t, "up")
    /\ UNCHANGED <<open, fd, connthread, target, sock, signals, fileVars, batch>>

\* memset of world->connthread
ThreadEnds(t) ==
    /\ stage[t] = "up"
    /\ connthread' = [connthread EXCEPT ![target[t]] = NULL]
    /\ Leave(t)
    /\ UNCHANGED <<open, status, fd, balance, signals, fileVars, batch>>

\* net_sigusr1 in thread t: close its socket, if it has one, and go on
SigUsr1(t) ==
    /\ t \in signals
    /\ signals' = signals \ {t}
    /\ CloseFd(IF stage[t] = "none" THEN -1 ELSE sock[t])
    /\ UNCHANGED <<worldVars, threadVars, batch>>

-----------------------------------------------------------------------------
(* Operations of the user, under the net mutex and the user's.             *)

WorldOpen(w) ==
    /\ w \in user.opens \ open
    /\ open' = open \cup {w}
    /\ status' = [status EXCEPT ![w] = "disconnected"]
    /\ fd' = [fd EXCEPT ![w] = -1]
    /\ connthread' = [connthread EXCEPT ![w] = NULL]
    /\ balance' = [balance EXCEPT ![w] = 0]
    /\ UNCHANGED <<threadVars, signals, fileVars, batch>>

\* net_connect; it refuses a world that is not disconnected
WorldConnect(w, t) ==
    /\ w \in open
    /\ status[w] = "disconnected"
    /\ stage[t] = "none"
    /\ t \notin signals
    /\ status' = [status EXCEPT ![w] = "connecting"]
    /\ connthread' = [connthread EXCEPT ![w] = t]
    /\ Go(t, "resolving")
    /\ target' = [target EXCEPT ![t] = w]
    /\ UNCHANGED <<open, fd, balance, sock, signals, fileVars, batch>>

MayAct(w) == user.impatient \/ status[w] # "connecting"

\* the balance after world_dc_event
OneLess(n) == IF n > -2 THEN n - 1 ELSE n
BugAnnounced(w) == IF status[w] = "disconnected" THEN OneLess(balance[w]) ELSE balance[w]
Announced(w) == IF status[w] = "disconnected" THEN balance[w] ELSE OneLess(balance[w])

\* net_disconnect
NetDisconnect(w) ==
    /\ signals' = IF status[w] = "connecting" /\ connthread[w] # NULL
                  THEN signals \cup {connthread[w]} ELSE signals
    /\ CloseFd(fd[w])

WorldDisconnect(w) ==
    /\ w \in open
    /\ status[w] # "disconnected"
    /\ MayAct(w)
    /\ NetDisconnect(w)
    /\ status' = [status EXCEPT ![w] = "disconnected"]
    /\ fd' = [fd EXCEPT ![w] = -1]
    /\ connthread' = [connthread EXCEPT ![w] = NULL]
    /\ balance' = [balance EXCEPT ![w] = Announced(w)]
    /\ UNCHANGED <<open, threadVars, batch>>

\* world_free, from world_close or from user_clean: net_disconnect and a memset
WorldFree(w) ==
    /\ w \in open
    /\ MayAct(w)
    /\ NetDisconnect(w)
    /\ open' = open \ {w}
    /\ status' = [status EXCEPT ![w] = "disconnected"]
    /\ fd' = [fd EXCEPT ![w] = 0]
    /\ connthread' = [connthread EXCEPT ![w] = NULL]
    /\ balance' = [balance EXCEPT ![w] = 0]
    /\ UNCHANGED <<threadVars, batch>>

-----------------------------------------------------------------------------
(* net_poll.                                                               *)

\* what epoll has to say of descriptor f
Reports(f) ==
    CASE file[f] = "closed" -> {"in"}
      [] file[f] = "broken" -> {"in", "err"}
      [] OTHER -> {}

\* epoll_wait, before the net mutex
EpollWait ==
    /\ batch = {}
    /\ batch' = {[world |-> watch[f], says |-> Reports(f)] :
                    f \in {g \in Fds : watch[g] # NULL /\ Reports(g) # {}}}
    /\ batch' # {}
    /\ UNCHANGED <<worldVars, threadVars, signals, fileVars>>

\* raw_read has come to the end of what the server sends
BugAtEnd(w) == FALSE
AtEnd(w) == fd[w] \in Fds /\ file[fd[w]] = "closed"

\* One entry, under the net mutex.  The code keeps the mutex for the whole batch;
\* that others may come in between is as if the mutex had been got that much later.
Skip(e) ==
    /\ e \in batch
    /\ \/ status[e.world] # "connected"
       \/ ~("in" \in e.says /\ AtEnd(e.world)) /\ "err" \notin e.says
    /\ batch' = batch \ {e}
    /\ UNCHANGED <<worldVars, threadVars, signals, fileVars>>

Drop(w) ==
    /\ status' = [status EXCEPT ![w] = "disconnected"]
    /\ fd' = [fd EXCEPT ![w] = -1]
    /\ balance' = [balance EXCEPT ![w] = Announced(w)]

\* net_read: out of epoll, but not closed
ReadEnd(e) ==
    /\ e \in batch
    /\ status[e.world] = "connected"
    /\ "in" \in e.says
    /\ AtEnd(e.world)
    /\ watch' = [watch EXCEPT ![fd[e.world]] = NULL]
    /\ Drop(e.world)
    /\ batch' = batch \ {e}
    /\ UNCHANGED <<open, connthread, threadVars, signals, file, owner>>

\* EPOLLERR: closed
ReadError(e) ==
    /\ e \in batch
    /\ status[e.world] = "connected"
    /\ "err" \in e.says
    /\ ~AtEnd(e.world)
    /\ CloseFd(fd[e.world])
    /\ Drop(e.world)
    /\ batch' = batch \ {e}
    /\ UNCHANGED <<open, connthread, threadVars, signals>>

-----------------------------------------------------------------------------
ThreadStep(t) ==
    \/ Resolve(t) \/ MakeSocket(t) \/ ThreadFails(t)
    \/ Register(t) \/ SetConnected(t) \/ ThreadEnds(t)

Entries == [world : Worlds, says : SUBSET {"in", "err"}]

NetStep == EpollWait \/ \E e \in Entries : Skip(e) \/ ReadEnd(e) \/ ReadError(e)

UserStep ==
    \E w \in Worlds :
        \/ WorldOpen(w) \/ WorldDisconnect(w) \/ WorldFree(w)
        \/ \E t \in Threads : WorldConnect(w, t)

Next ==
    /\ \/ UserStep
       \/ \E t \in Threads : ThreadStep(t) \/ SigUsr1(t)
       \/ NetStep
       \/ \E f \in Fds : RemoteEnds(f)
    /\ UNCHANGED user

Spec == Init /\ [][Next]_vars

\* The threads go on: name lookups and connects end, one way or the other.
FairSpec ==
    /\ Spec
    /\ WF_vars(NetStep /\ UNCHANGED user)
    /\ \A t \in Threads : WF_vars(ThreadStep(t) /\ UNCHANGED user)
                       /\ WF_vars(SigUsr1(t) /\ UNCHANGED user)

-----------------------------------------------------------------------------
(* Properties.                                                             *)

\* A connected world has an open descriptor of its own that epoll reports for it, so
\* what its server sends is read and given to it and no other (net.c:155-171), as long
\* as the user leaves worlds alone that are connecting.
ConnectedIsWatched ==
    \A w \in open : status[w] = "connected" /\ ~user.impatient =>
        /\ fd[w] \in Fds
        /\ owner[fd[w]] = w
        /\ watch[fd[w]] = w
        /\ \A v \in Worlds : fd[v] = fd[w] => v = w

\* Every connection's end is announced by exactly one DISCONNECT event, whoever ends
\* it: the user, the server, an error, or two of them at once (worlds.c:44-60); again for
\* users who let a connect end first.
AnnouncedOnce ==
    ~user.impatient => \A w \in open : balance[w] = IF status[w] = "connected" THEN 1 ELSE 0

\* A connect ends, in success or in failure, also when others were given up and
\* signalled before it (net.c:65-180).
ConnectEnds ==
    \A w \in Worlds : status[w] = "connecting" ~> status[w] # "connecting"

\* A connection that its server has closed, or that is broken, does not stay up
\* (net.c:566-585, 600-617); again for users who let a connect end first.
EndIsNoticed ==
    \A w \in Worlds :
        (~user.impatient /\ status[w] = "connected" /\ fd[w] \in Fds /\ file[fd[w]] # "alive")
            ~> status[w] # "connected"

\* worlds.h:38-40 says of the connecting thread "It checks socketnum to ensure it
\* doesn't try to work with an invalid connection": no world is connected by a
\* thread whose descriptor is no longer a connection of that world.
ThreadsCheckTheirConnection ==
    \A t \in Threads : stage[t] = "up" /\ status[target[t]] = "connected"
        => target[t] \in open /\ fd[target[t]] \in Fds /\ owner[fd[target[t]]] = target[t]
=============================================================================
