-------------------------- MODULE WorldNet_proofs --------------------------
(***************************************************************************)
(* Proofs about WorldNet, for any number of worlds, connecting threads and *)
(* descriptors, of users who let a connect end before they act on its      *)
(* world.                                                                  *)
(***************************************************************************)
EXTENDS WorldNet, TLAPS

-----------------------------------------------------------------------------
(* The inductive invariant.                                                *)

Stages == {"none", "resolving", "resolved", "socket", "added", "failed", "up"}
Statuses == {"disconnected", "connecting", "connected"}

NetTypes ==
    /\ user \in Users
    /\ open \in SUBSET Worlds
    /\ status \in [Worlds -> Statuses]
    /\ fd \in [Worlds -> Int]
    /\ balance \in [Worlds -> Int]
    /\ stage \in [Threads -> Stages]
    /\ target \in [Threads -> Worlds \cup {NULL}]
    /\ sock \in [Threads -> Int]
    /\ file \in [Fds -> {"free", "alive", "closed", "broken"}]
    /\ watch \in [Fds -> Worlds \cup {NULL}]
    /\ owner \in [Fds -> Worlds \cup {NULL}]
    /\ batch \in SUBSET Entries

\* A thread on its way to a connection, or to its failure
OnItsWay(t) == stage[t] \in {"resolving", "resolved", "socket", "added", "failed"}

\* It connects a world that is open and waits for it, and for no other thread
OneThreadEach ==
    /\ \A t \in Threads : OnItsWay(t) => target[t] \in open /\ status[target[t]] = "connecting"
    /\ \A t, u \in Threads : OnItsWay(t) /\ OnItsWay(u) /\ target[t] = target[u] => t = u

\* A descriptor that is free is nobody's; one that a world has is its own, and
\* watched once the world is connected
FdsInUse ==
    /\ \A f \in Fds : file[f] = "free" => watch[f] = NULL /\ owner[f] = NULL
    /\ \A w \in Worlds : fd[w] \in Fds => file[fd[w]] # "free" /\ owner[fd[w]] = w
    /\ \A w \in open : status[w] = "connected" => fd[w] \in Fds /\ watch[fd[w]] = w

\* A socket is its thread's world's, and epoll knows it from Register on
SocketsInUse ==
    \A t \in Threads : stage[t] \in {"socket", "added"} =>
        /\ sock[t] \in Fds
        /\ file[sock[t]] # "free" /\ owner[sock[t]] = target[t]
        /\ stage[t] = "socket" => watch[sock[t]] = NULL
        /\ stage[t] = "added" => watch[sock[t]] = target[t] /\ fd[target[t]] = sock[t]

Patient ==
    /\ signals = {}
    /\ OneThreadEach
    /\ AnnouncedOnce
    /\ FdsInUse
    /\ SocketsInUse

NetInv == NetTypes /\ (~user.impatient => Patient)

LEMMA InitTypes == Init => NetInv
<1> SUFFICES ASSUME Init PROVE NetInv
  OBVIOUS
<1>1. NetTypes
  BY DEF Init, NetTypes, Stages, Statuses
<1>2. Patient
  BY NetAssumption DEF Init, Patient, OneThreadEach, OnItsWay, AnnouncedOnce, FdsInUse, SocketsInUse, Fds
<1> QED
  BY <1>1, <1>2 DEF NetInv

-----------------------------------------------------------------------------
(* Types.                                                                  *)

LEMMA CloseTypes ==
    ASSUME NetTypes, NEW f \in Int, CloseFd(f)
    PROVE  /\ file' \in [Fds -> {"free", "alive", "closed", "broken"}]
           /\ watch' \in [Fds -> Worlds \cup {NULL}]
           /\ owner' \in [Fds -> Worlds \cup {NULL}]
BY DEF NetTypes, CloseFd

LEMMA TypesStep == NetTypes /\ [Next]_vars => NetTypes'
<1> SUFFICES ASSUME NetTypes, [Next]_vars PROVE NetTypes'
  OBVIOUS
<1> USE DEF NetTypes, worldVars, threadVars, fileVars, Stages, Statuses
<1>1. ASSUME NEW w \in Worlds, WorldOpen(w), user' = user PROVE NetTypes'
  BY <1>1 DEF WorldOpen
<1>2. ASSUME NEW w \in Worlds, WorldDisconnect(w), user' = user PROVE NetTypes'
  <2>1. fd[w] \in Int /\ CloseFd(fd[w])
    BY <1>2 DEF WorldDisconnect, NetDisconnect
  <2>2. balance' \in [Worlds -> Int]
    BY <1>2 DEF WorldDisconnect, Announced, OneLess
  <2> QED
    BY <1>2, <2>1, <2>2, CloseTypes DEF WorldDisconnect
<1>3. ASSUME NEW w \in Worlds, WorldFree(w), user' = user PROVE NetTypes'
  <2>1. fd[w] \in Int /\ CloseFd(fd[w])
    BY <1>3 DEF WorldFree, NetDisconnect
  <2> QED
    BY <1>3, <2>1, CloseTypes DEF WorldFree
<1>4. ASSUME NEW w \in Worlds, NEW t \in Threads, WorldConnect(w, t), user' = user PROVE NetTypes'
  BY <1>4 DEF WorldConnect, Go
<1>5. ASSUME NEW t \in Threads, ThreadStep(t), user' = user PROVE NetTypes'
  <2>1. CASE Resolve(t)
    BY <1>5, <2>1 DEF Resolve, Go
  <2>2. CASE MakeSocket(t)
    <3>1. CASE Go(t, Refused(t)) /\ UNCHANGED <<sock, fileVars>>
      BY <1>5, <2>2, <3>1 DEF MakeSocket, Go, Refused
    <3>2. ASSUME NEW f \in user.fds, file' = [file EXCEPT ![f] = "alive"],
                 owner' = [owner EXCEPT ![f] = target[t]], sock' = [sock EXCEPT ![t] = f],
                 Go(t, "socket"), UNCHANGED watch
          PROVE  NetTypes'
      <4>1. user \in [opens : SUBSET Worlds, impatient : BOOLEAN, fds : SUBSET Fds]
        BY NetAssumption
      <4>2. f \in Fds /\ f \in Int
        BY <3>2, <4>1 DEF Fds
      <4> QED
        BY <1>5, <2>2, <3>2, <4>2 DEF MakeSocket, Go
    <3> QED
      BY <2>2, <3>1, <3>2 DEF MakeSocket
  <2>3. CASE ThreadFails(t)
    <3>1. status' \in [Worlds -> Statuses]
      BY <2>3 DEF ThreadFails
    <3>2. /\ stage' \in [Threads -> Stages]
          /\ target' \in [Threads -> Worlds \cup {NULL}]
          /\ sock' \in [Threads -> Int]
      BY <2>3 DEF ThreadFails, Leave, Go
    <3> QED
      BY <1>5, <2>3, <3>1, <3>2 DEF ThreadFails
  <2>4. CASE Register(t)
    BY <1>5, <2>4 DEF Register, Added, Go
  <2>5. CASE SetConnected(t)
    <3>1. balance' \in [Worlds -> Int]
      <4>1. balance' = [v \in Worlds |-> IF v = target[t]
                                          THEN IF balance[v] < 2 THEN balance[v] + 1 ELSE balance[v]
                                          ELSE balance[v]]
        BY <2>5 DEF SetConnected
      <4>2. \A v \in Worlds : balance[v] \in Int
        OBVIOUS
      <4> QED
        BY <4>1, <4>2
    <3>2. status' \in [Worlds -> Statuses] /\ stage' \in [Threads -> Stages]
      BY <2>5 DEF SetConnected, Go
    <3> QED
      BY <1>5, <2>5, <3>1, <3>2 DEF SetConnected
  <2>6. CASE ThreadEnds(t)
    BY <1>5, <2>6 DEF ThreadEnds, Leave, Go
  <2> QED
    BY <1>5, <2>1, <2>2, <2>3, <2>4, <2>5, <2>6 DEF ThreadStep
<1>6. ASSUME NEW t \in Threads, SigUsr1(t), user' = user PROVE NetTypes'
  <2> DEFINE f == IF stage[t] = "none" THEN -1 ELSE sock[t]
  <2>1. f \in Int /\ CloseFd(f)
    BY <1>6 DEF SigUsr1
  <2>2. NetTypes /\ UNCHANGED <<worldVars, threadVars, batch>>
    BY <1>6 DEF SigUsr1
  <2> HIDE DEF f
  <2> QED
    BY <1>6, <2>1, <2>2, CloseTypes
<1>7. CASE EpollWait /\ user' = user
  BY <1>7 DEF EpollWait, Entries, Reports
<1>8. ASSUME NEW e \in Entries, Skip(e), user' = user PROVE NetTypes'
  BY <1>8 DEF Skip
<1>9. ASSUME NEW e \in Entries, ReadEnd(e), user' = user PROVE NetTypes'
  <2>1. e.world \in Worlds
    BY DEF Entries
  <2>2. balance' \in [Worlds -> Int]
    BY <1>9, <2>1 DEF ReadEnd, Drop, Announced, OneLess
  <2>3. watch' \in [Fds -> Worlds \cup {NULL}]
    BY <1>9, <2>1 DEF ReadEnd
  <2>4. status' \in [Worlds -> Statuses] /\ fd' \in [Worlds -> Int]
    BY <1>9, <2>1 DEF ReadEnd, Drop
  <2> QED
    BY <1>9, <2>2, <2>3, <2>4 DEF ReadEnd
<1>10. ASSUME NEW e \in Entries, ReadError(e), user' = user PROVE NetTypes'
  <2>1. e.world \in Worlds
    BY DEF Entries
  <2>2. balance' \in [Worlds -> Int]
    BY <1>10, <2>1 DEF ReadError, Drop, Announced, OneLess
  <2>3. fd[e.world] \in Int /\ CloseFd(fd[e.world])
    BY <1>10, <2>1 DEF ReadError
  <2> QED
    BY <1>10, <2>1, <2>2, <2>3, CloseTypes DEF ReadError, Drop
<1>11. ASSUME NEW f \in Fds, RemoteEnds(f), user' = user PROVE NetTypes'
  BY <1>11 DEF RemoteEnds
<1>12. CASE UNCHANGED vars
  BY <1>12 DEF vars
<1> QED
  BY <1>1, <1>2, <1>3, <1>4, <1>5, <1>6, <1>7, <1>8, <1>9, <1>10, <1>11, <1>12
     DEF Next, UserStep, NetStep
-----------------------------------------------------------------------------
(* What a user who lets connects end relies on.                            *)

\* Closing a world's descriptor and taking it from the world leaves all others as they are.
LEMMA CloseKeeps ==
    ASSUME NetTypes, Patient, NEW w \in Worlds, NEW x \in {-1, 0},
           status[w] # "connecting",
           CloseFd(fd[w]), fd' = [fd EXCEPT ![w] = x],
           status' = [status EXCEPT ![w] = "disconnected"],
           open' = open \/ open' = open \ {w}, UNCHANGED threadVars
    PROVE  OneThreadEach' /\ FdsInUse' /\ SocketsInUse'
<1> USE DEF NetTypes, Patient, threadVars
<1>1. \A t \in Threads : OnItsWay(t) => target[t] \in Worlds /\ target[t] # w
  BY DEF OneThreadEach, OnItsWay
<1>2. OneThreadEach'
  BY <1>1 DEF OneThreadEach, OnItsWay
<1>3. x \notin Fds
  BY DEF Fds
<1>4. \A f \in Fds :
        /\ f = fd[w] => file'[f] = "free" /\ watch'[f] = NULL /\ owner'[f] = NULL
        /\ f # fd[w] => file'[f] = file[f] /\ watch'[f] = watch[f] /\ owner'[f] = owner[f]
  BY DEF CloseFd, ClosedBy, FdsInUse
<1>5. \A v \in Worlds : v # w => fd'[v] = fd[v] /\ status'[v] = status[v]
  OBVIOUS
<1>6. fd'[w] \notin Fds /\ status'[w] = "disconnected"
  BY <1>3
<1>7. \A v \in Worlds : v # w /\ fd[v] \in Fds => fd[v] # fd[w]
  BY DEF FdsInUse
<1>8. FdsInUse'
  BY <1>4, <1>5, <1>6, <1>7 DEF FdsInUse
<1>9. SocketsInUse'
  <2> SUFFICES ASSUME NEW t \in Threads, stage[t] \in {"socket", "added"}
               PROVE  /\ sock[t] \in Fds
                      /\ file'[sock[t]] # "free" /\ owner'[sock[t]] = target[t]
                      /\ stage[t] = "socket" => watch'[sock[t]] = NULL
                      /\ stage[t] = "added" => watch'[sock[t]] = target[t] /\ fd'[target[t]] = sock[t]
    BY DEF SocketsInUse
  <2>1. target[t] \in Worlds /\ target[t] # w
    BY <1>1 DEF OnItsWay
  <2>2. sock[t] \in Fds /\ owner[sock[t]] = target[t] /\ file[sock[t]] # "free"
    BY DEF SocketsInUse
  <2>3. sock[t] # fd[w]
    BY <2>1, <2>2 DEF FdsInUse
  <2> QED
    BY <1>4, <1>5, <2>1, <2>2, <2>3 DEF SocketsInUse
<1> QED
  BY <1>2, <1>8, <1>9

\* The user's operations
LEMMA UserKeeps ==
    ASSUME NetTypes, ~user.impatient, Patient, UserStep, user' = user
    PROVE  Patient'
<1> USE DEF NetTypes, Patient, threadVars, fileVars
<1>1. ASSUME NEW w \in Worlds, WorldOpen(w) PROVE Patient'
  <2>1. w \notin open /\ w \in Worlds
    BY <1>1 DEF WorldOpen
  <2>2. OneThreadEach'
    BY <1>1, <2>1 DEF WorldOpen, OneThreadEach, OnItsWay
  <2>3. AnnouncedOnce'
    BY <1>1, <2>1 DEF WorldOpen, AnnouncedOnce
  <2>4. FdsInUse'
    BY <1>1, <2>1 DEF WorldOpen, FdsInUse, Fds
  <2>5. SocketsInUse'
    <3>1. \A t \in Threads : OnItsWay(t) => target[t] # w
      BY <2>1 DEF OneThreadEach
    <3> QED
      BY <1>1, <3>1 DEF WorldOpen, SocketsInUse, OnItsWay, OneThreadEach
  <2> QED
    BY <1>1, <2>2, <2>3, <2>4, <2>5 DEF WorldOpen
<1>2. ASSUME NEW w \in Worlds, WorldDisconnect(w) PROVE Patient'
  <2>1. status[w] = "connected" /\ w \in open
    BY <1>2 DEF WorldDisconnect, MayAct, Statuses
  <2>2. OneThreadEach' /\ FdsInUse' /\ SocketsInUse'
    BY <1>2, <2>1, CloseKeeps DEF WorldDisconnect, NetDisconnect
  <2>3. AnnouncedOnce'
    BY <1>2, <2>1 DEF WorldDisconnect, AnnouncedOnce, Announced, OneLess
  <2> QED
    BY <1>2, <2>1, <2>2, <2>3 DEF WorldDisconnect, NetDisconnect
<1>3. ASSUME NEW w \in Worlds, WorldFree(w) PROVE Patient'
  <2>1. status[w] # "connecting" /\ w \in open
    BY <1>3 DEF WorldFree, MayAct
  <2>2. OneThreadEach' /\ FdsInUse' /\ SocketsInUse'
    BY <1>3, <2>1, CloseKeeps DEF WorldFree, NetDisconnect
  <2>3. AnnouncedOnce'
    BY <1>3, <2>1 DEF WorldFree, AnnouncedOnce
  <2> QED
    BY <1>3, <2>1, <2>2, <2>3 DEF WorldFree, NetDisconnect
<1>4. ASSUME NEW w \in Worlds, NEW t \in Threads, WorldConnect(w, t) PROVE Patient'
  <2>1. /\ w \in open /\ status[w] = "disconnected" /\ stage[t] = "none"
        /\ status' = [status EXCEPT ![w] = "connecting"]
        /\ stage' = [stage EXCEPT ![t] = "resolving"]
        /\ target' = [target EXCEPT ![t] = w]
        /\ UNCHANGED <<open, fd, balance, sock, signals, file, watch, owner>>
    BY <1>4 DEF WorldConnect, Go
  <2>2. OneThreadEach'
    BY <2>1 DEF OneThreadEach, OnItsWay
  <2>3. AnnouncedOnce'
    BY <2>1 DEF AnnouncedOnce
  <2>4. FdsInUse'
    BY <2>1 DEF FdsInUse
  <2>5. SocketsInUse'
    BY <2>1 DEF SocketsInUse
  <2> QED
    BY <2>1, <2>2, <2>3, <2>4, <2>5
<1> QED
  BY <1>1, <1>2, <1>3, <1>4 DEF UserStep

\* The steps of thread_connect
LEMMA ThreadKeeps ==
    ASSUME NetTypes, ~user.impatient, Patient, NEW t \in Threads, ThreadStep(t), user' = user
    PROVE  Patient'
<1> USE DEF NetTypes, Patient, worldVars, threadVars, fileVars
<1>0. /\ OnItsWay(t) => target[t] \in open /\ target[t] \in Worlds
      /\ \A u \in Threads : OnItsWay(t) /\ OnItsWay(u) /\ u # t => target[u] # target[t]
  BY DEF OneThreadEach
<1>1. CASE Resolve(t)
  <2>1. /\ stage[t] = "resolving"
        /\ stage' = [stage EXCEPT ![t] = "resolved"] \/ stage' = [stage EXCEPT ![t] = "failed"]
        /\ UNCHANGED <<open, status, fd, balance, target, sock, signals, file, watch, owner>>
    BY <1>1 DEF Resolve, Go
  <2>2. OneThreadEach' /\ AnnouncedOnce'
    BY <2>1 DEF OneThreadEach, OnItsWay, AnnouncedOnce
  <2>3. FdsInUse' /\ SocketsInUse'
    BY <2>1 DEF FdsInUse, SocketsInUse
  <2> QED
    BY <2>1, <2>2, <2>3
<1>2. CASE MakeSocket(t)
  <2>1. CASE Go(t, Refused(t)) /\ UNCHANGED <<sock, fileVars>>
    <3>1. /\ stage[t] = "resolved" /\ stage' = [stage EXCEPT ![t] = "failed"]
          /\ UNCHANGED <<open, status, fd, balance, target, sock, signals, file, watch, owner>>
      BY <1>2, <2>1 DEF MakeSocket, Go, Refused
    <3>2. OneThreadEach' /\ AnnouncedOnce'
      BY <3>1 DEF OneThreadEach, OnItsWay, AnnouncedOnce
    <3>3. FdsInUse' /\ SocketsInUse'
      BY <3>1 DEF FdsInUse, SocketsInUse
    <3> QED
      BY <3>1, <3>2, <3>3
  <2>2. ASSUME NEW f \in user.fds, file[f] = "free", file' = [file EXCEPT ![f] = "alive"],
               owner' = [owner EXCEPT ![f] = target[t]], sock' = [sock EXCEPT ![t] = f],
               Go(t, "socket"), UNCHANGED watch
        PROVE  Patient'
    <3>1. f \in Fds
      <4>1. user \in [opens : SUBSET Worlds, impatient : BOOLEAN, fds : SUBSET Fds]
        BY NetAssumption
      <4> QED
        BY <2>2, <4>1
    <3>2. /\ stage[t] = "resolved" /\ stage' = [stage EXCEPT ![t] = "socket"]
          /\ UNCHANGED <<open, status, fd, balance, target, signals, watch>>
      BY <1>2, <2>2 DEF MakeSocket, Go
    <3>3. OneThreadEach' /\ AnnouncedOnce'
      BY <3>2 DEF OneThreadEach, OnItsWay, AnnouncedOnce
    <3>4. FdsInUse'
      BY <2>2, <3>1, <3>2 DEF FdsInUse
    <3>5. SocketsInUse'
      <4>1. ASSUME NEW u \in Threads, u # t, stage[u] \in {"socket", "added"}
            PROVE  sock[u] # f
        BY <2>2, <4>1 DEF SocketsInUse
      <4>2. watch[f] = NULL
        BY <2>2, <3>1 DEF FdsInUse
      <4> QED
        BY <2>2, <3>1, <3>2, <4>1, <4>2 DEF SocketsInUse
    <3> QED
      BY <3>2, <3>3, <3>4, <3>5
  <2> QED
    BY <1>2, <2>1, <2>2 DEF MakeSocket
<1>3. CASE ThreadFails(t)
  <2>1. /\ stage[t] = "failed" /\ target[t] \in open
        /\ status' = [status EXCEPT ![target[t]] = "disconnected"]
        /\ stage' = [stage EXCEPT ![t] = "none"]
        /\ target' = [target EXCEPT ![t] = NULL] /\ sock' = [sock EXCEPT ![t] = -1]
        /\ UNCHANGED <<open, fd, balance, signals, file, watch, owner>>
    BY <1>0, <1>3 DEF ThreadFails, Leave, Go, OnItsWay
  <2>2. OneThreadEach'
    <3>1. \A u \in Threads : OnItsWay(u)' => u # t /\ OnItsWay(u)
      BY <2>1 DEF OnItsWay
    <3>2. \A u \in Threads : OnItsWay(u)' => target'[u] = target[u] /\ target[u] # target[t]
      BY <1>0, <2>1, <3>1 DEF OnItsWay
    <3> QED
      BY <2>1, <3>1, <3>2 DEF OneThreadEach
  <2>3. AnnouncedOnce'
    BY <2>1 DEF AnnouncedOnce, OneThreadEach, OnItsWay
  <2>4. FdsInUse'
    BY <2>1 DEF FdsInUse
  <2>5. SocketsInUse'
    BY <2>1 DEF SocketsInUse
  <2> QED
    BY <2>1, <2>2, <2>3, <2>4, <2>5
<1>4. CASE Register(t)
  <2>1. /\ stage[t] = "socket" /\ target[t] \in open /\ sock[t] \in Fds
        /\ watch[sock[t]] = NULL /\ file[sock[t]] # "free" /\ owner[sock[t]] = target[t]
        /\ status[target[t]] = "connecting"
    BY <1>4 DEF Register, SocketsInUse, OneThreadEach, OnItsWay
  <2>2. /\ fd' = [fd EXCEPT ![target[t]] = sock[t]]
        /\ watch' = [watch EXCEPT ![sock[t]] = target[t]]
        /\ stage' = [stage EXCEPT ![t] = "added"]
        /\ UNCHANGED <<open, status, balance, target, sock, signals, file, owner>>
    BY <1>4, <2>1 DEF Register, Added, Go
  <2>3. OneThreadEach' /\ AnnouncedOnce'
    BY <2>1, <2>2 DEF OneThreadEach, OnItsWay, AnnouncedOnce
  <2>4. FdsInUse'
    BY <2>1, <2>2 DEF FdsInUse
  <2>5. SocketsInUse'
    <3>1. ASSUME NEW u \in Threads, u # t, stage[u] \in {"socket", "added"}
          PROVE  sock[u] # sock[t] /\ target[u] # target[t]
      BY <1>0, <2>1, <3>1 DEF SocketsInUse, OnItsWay
    <3> QED
      BY <2>1, <2>2, <3>1 DEF SocketsInUse
  <2> QED
    BY <2>2, <2>3, <2>4, <2>5
<1>5. CASE SetConnected(t)
  <2>1. /\ stage[t] = "added" /\ target[t] \in open /\ sock[t] \in Fds
        /\ watch[sock[t]] = target[t] /\ fd[target[t]] = sock[t]
        /\ status[target[t]] = "connecting"
    BY <1>5 DEF SetConnected, SocketsInUse, OneThreadEach, OnItsWay
  <2>2. balance[target[t]] = 0
    BY <2>1 DEF AnnouncedOnce
  <2>3. /\ status' = [status EXCEPT ![target[t]] = "connected"]
        /\ balance' = [balance EXCEPT ![target[t]] = 1]
        /\ stage' = [stage EXCEPT ![t] = "up"]
        /\ UNCHANGED <<open, fd, target, sock, signals, file, watch, owner>>
    BY <1>5, <2>2 DEF SetConnected, Go
  <2>4. OneThreadEach'
    <3>1. \A u \in Threads : OnItsWay(u)' => OnItsWay(u) /\ target[u] # target[t]
      BY <1>0, <2>1, <2>3 DEF OnItsWay
    <3> QED
      BY <2>3, <3>1 DEF OneThreadEach
  <2>5. AnnouncedOnce'
    BY <2>1, <2>3 DEF AnnouncedOnce
  <2>6. FdsInUse'
    BY <2>1, <2>3 DEF FdsInUse
  <2>7. SocketsInUse'
    BY <2>3 DEF SocketsInUse
  <2> QED
    BY <2>3, <2>4, <2>5, <2>6, <2>7
<1>6. CASE ThreadEnds(t)
  <2>1. /\ stage[t] = "up" /\ stage' = [stage EXCEPT ![t] = "none"]
        /\ target' = [target EXCEPT ![t] = NULL] /\ sock' = [sock EXCEPT ![t] = -1]
        /\ UNCHANGED <<open, status, fd, balance, signals, file, watch, owner>>
    BY <1>6 DEF ThreadEnds, Leave, Go
  <2>2. OneThreadEach' /\ AnnouncedOnce'
    BY <2>1 DEF OneThreadEach, OnItsWay, AnnouncedOnce
  <2>3. FdsInUse' /\ SocketsInUse'
    BY <2>1 DEF FdsInUse, SocketsInUse
  <2> QED
    BY <2>1, <2>2, <2>3
<1> QED
  BY <1>1, <1>2, <1>3, <1>4, <1>5, <1>6 DEF ThreadStep

\* net_poll, signals and the servers of the worlds
LEMMA NetKeeps ==
    ASSUME NetTypes, ~user.impatient, Patient, user' = user,
           \/ NetStep
           \/ \E t \in Threads : SigUsr1(t)
           \/ \E f \in Fds : RemoteEnds(f)
           \/ UNCHANGED vars
    PROVE  Patient'
<1> USE DEF NetTypes, Patient, worldVars, threadVars, fileVars
<1>1. ASSUME UNCHANGED <<worldVars, threadVars, signals, fileVars>> PROVE Patient'
  BY <1>1 DEF OneThreadEach, OnItsWay, AnnouncedOnce, FdsInUse, SocketsInUse
<1>2. ASSUME NEW e \in Entries, ReadEnd(e) PROVE Patient'
  <2>1. e.world \in Worlds /\ status[e.world] = "connected" /\ fd[e.world] \in Fds
    BY <1>2 DEF ReadEnd, AtEnd, Entries
  <2>2. /\ watch' = [watch EXCEPT ![fd[e.world]] = NULL]
        /\ fd' = [fd EXCEPT ![e.world] = -1]
        /\ status' = [status EXCEPT ![e.world] = "disconnected"]
        /\ UNCHANGED <<open, stage, target, sock, signals, file, owner>>
    BY <1>2, <2>1 DEF ReadEnd, Drop
  <2>3. OneThreadEach'
    BY <2>1, <2>2 DEF OneThreadEach, OnItsWay
  <2>4. AnnouncedOnce'
    <3>1. /\ \A w \in Worlds : w # e.world => balance'[w] = balance[w]
          /\ e.world \in open => balance'[e.world] = 0
      BY <1>2, <2>1 DEF ReadEnd, Drop, Announced, OneLess, AnnouncedOnce
    <3> QED
      BY <2>1, <2>2, <3>1 DEF AnnouncedOnce
  <2>5. FdsInUse'
    <3>1. -1 \notin Fds
      BY DEF Fds
    <3>2. /\ \A w \in Worlds : w # e.world => fd'[w] = fd[w] /\ status'[w] = status[w]
          /\ fd'[e.world] \notin Fds /\ status'[e.world] = "disconnected"
      BY <2>1, <2>2, <3>1
    <3>3. /\ \A f \in Fds : f # fd[e.world] => watch'[f] = watch[f]
          /\ watch'[fd[e.world]] = NULL
      BY <2>1, <2>2
    <3>4. \A w \in Worlds : w # e.world /\ fd[w] \in Fds => fd[w] # fd[e.world]
      BY <2>1 DEF FdsInUse
    <3> QED
      BY <2>1, <2>2, <3>2, <3>3, <3>4 DEF FdsInUse
  <2>6. SocketsInUse'
    <3>1. ASSUME NEW u \in Threads, stage[u] \in {"socket", "added"}
          PROVE  sock[u] # fd[e.world] /\ target[u] # e.world
      BY <2>1, <3>1 DEF SocketsInUse, OneThreadEach, OnItsWay, FdsInUse
    <3> QED
      BY <2>2, <3>1 DEF SocketsInUse
  <2> QED
    BY <2>2, <2>3, <2>4, <2>5, <2>6
<1>3. ASSUME NEW e \in Entries, ReadError(e) PROVE Patient'
  <2>1. e.world \in Worlds /\ status[e.world] = "connected"
    BY <1>3 DEF ReadError, Entries
  <2>2. /\ fd' = [fd EXCEPT ![e.world] = -1]
        /\ status' = [status EXCEPT ![e.world] = "disconnected"]
        /\ CloseFd(fd[e.world])
        /\ UNCHANGED <<open, stage, target, sock, signals>>
    BY <1>3 DEF ReadError, Drop
  <2>3. OneThreadEach' /\ FdsInUse' /\ SocketsInUse'
    BY <2>1, <2>2, CloseKeeps
  <2>4. AnnouncedOnce'
    BY <1>3, <2>1, <2>2 DEF ReadError, Drop, Announced, OneLess, AnnouncedOnce
  <2> QED
    BY <2>2, <2>3, <2>4
<1>4. ASSUME NEW f \in Fds, RemoteEnds(f) PROVE Patient'
  <2>1. /\ \A g \in Fds : file'[g] = "free" <=> file[g] = "free"
        /\ UNCHANGED <<open, status, fd, balance, stage, target, sock, signals, watch, owner>>
    BY <1>4 DEF RemoteEnds
  <2>2. OneThreadEach' /\ AnnouncedOnce'
    BY <2>1 DEF OneThreadEach, OnItsWay, AnnouncedOnce
  <2>3. FdsInUse' /\ SocketsInUse'
    BY <2>1 DEF FdsInUse, SocketsInUse
  <2> QED
    BY <2>1, <2>2, <2>3
<1>5. ASSUME NEW t \in Threads, SigUsr1(t) PROVE Patient'
  BY <1>5 DEF SigUsr1
<1>6. CASE EpollWait
  BY <1>1, <1>6 DEF EpollWait
<1>7. ASSUME NEW e \in Entries, Skip(e) PROVE Patient'
  BY <1>1, <1>7 DEF Skip
<1>8. CASE UNCHANGED vars
  BY <1>1, <1>8 DEF vars
<1> QED
  BY <1>2, <1>3, <1>4, <1>5, <1>6, <1>7, <1>8 DEF NetStep

LEMMA NetInvStep == NetInv /\ [Next]_vars => NetInv'
<1> SUFFICES ASSUME NetInv, [Next]_vars PROVE NetInv'
  OBVIOUS
<1>1. NetTypes'
  BY TypesStep DEF NetInv
<1>2. user' = user
  BY DEF Next, vars
<1>3. ~user.impatient => Patient'
  BY <1>2, UserKeeps, ThreadKeeps, NetKeeps DEF NetInv, Next
<1> QED
  BY <1>1, <1>2, <1>3 DEF NetInv

\* In every state a connected world has an open descriptor of its own that epoll reports
\* for it (thread_connect, net_disconnect, net_read).
THEOREM WatchCorrect == Spec => []ConnectedIsWatched
<1>1. NetInv => ConnectedIsWatched
  BY DEF NetInv, NetTypes, Patient, FdsInUse, ConnectedIsWatched
<1> QED
  BY <1>1, InitTypes, NetInvStep, PTL DEF Spec

\* In every state a world has been announced connected once more than disconnected if it is
\* connected, and as often if it is not (thread_connect, world_dc_event).
THEOREM AnnounceCorrect == Spec => []AnnouncedOnce
<1>1. NetInv => AnnouncedOnce
  BY DEF NetInv, Patient, AnnouncedOnce
<1> QED
  BY <1>1, InitTypes, NetInvStep, PTL DEF Spec
=============================================================================
