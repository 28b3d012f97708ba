-------------------------- MODULE Lifecycle_proofs --------------------------
(***************************************************************************)
(* Proofs about Lifecycle, for tables of any size, any browsers, handlers  *)
(* and accounts.                                                           *)
(***************************************************************************)
EXTENDS Lifecycle, FiniteSetTheorems, WellFoundedInduction, TLAPS

\* First finds the first of a set of slots that is not empty.
LEMMA FirstIsIn ==
    ASSUME NEW S \in SUBSET Nat, S # {}
    PROVE  First(S) \in S
<1>1. PICK x \in S : \A y \in S : <<y, x>> \notin OpToRel(<, Nat)
  BY WFMin, NatLessThanWellFounded, Zenon
<1>2. \A y \in S : ~(y < x)
  BY <1>1, Zenon DEF OpToRel
<1>3. \A y \in S : x <= y
  BY <1>2
<1> QED
  BY <1>3 DEF First

\* Which slots count for an account: they are numbers, and no two are its.
SlotsInv ==
    /\ refcount \in [Users -> Int]
    /\ account \in [Users -> Accounts \cup {Guest}]
    /\ OneSlotPerAccount

\* Logging in joins the slot the account has, or takes one when it has none.
LEMMA LoginKeeps ==
    ASSUME SlotsInv, NEW k \in Handlers, NEW a \in Accounts \cup {Guest}, UserLogin(k, a)
    PROVE  SlotsInv'
<1> USE DEF SlotsInv
<1>1. CASE Taken(a) # {}
  <2>1. First(Taken(a)) \in Taken(a)
    <3>1. Taken(a) \in SUBSET Nat
      BY DEF Taken, Users
    <3> QED
      BY <1>1, <3>1, FirstIsIn
  <2> DEFINE u == First(Taken(a))
  <2>2. /\ u \in Users /\ refcount[u] > 0 /\ account' = account
        /\ refcount' = [refcount EXCEPT ![u] = refcount[u] + 1]
    BY <1>1, <2>1 DEF UserLogin, Joined, Taken
  <2> HIDE DEF u
  <2>3. \A v \in Users : refcount'[v] > 0 => refcount[v] > 0
    BY <2>2
  <2>4. OneSlotPerAccount'
    BY <2>2, <2>3 DEF OneSlotPerAccount
  <2> QED
    BY <2>2, <2>4
<1>2. CASE Taken(a) = {} /\ UNCHANGED <<refcount, account>>
  BY <1>2 DEF OneSlotPerAccount
<1>3. CASE Taken(a) = {} /\ ~UNCHANGED <<refcount, account>>
  <2> DEFINE u == First({v \in Users : refcount[v] < 0})
  <2>1. /\ refcount' = [refcount EXCEPT ![u] = 1]
        /\ account' = [account EXCEPT ![u] = a]
        /\ {v \in Users : refcount[v] < 0} # {}
    BY <1>3 DEF UserLogin, userVars
  <2>0. u \in Users
    <3>1. {v \in Users : refcount[v] < 0} \in SUBSET Nat
      BY DEF Users
    <3>2. u \in {v \in Users : refcount[v] < 0}
      BY <2>1, <3>1, FirstIsIn
    <3> QED
      BY <3>2
  <2> HIDE DEF u
  <2>2. \A v \in Users : refcount[v] > 0 /\ account[v] = a => a = Guest
    BY <1>3 DEF Taken
  <2>3. OneSlotPerAccount'
    BY <2>1, <2>2 DEF OneSlotPerAccount
  <2>4. refcount' \in [Users -> Int]
    BY <2>0, <2>1
  <2>5. account' \in [Users -> Accounts \cup {Guest}]
    BY <2>0, <2>1
  <2> QED
    BY <2>3, <2>4, <2>5
<1> QED
  BY <1>1, <1>2, <1>3

\* No other step gives a slot a reference or an account.
LEMMA SlotsStep == SlotsInv /\ [Next]_vars => SlotsInv'
<1> SUFFICES ASSUME SlotsInv, [Next]_vars PROVE SlotsInv'
  OBVIOUS
<1> USE DEF SlotsInv
<1>1. ASSUME NEW k \in Handlers, NEW a \in Accounts \cup {Guest}, UserLogin(k, a)
      PROVE  SlotsInv'
  BY <1>1, LoginKeeps
<1>2. ASSUME UNCHANGED account, refcount' \in [Users -> Int],
             \A u \in Users : refcount'[u] > 0 => refcount[u] > 0
      PROVE  SlotsInv'
  BY <1>2 DEF OneSlotPerAccount
<1>3. CASE ExpireSession
  <2>1. \/ \E s : refcount' = [u \in Users |-> refcount[u] - Expired(s, u)]
        \/ refcount' = refcount
    BY <1>3 DEF ExpireSession
  <2>2. ASSUME NEW s, refcount' = [u \in Users |-> refcount[u] - Expired(s, u)]
        PROVE  /\ refcount' \in [Users -> Int]
               /\ \A u \in Users : refcount'[u] > 0 => refcount[u] > 0
    BY <2>2 DEF Expired
  <2> QED
    BY <1>2, <1>3, <2>1, <2>2 DEF ExpireSession
<1>4. CASE UsersCleanup
  BY <1>2, <1>4 DEF UsersCleanup
<1>5. CASE UNCHANGED userVars
  BY <1>2, <1>5 DEF userVars
<1>6. ASSUME NEW k \in Handlers, NEW b \in Browsers, SessionGet(k, b) PROVE UNCHANGED userVars
  BY <1>6 DEF SessionGet
<1>7. ASSUME NEW k \in Handlers, HandlerStep(k),
             ~\E a \in Accounts \cup {Guest} : UserLogin(k, a)
      PROVE  UNCHANGED userVars
  BY <1>7 DEF HandlerStep, UserGet, Poll, PollEnds, Done, Logout, SessionNew, SessionReset,
              SessionMake, LoginDone
<1>8. ASSUME NetStep, ~ExpireSession, ~UsersCleanup PROVE UNCHANGED userVars
  BY <1>8 DEF NetStep, StartRound, FreeSession, SessionsDone, userVars
<1>9. ASSUME Tick \/ (\E b \in Browsers : Close(b)) \/ UNCHANGED vars PROVE UNCHANGED userVars
  BY <1>9 DEF Tick, Close, vars
<1> QED
  BY <1>1, <1>3, <1>4, <1>5, <1>6, <1>7, <1>8, <1>9 DEF Next

\* In every state an account that is logged in has one slot (user_login).
THEOREM OneSlot == Spec => []OneSlotPerAccount
<1>1. Init => SlotsInv
  BY DEF Init, SlotsInv, OneSlotPerAccount
<1>2. SlotsInv => OneSlotPerAccount
  BY DEF SlotsInv
<1> QED
  BY <1>1, <1>2, SlotsStep, PTL DEF Spec

-----------------------------------------------------------------------------
(* References and the pointers that handlers keep.  A session is made by a *)
(* handler and found by others; what a handler found may be logged out by  *)
(* another, freed by the network thread and made anew by a third, all      *)
(* before the handler is done.  But between two ticks of the clock the     *)
(* network thread makes one round at most, so once it has passed a session *)
(* it does not come back to it.                                            *)

\* The types; the bounds of made, sid, cookie and refcount follow from the rest.
Types ==
    /\ used \in SUBSET Sessions
    /\ left \in [Sessions -> -1 .. TTL]
    /\ timeout \in [Sessions -> {0, TTL}]
    /\ userid \in [Sessions -> Users \cup {None}]
    /\ sid \in [Sessions -> Nat]
    /\ made \in Nat
    /\ refcount \in [Users -> Int]
    /\ account \in [Users -> Accounts \cup {Guest}]
    /\ cookie \in [Browsers -> Nat]
    /\ closed \in SUBSET Browsers
    /\ req \in [Handlers -> Requests]
    /\ round \in {"wait", "sessions", "freeing", "users"}
    /\ todo \in SUBSET Sessions
    /\ due \in BOOLEAN

Making == {"new", "reset", "made", "attached"}
Holding == {"found", "using", "polling"}

\* No handler is making session s; the network thread will not look at s before the next tick.
Unmade(s) == \A k \in Handlers : req[k].at \in Making => req[k].session # s
Passed(s) == s \notin todo /\ ~due

\* Session ids: no two sessions and no earlier cookie have the same; a session without one
\* has never been used, or is being made.
IdsInv ==
    /\ \A b \in Browsers : cookie[b] <= made
    /\ \A s \in Sessions : sid[s] <= made
    /\ \A s \in Sessions : sid[s] > 0 => timeout[s] = TTL
    /\ \A s, t \in Sessions : sid[s] = sid[t] /\ sid[s] > 0 => s = t
    /\ \A s \in used : sid[s] > 0 \/ \E k \in Handlers :
                                        req[k].at \in {"new", "reset"} /\ req[k].session = s
    /\ \A s \in Sessions \ used : sid[s] > 0 => userid[s] = None

\* The network thread makes one round per tick, and frees what is over.
RoundInv ==
    /\ round # "wait" => ~due
    /\ round = "freeing" => todo # {} /\ First(todo) \in used /\ left[First(todo)] < 0

\* A handler that makes a session is the only one that does, and the session stays in use
\* until the login is done: even when an earlier owner's logout puts it in the past.
MakerOK(k) ==
    req[k].at \in Making =>
        /\ req[k].session \in used
        /\ \A j \in Handlers : req[j].at \in Making /\ req[j].session = req[k].session => j = k
        /\ req[k].valid => left[req[k].session] = TTL
        /\ ~req[k].valid => Passed(req[k].session)
        /\ req[k].at \in {"reset", "made"} => userid[req[k].session] = None
        /\ req[k].at \in {"made", "attached"} =>
              sid[req[k].session] > 0 /\ \A b \in Browsers : cookie[b] # sid[req[k].session]
        /\ req[k].at = "attached" =>
              req[k].user \in Users /\ userid[req[k].session] = req[k].user

\* The time that a handler still needs its session for.
Needs(r) == IF r.at = "polling" THEN r.nap ELSE LongPoll

\* A handler that has found a session: it lasts longer than the handler, and its user is the
\* handler's, unless it was logged out; then it waits to be expired, or has been.
HolderOK(k) ==
    req[k].at \in Holding =>
        /\ req[k].session \in Sessions /\ sid[req[k].session] > 0
        /\ req[k].at # "polling" /\ ~req[k].valid =>
              \/ Passed(req[k].session)
              \/ /\ req[k].session \in used /\ left[req[k].session] = -1
                 /\ Unmade(req[k].session)
        /\ req[k].valid =>
              /\ req[k].session \in used /\ Unmade(req[k].session)
              /\ left[req[k].session] >= Needs(req[k]) + TTL - LongPoll
              /\ req[k].at # "found" =>
                    req[k].user \in Users /\ userid[req[k].session] = req[k].user

MakersInv == \A k \in Handlers : MakerOK(k)
HoldersInv == \A k \in Handlers : HolderOK(k)

\* The sessions that are being made have their places among MaxLogins.
Numbering == {k \in Handlers : req[k].at \in {"new", "reset"}}
LoginsInv == made + Cardinality(Numbering) <= MaxLogins

RefsInv == RefsCounted /\ \A u \in Users : refcount[u] >= -1

HandlersInv == Types /\ IdsInv /\ RoundInv /\ MakersInv /\ HoldersInv
LifeInv == HandlersInv /\ LoginsInv /\ RefsInv

LEMMA FirstSession ==
    ASSUME NEW S \in SUBSET Sessions, S # {}
    PROVE  First(S) \in S
<1>1. S \in SUBSET Nat
  BY TablesAssumption DEF Sessions
<1> QED
  BY <1>1, FirstIsIn

LEMMA FirstUser ==
    ASSUME NEW S \in SUBSET Users, S # {}
    PROVE  First(S) \in S
<1>1. S \in SUBSET Nat
  BY TablesAssumption DEF Users
<1> QED
  BY <1>1, FirstIsIn

\* A handler without a request.
LEMMA IdleType == Idle \in Requests
BY TablesAssumption DEF Idle, Requests

\* What a handler's step does to the other handlers: a logout may take their session's validity.
LEMMA OthersStay ==
    ASSUME Types, NEW k \in Handlers,
           HandlerStep(k) \/ \E b \in Browsers : SessionGet(k, b)
    PROVE  \A j \in Handlers \ {k} :
              \/ req'[j] = req[j]
              \/ /\ Logout(k) /\ req[j].session = req[k].session
                 /\ req'[j] = [req[j] EXCEPT !.valid = FALSE]
<1> USE DEF Types
<1>1. ASSUME ~Logout(k) PROVE \A j \in Handlers \ {k} : req'[j] = req[j]
  <2>1. ASSUME NEW b \in Browsers, SessionGet(k, b)
        PROVE  \A j \in Handlers \ {k} : req'[j] = req[j]
    BY <2>1 DEF SessionGet
  <2>2. ASSUME NEW a, UserLogin(k, a)
        PROVE  \A j \in Handlers \ {k} : req'[j] = req[j]
    BY <2>2 DEF UserLogin, Attach
  <2>3. CASE UserGet(k) \/ Poll(k) \/ PollEnds(k) \/ Done(k) \/ SessionReset(k)
    BY <2>3 DEF UserGet, Poll, PollEnds, Done, SessionReset, Advance
  <2>4. CASE SessionNew(k) \/ SessionMake(k) \/ LoginDone(k)
    BY <2>4 DEF SessionNew, SessionMake, LoginDone, Advance
  <2> QED
    BY <1>1, <2>1, <2>2, <2>3, <2>4 DEF HandlerStep
<1>2. ASSUME Logout(k), NEW j \in Handlers \ {k}
      PROVE  \/ req'[j] = req[j]
             \/ /\ req[j].session = req[k].session
                /\ req'[j] = [req[j] EXCEPT !.valid = FALSE]
  BY <1>2 DEF Logout
<1> QED
  BY <1>1, <1>2

-----------------------------------------------------------------------------
(* The types.                                                              *)

LEMMA TypesStep ==
    ASSUME HandlersInv, [Next]_vars
    PROVE  Types'
<1> USE TablesAssumption DEF HandlersInv, Types
<1>1. ASSUME NEW k \in Handlers, NEW b \in Browsers, SessionGet(k, b) PROVE Types'
  <2> DEFINE mine == {s \in Sessions : Live(s) /\ sid[s] = cookie[b]}
  <2>0. mine \in SUBSET Sessions
    OBVIOUS
  <2> HIDE DEF mine
  <2>1. mine # {} => First(mine) \in Sessions
    BY <2>0, FirstSession
  <2>2. req' \in [Handlers -> Requests]
    <3>1. [Idle EXCEPT !.at = "stranger", !.browser = b] \in Requests
      BY IdleType DEF Requests
    <3>2. mine # {} => [Idle EXCEPT !.at = "found", !.browser = b, !.session = First(mine)] \in Requests
      BY <2>1, IdleType DEF Requests
    <3> QED
      BY <1>1, <3>1, <3>2 DEF SessionGet, mine
  <2>3. left' \in [Sessions -> -1 .. TTL]
    BY <1>1, <2>1 DEF SessionGet, Bump, mine
  <2> QED
    BY <1>1, <2>2, <2>3 DEF SessionGet, userVars, browserVars, netVars
<1>2. ASSUME NEW k \in Handlers, HandlerStep(k), NEW a \in Accounts \cup {Guest}, UserLogin(k, a)
      PROVE  Types'
  <2> DEFINE free == {u \in Users : refcount[u] < 0}
  <2>0. Taken(a) \in SUBSET Users /\ free \in SUBSET Users
    BY DEF Taken
  <2>1. (Taken(a) # {} => First(Taken(a)) \in Users) /\ (free # {} => First(free) \in Users)
    BY <2>0, FirstUser
  <2>2. req' \in [Handlers -> Requests]
    <3>1. ASSUME NEW u \in Users, Attach(k, u) PROVE req' \in [Handlers -> Requests]
      <4>1. req' = [req EXCEPT ![k] = [req[k] EXCEPT !.at = "attached", !.user = u]]
        BY <3>1 DEF Attach
      <4>2. [req[k] EXCEPT !.at = "attached", !.user = u] \in Requests
        <5>1. req[k] \in Requests /\ u \in Users
          BY <3>1
        <5> QED
          BY ONLY <5>1 DEF Requests
      <4> QED
        BY <4>1, <4>2
    <3> QED
      BY <1>2, <2>1, <3>1, IdleType DEF UserLogin
  <2>3. userid' \in [Sessions -> Users \cup {None}]
    BY <1>2, <2>1 DEF UserLogin, Attach
  <2>4. refcount' \in [Users -> Int] /\ account' \in [Users -> Accounts \cup {Guest}]
    BY <1>2, <2>1 DEF UserLogin, userVars, Joined
  <2> QED
    BY <1>2, <2>2, <2>3, <2>4 DEF UserLogin, browserVars, netVars
<1>3. ASSUME NEW k \in Handlers, UserGet(k) PROVE Types'
  <2>1. req[k].session \in Sessions
    BY <1>3 DEF UserGet, HoldersInv, HolderOK, Holding
  <2>2. req' \in [Handlers -> Requests]
    BY <1>3, <2>1 DEF UserGet, Requests, Users, None
  <2> QED
    BY <1>3, <2>2 DEF UserGet, sessionVars, userVars, browserVars, netVars
<1>4. ASSUME NEW k \in Handlers, Poll(k) \/ PollEnds(k) \/ Done(k) PROVE Types'
  <2>1. req' \in [Handlers -> Requests]
    <3>0. req[k] \in Requests /\ LongPoll \in 0 .. LongPoll
      OBVIOUS
    <3>1. [req[k] EXCEPT !.at = "polling", !.nap = LongPoll] \in Requests
      BY ONLY <3>0 DEF Requests
    <3> QED
      BY <1>4, <3>1, IdleType DEF Poll, PollEnds, Done
  <2> QED
    BY <1>4, <2>1 DEF Poll, PollEnds, Done, sessionVars, userVars, browserVars, netVars
<1>5. ASSUME NEW k \in Handlers, Logout(k) PROVE Types'
  <2>1. req[k].session \in Sessions
    BY <1>5 DEF Logout, HoldersInv, HolderOK, Holding
  <2>2. req' \in [Handlers -> Requests]
    <3>0. \A r \in Requests : [r EXCEPT !.valid = FALSE] \in Requests
      BY ONLY DEF Requests
    <3>1. \A j \in Handlers : [req[j] EXCEPT !.valid = FALSE] \in Requests
      BY <3>0
    <3> QED
      BY <1>5, <3>1, IdleType DEF Logout
  <2>3. used' \in SUBSET Sessions /\ left' \in [Sessions -> -1 .. TTL]
    BY <1>5, <2>1 DEF Logout
  <2> QED
    BY <1>5, <2>2, <2>3 DEF Logout, userVars, browserVars, netVars
<1>6. ASSUME NEW k \in Handlers, SessionNew(k) PROVE Types'
  <2>0. Sessions \ used \in SUBSET Sessions
    OBVIOUS
  <2>1. Sessions \ used # {} => First(Sessions \ used) \in Sessions
    BY <2>0, FirstSession
  <2> DEFINE s == First(Sessions \ used)
  <2>2. req' \in [Handlers -> Requests]
    <3>1. Sessions \ used # {} =>
          [req[k] EXCEPT !.at = "new", !.session = s, !.valid = TRUE] \in Requests
      <4>1. req[k] \in Requests /\ (Sessions \ used # {} => s \in Sessions)
        BY <2>1
      <4> HIDE DEF s
      <4> QED
        BY ONLY <4>1 DEF Requests
    <3> QED
      BY <1>6, <3>1, IdleType DEF SessionNew
  <2>3. used' \in SUBSET Sessions /\ left' \in [Sessions -> -1 .. TTL]
    <3>1. CASE Sessions \ used = {}
      BY <1>6, <3>1 DEF SessionNew
    <3>2. CASE Sessions \ used # {}
      <4>1. s \in Sessions /\ used' = used \cup {s} /\ left' = [left EXCEPT ![s] = TTL]
        BY <1>6, <2>1, <3>2 DEF SessionNew
      <4> HIDE DEF s
      <4> QED
        BY <4>1
    <3> QED
      BY <3>1, <3>2
  <2> QED
    BY <1>6, <2>2, <2>3 DEF SessionNew, userVars, browserVars, netVars
<1>7. ASSUME NEW k \in Handlers, SessionReset(k) \/ SessionMake(k) PROVE Types'
  <2>1. req' \in [Handlers -> Requests]
    BY <1>7 DEF SessionReset, SessionMake, Advance, Requests
  <2>2. userid' \in [Sessions -> Users \cup {None}]
    BY <1>7 DEF SessionReset, SessionMake
  <2>3. made' \in Nat /\ timeout' \in [Sessions -> {0, TTL}] /\ sid' \in [Sessions -> Nat]
    BY <1>7 DEF SessionReset, SessionMake
  <2> QED
    BY <1>7, <2>1, <2>2, <2>3 DEF SessionReset, SessionMake, userVars, browserVars, netVars
<1>8. ASSUME NEW k \in Handlers, LoginDone(k) PROVE Types'
  <2>1. req[k].session \in Sessions
    BY <1>8 DEF LoginDone, MakersInv, MakerOK, Making
  <2>2. req' \in [Handlers -> Requests]
    BY <1>8 DEF LoginDone, Requests, Idle
  <2>3. cookie' \in [Browsers -> Nat]
    BY <1>8, <2>1 DEF LoginDone
  <2> QED
    BY <1>8, <2>2, <2>3 DEF LoginDone, sessionVars, userVars, netVars
<1>9. CASE NetStep
  <2>1. CASE StartRound \/ SessionsDone
    BY <2>1 DEF StartRound, SessionsDone, sessionVars, userVars, browserVars
  <2>2. CASE ExpireSession
    <3>1. refcount' \in [Users -> Int]
      BY <2>2 DEF ExpireSession, Expired
    <3>2. todo' \in SUBSET Sessions /\ round' \in {"wait", "sessions", "freeing", "users"}
      BY <2>2 DEF ExpireSession
    <3> QED
      BY <2>2, <3>1, <3>2 DEF ExpireSession, sessionVars, browserVars
  <2>3. CASE FreeSession
    <3>1. userid' \in [Sessions -> Users \cup {None}]
      BY <2>3 DEF FreeSession
    <3> QED
      BY <2>3, <3>1 DEF FreeSession, userVars, browserVars
  <2>4. CASE UsersCleanup
    <3>1. refcount' \in [Users -> Int]
      BY <2>4 DEF UsersCleanup
    <3> QED
      BY <2>4, <3>1 DEF UsersCleanup, sessionVars, browserVars
  <2> QED
    BY <1>9, <2>1, <2>2, <2>3, <2>4 DEF NetStep
<1>10. CASE Tick
  <2>1. req' \in [Handlers -> Requests]
    <3>1. ASSUME NEW r \in Requests, r.nap > 0 PROVE [r EXCEPT !.nap = @ - 1] \in Requests
      <4>1. r.nap - 1 \in 0 .. LongPoll
        BY <3>1 DEF Requests
      <4> QED
        BY ONLY <3>1, <4>1 DEF Requests
    <3> QED
      BY <1>10, <3>1 DEF Tick
  <2>2. left' \in [Sessions -> -1 .. TTL]
    BY <1>10 DEF Tick
  <2> QED
    BY <1>10, <2>1, <2>2 DEF Tick, userVars, browserVars
<1>11. ASSUME NEW b \in Browsers, Close(b) PROVE Types'
  BY <1>11 DEF Close, sessionVars, userVars, netVars
<1>12. CASE UNCHANGED vars
  BY <1>12 DEF vars, sessionVars, userVars, browserVars, netVars
<1> QED
  BY <1>1, <1>2, <1>3, <1>4, <1>5, <1>6, <1>7, <1>8, <1>9, <1>10, <1>11, <1>12
  DEF Next, HandlerStep

-----------------------------------------------------------------------------
(* Makers and holders.                                                     *)

Pointers == IdsInv /\ RoundInv /\ MakersInv /\ HoldersInv

\* The steps of a handler that leave sessions and the network thread as they are.
LEMMA QuietStep ==
    ASSUME HandlersInv, NEW k \in Handlers, UserGet(k) \/ Poll(k) \/ PollEnds(k) \/ Done(k)
    PROVE  Pointers'
<1> USE TablesAssumption DEF HandlersInv, Types
<1>1. UNCHANGED <<sessionVars, userVars, browserVars, netVars>>
  BY DEF UserGet, Poll, PollEnds, Done
<1>2. /\ \A j \in Handlers \ {k} : req'[j] = req[j]
      /\ req[k].at \notin Making /\ req'[k].at \notin Making
  <2>1. CASE UserGet(k)
    BY <2>1 DEF UserGet, Making
  <2>2. CASE Poll(k)
    BY <2>2 DEF Poll, Making
  <2>3. CASE PollEnds(k) \/ Done(k)
    <3>1. req[k].at \notin Making /\ req' = [req EXCEPT ![k] = Idle]
      BY <2>3 DEF PollEnds, Done, Making
    <3>2. Idle.at = "idle"
      BY DEF Idle
    <3> QED
      BY <3>1, <3>2 DEF Making
  <2> QED
    BY <2>1, <2>2, <2>3
<1>3. \A j \in Handlers : req'[j].at \in Making => req'[j] = req[j]
  BY <1>2
<1>4. \A s : Unmade(s) => Unmade(s)'
  BY <1>3 DEF Unmade
<1>5. IdsInv'
  BY <1>1, <1>2 DEF IdsInv, sessionVars, browserVars, Making
<1>6. RoundInv'
  BY <1>1 DEF RoundInv, sessionVars, netVars
<1>7. MakersInv'
  BY <1>1, <1>3 DEF MakersInv, MakerOK, Passed, sessionVars, browserVars, netVars
<1>8. ASSUME NEW j \in Handlers \ {k} PROVE HolderOK(j)'
  BY <1>1, <1>2, <1>4, <1>8 DEF HoldersInv, HolderOK, Passed, Needs, sessionVars, netVars
<1>9. HolderOK(k)'
  <2>1. HolderOK(k)
    BY DEF HoldersInv
  <2>2. CASE UserGet(k)
    <3>1. /\ req[k].at = "found" /\ req'[k].at \in {"using", "stranger"}
          /\ req'[k].session = req[k].session /\ req'[k].valid = req[k].valid
          /\ req'[k].at = "using" =>
                req'[k].user = userid[req[k].session] /\ userid[req[k].session] >= 0
      BY <2>2 DEF UserGet
    <3>2. req'[k].at = "using" => req[k].session \in Sessions /\ req'[k].user \in Users
      BY <2>1, <3>1 DEF HolderOK, Holding, None
    <3> QED
      BY <1>1, <1>4, <2>1, <3>1, <3>2
      DEF HolderOK, Holding, Passed, Needs, sessionVars, netVars
  <2>3. CASE Poll(k)
    <3>1. /\ req[k].at = "using" /\ req'[k].at = "polling" /\ req'[k].nap = LongPoll
          /\ req'[k].session = req[k].session /\ req'[k].valid = req[k].valid
          /\ req'[k].user = req[k].user
      BY <2>3 DEF Poll
    <3> QED
      BY <1>1, <1>4, <2>1, <3>1 DEF HolderOK, Holding, Passed, Needs, sessionVars, netVars
  <2>4. CASE PollEnds(k) \/ Done(k)
    BY <2>4 DEF PollEnds, Done, Idle, HolderOK, Holding
  <2> QED
    BY <2>2, <2>3, <2>4
<1>10. HoldersInv'
  BY <1>8, <1>9 DEF HoldersInv
<1> QED
  BY <1>5, <1>6, <1>7, <1>10 DEF Pointers

\* A request finds its session, and gives it a life that is longer than its own.
LEMMA GetStep ==
    ASSUME HandlersInv, NEW k \in Handlers, NEW b \in Browsers, SessionGet(k, b)
    PROVE  Pointers'
<1> USE TablesAssumption DEF HandlersInv, Types
<1> DEFINE mine == {s \in Sessions : Live(s) /\ sid[s] = cookie[b]}
           x == First(mine)
<1>1. UNCHANGED <<used, timeout, userid, sid, made, userVars, browserVars, netVars>>
  BY DEF SessionGet
<1>2. /\ \A j \in Handlers \ {k} : req'[j] = req[j]
      /\ req[k].at \notin Making /\ req'[k].at \notin Making
  <2>1. /\ req[k].at = "idle"
        /\ \E r : req' = [req EXCEPT ![k] = r] /\ r.at \in {"stranger", "found"}
    <3>1. [Idle EXCEPT !.at = "stranger", !.browser = b].at = "stranger"
      BY DEF Idle
    <3>2. [Idle EXCEPT !.at = "found", !.browser = b, !.session = x].at = "found"
      BY DEF Idle
    <3> HIDE DEF x
    <3> QED
      BY <3>1, <3>2 DEF SessionGet, x
  <2> QED
    BY <2>1 DEF Making
<1>3. \A j \in Handlers : req'[j].at \in Making => req'[j] = req[j]
  BY <1>2
<1>4. \A s : Unmade(s) => Unmade(s)'
  BY <1>3 DEF Unmade
<1>5. IdsInv'
  BY <1>1, <1>2 DEF IdsInv, browserVars, Making
<1>6. CASE mine = {}
  <2>1. left' = left /\ req'[k].at = "stranger"
    BY <1>6 DEF SessionGet, Idle
  <2>2. RoundInv'
    BY <1>1, <2>1 DEF RoundInv, netVars
  <2>3. MakersInv'
    BY <1>1, <1>3, <2>1 DEF MakersInv, MakerOK, Passed, browserVars, netVars
  <2>4. HoldersInv'
    <3>1. HolderOK(k)'
      BY <2>1 DEF HolderOK, Holding
    <3>2. ASSUME NEW j \in Handlers \ {k} PROVE HolderOK(j)'
      BY <1>1, <1>2, <1>4, <2>1, <3>2 DEF HoldersInv, HolderOK, Passed, Needs, netVars
    <3> QED
      BY <3>1, <3>2 DEF HoldersInv
  <2> QED
    BY <1>5, <2>2, <2>3, <2>4 DEF Pointers
<1>7. CASE mine # {}
  <2>1. x \in Sessions /\ x \in used /\ left[x] > 0 /\ sid[x] = cookie[b]
    <3>1. mine \in SUBSET Sessions
      OBVIOUS
    <3>2. x \in mine
      BY <1>7, <3>1, FirstSession
    <3> QED
      BY <3>2 DEF Live
  <2>2. /\ left' = [left EXCEPT ![x] = timeout[x]]
        /\ req'[k].at = "found" /\ req'[k].session = x /\ req'[k].valid
    <3> DEFINE r == [Idle EXCEPT !.at = "found", !.browser = b, !.session = x]
    <3>1. r.at = "found" /\ r.session = x /\ r.valid
      BY DEF Idle
    <3>2. left' = [left EXCEPT ![x] = timeout[x]] /\ req' = [req EXCEPT ![k] = r]
      BY <1>7 DEF SessionGet, Bump
    <3> HIDE DEF r
    <3> QED
      BY <3>1, <3>2
  <2> HIDE DEF x
  <2>3. sid[x] > 0 /\ timeout[x] = TTL
    <3>1. \A j \in Handlers : req[j].at \notin {"new", "reset"}
      BY DEF SessionGet, NotEarly
    <3> QED
      BY <2>1, <3>1 DEF IdsInv
  <2>4. Unmade(x)
    <3>1. \A j \in Handlers : req[j].at \notin {"new", "reset"}
      BY DEF SessionGet, NotEarly
    <3> QED
      BY <2>1, <3>1 DEF MakersInv, MakerOK, Making, Unmade
  <2>5. left' = [left EXCEPT ![x] = TTL]
    BY <2>2, <2>3
  <2>6. RoundInv'
    <3>1. round # "freeing"
      BY DEF SessionGet, SessionsFree
    <3> QED
      BY <1>1, <3>1 DEF RoundInv, netVars
  <2>7. MakersInv'
    BY <1>1, <1>3, <2>1, <2>4, <2>5 DEF MakersInv, MakerOK, Passed, Unmade, browserVars, netVars
  <2>8. ASSUME NEW j \in Handlers \ {k} PROVE HolderOK(j)'
    <3>1. HolderOK(j)
      BY DEF HoldersInv
    <3>2. Needs(req[j]) <= LongPoll
      BY DEF Needs, Requests
    <3>3. /\ req'[j] = req[j]
          /\ Unmade(req[j].session) => Unmade(req[j].session)'
          /\ Passed(req[j].session) => Passed(req[j].session)'
      BY <1>1, <1>2, <1>4, <2>8 DEF Passed, netVars
    <3>4. req[j].session \in Sessions => left'[req[j].session] \in {left[req[j].session], TTL}
      BY <2>1, <2>5
    <3>5. req[j].session = x => left[req[j].session] # -1
      BY <2>1
    <3>6. Needs(req[j]) \in Int
      BY DEF Needs, Requests
    <3>7. req[j].session # x => left'[req[j].session] = left[req[j].session]
      BY <2>5
    <3> QED
      BY <1>1, <3>1, <3>2, <3>3, <3>4, <3>5, <3>6, <3>7 DEF HolderOK, Needs
  <2>9. HolderOK(k)'
    BY <1>1, <1>4, <2>1, <2>2, <2>3, <2>4, <2>5 DEF HolderOK, Needs
  <2> QED
    BY <1>5, <2>6, <2>7, <2>8, <2>9 DEF Pointers, HoldersInv
<1> QED
  BY <1>6, <1>7

\* A logout puts the session in the past, also when it is somebody else's by now.
LEMMA LogoutStep ==
    ASSUME HandlersInv, NEW k \in Handlers, Logout(k)
    PROVE  Pointers'
<1> USE TablesAssumption DEF HandlersInv, Types
<1> DEFINE x == req[k].session
<1>1. /\ req[k].at = "using" /\ round \notin {"sessions", "freeing"}
      /\ used' = used \cup {x} /\ left' = [left EXCEPT ![x] = -1]
      /\ UNCHANGED <<timeout, userid, sid, made, userVars, browserVars, netVars>>
  BY DEF Logout, SessionsFree
<1>2. HolderOK(k) /\ x \in Sessions /\ sid[x] > 0
  BY <1>1 DEF HoldersInv, HolderOK, Holding
<1>3. req'[k].at = "idle"
  BY DEF Logout, Idle
<1>4. ASSUME NEW j \in Handlers \ {k}
      PROVE  /\ req'[j].at = req[j].at /\ req'[j].session = req[j].session
             /\ req'[j].user = req[j].user /\ req'[j].nap = req[j].nap
             /\ req'[j].valid = IF req[j].session = x THEN FALSE ELSE req[j].valid
  BY DEF Logout
<1>5. \A j \in Handlers : req'[j].at \in Making =>
          req'[j].at = req[j].at /\ req'[j].session = req[j].session
  BY <1>3, <1>4 DEF Making
<1>6. \A s : Unmade(s) => Unmade(s)'
  BY <1>5 DEF Unmade
<1>7. Unmade(x) \/ Passed(x)
  BY <1>1, <1>2 DEF HolderOK, Holding
<1>8. \A s : Passed(s)' = Passed(s)
  BY <1>1 DEF Passed, netVars
<1> HIDE DEF x
<1>9. IdsInv'
  <2>1. \A j \in Handlers : req[j].at \in {"new", "reset"} =>
            req'[j].at = req[j].at /\ req'[j].session = req[j].session
    BY <1>1, <1>4
  <2> QED
    BY <1>1, <1>2, <2>1 DEF IdsInv, browserVars
<1>10. RoundInv'
  BY <1>1 DEF RoundInv, netVars
<1>11. ASSUME NEW j \in Handlers PROVE MakerOK(j)'
  <2>1. MakerOK(j)
    BY DEF MakersInv
  <2>2. CASE j = k
    BY <1>3, <2>2 DEF MakerOK, Making
  <2>3. CASE j # k /\ req[j].session # x
    <3>1. \A i \in Handlers : req'[i].at \in Making =>
             req[i].at \in Making /\ req[i].session = req'[i].session
      BY <1>5
    <3> QED
      BY <1>1, <1>4, <1>8, <2>1, <2>3, <3>1 DEF MakerOK, browserVars
  <2>4. CASE j # k /\ req[j].session = x
    <3>1. \A i \in Handlers : req'[i].at \in Making =>
             req[i].at \in Making /\ req[i].session = req'[i].session
      BY <1>5
    <3>2. req[j].at \in Making => Passed(x)
      BY <1>7, <2>4 DEF Unmade
    <3> QED
      BY <1>1, <1>4, <1>8, <2>1, <2>4, <3>1, <3>2 DEF MakerOK, browserVars
  <2> QED
    BY <2>2, <2>3, <2>4
<1>12. ASSUME NEW j \in Handlers PROVE HolderOK(j)'
  <2>1. HolderOK(j)
    BY DEF HoldersInv
  <2>2. CASE j = k
    BY <1>3, <2>2 DEF HolderOK, Holding
  <2>3. CASE j # k /\ req[j].session # x
    <3>1. req[j].session \in Sessions => left'[req[j].session] = left[req[j].session]
      BY <1>1, <2>3
    <3> QED
      BY <1>1, <1>4, <1>6, <1>8, <2>1, <2>3, <3>1 DEF HolderOK, Needs
  <2>4. CASE j # k /\ req[j].session = x
    <3>1. left'[x] = -1 /\ x \in used'
      BY <1>1, <1>2
    <3> QED
      BY <1>1, <1>2, <1>4, <1>6, <1>7, <1>8, <2>4, <3>1 DEF HolderOK
  <2> QED
    BY <2>2, <2>3, <2>4
<1> QED
  BY <1>9, <1>10, <1>11, <1>12 DEF Pointers, MakersInv, HoldersInv

\* A login takes a session that nobody uses.
LEMMA NewStep ==
    ASSUME HandlersInv, NEW k \in Handlers, SessionNew(k)
    PROVE  Pointers'
<1> USE TablesAssumption DEF HandlersInv, Types
<1> DEFINE x == First(Sessions \ used)
<1>1. /\ req[k].at = "stranger" /\ round \notin {"sessions", "freeing"}
      /\ UNCHANGED <<timeout, userid, sid, made, userVars, browserVars, netVars>>
  BY DEF SessionNew, SessionsFree
<1>2. \A j \in Handlers \ {k} : req'[j] = req[j]
  BY DEF SessionNew
<1>3. \A s : Passed(s)' = Passed(s)
  BY <1>1 DEF Passed, netVars
<1>4. CASE Sessions \ used = {}
  <2>1. UNCHANGED <<used, left>> /\ req'[k] = Idle
    BY <1>4 DEF SessionNew
  <2>2. req'[k].at = "idle"
    BY <2>1 DEF Idle
  <2>3. \A j \in Handlers : req'[j].at \in Making => req'[j] = req[j]
    BY <1>2, <2>2 DEF Making
  <2>4. IdsInv'
    BY <1>1, <1>2, <2>1 DEF IdsInv, browserVars
  <2>5. RoundInv'
    BY <1>1, <2>1 DEF RoundInv, netVars
  <2>6. MakersInv'
    BY <1>1, <1>3, <2>1, <2>3 DEF MakersInv, MakerOK, browserVars
  <2>7. \A s : Unmade(s) => Unmade(s)'
    BY <2>3 DEF Unmade
  <2>8. ASSUME NEW j \in Handlers PROVE HolderOK(j)'
    <3>1. CASE j = k
      BY <2>2, <3>1 DEF HolderOK, Holding
    <3>2. CASE j # k
      BY <1>1, <1>2, <1>3, <2>1, <2>7, <3>2 DEF HoldersInv, HolderOK, Needs
    <3> QED
      BY <3>1, <3>2
  <2> QED
    BY <2>4, <2>5, <2>6, <2>8 DEF Pointers, HoldersInv
<1>5. CASE Sessions \ used # {}
  <2>1. x \in Sessions \ used
    <3>1. Sessions \ used \in SUBSET Sessions
      OBVIOUS
    <3> QED
      BY <1>5, <3>1, FirstSession
  <2>2. /\ used' = used \cup {x} /\ left' = [left EXCEPT ![x] = TTL]
        /\ req' = [req EXCEPT ![k] = [req[k] EXCEPT !.at = "new", !.session = x, !.valid = TRUE]]
    BY <1>5 DEF SessionNew
  <2> HIDE DEF x
  <2>3. /\ req'[k].at = "new" /\ req'[k].session = x /\ req'[k].valid
    BY <2>2 DEF Requests
  <2>4. Unmade(x)
    BY <2>1 DEF Unmade, MakersInv, MakerOK
  <2>5. \A s : Unmade(s) /\ s # x => Unmade(s)'
    BY <1>2, <2>3 DEF Unmade
  <2>6. IdsInv'
    <3>1. \A s \in used' : sid'[s] > 0 \/ \E j \in Handlers :
             req'[j].at \in {"new", "reset"} /\ req'[j].session = s
      BY <1>1, <1>2, <2>2, <2>3 DEF IdsInv
    <3> QED
      BY <1>1, <2>2, <3>1 DEF IdsInv, browserVars
  <2>7. RoundInv'
    BY <1>1 DEF RoundInv, netVars
  <2>8. ASSUME NEW j \in Handlers \ {k} PROVE MakerOK(j)'
    <3>1. MakerOK(j) /\ req'[j] = req[j]
      BY <1>2 DEF MakersInv
    <3>2. req[j].at \in Making => req[j].session # x /\ req[j].session \in Sessions
      BY <2>4, <3>1 DEF Unmade, MakerOK
    <3>3. req[j].at \in Making => left'[req[j].session] = left[req[j].session]
      BY <2>2, <3>2
    <3>4. \A i \in Handlers :
             req'[i].session = x \/ (req'[i].at \in Making => req[i].at \in Making
                                                            /\ req'[i].session = req[i].session)
      BY <1>2, <2>3
    <3> QED
      BY <1>1, <1>3, <2>2, <3>1, <3>2, <3>3, <3>4 DEF MakerOK, browserVars
  <2>9. MakerOK(k)'
    <3>1. x \in used' /\ left'[x] = TTL
      BY <2>1, <2>2
    <3>2. \A j \in Handlers : req'[j].at \in Making /\ req'[j].session = x => j = k
      BY <1>2, <2>4 DEF Unmade
    <3> QED
      BY <2>3, <3>1, <3>2 DEF MakerOK
  <2>10. ASSUME NEW j \in Handlers PROVE HolderOK(j)'
    <3>1. HolderOK(j)
      BY DEF HoldersInv
    <3>2. CASE j = k
      BY <2>3, <3>2 DEF HolderOK, Holding
    <3>3. CASE j # k
      <4>1. req'[j] = req[j]
        BY <1>2, <3>3
      <4>2. req[j].session # x /\ req[j].session \in Sessions
                => left'[req[j].session] = left[req[j].session]
        BY <2>2
      <4>3. CASE req[j].session # x
        <5>1. /\ Unmade(req[j].session) => Unmade(req[j].session)'
              /\ Passed(req[j].session) => Passed(req[j].session)'
          BY <1>3, <2>5, <4>1, <4>3
        <5>2. used \subseteq used'
          BY <2>2
        <5> QED
          BY <1>1, <3>1, <4>1, <4>2, <4>3, <5>1, <5>2 DEF HolderOK, Needs
      <4>4. CASE req[j].session = x
        BY <1>1, <1>3, <2>1, <3>1, <4>1, <4>4 DEF HolderOK
      <4> QED
        BY <4>3, <4>4
    <3> QED
      BY <3>2, <3>3
  <2> QED
    BY <2>6, <2>7, <2>8, <2>9, <2>10 DEF Pointers, MakersInv, HoldersInv
<1> QED
  BY <1>4, <1>5

\* A step of a handler that is making a session, seen from the others: it writes to no
\* session but its own, and that is nobody else's.
LEMMA MakerMove ==
    ASSUME HandlersInv, NEW k \in Handlers, req[k].at \in Making, req'[k].at \in Making,
           req'[k].session = req[k].session,
           \A j \in Handlers \ {k} : req'[j] = req[j],
           UNCHANGED <<used, left, browserVars, netVars>>,
           \A s \in Sessions \ {req[k].session} : userid'[s] = userid[s] /\ sid'[s] = sid[s],
           sid[req[k].session] > 0 => sid'[req[k].session] > 0
    PROVE  (\A j \in Handlers \ {k} : MakerOK(j)') /\ (\A j \in Handlers : HolderOK(j)')
<1> USE TablesAssumption DEF HandlersInv, Types
<1> DEFINE x == req[k].session
<1>1. MakerOK(k) /\ x \in used /\ ~Unmade(x)
  BY DEF MakersInv, MakerOK, Unmade
<1>2. \A j \in Handlers : req'[j].at \in Making <=> req[j].at \in Making
  OBVIOUS
<1>3. \A j \in Handlers : req'[j].session = req[j].session
  OBVIOUS
<1>4. \A s : Unmade(s)' = Unmade(s)
  BY <1>2, <1>3 DEF Unmade
<1>5. \A s : Passed(s)' = Passed(s)
  BY DEF Passed, netVars
<1>6. ASSUME NEW j \in Handlers \ {k} PROVE MakerOK(j)'
  <2>1. MakerOK(j) /\ req'[j] = req[j]
    BY DEF MakersInv
  <2>2. req[j].at \in Making => req[j].session \in Sessions \ {x}
    BY <1>1, <2>1 DEF MakerOK
  <2>3. req[j].at \in Making => /\ userid'[req[j].session] = userid[req[j].session]
                                /\ sid'[req[j].session] = sid[req[j].session]
    BY <2>2
  <2> QED
    BY <1>2, <1>3, <1>5, <2>1, <2>3 DEF MakerOK, browserVars
<1>7. ASSUME NEW j \in Handlers PROVE HolderOK(j)'
  <2>1. CASE j = k
    BY <2>1 DEF HolderOK, Holding, Making
  <2>2. CASE j # k
    <3>1. HolderOK(j) /\ req'[j] = req[j]
      BY <2>2 DEF HoldersInv
    <3>2. req[j].session \in Sessions /\ sid[req[j].session] > 0 => sid'[req[j].session] > 0
      OBVIOUS
    <3>3. req[j].session \in Sessions /\ Unmade(req[j].session) =>
              userid'[req[j].session] = userid[req[j].session]
      BY <1>1
    <3> QED
      BY <1>4, <1>5, <3>1, <3>2, <3>3 DEF HolderOK, Needs
  <2> QED
    BY <2>1, <2>2
<1> QED
  BY <1>6, <1>7

LEMMA ResetStep ==
    ASSUME HandlersInv, NEW k \in Handlers, SessionReset(k)
    PROVE  Pointers'
<1> USE TablesAssumption DEF HandlersInv, Types
<1> DEFINE x == req[k].session
<1>1. /\ req[k].at = "new" /\ req' = [req EXCEPT ![k].at = "reset"]
      /\ userid' = [userid EXCEPT ![x] = None]
      /\ UNCHANGED <<used, left, timeout, sid, made, userVars, browserVars, netVars>>
  BY DEF SessionReset, Advance
<1>2. /\ req'[k].at = "reset" /\ req'[k].session = x /\ req'[k].valid = req[k].valid
      /\ \A j \in Handlers \ {k} : req'[j] = req[j]
  BY <1>1 DEF Requests
<1>3. MakerOK(k) /\ x \in used
  BY <1>1 DEF MakersInv, MakerOK, Making
<1>4. (\A j \in Handlers \ {k} : MakerOK(j)') /\ (\A j \in Handlers : HolderOK(j)')
  <2>1. \A s \in Sessions \ {x} : userid'[s] = userid[s] /\ sid'[s] = sid[s]
    BY <1>1
  <2>2. req[k].at \in Making /\ req'[k].at \in Making
    BY <1>1, <1>2 DEF Making
  <2> QED
    BY <1>1, <1>2, <2>1, <2>2, MakerMove
<1>5. MakerOK(k)'
  <2>1. userid'[x] = None
    BY <1>1, <1>3
  <2>2. \A j \in Handlers : req'[j].at \in Making /\ req'[j].session = x => j = k
    BY <1>1, <1>2, <1>3 DEF MakerOK, Making
  <2> QED
    BY <1>1, <1>2, <1>3, <2>1, <2>2 DEF MakerOK, Making, Passed, netVars
<1>6. IdsInv'
  <2>1. \A j \in Handlers : req[j].at \in {"new", "reset"} =>
           req'[j].at \in {"new", "reset"} /\ req'[j].session = req[j].session
    BY <1>2
  <2>2. \A s \in used : sid[s] > 0 \/ \E j \in Handlers :
           req'[j].at \in {"new", "reset"} /\ req'[j].session = s
    BY <2>1 DEF IdsInv
  <2> QED
    BY <1>1, <1>3, <2>2 DEF IdsInv, browserVars
<1>7. RoundInv'
  BY <1>1 DEF RoundInv, netVars
<1> QED
  BY <1>4, <1>5, <1>6, <1>7 DEF Pointers, MakersInv, HoldersInv

\* The session gets an id that no session and no cookie has had.
LEMMA MakeStep ==
    ASSUME HandlersInv, NEW k \in Handlers, SessionMake(k)
    PROVE  Pointers'
<1> USE TablesAssumption DEF HandlersInv, Types
<1> DEFINE x == req[k].session
<1>1. /\ req[k].at = "reset" /\ req' = [req EXCEPT ![k].at = "made"]
      /\ made' = made + 1
      /\ timeout' = [timeout EXCEPT ![x] = TTL] /\ sid' = [sid EXCEPT ![x] = made + 1]
      /\ UNCHANGED <<used, left, userid, userVars, browserVars, netVars>>
  BY DEF SessionMake, Advance
<1>2. /\ req'[k].at = "made" /\ req'[k].session = x /\ req'[k].valid = req[k].valid
      /\ \A j \in Handlers \ {k} : req'[j] = req[j]
  BY <1>1 DEF Requests
<1>3. MakerOK(k) /\ x \in used /\ x \in Sessions
  BY <1>1 DEF MakersInv, MakerOK, Making
<1>4. sid'[x] = made + 1 /\ \A s \in Sessions \ {x} : sid'[s] = sid[s]
  BY <1>1, <1>3
<1>5. (\A j \in Handlers \ {k} : MakerOK(j)') /\ (\A j \in Handlers : HolderOK(j)')
  <2>1. \A s \in Sessions \ {x} : userid'[s] = userid[s] /\ sid'[s] = sid[s]
    BY <1>1, <1>4
  <2>2. req[k].at \in Making /\ req'[k].at \in Making
    BY <1>1, <1>2 DEF Making
  <2> QED
    BY <1>1, <1>2, <1>4, <2>1, <2>2, MakerMove
<1>6. MakerOK(k)'
  <2>1. \A b \in Browsers : cookie'[b] # made + 1
    BY <1>1 DEF IdsInv, browserVars
  <2>2. \A j \in Handlers : req'[j].at \in Making /\ req'[j].session = x => j = k
    BY <1>1, <1>2, <1>3 DEF MakerOK, Making
  <2> QED
    BY <1>1, <1>2, <1>3, <1>4, <2>1, <2>2 DEF MakerOK, Making, Passed, netVars
<1>7. IdsInv'
  <2>1. \A s \in Sessions : sid[s] <= made
    BY DEF IdsInv
  <2>2. \A s \in Sessions : sid'[s] <= made + 1
    BY <1>4, <2>1
  <2>3. \A s, t \in Sessions : sid'[s] = sid'[t] /\ sid'[s] > 0 => s = t
    <3>1. \A s \in Sessions \ {x} : sid'[s] # sid'[x]
      BY <1>4, <2>1
    <3> QED
      BY <1>4, <3>1 DEF IdsInv
  <2>4. \A s \in Sessions : sid'[s] > 0 => timeout'[s] = TTL
    BY <1>1, <1>4 DEF IdsInv
  <2>5. \A s \in used' : sid'[s] > 0 \/ \E j \in Handlers :
           req'[j].at \in {"new", "reset"} /\ req'[j].session = s
    <3>1. ASSUME NEW s \in used, s # x
          PROVE  sid'[s] > 0 \/ \E j \in Handlers :
                    req'[j].at \in {"new", "reset"} /\ req'[j].session = s
      <4>1. sid'[s] = sid[s]
        BY <1>4, <3>1
      <4> QED
        BY <1>2, <3>1, <4>1 DEF IdsInv
    <3> QED
      BY <1>1, <1>4, <3>1
  <2>6. \A s \in Sessions \ used' : sid'[s] > 0 => userid'[s] = None
    BY <1>1, <1>3, <1>4 DEF IdsInv
  <2>7. \A b \in Browsers : cookie'[b] <= made'
    BY <1>1 DEF IdsInv, browserVars
  <2> QED
    BY <1>1, <2>2, <2>3, <2>4, <2>5, <2>6, <2>7 DEF IdsInv
<1>8. RoundInv'
  BY <1>1 DEF RoundInv, netVars
<1> QED
  BY <1>5, <1>6, <1>7, <1>8 DEF Pointers, MakersInv, HoldersInv

\* The session becomes user u's.
LEMMA AttachStep ==
    ASSUME HandlersInv, NEW k \in Handlers, req[k].at = "made", NEW u \in Users, Attach(k, u),
           UNCHANGED <<used, left, timeout, sid, made, browserVars, netVars>>
    PROVE  Pointers'
<1> USE TablesAssumption DEF HandlersInv, Types
<1> DEFINE x == req[k].session
<1>1. /\ req' = [req EXCEPT ![k] = [req[k] EXCEPT !.at = "attached", !.user = u]]
      /\ userid' = [userid EXCEPT ![x] = u]
  BY DEF Attach
<1>2. /\ req'[k].at = "attached" /\ req'[k].session = x /\ req'[k].valid = req[k].valid
      /\ req'[k].user = u
      /\ \A j \in Handlers \ {k} : req'[j] = req[j]
  BY <1>1 DEF Requests
<1>3. MakerOK(k) /\ x \in used /\ x \in Sessions
  BY DEF MakersInv, MakerOK, Making
<1>4. (\A j \in Handlers \ {k} : MakerOK(j)') /\ (\A j \in Handlers : HolderOK(j)')
  <2>1. \A s \in Sessions \ {x} : userid'[s] = userid[s] /\ sid'[s] = sid[s]
    BY <1>1
  <2>2. req[k].at \in Making /\ req'[k].at \in Making
    BY <1>2 DEF Making
  <2> QED
    BY <1>2, <2>1, <2>2, MakerMove
<1>5. MakerOK(k)'
  <2>1. userid'[x] = u
    BY <1>1, <1>3
  <2>2. \A j \in Handlers : req'[j].at \in Making /\ req'[j].session = x => j = k
    BY <1>2, <1>3 DEF MakerOK, Making
  <2> QED
    BY <1>2, <1>3, <2>1, <2>2 DEF MakerOK, Making, Passed, browserVars, netVars
<1>6. IdsInv'
  <2>1. \A j \in Handlers : req[j].at \in {"new", "reset"} => req'[j] = req[j]
    BY <1>2
  <2>2. \A s \in used : sid[s] > 0 \/ \E j \in Handlers :
           req'[j].at \in {"new", "reset"} /\ req'[j].session = s
    BY <2>1 DEF IdsInv
  <2>3. \A s \in Sessions \ used : userid'[s] = userid[s]
    BY <1>1, <1>3
  <2> QED
    BY <2>2, <2>3 DEF IdsInv, browserVars
<1>7. RoundInv'
  BY DEF RoundInv, netVars
<1> QED
  BY <1>4, <1>5, <1>6, <1>7 DEF Pointers, MakersInv, HoldersInv

\* A login ends, with the cookie sent or without a user.
LEMMA LeaveStep ==
    ASSUME HandlersInv, NEW k \in Handlers, req[k].at \in {"made", "attached"},
           req' = [req EXCEPT ![k] = Idle],
           \A b \in Browsers : cookie'[b] \in {cookie[b], sid[req[k].session]},
           UNCHANGED <<sessionVars, closed, netVars>>
    PROVE  Pointers'
<1> USE TablesAssumption DEF HandlersInv, Types
<1> DEFINE x == req[k].session
<1>1. /\ req'[k].at = "idle" /\ \A j \in Handlers \ {k} : req'[j] = req[j]
  BY DEF Idle
<1>2. MakerOK(k) /\ x \in used /\ x \in Sessions /\ sid[x] > 0
  BY DEF MakersInv, MakerOK, Making
<1>3. \A j \in Handlers : req'[j].at \in Making => j # k /\ req'[j] = req[j]
  BY <1>1 DEF Making
<1>4. \A s : Unmade(s) => Unmade(s)'
  BY <1>3 DEF Unmade
<1>5. \A s : Passed(s)' = Passed(s)
  BY DEF Passed, netVars
<1>6. ASSUME NEW j \in Handlers PROVE MakerOK(j)'
  <2>1. MakerOK(j)
    BY DEF MakersInv
  <2>2. CASE req'[j].at \in Making
    <3>1. j # k /\ req'[j] = req[j] /\ req[j].session \in Sessions
      BY <1>3, <2>1, <2>2 DEF MakerOK
    <3>2. req[j].session # x
      BY <1>2, <2>2, <3>1 DEF MakerOK, Making
    <3>3. req[j].at \in {"made", "attached"} =>
              \A b \in Browsers : cookie'[b] # sid[req[j].session]
      BY <1>2, <2>1, <2>2, <3>1, <3>2 DEF MakerOK, IdsInv
    <3>4. \A i \in Handlers : req'[i].at \in Making /\ req'[i].session = req[j].session => i = j
      BY <1>3, <2>1, <2>2, <3>1 DEF MakerOK
    <3> QED
      BY <1>5, <2>1, <2>2, <3>1, <3>3, <3>4 DEF MakerOK, sessionVars
  <2> QED
    BY <2>2 DEF MakerOK
<1>7. ASSUME NEW j \in Handlers PROVE HolderOK(j)'
  <2>1. CASE j = k
    BY <1>1, <2>1 DEF HolderOK, Holding
  <2>2. CASE j # k
    <3>1. HolderOK(j) /\ req'[j] = req[j]
      BY <1>1, <2>2 DEF HoldersInv
    <3> QED
      BY <1>4, <1>5, <3>1 DEF HolderOK, Needs, sessionVars
  <2> QED
    BY <2>1, <2>2
<1>8. IdsInv'
  <2>1. \A j \in Handlers : req[j].at \in {"new", "reset"} => req'[j] = req[j]
    BY <1>1
  <2>2. \A s \in used : sid[s] > 0 \/ \E j \in Handlers :
           req'[j].at \in {"new", "reset"} /\ req'[j].session = s
    BY <2>1 DEF IdsInv
  <2>3. \A b \in Browsers : cookie'[b] <= made
    BY <1>2 DEF IdsInv
  <2> QED
    BY <2>2, <2>3 DEF IdsInv, sessionVars
<1>9. RoundInv'
  BY DEF RoundInv, sessionVars, netVars
<1> QED
  BY <1>6, <1>7, <1>8, <1>9 DEF Pointers, MakersInv, HoldersInv

\* What a handler does with a request.
LEMMA HandlerMoves ==
    ASSUME HandlersInv, NEW k \in Handlers,
           HandlerStep(k) \/ \E b \in Browsers : SessionGet(k, b)
    PROVE  Pointers'
<1>1. ASSUME NEW a \in Accounts \cup {Guest}, UserLogin(k, a) PROVE Pointers'
  <2> DEFINE free == {u \in Users : refcount[u] < 0}
  <2>1. Taken(a) \in SUBSET Users /\ free \in SUBSET Users
    BY DEF Taken
  <2>2. /\ Taken(a) # {} => First(Taken(a)) \in Users
        /\ free # {} => First(free) \in Users
    BY <2>1, FirstUser
  <2>3. /\ req[k].at = "made"
        /\ UNCHANGED <<used, left, timeout, sid, made, browserVars, netVars>>
    BY <1>1 DEF UserLogin
  <2>4. CASE \E u \in Users : Attach(k, u)
    BY <2>3, <2>4, AttachStep
  <2>5. CASE req' = [req EXCEPT ![k] = Idle] /\ UNCHANGED userid
    BY <2>3, <2>5, LeaveStep DEF browserVars, sessionVars
  <2> QED
    BY <1>1, <2>2, <2>4, <2>5 DEF UserLogin
<1>2. CASE LoginDone(k)
  <2>1. \A b \in Browsers : cookie'[b] \in {cookie[b], sid[req[k].session]}
    BY <1>2 DEF LoginDone, HandlersInv, Types
  <2> QED
    BY <1>2, <2>1, LeaveStep DEF LoginDone
<1> QED
  BY <1>1, <1>2, QuietStep, GetStep, LogoutStep, NewStep, ResetStep, MakeStep DEF HandlerStep

\* The network thread looks at a session, or not yet.
LEMMA RoundStep ==
    ASSUME HandlersInv, StartRound \/ ExpireSession \/ SessionsDone \/ UsersCleanup
    PROVE  Pointers'
<1> USE TablesAssumption DEF HandlersInv, Types
<1>1. UNCHANGED <<sessionVars, browserVars, req>>
  BY DEF StartRound, ExpireSession, SessionsDone, UsersCleanup
<1>2. \A s : Unmade(s)' = Unmade(s)
  BY <1>1 DEF Unmade
<1>3. IdsInv'
  BY <1>1 DEF IdsInv, sessionVars, browserVars
<1>4. CASE StartRound
  <2>1. due /\ ~due' /\ round' = "sessions"
    BY <1>4 DEF StartRound
  <2>2. RoundInv'
    BY <2>1 DEF RoundInv
  <2>3. MakersInv'
    BY <1>1, <2>1 DEF MakersInv, MakerOK, Passed, sessionVars, browserVars
  <2>4. HoldersInv'
    BY <1>1, <1>2, <2>1 DEF HoldersInv, HolderOK, Passed, Needs, sessionVars
  <2> QED
    BY <1>3, <2>2, <2>3, <2>4 DEF Pointers
<1>5. CASE ~StartRound
  <2>1. round # "wait" /\ due' = due /\ todo' \subseteq todo
    BY <1>5 DEF ExpireSession, SessionsDone, UsersCleanup
  <2>2. \A s : Passed(s) => Passed(s)'
    BY <2>1 DEF Passed
  <2>3. RoundInv'
    <3>1. round' = "freeing" => todo' # {} /\ First(todo') \in used /\ left[First(todo')] < 0
      BY <1>5 DEF ExpireSession, SessionsDone, UsersCleanup
    <3> QED
      BY <1>1, <2>1, <3>1 DEF RoundInv, sessionVars
  <2>4. MakersInv'
    BY <1>1, <2>2 DEF MakersInv, MakerOK, sessionVars, browserVars
  <2>5. HoldersInv'
    BY <1>1, <1>2, <2>2 DEF HoldersInv, HolderOK, Needs, sessionVars
  <2> QED
    BY <1>3, <2>3, <2>4, <2>5 DEF Pointers
<1> QED
  BY <1>4, <1>5

\* The network thread frees a session whose time is over: nobody is making it, and who still
\* has it knows that it was logged out.
LEMMA FreeStep ==
    ASSUME HandlersInv, FreeSession
    PROVE  Pointers'
<1> USE TablesAssumption DEF HandlersInv, Types
<1> DEFINE x == First(todo)
<1>1. /\ round = "freeing" /\ round' = "sessions" /\ used' = used \ {x}
      /\ userid' = [userid EXCEPT ![x] = None] /\ todo' = todo \ {x}
      /\ UNCHANGED <<left, timeout, sid, made, userVars, browserVars, req, due>>
  BY DEF FreeSession
<1>2. x \in used /\ left[x] < 0 /\ x \in todo /\ x \in Sessions /\ ~due
  <2>1. todo # {} /\ x \in used /\ left[x] < 0 /\ ~due
    BY <1>1 DEF RoundInv
  <2> QED
    BY <2>1, FirstSession
<1> HIDE DEF x
<1>3. \A s : Unmade(s)' = Unmade(s)
  BY <1>1 DEF Unmade
<1>4. \A s : Passed(s) => Passed(s)'
  BY <1>1 DEF Passed
<1>5. ASSUME NEW j \in Handlers PROVE MakerOK(j)'
  <2>1. MakerOK(j)
    BY DEF MakersInv
  <2>2. req[j].at \in Making => req[j].session # x /\ req[j].session \in Sessions
    BY <1>2, <2>1 DEF MakerOK, Passed
  <2>3. req[j].at \in Making => userid'[req[j].session] = userid[req[j].session]
    BY <1>1, <2>2
  <2> QED
    BY <1>1, <1>4, <2>1, <2>2, <2>3 DEF MakerOK, browserVars
<1>6. ASSUME NEW j \in Handlers PROVE HolderOK(j)'
  <2>1. HolderOK(j)
    BY DEF HoldersInv
  <2>2. Needs(req[j]) >= 0
    BY DEF Needs, Requests
  <2>3. CASE req[j].session # x
    <3>1. req[j].session \in Sessions => userid'[req[j].session] = userid[req[j].session]
      BY <1>1, <2>3
    <3> QED
      BY <1>1, <1>3, <1>4, <2>1, <2>3, <3>1 DEF HolderOK, Needs
  <2>4. CASE req[j].session = x
    <3>1. x \notin todo' /\ ~due'
      BY <1>1, <1>2
    <3>2. req[j].at \in Holding => ~req[j].valid
      <4>1. Needs(req[j]) \in Int
        BY DEF Needs, Requests
      <4> QED
        BY <1>2, <2>1, <2>2, <2>4, <4>1 DEF HolderOK
    <3>3. Passed(req[j].session)'
      BY <1>1, <2>4, <3>1 DEF Passed
    <3> QED
      BY <1>1, <2>1, <3>2, <3>3 DEF HolderOK
  <2> QED
    BY <2>3, <2>4
<1>7. IdsInv'
  <2>1. \A s \in Sessions : s # x => userid'[s] = userid[s]
    BY <1>1
  <2>2. userid'[x] = None
    BY <1>1, <1>2
  <2> QED
    BY <1>1, <2>1, <2>2 DEF IdsInv, browserVars
<1>8. RoundInv'
  BY <1>1, <1>2 DEF RoundInv
<1> QED
  BY <1>5, <1>6, <1>7, <1>8 DEF Pointers, MakersInv, HoldersInv

\* Time passes when only polls are under way, and a poll's session has time for it.
LEMMA TickStep ==
    ASSUME HandlersInv, Tick
    PROVE  Pointers'
<1> USE TablesAssumption DEF HandlersInv, Types
<1>1. /\ round = "wait"
      /\ UNCHANGED <<used, timeout, userid, sid, made, userVars, browserVars, round, todo>>
      /\ \A s \in Sessions : left'[s] = IF left[s] >= 0 THEN left[s] - 1 ELSE -1
  BY DEF Tick
<1>2. ASSUME NEW j \in Handlers
      PROVE  /\ req[j].at \in {"idle", "polling"} /\ req'[j].at = req[j].at
             /\ req'[j].session = req[j].session /\ req'[j].user = req[j].user
             /\ req'[j].valid = req[j].valid
             /\ req[j].at = "polling" => req[j].nap > 0 /\ req'[j].nap = req[j].nap - 1
  BY DEF Tick, Requests
<1>3. \A j \in Handlers : req'[j].at \notin Making
  BY <1>2 DEF Making
<1>4. \A s : Unmade(s)'
  BY <1>3 DEF Unmade
<1>5. ASSUME NEW j \in Handlers PROVE HolderOK(j)'
  <2>1. HolderOK(j)
    BY DEF HoldersInv
  <2>2. CASE req[j].at = "idle"
    BY <1>2, <2>2 DEF HolderOK, Holding
  <2>3. CASE req[j].at = "polling"
    <3>1. req[j].session \in Sessions /\ sid[req[j].session] > 0
      BY <2>1, <2>3 DEF HolderOK, Holding
    <3>2. req[j].valid => left[req[j].session] >= req[j].nap + TTL - LongPoll
      BY <2>1, <2>3 DEF HolderOK, Holding, Needs
    <3>3. req[j].nap > 0 /\ req'[j].nap = req[j].nap - 1 /\ req[j].nap \in Int
      BY <1>2, <2>3 DEF Requests
    <3>4. req[j].valid => left'[req[j].session] >= req'[j].nap + TTL - LongPoll
      BY <1>1, <3>1, <3>2, <3>3
    <3> QED
      BY <1>1, <1>2, <1>4, <2>1, <2>3, <3>1, <3>4 DEF HolderOK, Holding, Needs
  <2> QED
    BY <1>2, <2>2, <2>3
<1>6. IdsInv'
  BY <1>1, <1>2 DEF IdsInv, browserVars
<1>7. RoundInv'
  BY <1>1 DEF RoundInv
<1>8. MakersInv'
  BY <1>3 DEF MakersInv, MakerOK
<1> QED
  BY <1>5, <1>6, <1>7, <1>8 DEF Pointers, HoldersInv

LEMMA HandlersStep ==
    ASSUME HandlersInv, [Next]_vars
    PROVE  HandlersInv'
<1>1. ASSUME NEW k \in Handlers, HandlerStep(k) \/ \E b \in Browsers : SessionGet(k, b)
      PROVE  Pointers'
  BY <1>1, HandlerMoves
<1>2. ASSUME NetStep PROVE Pointers'
  BY <1>2, RoundStep, FreeStep DEF NetStep
<1>3. ASSUME (\E b \in Browsers : Close(b)) \/ UNCHANGED vars PROVE Pointers'
  <2>1. UNCHANGED <<sessionVars, cookie, req, netVars>>
    BY <1>3 DEF Close, vars, browserVars
  <2>2. IdsInv'
    BY <2>1 DEF HandlersInv, IdsInv, sessionVars
  <2>3. RoundInv'
    BY <2>1 DEF HandlersInv, RoundInv, sessionVars, netVars
  <2>4. MakersInv'
    BY <2>1 DEF HandlersInv, MakersInv, MakerOK, Passed, sessionVars, netVars
  <2>5. HoldersInv'
    BY <2>1 DEF HandlersInv, HoldersInv, HolderOK, Passed, Unmade, Needs, sessionVars, netVars
  <2> QED
    BY <2>2, <2>3, <2>4, <2>5 DEF Pointers
<1>4. Pointers'
  BY <1>1, <1>2, <1>3, TickStep DEF Next
<1> QED
  BY <1>4, TypesStep DEF Pointers, HandlersInv

-----------------------------------------------------------------------------
(* The sessions made.                                                      *)

\* A handler's step leaves what the others do and with which session.
LEMMA OthersMaking ==
    ASSUME HandlersInv, NEW k \in Handlers,
           HandlerStep(k) \/ \E b \in Browsers : SessionGet(k, b)
    PROVE  \A j \in Handlers \ {k} : req'[j].at = req[j].at /\ req'[j].session = req[j].session
<1>1. Types
  BY DEF HandlersInv
<1>2. \A j \in Handlers : \A r : r = [req[j] EXCEPT !.valid = FALSE] =>
          r.at = req[j].at /\ r.session = req[j].session
  BY <1>1 DEF Types, Requests
<1> QED
  BY <1>1, <1>2, OthersStay

LEMMA SessionGetMoves ==
    ASSUME HandlersInv, NEW k \in Handlers, NEW b, SessionGet(k, b)
    PROVE  made' = made /\ req[k].at = "idle" /\ req'[k].at \in {"found", "stranger"}
<1> USE DEF HandlersInv, Types
<1>1. ASSUME NEW x, req' = [req EXCEPT ![k] = [Idle EXCEPT !.at = "found", !.browser = b, !.session = x]]
      PROVE  req'[k].at = "found"
  BY <1>1 DEF Idle
<1>2. ASSUME req' = [req EXCEPT ![k] = [Idle EXCEPT !.at = "stranger", !.browser = b]]
      PROVE  req'[k].at = "stranger"
  BY <1>2 DEF Idle
<1> QED
  BY <1>1, <1>2 DEF SessionGet

LEMMA UserLoginMoves ==
    ASSUME HandlersInv, NEW k \in Handlers, NEW a, UserLogin(k, a)
    PROVE  made' = made /\ req[k].at = "made" /\ req'[k].at \in {"attached", "idle"}
<1> USE DEF HandlersInv, Types
<1>1. ASSUME NEW u, Attach(k, u) PROVE req'[k].at = "attached"
  BY <1>1 DEF Attach, Requests
<1>2. ASSUME req' = [req EXCEPT ![k] = Idle] PROVE req'[k].at = "idle"
  BY <1>2 DEF Idle
<1>3. (\E u : Attach(k, u)) \/ req' = [req EXCEPT ![k] = Idle]
  BY DEF UserLogin
<1> QED
  BY <1>1, <1>2, <1>3 DEF UserLogin

\* What a step does to the sessions that are being made.
LEMMA NumberingStays ==
    ASSUME HandlersInv, [Next]_vars,
           ~ \E k \in Handlers : SessionNew(k) \/ SessionMake(k)
    PROVE  Numbering' = Numbering /\ made' = made
<1> USE DEF HandlersInv, Types
<1>1. ASSUME NEW k \in Handlers, HandlerStep(k) \/ \E b \in Browsers : SessionGet(k, b)
      PROVE  Numbering' = Numbering /\ made' = made
  <2>1. \A j \in Handlers \ {k} : req'[j].at = req[j].at
    BY <1>1, OthersMaking
  <2>2. /\ made' = made
        /\ req[k].at \in {"new", "reset"} <=> req'[k].at \in {"new", "reset"}
    <3>1. ASSUME NEW b \in Browsers, SessionGet(k, b)
          PROVE  /\ made' = made
                 /\ req[k].at \in {"new", "reset"} <=> req'[k].at \in {"new", "reset"}
      <4>1. made' = made /\ req[k].at = "idle" /\ req'[k].at \in {"found", "stranger"}
        BY <3>1, SessionGetMoves
      <4> QED
        BY <4>1
    <3>2. ASSUME NEW a \in Accounts \cup {Guest}, UserLogin(k, a)
          PROVE  /\ made' = made
                 /\ req[k].at \in {"new", "reset"} <=> req'[k].at \in {"new", "reset"}
      <4>1. made' = made /\ req[k].at = "made" /\ req'[k].at \in {"attached", "idle"}
        BY <3>2, UserLoginMoves
      <4> QED
        BY <4>1
    <3>3. CASE UserGet(k)
      <4>1. req[k].at = "found" /\ req'[k].at \in {"using", "stranger"} /\ made' = made
        BY <3>3 DEF UserGet, sessionVars
      <4> QED
        BY <4>1
    <3>6. CASE Poll(k) \/ SessionReset(k)
      BY <3>6 DEF Poll, SessionReset, Advance, Requests, sessionVars
    <3>4. CASE PollEnds(k) \/ Done(k) \/ LoginDone(k)
      BY <3>4 DEF PollEnds, Done, LoginDone, Idle, sessionVars
    <3>5. CASE Logout(k)
      BY <3>5 DEF Logout, Idle
    <3> QED
      BY <1>1, <3>1, <3>2, <3>3, <3>4, <3>5, <3>6 DEF HandlerStep
  <2> QED
    BY <2>1, <2>2 DEF Numbering
<1>2. CASE Tick
  BY <1>2 DEF Tick, Numbering
<1>3. CASE NetStep \/ (\E b \in Browsers : Close(b)) \/ UNCHANGED vars
  <2>1. UNCHANGED <<req, made>>
    BY <1>3 DEF NetStep, StartRound, ExpireSession, FreeSession, SessionsDone, UsersCleanup,
                Close, vars, sessionVars
  <2> QED
    BY <2>1 DEF Numbering
<1> QED
  BY <1>1, <1>2, <1>3 DEF Next

LEMMA LoginsStep ==
    ASSUME HandlersInv, LoginsInv, [Next]_vars
    PROVE  LoginsInv'
<1> USE TablesAssumption DEF HandlersInv, Types
<1>1. Numbering \in SUBSET Handlers
  BY DEF Numbering
<1>2. IsFiniteSet(Numbering)
  BY <1>1, FS_Subset
<1>3. Cardinality(Numbering) \in Nat
  BY <1>2, FS_CardinalityType
<1>4. ASSUME NEW k \in Handlers, SessionNew(k) PROVE LoginsInv'
  <2>1. made + Cardinality(Numbering) < MaxLogins /\ made' = made /\ req[k].at = "stranger"
    BY <1>4 DEF SessionNew, Numbering
  <2>2. \A j \in Handlers \ {k} : req'[j] = req[j]
    BY <1>4 DEF SessionNew
  <2>3. Numbering' = Numbering \/ Numbering' = Numbering \cup {k}
    <3>1. CASE req'[k].at \in {"new", "reset"}
      BY <2>2, <3>1 DEF Numbering
    <3>2. CASE req'[k].at \notin {"new", "reset"}
      <4>1. k \notin Numbering
        BY <2>1 DEF Numbering
      <4> QED
        BY <2>2, <3>2, <4>1 DEF Numbering
    <3> QED
      BY <3>1, <3>2
  <2>4. k \notin Numbering
    BY <2>1 DEF Numbering
  <2>5. Cardinality(Numbering \cup {k}) = Cardinality(Numbering) + 1
    BY <1>2, <2>4, FS_AddElement
  <2>6. CASE Numbering' = Numbering
    BY <1>3, <2>1, <2>6 DEF LoginsInv
  <2>7. CASE Numbering' = Numbering \cup {k}
    BY <1>3, <2>1, <2>5, <2>7 DEF LoginsInv
  <2> QED
    BY <2>3, <2>6, <2>7
<1>5. ASSUME NEW k \in Handlers, SessionMake(k) PROVE LoginsInv'
  <2>1. req[k].at = "reset" /\ req'[k].at = "made" /\ made' = made + 1
    BY <1>5 DEF SessionMake, Advance
  <2>2. \A j \in Handlers \ {k} : req'[j] = req[j]
    BY <1>5 DEF SessionMake, Advance
  <2>3. Numbering' = Numbering \ {k} /\ k \in Numbering
    BY <2>1, <2>2 DEF Numbering
  <2>4. Cardinality(Numbering \ {k}) = Cardinality(Numbering) - 1
    BY <1>2, <2>3, FS_RemoveElement
  <2> QED
    BY <1>3, <2>1, <2>3, <2>4 DEF LoginsInv
<1> QED
  BY <1>4, <1>5, NumberingStays DEF LoginsInv

-----------------------------------------------------------------------------
(* The references.                                                         *)

\* The sessions of a user are no more than there are.
LEMMA CountedFinite ==
    ASSUME Types, NEW u
    PROVE  /\ IsFiniteSet(Counted(u)) /\ Cardinality(Counted(u)) \in Nat
           /\ Cardinality(Counted(u)) <= MaxSessions
<1>1. Counted(u) \in SUBSET Sessions
  BY DEF Types, Counted
<1>2. IsFiniteSet(Sessions) /\ Cardinality(Sessions) = MaxSessions
  BY TablesAssumption, FS_Interval DEF Sessions
<1> QED
  BY <1>1, <1>2, FS_Subset, FS_CardinalityType

\* Which sessions are being made, when handlers do something else.
LEMMA BeingMadeSame ==
    ASSUME \A j \in Handlers : /\ req'[j].at = "new" <=> req[j].at = "new"
                               /\ req[j].at = "new" => req'[j].session = req[j].session
    PROVE  BeingMade' = BeingMade
BY DEF BeingMade

\* A session that is being made is not about to be freed.
LEMMA MakerNotFreed ==
    ASSUME HandlersInv, NEW k \in Handlers, req[k].at \in Making,
           round \in {"sessions", "freeing"}, todo # {}, req[k].session = First(todo)
    PROVE  left[req[k].session] >= 0
<1>1. First(todo) \in todo
  BY FirstSession DEF HandlersInv, Types
<1> QED
  BY <1>1, TablesAssumption DEF HandlersInv, MakersInv, MakerOK, Passed

\* A step that changes no reference, no session's user, and not what the network thread frees.
LEMMA RefsSame ==
    ASSUME RefsInv, UNCHANGED <<used, userid, refcount>>, BeingMade' = BeingMade,
           (round # "freeing" /\ round' # "freeing") \/ UNCHANGED <<round, todo>>
    PROVE  RefsInv'
<1>1. \A u \in Users : Counted(u)' = Counted(u)
  BY DEF Counted
<1> QED
  BY <1>1 DEF RefsInv, RefsCounted

LEMMA QuietRefs ==
    ASSUME HandlersInv, RefsInv, NEW k \in Handlers,
           \/ UserGet(k) \/ Poll(k) \/ PollEnds(k) \/ Done(k) \/ SessionMake(k) \/ LoginDone(k)
           \/ \E b \in Browsers : SessionGet(k, b)
    PROVE  RefsInv'
<1> USE DEF HandlersInv, Types
<1>1. UNCHANGED <<used, userid, refcount, round, todo>>
  BY DEF UserGet, Poll, PollEnds, Done, SessionMake, LoginDone, SessionGet, sessionVars,
         userVars, netVars
<1>2. req[k].at # "new" /\ req'[k].at # "new"
  <2>1. CASE UserGet(k)
    <3>1. req[k].at = "found" /\ req'[k].at \in {"using", "stranger"}
      BY <2>1 DEF UserGet
    <3> QED
      BY <3>1
  <2>4. CASE Poll(k) \/ SessionMake(k)
    BY <2>4 DEF Poll, SessionMake, Advance, Requests
  <2>2. CASE PollEnds(k) \/ Done(k) \/ LoginDone(k)
    BY <2>2 DEF PollEnds, Done, LoginDone, Idle
  <2>3. ASSUME NEW b \in Browsers, SessionGet(k, b) PROVE req[k].at # "new" /\ req'[k].at # "new"
    <3>1. req[k].at = "idle" /\ req'[k].at \in {"found", "stranger"}
      BY <2>3, SessionGetMoves
    <3> QED
      BY <3>1
  <2> QED
    BY <2>1, <2>2, <2>3, <2>4
<1>3. BeingMade' = BeingMade
  <2>1. HandlerStep(k) \/ \E b \in Browsers : SessionGet(k, b)
    BY DEF HandlerStep
  <2> QED
    BY <1>2, <2>1, OthersMaking, BeingMadeSame
<1> QED
  BY <1>1, <1>3, RefsSame

\* A logout counts for nobody when the session has been freed already.
LEMMA LogoutRefs ==
    ASSUME HandlersInv, RefsInv, NEW k \in Handlers, Logout(k)
    PROVE  RefsInv'
<1> USE DEF HandlersInv, Types
<1> DEFINE x == req[k].session
<1>1. /\ req[k].at = "using" /\ round # "freeing" /\ used' = used \cup {x}
      /\ UNCHANGED <<userid, refcount, round, todo>>
  BY DEF Logout, SessionsFree, userVars, netVars
<1>2. x \in Sessions /\ (x \in used \/ userid[x] = None)
  BY <1>1 DEF HoldersInv, HolderOK, Holding, IdsInv
<1>3. BeingMade' = BeingMade
  <2>1. req'[k].at = "idle"
    BY DEF Logout, Idle
  <2> QED
    BY <1>1, <2>1, OthersMaking, BeingMadeSame DEF HandlerStep
<1>4. ASSUME NEW u \in Users PROVE Counted(u)' = Counted(u)
  <2>1. u # None
    BY TablesAssumption DEF Users, None
  <2> HIDE DEF x
  <2> QED
    BY <1>1, <1>2, <1>3, <2>1 DEF Counted
<1> QED
  BY <1>1, <1>4 DEF RefsInv, RefsCounted

\* A session that is taken does not count before it has lost its old user.
LEMMA NewRefs ==
    ASSUME HandlersInv, RefsInv, NEW k \in Handlers, SessionNew(k)
    PROVE  RefsInv'
<1> USE DEF HandlersInv, Types
<1> DEFINE x == First(Sessions \ used)
<1>1. /\ req[k].at = "stranger" /\ round # "freeing" /\ round' # "freeing"
      /\ UNCHANGED <<userid, refcount>>
      /\ \A j \in Handlers \ {k} : req'[j] = req[j]
  BY DEF SessionNew, SessionsFree, userVars, netVars
<1>2. CASE Sessions \ used = {}
  <2>1. used' = used /\ req'[k].at = "idle"
    BY <1>2 DEF SessionNew, Idle
  <2> QED
    BY <1>1, <2>1, BeingMadeSame, RefsSame
<1>3. CASE Sessions \ used # {}
  <2>1. used' = used \cup {x} /\ req'[k].at = "new" /\ req'[k].session = x
    <3>1. /\ used' = used \cup {x}
          /\ req' = [req EXCEPT ![k] = [req[k] EXCEPT !.at = "new", !.session = x, !.valid = TRUE]]
      BY <1>3 DEF SessionNew
    <3> HIDE DEF x
    <3> QED
      BY <3>1 DEF Requests
  <2>2. x \notin used
    <3>1. Sessions \ used \in SUBSET Sessions
      OBVIOUS
    <3> QED
      BY <1>3, <3>1, FirstSession
  <2> HIDE DEF x
  <2>3. BeingMade' = BeingMade \cup {x}
    BY <1>1, <2>1 DEF BeingMade
  <2>4. \A u \in Users : Counted(u)' = Counted(u)
    BY <1>1, <2>1, <2>2, <2>3 DEF Counted
  <2> QED
    BY <1>1, <2>4 DEF RefsInv, RefsCounted
<1> QED
  BY <1>2, <1>3

LEMMA ResetRefs ==
    ASSUME HandlersInv, RefsInv, NEW k \in Handlers, SessionReset(k)
    PROVE  RefsInv'
<1> USE DEF HandlersInv, Types
<1> DEFINE x == req[k].session
<1>1. /\ req[k].at = "new" /\ userid' = [userid EXCEPT ![x] = None]
      /\ req'[k].at = "reset" /\ req'[k].session = x
      /\ \A j \in Handlers \ {k} : req'[j] = req[j]
      /\ UNCHANGED <<used, refcount, round, todo>>
  BY DEF SessionReset, Advance, Requests, userVars, netVars
<1>2. x \in used /\ x \in BeingMade /\ \A j \in Handlers \ {k} : req[j].at = "new" => req[j].session # x
  BY <1>1 DEF MakersInv, MakerOK, Making, BeingMade
<1>3. BeingMade' = BeingMade \ {x}
  BY <1>1, <1>2 DEF BeingMade
<1>4. ASSUME NEW u \in Users PROVE Counted(u)' = Counted(u)
  <2>1. u # None
    BY TablesAssumption DEF Users, None
  <2>2. userid'[x] = None /\ \A s \in Sessions : s # x => userid'[s] = userid[s]
    BY <1>1, <1>2
  <2> HIDE DEF x
  <2> QED
    BY <1>1, <1>2, <1>3, <2>1, <2>2 DEF Counted
<1> QED
  BY <1>1, <1>4 DEF RefsInv, RefsCounted

\* The session that a login has made counts for the user it gets.
LEMMA LoginRefs ==
    ASSUME HandlersInv, RefsInv, NEW k \in Handlers, NEW a \in Accounts \cup {Guest}, UserLogin(k, a)
    PROVE  RefsInv'
<1> USE DEF HandlersInv, Types
<1> DEFINE x == req[k].session
           free == {u \in Users : refcount[u] < 0}
<1>1. req[k].at = "made" /\ UNCHANGED <<used, round, todo>>
  BY DEF UserLogin, netVars
<1>2. BeingMade' = BeingMade
  <2>1. req'[k].at # "new"
    BY UserLoginMoves
  <2> QED
    BY <1>1, <2>1, OthersMaking, BeingMadeSame DEF HandlerStep
<1>3. ASSUME NEW u \in Users, Attach(k, u),
             refcount' = [refcount EXCEPT ![u] = IF refcount[u] > 0 THEN refcount[u] + 1 ELSE 1]
      PROVE  RefsInv'
  <2>1. /\ x \in used /\ userid[x] = None /\ x \notin BeingMade
        /\ ~(round = "freeing" /\ x = First(todo))
    <3>1. MakerOK(k)
      BY DEF MakersInv
    <3>2. round = "freeing" => todo # {} /\ left[First(todo)] < 0
      BY DEF RoundInv
    <3>3. ~(round = "freeing" /\ x = First(todo))
      <4>1. x \in Sessions
        BY <1>1, <3>1 DEF MakerOK, Making
      <4>2. left[x] \in Int
        BY <4>1
      <4> QED
        BY <1>1, <3>2, <4>2, MakerNotFreed DEF Making
    <3> QED
      BY <1>1, <3>1, <3>3 DEF MakerOK, Making, BeingMade
  <2>2. userid' = [userid EXCEPT ![x] = u]
    BY <1>3 DEF Attach
  <2> HIDE DEF x
  <2>3. x \in Sessions /\ userid'[x] = u /\ \A s \in Sessions : s # x => userid'[s] = userid[s]
    BY <2>1, <2>2
  <2>4. None \notin Users
    BY TablesAssumption DEF Users, None
  <2>5. Counted(u)' = Counted(u) \cup {x} /\ x \notin Counted(u)
    BY <1>1, <1>2, <2>1, <2>3, <2>4 DEF Counted
  <2>6. \A v \in Users : v # u => Counted(v)' = Counted(v)
    BY <1>1, <1>2, <2>1, <2>3, <2>4 DEF Counted
  <2>7. Cardinality(Counted(u) \cup {x}) = Cardinality(Counted(u)) + 1
    BY <2>5, CountedFinite, FS_AddElement
  <2>8. Cardinality(Counted(u)') = IF refcount'[u] > 0 THEN refcount'[u] ELSE 0
    BY <1>3, <2>5, <2>7 DEF RefsInv, RefsCounted
  <2>9. ASSUME NEW v \in Users, v # u
        PROVE  Cardinality(Counted(v)') = IF refcount'[v] > 0 THEN refcount'[v] ELSE 0
    BY <1>3, <2>6, <2>9 DEF RefsInv, RefsCounted
  <2>10. \A v \in Users : refcount'[v] >= -1
    BY <1>3 DEF RefsInv
  <2> QED
    BY <2>8, <2>9, <2>10 DEF RefsInv, RefsCounted
<1>4. Taken(a) \in SUBSET Users /\ free \in SUBSET Users
  BY DEF Taken
<1>5. CASE Taken(a) # {}
  <2> DEFINE u == First(Taken(a))
  <2>1. u \in Taken(a)
    BY <1>4, <1>5, FirstUser
  <2>2. Attach(k, u) /\ refcount' = [refcount EXCEPT ![u] = refcount[u] + 1]
    BY <1>5 DEF UserLogin, Joined
  <2>3. u \in Users /\ refcount[u] > 0
    BY <2>1 DEF Taken
  <2> HIDE DEF u
  <2> QED
    BY <1>3, <2>2, <2>3
<1>6. CASE Taken(a) = {} /\ free # {}
  <2> DEFINE u == First(free)
  <2>1. u \in free
    BY <1>4, <1>6, FirstUser
  <2>2. Attach(k, u) /\ refcount' = [refcount EXCEPT ![u] = 1]
    BY <1>6 DEF UserLogin
  <2>3. u \in Users /\ ~(refcount[u] > 0)
    BY <2>1
  <2> HIDE DEF u
  <2> QED
    BY <1>3, <2>2, <2>3
<1>7. CASE Taken(a) = {} /\ free = {}
  <2>1. UNCHANGED <<userid, refcount>>
    BY <1>7 DEF UserLogin, userVars
  <2> QED
    BY <1>1, <1>2, <2>1, RefsSame
<1> QED
  BY <1>5, <1>6, <1>7

\* sessions_expire takes a reference for each session that it frees, and no other.
LEMMA ExpireRefs ==
    ASSUME HandlersInv, RefsInv, ExpireSession
    PROVE  RefsInv'
<1> USE DEF HandlersInv, Types
<1> DEFINE x == First(todo)
<1>1. /\ round = "sessions" /\ todo # {} /\ UNCHANGED <<used, userid, req>>
      /\ BeingMade' = BeingMade
  BY DEF ExpireSession, sessionVars, BeingMade
<1>2. x \in todo /\ x \in Sessions
  BY <1>1, FirstSession
<1>3. CASE x \in used /\ left[x] < 0
  <2>1. /\ round' = "freeing" /\ todo' = todo
        /\ refcount' = [u \in Users |-> refcount[u] - Expired(x, u)]
    BY <1>3 DEF ExpireSession
  <2>2. x \notin BeingMade
    <3>1. ASSUME NEW k \in Handlers, req[k].at = "new", req[k].session = x PROVE FALSE
      <4>1. left[x] \in Int
        BY <1>2
      <4> QED
        BY <1>1, <1>3, <3>1, <4>1, MakerNotFreed DEF Making
    <3> QED
      BY <3>1 DEF BeingMade
  <2>3. First(todo') = x
    BY <2>1
  <2>4. ASSUME NEW u \in Users
        PROVE  /\ Cardinality(Counted(u)') = IF refcount'[u] > 0 THEN refcount'[u] ELSE 0
               /\ refcount'[u] >= -1
    <3>1. Counted(u)' = Counted(u) \ {x}
      <4> HIDE DEF x
      <4> QED
        BY <1>1, <2>1, <2>3 DEF Counted
    <3>2. CASE u = userid[x]
      <4>1. x \in Counted(u)
        <5> HIDE DEF x
        <5> QED
          BY <1>1, <1>3, <2>2, <3>2 DEF Counted
      <4>2. Cardinality(Counted(u) \ {x}) = Cardinality(Counted(u)) - 1
        BY <4>1, CountedFinite, FS_RemoveElement
      <4>3. Cardinality(Counted(u)) > 0
        BY <4>1, CountedFinite, FS_EmptySet
      <4>4. refcount'[u] = refcount[u] - 1
        BY <2>1, <3>2 DEF Expired
      <4>5. Cardinality(Counted(u)) = IF refcount[u] > 0 THEN refcount[u] ELSE 0
        BY DEF RefsInv, RefsCounted
      <4> QED
        BY <3>1, <4>2, <4>3, <4>4, <4>5
    <3>3. CASE u # userid[x]
      <4>1. Counted(u)' = Counted(u)
        <5> HIDE DEF x
        <5> QED
          BY <3>1, <3>3 DEF Counted
      <4>2. refcount'[u] = refcount[u]
        BY <2>1, <3>3 DEF Expired
      <4> QED
        BY <4>1, <4>2 DEF RefsInv, RefsCounted
    <3> QED
      BY <3>2, <3>3
  <2> QED
    BY <2>4 DEF RefsInv, RefsCounted
<1>4. CASE ~(x \in used /\ left[x] < 0)
  <2>1. round' = round /\ refcount' = refcount
    BY <1>4 DEF ExpireSession
  <2> QED
    BY <1>1, <2>1, RefsSame
<1> QED
  BY <1>3, <1>4

LEMMA FreeRefs ==
    ASSUME HandlersInv, RefsInv, FreeSession
    PROVE  RefsInv'
<1> USE DEF HandlersInv, Types
<1> DEFINE x == First(todo)
<1>1. /\ round = "freeing" /\ round' = "sessions" /\ used' = used \ {x}
      /\ userid' = [userid EXCEPT ![x] = None] /\ UNCHANGED <<refcount, req>>
      /\ BeingMade' = BeingMade
  BY DEF FreeSession, userVars, BeingMade
<1>2. \A s \in Sessions : s # x => userid'[s] = userid[s]
  BY <1>1
<1>3. \A u \in Users : Counted(u)' = Counted(u)
  <2>1. \A u : Counted(u) = {s \in used \ BeingMade : userid[s] = u /\ s # x}
    BY <1>1 DEF Counted
  <2>2. \A u : Counted(u)' = {s \in used' \ BeingMade : userid'[s] = u}
    BY <1>1 DEF Counted
  <2> HIDE DEF x
  <2> QED
    BY <1>1, <1>2, <2>1, <2>2
<1> QED
  BY <1>1, <1>3 DEF RefsInv, RefsCounted

LEMMA RefsStep ==
    ASSUME HandlersInv, RefsInv, [Next]_vars
    PROVE  RefsInv'
<1>1. ASSUME NEW k \in Handlers, HandlerStep(k) \/ \E b \in Browsers : SessionGet(k, b)
      PROVE  RefsInv'
  BY <1>1, QuietRefs, LogoutRefs, NewRefs, ResetRefs, LoginRefs DEF HandlerStep
<1>2. ASSUME StartRound \/ SessionsDone PROVE RefsInv'
  <2>1. /\ UNCHANGED <<used, userid, refcount>> /\ BeingMade' = BeingMade
        /\ round # "freeing" /\ round' # "freeing"
    BY <1>2 DEF StartRound, SessionsDone, sessionVars, userVars, BeingMade
  <2> QED
    BY <2>1, RefsSame
<1>3. ASSUME UsersCleanup PROVE RefsInv'
  <2>1. /\ UNCHANGED <<used, userid>> /\ BeingMade' = BeingMade
        /\ round # "freeing" /\ round' # "freeing"
        /\ refcount' = [u \in Users |-> IF refcount[u] = 0 THEN -1 ELSE refcount[u]]
    BY <1>3 DEF UsersCleanup, sessionVars, BeingMade
  <2>2. \A u \in Users : Counted(u)' = Counted(u)
    BY <2>1 DEF Counted
  <2> QED
    BY <2>1, <2>2 DEF RefsInv, RefsCounted, HandlersInv, Types
<1>4. ASSUME Tick \/ (\E b \in Browsers : Close(b)) \/ UNCHANGED vars PROVE RefsInv'
  <2>1. UNCHANGED <<used, userid, refcount, round, todo>>
    BY <1>4 DEF Tick, Close, vars, sessionVars, userVars, netVars
  <2>2. CASE Tick
    BY <2>1, <2>2, BeingMadeSame, RefsSame DEF Tick
  <2>3. CASE req' = req
    BY <2>1, <2>3, RefsSame DEF BeingMade
  <2> QED
    BY <1>4, <2>2, <2>3 DEF Close, vars
<1> QED
  BY <1>1, <1>2, <1>3, <1>4, ExpireRefs, FreeRefs DEF Next, NetStep

-----------------------------------------------------------------------------
(* The theorems.                                                           *)

LEMMA LifeInit == Init => LifeInv
<1> SUFFICES ASSUME Init PROVE LifeInv
  OBVIOUS
<1> USE TablesAssumption
<1>1. \A k \in Handlers : req[k].at = "idle"
  BY DEF Init, Idle
<1>2. Types
  <2>1. req \in [Handlers -> Requests]
    BY IdleType DEF Init
  <2>2. left \in [Sessions -> -1 .. TTL] /\ timeout \in [Sessions -> {0, TTL}]
    BY DEF Init
  <2>3. userid \in [Sessions -> Users \cup {None}]
    BY DEF Init, Users
  <2>4. refcount \in [Users -> Int] /\ account \in [Users -> Accounts \cup {Guest}]
    BY DEF Init
  <2> QED
    BY <2>1, <2>2, <2>3, <2>4 DEF Init, Types
<1>3. IdsInv
  BY DEF Init, IdsInv
<1>4. RoundInv
  BY DEF Init, RoundInv
<1>5. MakersInv /\ HoldersInv
  BY <1>1 DEF MakersInv, MakerOK, HoldersInv, HolderOK, Making, Holding
<1>6. LoginsInv
  <2>1. Numbering = {}
    BY <1>1 DEF Numbering
  <2>2. Cardinality({}) = 0
    BY FS_EmptySet
  <2> QED
    BY <2>1, <2>2 DEF LoginsInv, Init
<1>7. RefsInv
  <2>1. \A u \in Users : Counted(u) = {} /\ refcount[u] = -1
    BY DEF Counted, Init
  <2>2. Cardinality({}) = 0
    BY FS_EmptySet
  <2> QED
    BY <2>1, <2>2 DEF RefsInv, RefsCounted
<1> QED
  BY <1>2, <1>3, <1>4, <1>5, <1>6, <1>7 DEF LifeInv, HandlersInv

LEMMA LifeIsInvariant == Spec => []LifeInv
<1>1. LifeInv /\ [Next]_vars => LifeInv'
  BY HandlersStep, LoginsStep, RefsStep DEF LifeInv
<1> QED
  BY <1>1, LifeInit, PTL DEF Spec

\* The tables keep their types, in every state, and no session id, cookie or reference count
\* goes past what the tables and the number of logins allow (sessions.c, users.c).
THEOREM LifecycleTypes == Spec => []TypeOK
<1>1. ASSUME LifeInv PROVE TypeOK
  <2> USE <1>1, TablesAssumption DEF LifeInv, HandlersInv
  <2>1. made <= MaxLogins
    <3>1. Numbering \in SUBSET Handlers
      BY DEF Numbering
    <3>2. Cardinality(Numbering) \in Nat
      BY <3>1, FS_Subset, FS_CardinalityType
    <3> QED
      BY <3>2 DEF LoginsInv, Types
  <2>2. sid \in [Sessions -> 0 .. MaxLogins] /\ cookie \in [Browsers -> 0 .. MaxLogins]
    BY <2>1 DEF IdsInv, Types
  <2>3. refcount \in [Users -> -1 .. MaxSessions]
    <3>1. ASSUME NEW u \in Users PROVE refcount[u] \in -1 .. MaxSessions
      <4>1. refcount[u] \in Int /\ refcount[u] >= -1
        BY DEF Types, RefsInv
      <4>2. Cardinality(Counted(u)) <= MaxSessions
        BY CountedFinite
      <4> QED
        BY <4>1, <4>2 DEF RefsInv, RefsCounted
    <3> QED
      BY <3>1 DEF Types
  <2> QED
    BY <2>1, <2>2, <2>3 DEF Types, TypeOK
<1> QED
  BY <1>1, LifeIsInvariant, PTL

\* A user's reference count is the number of its sessions, whoever logs in, out, or stays away
\* (session_user_expire, user_expire, user_login).
THEOREM ReferencesAreCounted == Spec => []RefsCounted
<1>1. LifeInv => RefsCounted
  BY DEF LifeInv, RefsInv
<1> QED
  BY <1>1, LifeIsInvariant, PTL

\* A handler's user stays its session's user, and in use, unless the session is logged out
\* (session_get, and the pointers that event_handler keeps while it waits).
THEOREM HandlersKeepTheirUser == Spec => []KeepsItsUser
<1>1. ASSUME LifeInv, NEW k \in Handlers,
             req[k].at \in {"using", "polling", "attached"}, req[k].valid
      PROVE  /\ req[k].session \in used
             /\ userid[req[k].session] = req[k].user
             /\ refcount[req[k].user] > 0
  <2> USE <1>1, TablesAssumption DEF LifeInv, HandlersInv, Types
  <2> DEFINE x == req[k].session
             u == req[k].user
  <2>1. /\ x \in used /\ userid[x] = u /\ u \in Users
        /\ left[x] >= 0
        /\ \A j \in Handlers : req[j].at = "new" => req[j].session # x
    <3>1. CASE req[k].at = "attached"
      <4>1. MakerOK(k)
        BY DEF MakersInv
      <4> QED
        BY <1>1, <3>1, <4>1 DEF MakerOK, Making
    <3>2. CASE req[k].at # "attached"
      <4>1. HolderOK(k) /\ req[k].at \in Holding /\ req[k].at # "found"
        BY <1>1, <3>2 DEF HoldersInv, Holding
      <4>2. Needs(req[k]) \in Nat
        BY DEF Needs, Requests
      <4>3. x \in used /\ userid[x] = u /\ u \in Users /\ Unmade(x)
            /\ left[x] >= Needs(req[k]) + TTL - LongPoll
        BY <1>1, <4>1 DEF HolderOK
      <4>4. left[x] >= 0
        BY <4>2, <4>3
      <4> QED
        BY <4>3, <4>4 DEF Unmade, Making
    <3> QED
      BY <3>1, <3>2
  <2>2. x \in Counted(u)
    <3>1. x \notin BeingMade
      BY <2>1 DEF BeingMade
    <3>2. ~(round = "freeing" /\ x = First(todo))
      BY <2>1 DEF RoundInv
    <3> HIDE DEF x, u
    <3> QED
      BY <2>1, <3>1, <3>2 DEF Counted
  <2>3. Cardinality(Counted(u)) # 0
    BY <2>2, CountedFinite, FS_EmptySet
  <2> QED
    BY <2>1, <2>3 DEF RefsInv, RefsCounted
<1>2. LifeInv => KeepsItsUser
  BY <1>1 DEF KeepsItsUser
<1> QED
  BY <1>2, LifeIsInvariant, PTL

=============================================================================
