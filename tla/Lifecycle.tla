----------------------------- MODULE Lifecycle -----------------------------
(***************************************************************************)
(* How long an account stays logged in (sessions.c, users.c, and the       *)
(* dispatch of banana.c): the table of web sessions, the table of user     *)
(* slots with their reference counts, the HTTP threads that look both up   *)
(* and then use what they found, and the network thread that expires       *)
(* sessions and cleans up users.                                           *)
(*                                                                         *)
(* A handler looks a session up under the mutex of the sessions, its user  *)
(* under the mutex of the users, and keeps both pointers, under no mutex,  *)
(* until it is done; a long poll keeps them for LongPoll ticks.  Time is   *)
(* what the code compares: session->expire - now, cut off at -1.           *)
(*                                                                         *)
(* The operators named Bug... are the next definition with a bug in it;    *)
(* nothing here uses them (see EventRing).                                 *)
(***************************************************************************)
EXTENDS Integers, FiniteSets

CONSTANTS
    MaxSessions,       \* conf.h: MAX_SESSIONS
    MaxUsers,          \* conf.h: MAX_USERS
    Browsers,
    Handlers,          \* mongoose's worker threads
    Accounts,
    Guest,             \* what a guest's slot is for: no two logins share it
    TTL,               \* ticks a session lives without a request (SESSION_TTL)
    LongPoll,          \* ticks a long poll lasts at most (LONG_POLL_SECONDS)
    MaxLogins          \* bound: sessions ever made

ASSUME TablesAssumption ==
    /\ MaxSessions \in Nat \ {0}
    /\ MaxUsers \in Nat \ {0}
    /\ IsFiniteSet(Handlers)
    /\ Guest \notin Accounts
    /\ TTL \in Nat /\ LongPoll \in Nat /\ LongPoll < TTL
    /\ MaxLogins \in Nat

Sessions == 0 .. MaxSessions - 1
Users == 0 .. MaxUsers - 1
None == -1                 \* no session, no user

VARIABLES
    used,              \* sessions whose expire is not 0
    left,              \* per session: expire - now, from -1 (over) to TTL
    timeout,           \* session->timeout
    userid,            \* session->userid
    sid,               \* session->session_id: 0 is the empty string
    made,              \* sessions made so far, which is the newest session_id
    refcount,          \* user->refcount
    account,           \* user->name and dir: an account, or Guest
    cookie,            \* per browser: the session cookie, 0 if it has none
    closed,            \* browsers closed for good
    req,               \* per handler: its request
    round,             \* the network thread: "wait", "sessions", "freeing" or "users"
    todo,              \* sessions that sessions_expire has still to look at
    due                \* CLEANUP_TIMEOUT seconds are over

sessionVars == <<used, left, timeout, userid, sid, made>>
userVars == <<refcount, account>>
browserVars == <<cookie, closed>>
netVars == <<round, todo, due>>
vars == <<sessionVars, userVars, browserVars, req, netVars>>

-----------------------------------------------------------------------------
\* What a handler holds; "valid" remembers that nobody has logged its session out.
Requests ==
    [at: {"idle", "found", "using", "polling", "stranger", "new", "reset", "made", "attached"},
     browser: Browsers \cup {None}, session: Sessions \cup {None}, user: Users \cup {None},
     nap: 0 .. LongPoll, valid: BOOLEAN]

Idle == [at |-> "idle", browser |-> None, session |-> None, user |-> None,
         nap |-> 0, valid |-> TRUE]

Init ==
    /\ used = {}
    /\ left = [s \in Sessions |-> -1]
    /\ timeout = [s \in Sessions |-> 0]
    /\ userid = [s \in Sessions |-> 0]
    /\ sid = [s \in Sessions |-> 0]
    /\ made = 0
    /\ refcount = [u \in Users |-> -1]
    /\ account = [u \in Users |-> Guest]
    /\ cookie = [b \in Browsers |-> 0]
    /\ closed = {}
    /\ req = [k \in Handlers |-> Idle]
    /\ round = "wait"
    /\ todo = {}
    /\ due = FALSE

First(S) == CHOOSE x \in S : \A y \in S : x <= y

\* session_mutex is held all through sessions_expire, user_mutex through users_cleanup
SessionsFree == round \notin {"sessions", "freeing"}

Advance(k, stage) == req' = [req EXCEPT ![k].at = stage]

-----------------------------------------------------------------------------
(* Looking up: session_get, user_get.                                      *)

Live(s) == s \in used /\ left[s] > 0

\* session_get's "expire = time(NULL) + timeout"
BugExtend(s) == left[s] + timeout[s]
BugKeep(s) == left[s]
Bump(s) == timeout[s]

\* Assumed: no request has the cookie of the session a slot last held just while the
\* slot is made into another; it would find that session, and userid 0 or an old one.
NotEarly == \A j \in Handlers : req[j].at \notin {"new", "reset"}

SessionGet(k, b) ==
    /\ req[k].at = "idle"
    /\ b \notin closed
    /\ SessionsFree
    /\ NotEarly
    /\ LET mine == {s \in Sessions : Live(s) /\ sid[s] = cookie[b]}
       IN  IF mine = {}
           THEN /\ req' = [req EXCEPT ![k] = [Idle EXCEPT !.at = "stranger", !.browser = b]]
                /\ UNCHANGED left
           ELSE /\ req' = [req EXCEPT ![k] =
                              [Idle EXCEPT !.at = "found", !.browser = b,
                                           !.session = First(mine)]]
                /\ left' = [left EXCEPT ![First(mine)] = Bump(First(mine))]
    /\ UNCHANGED <<used, timeout, userid, sid, made, userVars, browserVars, netVars>>

UserGet(k) ==
    /\ req[k].at = "found"
    /\ LET u == userid[req[k].session]
       IN  req' = [req EXCEPT ![k].user = IF u >= 0 THEN u ELSE None,
                              ![k].at = IF u >= 0 THEN "using" ELSE "stranger"]
    /\ UNCHANGED <<sessionVars, userVars, browserVars, netVars>>

-----------------------------------------------------------------------------
(* What a request of a user does (event_handler).                          *)

\* "updates" that has to wait: the handler sleeps in event_wait
Poll(k) ==
    /\ req[k].at = "using"
    /\ req' = [req EXCEPT ![k].at = "polling", ![k].nap = LongPoll]
    /\ UNCHANGED <<sessionVars, userVars, browserVars, netVars>>

\* the wait is over, by the clock or by an event
PollEnds(k) ==
    /\ req[k].at = "polling"
    /\ req' = [req EXCEPT ![k] = Idle]
    /\ UNCHANGED <<sessionVars, userVars, browserVars, netVars>>

\* any other action, and what a request without a user gets when it is no login
Done(k) ==
    /\ req[k].at \in {"using", "stranger"}
    /\ req' = [req EXCEPT ![k] = Idle]
    /\ UNCHANGED <<sessionVars, userVars, browserVars, netVars>>

\* session_logout: expire = 100 puts any session, used or not, in the past
Logout(k) ==
    /\ req[k].at = "using"
    /\ SessionsFree
    /\ used' = used \cup {req[k].session}
    /\ left' = [left EXCEPT ![req[k].session] = -1]
    /\ req' = [j \in Handlers |->
                  IF j = k THEN Idle
                  ELSE IF req[j].session = req[k].session THEN [req[j] EXCEPT !.valid = FALSE]
                  ELSE req[j]]
    /\ UNCHANGED <<timeout, userid, sid, made, userVars, browserVars, netVars>>

-----------------------------------------------------------------------------
(* Logging in (handle_login, handle_guest) once name and password are fine. *)

\* session_new, as far as it has the mutex
SessionNew(k) ==
    /\ req[k].at = "stranger"
    /\ SessionsFree
    /\ made + Cardinality({j \in Handlers : req[j].at \in {"new", "reset"}}) < MaxLogins
    /\ IF Sessions \ used = {}
       THEN /\ req' = [req EXCEPT ![k] = Idle]
            /\ UNCHANGED <<used, left>>
       ELSE LET s == First(Sessions \ used)
            IN  /\ used' = used \cup {s}
                /\ left' = [left EXCEPT ![s] = TTL]
                /\ req' = [req EXCEPT ![k].at = "new", ![k].session = s, ![k].valid = TRUE]
    /\ UNCHANGED <<timeout, userid, sid, made, userVars, browserVars, netVars>>

\* the end of session_new, after its unlock
SessionReset(k) ==
    /\ req[k].at = "new"
    /\ userid' = [userid EXCEPT ![req[k].session] = None]
    /\ Advance(k, "reset")
    /\ UNCHANGED <<used, left, timeout, sid, made, userVars, browserVars, netVars>>

SessionMake(k) ==
    /\ req[k].at = "reset"
    /\ made' = made + 1
    /\ timeout' = [timeout EXCEPT ![req[k].session] = TTL]
    /\ sid' = [sid EXCEPT ![req[k].session] = made + 1]
    /\ Advance(k, "made")
    /\ UNCHANGED <<used, left, userid, userVars, browserVars, netVars>>

\* the slot of an account that is logged in, if it is
BugTaken(a) == {}
Taken(a) == {u \in Users : refcount[u] > 0 /\ account[u] = a /\ a # Guest}

BugJoined(u) == 1
Joined(u) == refcount[u] + 1

\* the session is now user u's, and the handler goes on with u
Attach(k, u) ==
    /\ userid' = [userid EXCEPT ![req[k].session] = u]
    /\ req' = [req EXCEPT ![k].at = "attached", ![k].user = u]

\* user_login, and user_guest for a = Guest: join the account's slot, take a free
\* one, or turn the user away; the session stays either way
UserLogin(k, a) ==
    /\ req[k].at = "made"
    /\ LET free == {u \in Users : refcount[u] < 0}
       IN  IF Taken(a) # {}
           THEN /\ Attach(k, First(Taken(a)))
                /\ refcount' = [refcount EXCEPT ![First(Taken(a))] = Joined(First(Taken(a)))]
                /\ UNCHANGED account
           ELSE IF free # {}
           THEN /\ Attach(k, First(free))
                /\ refcount' = [refcount EXCEPT ![First(free)] = 1]
                /\ account' = [account EXCEPT ![First(free)] = a]
           ELSE /\ req' = [req EXCEPT ![k] = Idle]
                /\ UNCHANGED <<userid, userVars>>
    /\ UNCHANGED <<used, left, timeout, sid, made, browserVars, netVars>>

\* redirect_to_client: the browser has its cookie, unless it is gone
LoginDone(k) ==
    /\ req[k].at = "attached"
    /\ cookie' = IF req[k].browser \in closed THEN cookie
                 ELSE [cookie EXCEPT ![req[k].browser] = sid[req[k].session]]
    /\ req' = [req EXCEPT ![k] = Idle]
    /\ UNCHANGED <<sessionVars, userVars, closed, netVars>>

-----------------------------------------------------------------------------
(* The network thread: sessions_expire, then users_cleanup.                *)

StartRound ==
    /\ round = "wait"
    /\ due
    /\ due' = FALSE
    /\ round' = "sessions"
    /\ todo' = Sessions
    /\ UNCHANGED <<sessionVars, userVars, browserVars, req>>

\* how many references session_user_expire and user_expire take from user u
BugExpired(s, u) == 0
Expired(s, u) == IF u = userid[s] THEN 1 ELSE 0

\* the next session: if its time is over, session_user_expire
ExpireSession ==
    /\ round = "sessions"
    /\ todo # {}
    /\ LET s == First(todo)
       IN  IF s \in used /\ left[s] < 0
           THEN /\ refcount' = [u \in Users |-> refcount[u] - Expired(s, u)]
                /\ round' = "freeing"
                /\ UNCHANGED todo
           ELSE /\ todo' = todo \ {s}
                /\ UNCHANGED <<refcount, round>>
    /\ UNCHANGED <<sessionVars, account, browserVars, req, due>>

\* and then expire = 0 and userid = -1
FreeSession ==
    /\ round = "freeing"
    /\ used' = used \ {First(todo)}
    /\ userid' = [userid EXCEPT ![First(todo)] = None]
    /\ todo' = todo \ {First(todo)}
    /\ round' = "sessions"
    /\ UNCHANGED <<left, timeout, sid, made, userVars, browserVars, req, due>>

SessionsDone ==
    /\ round = "sessions"
    /\ todo = {}
    /\ round' = "users"
    /\ UNCHANGED <<sessionVars, userVars, browserVars, req, todo, due>>

\* users_cleanup: user_clean every slot with no references, and set it free
UsersCleanup ==
    /\ round = "users"
    /\ refcount' = [u \in Users |-> IF refcount[u] = 0 THEN -1 ELSE refcount[u]]
    /\ round' = "wait"
    /\ UNCHANGED <<sessionVars, account, browserVars, req, todo, due>>

-----------------------------------------------------------------------------
\* Time passes.  A tick is longer than a handler takes that does not sleep, and a
\* poll whose time is up has ended.
Tick ==
    /\ \A k \in Handlers : req[k].at = "idle" \/ (req[k].at = "polling" /\ req[k].nap > 0)
    /\ round = "wait"
    /\ left' = [s \in Sessions |-> IF left[s] >= 0 THEN left[s] - 1 ELSE -1]
    /\ req' = [k \in Handlers |->
                  IF req[k].at = "polling" THEN [req[k] EXCEPT !.nap = @ - 1] ELSE req[k]]
    /\ due' = TRUE
    /\ UNCHANGED <<used, timeout, userid, sid, made, userVars, browserVars, round, todo>>

\* A browser is closed, without a word to the server.
Close(b) ==
    /\ closed' = closed \cup {b}
    /\ UNCHANGED <<sessionVars, userVars, cookie, req, netVars>>

HandlerStep(k) ==
    \/ UserGet(k) \/ Poll(k) \/ PollEnds(k) \/ Done(k) \/ Logout(k)
    \/ SessionNew(k) \/ SessionReset(k) \/ SessionMake(k) \/ LoginDone(k)
    \/ \E a \in Accounts \cup {Guest} : UserLogin(k, a)

NetStep == StartRound \/ ExpireSession \/ FreeSession \/ SessionsDone \/ UsersCleanup

Next ==
    \/ \E k \in Handlers : HandlerStep(k) \/ \E b \in Browsers : SessionGet(k, b)
    \/ NetStep
    \/ Tick
    \/ \E b \in Browsers : Close(b)

Spec == Init /\ [][Next]_vars

\* Threads go on and time passes; nothing is assumed of the browsers.
FairSpec ==
    Spec /\ WF_vars(NetStep) /\ WF_vars(Tick) /\ \A k \in Handlers : WF_vars(HandlerStep(k))

-----------------------------------------------------------------------------
(* Properties.                                                             *)

\* The types, and the range that time and the reference counts stay in.
TypeOK ==
    /\ used \in SUBSET Sessions
    /\ left \in [Sessions -> -1 .. TTL]
    /\ timeout \in [Sessions -> {0, TTL}]
    /\ userid \in [Sessions -> Users \cup {None}]
    /\ sid \in [Sessions -> 0 .. MaxLogins]
    /\ made \in 0 .. MaxLogins
    /\ refcount \in [Users -> -1 .. MaxSessions]
    /\ account \in [Users -> Accounts \cup {Guest}]
    /\ cookie \in [Browsers -> 0 .. MaxLogins]
    /\ closed \in SUBSET Browsers
    /\ req \in [Handlers -> Requests]
    /\ round \in {"wait", "sessions", "freeing", "users"}
    /\ todo \in SUBSET Sessions
    /\ due \in BOOLEAN

\* Sessions that count for a user: all but one that is only being made, and one
\* whose reference sessions_expire has just taken back.
BeingMade == {req[k].session : k \in {j \in Handlers : req[j].at = "new"}}
Counted(u) ==
    {s \in used \ BeingMade : userid[s] = u /\ ~(round = "freeing" /\ s = First(todo))}

\* A user's reference count is the number of its sessions, and a free slot has
\* none: whoever logs in, out, or stays away, no reference is lost or taken twice
\* (sessions.c:102-118, users.c:79-150).
RefsCounted ==
    \A u \in Users :
        Cardinality(Counted(u)) = IF refcount[u] > 0 THEN refcount[u] ELSE 0

\* An account has one slot however many windows log in at the same moment, so they
\* all see the same worlds (users.c:85-101); a slot that is to be cleaned up is none.
OneSlotPerAccount ==
    \A u, v \in Users :
        refcount[u] > 0 /\ refcount[v] > 0 /\ account[u] = account[v] /\ account[u] # Guest
            => u = v

\* A handler's user stays the one its session is logged in as, with a slot that is
\* not cleaned up, as long as nobody logs the session out: a poll is shorter than a
\* session's life, and session_get has renewed that (sessions.c:24-30).
KeepsItsUser ==
    \A k \in Handlers :
        req[k].at \in {"using", "polling", "attached"} /\ req[k].valid
            => /\ req[k].session \in used
               /\ userid[req[k].session] = req[k].user
               /\ refcount[req[k].user] > 0

\* When every browser is closed, all sessions expire and all users are cleaned up
\* (net.c:619-623).
EverythingIsFreed ==
    (closed = Browsers) ~> (used = {} /\ \A u \in Users : refcount[u] = -1)

\* users.h:21 says "A refcount > 0 means it's in use": the user of a request that is
\* being handled is in use.
InUseHasRefs ==
    \A k \in Handlers :
        req[k].at \in {"using", "polling", "attached"} => refcount[req[k].user] > 0
=============================================================================
