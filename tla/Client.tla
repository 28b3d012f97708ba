------------------------------- MODULE Client -------------------------------
(***************************************************************************)
(* A guest's page and its world: the queue of API calls of muclient.js,    *)
(* the guest client's callbacks (html/guestclient/oneworld.js), the API    *)
(* handlers they call (api_world.c, worlds.c) and the thread that connects *)
(* the world (net.c), whose status and events are set one after the other. *)
(*                                                                         *)
(* Calls go out one at a time, updates are fetched beside them.  An answer *)
(* to an update is one step here; LongPoll has its parts.  A connection    *)
(* may break, and then the server may still be at work for the call that   *)
(* came over it while the page has gone on to the next.                    *)
(*                                                                         *)
(* The operators named Bug... are the next definition with a bug in it;    *)
(* nothing here uses them (see EventRing).                                 *)
(***************************************************************************)
EXTENDS Integers, SequencesExt

CONSTANTS
    MaxBreaks,         \* bound: connections that break
    MaxReloads         \* bound: times the page is loaded again

ASSUME ClientAssumption == MaxBreaks \in Nat /\ MaxReloads \in Nat

VARIABLES
    at,                \* the page: "loading", "loaded", "leaving" (in 3 seconds), "left"
    first,             \* is the first update still to be asked by fetchFirstUpdate?
    count,             \* API.updateCount
    belief,            \* history: what the page was told last of the world's status
    calls,             \* API.callSemaphore, API.callSemQueue, and the call under way
    answered,          \* did the server handle the call under way?
    orphans,           \* calls the server still handles, though the page has given them up
    events,            \* the user's events: their names and how often they were dumped
    world,             \* netstatus, or "none" when it is not open
    thread,            \* where thread_connect is
    breaks, reloads,   \* how many there were
    made, handled,     \* history: the calls made by the page, as handled by the server
    broken,            \* history: the calls whose connection broke
    raced              \* history: a status changed apart from its event, and it showed

pageVars == <<at, first, count, belief, calls, answered>>
worldVars == <<events, world, thread, raced>>
boundVars == <<breaks, reloads>>
vars == <<pageVars, orphans, worldVars, boundVars, made, handled, broken>>

-----------------------------------------------------------------------------
(* The queue of API calls.  A call is its place in made.                   *)

NoCalls == [semaphore |-> 0, queue |-> <<>>, ajax |-> 0]

\* callAjax of call id
BugCallAjax(q, id) ==
    IF q.semaphore = 0 THEN [q EXCEPT !.semaphore = 1, !.ajax = id]
    ELSE [q EXCEPT !.semaphore = @ + 1, !.queue = <<id>> \o @]
callAjax(q, id) ==
    IF q.semaphore = 0 THEN [q EXCEPT !.semaphore = 1, !.ajax = id]
    ELSE [q EXCEPT !.semaphore = @ + 1, !.queue = Append(@, id)]

BugQueueComplete(q) ==
    IF q.semaphore > 2
    THEN [semaphore |-> q.semaphore - 1, queue |-> Tail(q.queue), ajax |-> Head(q.queue)]
    ELSE [q EXCEPT !.semaphore = @ - 1, !.ajax = 0]
callQueueComplete(q) ==
    IF q.semaphore > 1
    THEN [semaphore |-> q.semaphore - 1, queue |-> Tail(q.queue), ajax |-> Head(q.queue)]
    ELSE [q EXCEPT !.semaphore = @ - 1, !.ajax = 0]

\* The page makes these calls, one after the other, on top of queue q
Make(q, ops) ==
    /\ made' = made \o ops
    /\ calls' = FoldLeft(callAjax, q, [i \in DOMAIN ops |-> Len(made) + i])

\* What the callbacks of a client do: the calls that follow an event, and an answer
OnEvent(e) ==
    CASE e.name = "onOpen" /\ e.seen = 1 -> <<"connect">>
      [] e.name = "onConnect" /\ e.seen = 1 -> <<"autosend">>
      [] OTHER -> <<>>
OnSuccessOf(op) ==
    CASE op = "config" -> <<"open">>
      [] op = "autosend" -> <<"send">>
      [] OTHER -> <<>>
BugOnFirstSuccess(ucount) == IF ucount = -1 THEN <<"config">> ELSE <<"reconfig">>
OnFirstSuccess(ucount) == IF ucount = 0 THEN <<"config">> ELSE <<"reconfig">>
OnReady == <<"header">>

\* What an event says of the world's status
StatusAfter(status, e) ==
    CASE e.name = "onConnecting" -> "connecting"
      [] e.name = "onConnect" -> "connected"
      [] e.name \in {"onOpen", "onConnectFail", "onDisconnect"} -> "disconnected"
      [] OTHER -> status

-----------------------------------------------------------------------------
(* The server.                                                             *)

\* addEvent, messageEvent, sysMessage
Queue(names) == events' = events \o [i \in DOMAIN names |-> [name |-> names[i], seen |-> 0]]

\* The handler of a call: world.open, world.connect with net_connect, world.send; files are
\* read without a trace
Does(op) ==
    CASE op = "open" /\ world = "none" ->
            Queue(<<"onOpen">>) /\ world' = "disconnected" /\ UNCHANGED thread
      [] op = "connect" /\ world = "disconnected" ->
            Queue(<<"onConnecting">>) /\ world' = "connecting" /\ thread' = "resolve"
      [] op = "connect" /\ world \in {"connecting", "connected"} ->
            Queue(<<"onConnectFail">>) /\ UNCHANGED <<world, thread>>
      [] \/ op = "open" /\ world # "none"
         \/ op \in {"connect", "send"} /\ world = "none" ->
            Queue(<<"onSystemMessage">>) /\ UNCHANGED <<world, thread>>
      [] OTHER -> UNCHANGED <<events, world, thread>>

Handle(id) ==
    /\ \/ id = calls.ajax /\ ~answered /\ answered' = TRUE /\ UNCHANGED orphans
       \/ id \in orphans /\ orphans' = orphans \ {id} /\ UNCHANGED answered
    /\ Does(made[id])
    /\ handled' = Append(handled, id)
    /\ UNCHANGED <<at, first, count, belief, calls, boundVars, made, broken, raced>>

\* thread_connect: each step ends where another thread can see a difference
ThreadStep ==
    /\ \/ thread = "resolve" /\ thread' \in {"tries", "failed"}
          /\ Queue(IF thread' = "tries" THEN <<"onConnecting">> ELSE <<"onConnectFail">>)
          /\ UNCHANGED world
       \/ thread = "tries" /\ thread' = "failed"
          /\ Queue(<<"onConnectFail">>) /\ UNCHANGED world
       \/ thread = "tries" /\ thread' = "up"
          /\ world' = "connected" /\ UNCHANGED events
       \/ thread = "failed" /\ thread' = "none"
          /\ world' = "disconnected" /\ UNCHANGED events
       \/ thread = "up" /\ thread' = "none"
          /\ Queue(<<"onConnect">>) /\ UNCHANGED world
    /\ UNCHANGED <<pageVars, orphans, boundVars, made, handled, broken, raced>>

\* net_read: the server of the world has closed the connection
NetRead ==
    /\ world = "connected"
    /\ world' = "disconnected"
    /\ Queue(<<"onDisconnect">>)
    /\ raced' = (raced \/ thread = "up")
    /\ UNCHANGED <<pageVars, orphans, thread, boundVars, made, handled, broken>>

-----------------------------------------------------------------------------
(* Updates.                                                                *)

\* The answer to the request for count: event_startup's, or the events after count, which are
\* dumped once more
Dumped == [i \in DOMAIN events |->
             IF count >= 0 /\ i > count THEN [events[i] EXCEPT !.seen = @ + 1] ELSE events[i]]
BugNews == IF count < 0 THEN <<>> ELSE SubSeq(Dumped, count + 2, Len(events))
News == IF count < 0 THEN <<>> ELSE SubSeq(Dumped, count + 1, Len(events))
Status == IF count < 0 THEN world ELSE FoldLeft(StatusAfter, belief, News)

\* onSuccess, or onFirstSuccess with onStart or onReload and onReady; after onDisconnect the
\* page will leave
Update ==
    /\ at \in {"loading", "loaded"}
    /\ count < Len(events) \/ at = "loading"
    /\ events' = Dumped
    /\ count' = Len(events)
    /\ belief' = Status
    /\ raced' = (raced \/ (count < 0 /\ thread = "failed"))
    /\ Make(calls, FlattenSeq([i \in DOMAIN News |-> OnEvent(News[i])])
                     \o (IF first THEN OnFirstSuccess(Len(events)) \o OnReady ELSE <<>>))
    /\ first' = FALSE
    /\ at' = IF \E i \in DOMAIN News : News[i].name = "onDisconnect" THEN "leaving" ELSE "loaded"
    /\ UNCHANGED <<answered, orphans, world, thread, boundVars, handled, broken>>

\* The connection breaks after the answer was written to it: onError fetches again, through
\* onSuccess even if it was the first
UpdateBreaks ==
    /\ at \in {"loading", "loaded"}
    /\ breaks < MaxBreaks /\ breaks' = breaks + 1
    /\ events' = Dumped
    /\ first' = FALSE
    /\ UNCHANGED <<at, count, belief, calls, answered, orphans, world, thread, raced, reloads,
                   made, handled, broken>>

-----------------------------------------------------------------------------
(* Calls that end, and the page itself.                                    *)

InPage == at # "left"

\* The answer arrives: success, which may make calls, then complete
Complete ==
    /\ InPage /\ calls.ajax # 0 /\ answered
    /\ made' = made \o OnSuccessOf(made[calls.ajax])
    /\ calls' = callQueueComplete(
                  FoldLeft(callAjax, calls, [i \in DOMAIN OnSuccessOf(made[calls.ajax]) |-> Len(made) + i]))
    /\ answered' = FALSE
    /\ UNCHANGED <<at, first, count, belief, orphans, worldVars, boundVars, handled, broken>>

\* The connection of the call breaks, before or after it reached the server: error, complete
CallBreaks ==
    /\ InPage /\ calls.ajax # 0
    /\ breaks < MaxBreaks /\ breaks' = breaks + 1
    /\ calls' = callQueueComplete(calls)
    /\ answered' = FALSE
    /\ orphans' \in IF answered THEN {orphans} ELSE {orphans, orphans \cup {calls.ajax}}
    /\ broken' = broken \cup {calls.ajax}
    /\ UNCHANGED <<at, first, count, belief, worldVars, reloads, made, handled>>

\* The page is gone: the server may still handle the call that was under way
Forget == orphans' \in IF answered \/ calls.ajax = 0 THEN {orphans}
                       ELSE {orphans, orphans \cup {calls.ajax}}

Reload ==
    /\ InPage /\ reloads < MaxReloads /\ reloads' = reloads + 1
    /\ at' = "loading" /\ first' = TRUE /\ count' = -1 /\ belief' = "none"
    /\ Forget /\ broken' = broken \cup ({calls.ajax} \ {0})
    /\ calls' = NoCalls /\ answered' = FALSE
    /\ UNCHANGED <<worldVars, breaks, made, handled>>

\* It goes to the log-out page
Leave ==
    /\ at = "leaving"
    /\ at' = "left"
    /\ Forget /\ broken' = broken \cup ({calls.ajax} \ {0})
    /\ calls' = NoCalls /\ answered' = FALSE
    /\ UNCHANGED <<first, count, belief, worldVars, boundVars, made, handled>>

-----------------------------------------------------------------------------

Init ==
    /\ at = "loading" /\ first = TRUE /\ count = -1 /\ belief = "none"
    /\ calls = NoCalls /\ answered = FALSE /\ orphans = {}
    /\ events = <<>> /\ world = "none" /\ thread = "none" /\ raced = FALSE
    /\ breaks = 0 /\ reloads = 0
    /\ made = <<>> /\ handled = <<>> /\ broken = {}

Next ==
    \/ \E id \in DOMAIN made : Handle(id)
    \/ ThreadStep \/ NetRead
    \/ Update \/ UpdateBreaks
    \/ Complete \/ CallBreaks
    \/ Reload \/ Leave

Spec == Init /\ [][Next]_vars

\* The server and the page go on, addresses are resolved and connected to in the end, or not
FairSpec ==
    /\ Spec
    /\ WF_vars(\E id \in DOMAIN made : Handle(id))
    /\ WF_vars(ThreadStep) /\ WF_vars(Update) /\ WF_vars(Complete) /\ WF_vars(Leave)

-----------------------------------------------------------------------------
(* Properties.                                                             *)

\* The server handles calls in the order the page made them, each once; only a call whose
\* connection broke may come after later ones (muclient.js:99-117)
CallsInOrder ==
    \A i, j \in DOMAIN handled :
        i < j => handled[i] # handled[j] /\ (handled[i] < handled[j] \/ handled[j] \in broken)

\* The queue does not get stuck: whatever breaks, every call is sent in the end, or the page
\* was loaded again or left (muclient.js:99-105)
EveryCallIsSent == []<>(calls = NoCalls)

\* A page that has been told all there is knows the status of its world, unless it was loaded
\* between a CONNFAIL and the status, or the world closed between the status and its CONNECT
\* (net.c:92-96, 170-172)
PageKnowsStatus ==
    at = "loaded" /\ count = Len(events) /\ thread = "none" /\ ~raced => belief = world

\* A guest who does nothing gets from the first update to the autosend, or is told that the
\* connect failed, as long as nothing breaks and the page is not loaded again
GuestGetsConnected ==
    <>(\/ breaks + reloads > 0
       \/ \E i \in DOMAIN handled : made[handled[i]] = "send"
       \/ \E i \in DOMAIN events : events[i].name \in {"onConnectFail", "onDisconnect"} /\ events[i].seen > 0)
=============================================================================
