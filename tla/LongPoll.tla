------------------------------ MODULE LongPoll ------------------------------
(***************************************************************************)
(* The browser's end of the updates (html/js/muclient.js) on top of the    *)
(* event store: pages that fetch updates, lose connections, retry, and     *)
(* give up after too many errors.  A page is one JavaScript thread, so a   *)
(* callback is one step; the server goes on between any two of them.       *)
(*                                                                         *)
(* BugRequest and BugNoRetry are variants with a bug in them that nothing  *)
(* here uses (see EventRing).                                              *)
(***************************************************************************)
EXTENDS EventRing

CONSTANTS
    Pages,             \* browser windows open on the account
    MAX_ERRORS,        \* muclient.js: errors in a row before it goes to the login page
    Breakable          \* may a connection break before its answer arrives?

ASSUME PagesAssumption ==
    /\ MAX_ERRORS \in Nat
    /\ Breakable \in BOOLEAN
    /\ NULL \notin Polls

VARIABLES
    js,                \* "asking": $.ajax is due, "waiting" for it, or "gone" to the login page
    conn,              \* the server thread that serves the page's request, or NULL
    apiCount,          \* API.updateCount
    errorCount,        \* API.errorCount
    shown,             \* history: the events given to API.onEvent after the first answer
    missed             \* history: the events it was told it has missed

pageVars == <<js, conn, apiCount, errorCount, shown, missed>>
lpVars == <<vars, pageVars>>

LPInit ==
    /\ Init
    /\ js = [g \in Pages |-> "asking"]
    /\ conn = [g \in Pages |-> NULL]
    /\ apiCount = [g \in Pages |-> -1]
    /\ errorCount = [g \in Pages |-> 0]
    /\ shown = [g \in Pages |-> <<>>]
    /\ missed = [g \in Pages |-> 0]

\* What fetchUpdates asks: API.updateCount, or what API.updateCount is about to be
\* when onSuccess calls it
BugRequest(g) == IF apiCount[g] < 0 THEN -1 ELSE apiCount[g] + 1
Request(g) == apiCount[g]

FetchUpdates(g) ==
    /\ js[g] = "asking"
    /\ \E p \in Polls :
          /\ \A h \in Pages : conn[h] # p
          /\ Ask(p, Request(g))
          /\ conn' = [conn EXCEPT ![g] = p]
    /\ js' = [js EXCEPT ![g] = "waiting"]
    /\ UNCHANGED <<apiCount, errorCount, shown, missed>>

\* The events of a batch that triggerEvent lets through, in their order: it drops those
\* before API.updateCount
Fresh(batch, count) ==
    LET kept == {i \in DOMAIN batch : count <= batch[i]}
    IN  [k \in 1 .. Cardinality(kept) |->
            batch[CHOOSE i \in kept : Cardinality({j \in kept : j <= i}) = k]]

\* onSuccess (onFirstSuccess calls it): fetchUpdates with the count of the header,
\* eval of the events through triggerEvent, then API.updateCount = ucount
OnSuccess(g) ==
    /\ js[g] = "waiting"
    /\ conn[g] # NULL
    /\ pc[conn[g]] = "replied"
    /\ reply[conn[g]].kind # "error"
    /\ LET r == reply[conn[g]]
       IN  /\ apiCount' = [apiCount EXCEPT ![g] = r.count]
           /\ shown' = [shown EXCEPT ![g] = @ \o Fresh(r.batch, apiCount[g])]
           /\ missed' = [missed EXCEPT ![g] = @ + r.lost]
    /\ errorCount' = [errorCount EXCEPT ![g] = 0]
    /\ js' = [js EXCEPT ![g] = "asking"]
    /\ Sent(conn[g])
    /\ conn' = [conn EXCEPT ![g] = NULL]

BugNoRetry(g) == IF errorCount[g] + 1 > MAX_ERRORS THEN "gone" ELSE "waiting"
AfterError(g) == IF errorCount[g] + 1 > MAX_ERRORS THEN "gone" ELSE "asking"

\* onError: go to the login page, or fetch again, at once or after a second
OnError(g) ==
    /\ errorCount' = [errorCount EXCEPT ![g] = @ + 1]
    /\ js' = [js EXCEPT ![g] = AfterError(g)]
    /\ conn' = [conn EXCEPT ![g] = NULL]
    /\ UNCHANGED <<apiCount, shown, missed>>

\* the server answers with an error: logged out, or "Turn off caches."
ErrorAnswer(g) ==
    /\ js[g] = "waiting"
    /\ conn[g] # NULL
    /\ pc[conn[g]] = "replied"
    /\ reply[conn[g]].kind = "error"
    /\ Sent(conn[g])
    /\ OnError(g)

\* the connection breaks; the server's thread does not know, and goes on
Break(g) ==
    /\ Breakable
    /\ js[g] = "waiting"
    /\ OnError(g)
    /\ UNCHANGED vars

\* what a thread writes to a connection no page has any more
Discard(p) ==
    /\ \A g \in Pages : conn[g] # p
    /\ Sent(p)
    /\ UNCHANGED pageVars

PageStep(g) == FetchUpdates(g) \/ OnSuccess(g) \/ ErrorAnswer(g)

LPNext ==
    \/ Server /\ UNCHANGED pageVars
    \/ \E g \in Pages : PageStep(g) \/ Break(g)
    \/ \E p \in Polls : Discard(p)

LPSpec == LPInit /\ [][LPNext]_lpVars

\* The holder of the mutex, the threads in event_wait and the browser go on;
\* nothing is assumed of the network.
LPFairness ==
    /\ WF_lpVars(SectionStep /\ UNCHANGED pageVars)
    /\ \A p \in Polls : SF_lpVars(PollStep(p) /\ UNCHANGED pageVars) /\ WF_lpVars(Discard(p))
    /\ \A g \in Pages : WF_lpVars(PageStep(g))

LPFairSpec == LPSpec /\ LPFairness

-----------------------------------------------------------------------------
\* What the pages see of one life of the account is the feed: whatever breaks and
\* is asked again, no event is shown twice, out of order or left out untold.
FeedOfPages ==
    INSTANCE Feed WITH Window <- MAX_USER_EVENTS, MaxEvents <- MaxUpdates,
                       total <- updateCount, next <- apiCount

ImplementsFeed == FeedOfPages!FeedSpec

\* A page that does not go to the login page is shown, or told to have missed,
\* every event in the end, whatever the network does to its connections.
PageKeepsUp ==
    \A g \in Pages : \A n \in 1 .. MaxUpdates :
        updateCount >= n ~> (apiCount[g] >= n \/ js[g] = "gone")
=============================================================================
