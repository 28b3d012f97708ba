-------------------------------- MODULE Feed --------------------------------
(***************************************************************************)
(* What the event store and its long polls promise a page, with no rings,  *)
(* threads or connections: one growing sequence of events, and for every   *)
(* page the place up to which it has been served.  A delivery is the next  *)
(* stretch of the sequence, in order and without a gap, except that of a   *)
(* stretch longer than Window only the newest Window events come, and the  *)
(* page is told how many it has missed.                                    *)
(***************************************************************************)
EXTENDS Integers, Sequences

CONSTANTS
    Pages,
    Window,        \* how many events the store keeps
    MaxEvents      \* bound: events published

VARIABLES
    total,         \* events published so far; event n is the (n+1)th
    next,          \* per page: the event it is to get next, -1 before it has joined
    shown,         \* per page: the events it was given, in the order given
    missed         \* per page: how many it was told it has missed

feedVars == <<total, next, shown, missed>>

FeedInit ==
    /\ total = 0
    /\ next = [g \in Pages |-> -1]
    /\ shown = [g \in Pages |-> <<>>]
    /\ missed = [g \in Pages |-> 0]

Publish ==
    /\ total < MaxEvents
    /\ total' = total + 1
    /\ UNCHANGED <<next, shown, missed>>

\* A page that joins starts at some event not yet overtaken; older events
\* are none of the feed's business.
Join(g) ==
    /\ next[g] < 0
    /\ \E n \in 0 .. total : next' = [next EXCEPT ![g] = n]
    /\ UNCHANGED <<total, shown, missed>>

Deliver(g) ==
    /\ next[g] >= 0
    /\ \E upto \in next[g] + 1 .. total :
          LET behind == upto - next[g]
              kept == IF behind > Window THEN Window ELSE behind
          IN  /\ shown' = [shown EXCEPT ![g] =
                              @ \o [i \in 1 .. kept |-> upto - kept + i - 1]]
              /\ missed' = [missed EXCEPT ![g] = @ + behind - kept]
              /\ next' = [next EXCEPT ![g] = upto]
    /\ UNCHANGED total

FeedNext == Publish \/ \E g \in Pages : Join(g) \/ Deliver(g)

FeedSpec == FeedInit /\ [][FeedNext]_feedVars
=============================================================================
