--------------------------- MODULE LongPoll_proofs ---------------------------
(***************************************************************************)
(* LongPoll implements Feed: for any number of pages and requests and any  *)
(* size of the ring, as long as the account's slot is used for one life    *)
(* and no event is counted without being stored (the feed knows neither).  *)
(***************************************************************************)
EXTENDS LongPoll, EventRing_proofs

OneLife == MaxLives = 1 /\ OutOfMemory = FALSE

-----------------------------------------------------------------------------
(* The inductive invariant.                                                *)

\* What a request that asked from count may be answered when n events have been counted:
\* the newest events up to some count since, and what is left out is what it says.
Answers(r, count, n) ==
    \/ r.kind = "error"
    \/ /\ r.kind = "startup" /\ count < 0
       /\ r.count \in 0 .. n
       /\ r.lost = 0 /\ r.batch = <<>>
    \/ /\ r.kind = "events" /\ count >= 0
       /\ r.count \in count .. n
       /\ r.lost + Len(r.batch) = r.count - count
       /\ Len(r.batch) <= MAX_USER_EVENTS
       /\ r.lost = 0 \/ Len(r.batch) = MAX_USER_EVENTS
       /\ \A i \in 1 .. Len(r.batch) : r.batch[i] = r.count - Len(r.batch) + i - 1

\* Thread p serves a page whose API.updateCount is count.
Serves(p, count) ==
    /\ pc[p] # "idle"
    /\ pc[p] \in {"asked", "asleep", "woken"} => want[p] = count
    /\ pc[p] = "replied" => Answers(reply[p], count, updateCount)

PageTypes ==
    /\ conn \in [Pages -> Polls \cup {NULL}]
    /\ apiCount \in [Pages -> Int]
    /\ shown \in [Pages -> Seq(Int)]
    /\ missed \in [Pages -> Int]

PollsInv ==
    /\ ~failed
    /\ ~alive => \A p \in Polls : pc[p] \in {"idle", "replied"}
    /\ \A p \in Polls : pc[p] \in {"asleep", "woken"} => want[p] >= 0

PagesInv ==
    /\ \A g \in Pages : apiCount[g] \in -1 .. updateCount
    /\ \A g, h \in Pages : conn[g] = conn[h] /\ conn[g] # NULL => g = h
    /\ \A g \in Pages : conn[g] # NULL => Serves(conn[g], apiCount[g])

LPInv == TypeInv /\ RingInv /\ PageTypes /\ PollsInv /\ PagesInv

LEMMA LPInvInit == LPInit => LPInv
<1> SUFFICES ASSUME LPInit PROVE LPInv
  OBVIOUS
<1>1. TypeInv /\ RingInv
  BY TypeInvInit, RingInvInit DEF LPInit
<1>2. PageTypes
  BY DEF LPInit, PageTypes
<1>3. PollsInv
  BY DEF LPInit, Init, PollsInv
<1>4. PagesInv
  BY DEF LPInit, Init, FreshRings, PagesInv
<1> QED
  BY <1>1, <1>2, <1>3, <1>4 DEF LPInv

-----------------------------------------------------------------------------
(* The server's side of a request.                                         *)

\* An answer stays one while more events are counted.
LEMMA AnswersLater ==
    ASSUME NEW r, r.count \in Int, NEW count \in Int, NEW m \in Int, NEW n \in Int,
           m <= n, Answers(r, count, m)
    PROVE  Answers(r, count, n)
BY DEF Answers

\* What event_startup and event_wait write are answers.
LEMMA StartupAnswers ==
    ASSUME TypeInv, NEW count \in Int, count < 0
    PROVE  Answers(StartupReply, count, updateCount)
BY SizesAssumption DEF Answers, StartupReply, NoReply, TypeInv, TypeOK

LEMMA UpdateAnswers ==
    ASSUME TypeInv, RingInv, alive, ~failed, NEW count \in 0 .. updateCount
    PROVE  Answers(UpdateReply(count), count, updateCount)
<1>1. updateCount \in Nat /\ MAX_USER_EVENTS \in Nat /\ count \in Int
  BY SizesAssumption DEF TypeInv, TypeOK
<1>2. CASE updateCount > count
  <2> DEFINE r == UpdateReply(count)
             n == Len(Batch(count))
             d == Dropped(count)
  <2>1. r = [kind |-> "events", count |-> updateCount, lost |-> d, batch |-> Batch(count)]
    BY <1>2 DEF UpdateReply
  <2>2. count \in 0 .. updateCount - 1
    BY <1>1, <1>2
  <2>3. /\ n + d = updateCount - count
        /\ n = updateCount - count \/ n = MAX_USER_EVENTS
        /\ \A i \in 1 .. n : Batch(count)[i] = updateCount - n + i - 1
    BY <2>2, RingInvGivesBatch DEF BatchIsLatest
  <2>4. d \in Nat /\ n \in Nat /\ n <= MAX_USER_EVENTS
    BY <1>1, <1>2, BatchType DEF TypeInv
  <2>5. d = 0 \/ n = MAX_USER_EVENTS
    <3> HIDE DEF n, d
    <3> QED
      BY <1>1, <2>3, <2>4
  <2>6. d + n = updateCount - count
    <3> HIDE DEF n, d
    <3> QED
      BY <1>1, <2>3, <2>4
  <2>7. updateCount \in count .. updateCount
    BY <1>1, <1>2
  <2> QED
    BY <1>1, <2>1, <2>3, <2>4, <2>5, <2>6, <2>7 DEF Answers
<1>3. CASE ~(updateCount > count)
  <2>1. updateCount = count
    BY <1>1, <1>3
  <2>2. UpdateReply(count) = [NoReply EXCEPT !.kind = "events", !.count = updateCount]
    BY <1>3 DEF UpdateReply
  <2> QED
    BY <1>1, <2>1, <2>2 DEF Answers, NoReply
<1> QED
  BY <1>2, <1>3

\* Every step of the server leaves a page's request served.
LEMMA ServerServes ==
    ASSUME OneLife, TypeInv, RingInv, PollsInv, Server,
           NEW p \in Polls, NEW count \in Int, count <= updateCount, Serves(p, count)
    PROVE  Serves(p, count)' /\ updateCount <= updateCount'
<1> USE DEF TypeInv, TypeOK
<1>0. updateCount \in Int /\ reply[p].count \in Int
  BY SizesAssumption DEF Replies
<1>1. ASSUME UNCHANGED <<want, reply>>, updateCount' \in Int, updateCount <= updateCount',
             pc'[p] = pc[p] \/ (pc[p] = "asleep" /\ pc'[p] = "woken")
      PROVE  Serves(p, count)' /\ updateCount <= updateCount'
  <2>1. pc[p] = "replied" => Answers(reply[p], count, updateCount')
    BY <1>0, <1>1, AnswersLater DEF Serves
  <2> QED
    BY <1>1, <2>1 DEF Serves
<1>2. CASE UserOps \/ \E w \in Worlds : NetRead(w) \/ NetError(w)
  <2>1. PICK jobs : Opens(jobs)
    BY <1>2, OperationsOpen
  <2> QED
    BY <1>0, <1>1, <2>1 DEF Opens, pollVars
<1>3. CASE QueueEvent
  <2>1. updateCount' = updateCount + 1 /\ UNCHANGED <<want, reply>>
    BY <1>3 DEF QueueEvent
  <2>2. pc'[p] = pc[p] \/ (pc[p] = "asleep" /\ pc'[p] = "woken")
    BY <1>3 DEF QueueEvent, Broadcast
  <2> QED
    BY <1>0, <1>1, <2>1, <2>2
<1>4. CASE QueueEventFails
  BY <1>4 DEF QueueEventFails, OneLife
<1>5. CASE WakePolls
  BY <1>0, <1>1, <1>5 DEF WakePolls, Broadcast
<1>6. CASE NetDown \/ WorldFree \/ UserClean \/ \E w \in Worlds : ThreadEnds(w)
  BY <1>0, <1>1, <1>6 DEF NetDown, WorldFree, UserClean, ThreadEnds, pollVars
<1>7. CASE UserLogin
  BY <1>7 DEF UserLogin, OneLife
<1>8. ASSUME NEW q \in Polls, PollStep(q)
      PROVE  Serves(p, count)' /\ updateCount <= updateCount'
  <2>1. updateCount' = updateCount
    BY <1>8 DEF PollStep, EventStartup, EventWait, WaitEnds, EventWaitEnds
  <2>2. CASE q # p
    <3>1. pc'[p] = pc[p] /\ want'[p] = want[p] /\ reply'[p] = reply[p]
      BY <1>8, <2>2 DEF PollStep, EventStartup, EventWait, WaitEnds, EventWaitEnds, Answer
    <3> QED
      BY <1>0, <2>1, <3>1 DEF Serves
  <2>3. ASSUME q = p, NEW r, Answer(p, r), Answers(r, count, updateCount)
        PROVE  Serves(p, count)'
    BY <2>1, <2>3 DEF Answer, Serves
  <2>4. CASE q = p /\ EventStartup(p)
    <3>1. want[p] = count /\ count < 0
      BY <2>4 DEF EventStartup, Serves
    <3> QED
      BY <1>0, <2>1, <2>3, <2>4, <3>1, StartupAnswers DEF EventStartup
  <2>5. CASE q = p /\ EventWait(p) /\ updateCount <= want[p]
    <3>1. pc[p] = "asked" /\ pc'[p] = "asleep" /\ want'[p] = want[p]
      BY <2>5 DEF EventWait
    <3> QED
      BY <1>0, <2>1, <3>1 DEF Serves
  <2>6. CASE /\ q = p
             /\ \/ EventWait(p) /\ ~(updateCount <= want[p])
                \/ EventWaitEnds(p)
    <3>1. want[p] = count /\ count >= 0 /\ alive /\ ~failed /\ Answer(p, UpdateReply(want[p]))
      BY <2>6 DEF EventWait, EventWaitEnds, Serves, PollsInv
    <3>2. count \in 0 .. updateCount
      BY <1>0, <3>1
    <3> QED
      BY <1>0, <2>1, <2>3, <2>6, <3>1, <3>2, UpdateAnswers
  <2>7. CASE q = p /\ WaitEnds(p)
    <3>1. pc[p] = "asleep" /\ pc'[p] = "woken" /\ want'[p] = want[p]
      BY <2>7 DEF WaitEnds
    <3> QED
      BY <1>0, <2>1, <3>1 DEF Serves
  <2> QED
    BY <1>8, <2>2, <2>4, <2>5, <2>6, <2>7 DEF PollStep
<1> QED
  BY <1>2, <1>3, <1>4, <1>5, <1>6, <1>7, <1>8 DEF Server, NetOps, SectionStep, SlotOps

\* Every step of the server leaves the account's requests in order.
LEMMA ServerPolls ==
    ASSUME OneLife, TypeInv, PollsInv, Server
    PROVE  PollsInv' /\ updateCount' \in {updateCount, updateCount + 1}
<1> USE DEF TypeInv, TypeOK
<1>0. updateCount \in Int
  BY SizesAssumption
<1>9. ASSUME UNCHANGED <<alive, failed, want>>,
             \A p \in Polls : pc'[p] = pc[p] \/ (pc[p] = "asleep" /\ pc'[p] = "woken")
      PROVE  PollsInv'
  <2> HIDE DEF TypeInv, TypeOK
  <2>1. ~alive => \A p \in Polls : pc'[p] \in {"idle", "replied"}
    BY <1>9 DEF PollsInv
  <2>2. \A p \in Polls : pc'[p] \in {"asleep", "woken"} => want'[p] >= 0
    BY <1>9 DEF PollsInv
  <2> QED
    BY <1>9, <2>1, <2>2 DEF PollsInv
<1>1. CASE UserOps \/ \E w \in Worlds : NetRead(w) \/ NetError(w)
  <2>1. PICK jobs : Opens(jobs)
    BY <1>1, OperationsOpen
  <2> QED
    BY <1>0, <2>1 DEF Opens, pollVars, slotVars, PollsInv
<1>2. CASE QueueEvent
  <2>1. \A p \in Polls : pc'[p] = pc[p] \/ (pc[p] = "asleep" /\ pc'[p] = "woken")
    BY <1>2 DEF QueueEvent, Broadcast
  <2>2. UNCHANGED <<alive, failed, want>> /\ updateCount' \in {updateCount, updateCount + 1}
    BY <1>0, <1>2 DEF QueueEvent, slotVars
  <2> QED
    BY <1>9, <2>1, <2>2
<1>3. CASE QueueEventFails
  BY <1>3 DEF QueueEventFails, OneLife
<1>4. CASE WakePolls
  <2>1. \A p \in Polls : pc'[p] = pc[p] \/ (pc[p] = "asleep" /\ pc'[p] = "woken")
    BY <1>4 DEF WakePolls, Broadcast
  <2>2. UNCHANGED <<alive, failed, want>> /\ updateCount' \in {updateCount, updateCount + 1}
    BY <1>0, <1>4 DEF WakePolls, slotVars
  <2> QED
    BY <1>9, <2>1, <2>2
<1>5. CASE NetDown \/ WorldFree \/ \E w \in Worlds : ThreadEnds(w)
  BY <1>0, <1>5 DEF NetDown, WorldFree, ThreadEnds, pollVars, slotVars, PollsInv
<1>6. CASE UserClean
  BY <1>0, <1>6 DEF UserClean, pollVars, slotVars, PollsInv
<1>7. CASE UserLogin
  BY <1>7 DEF UserLogin, OneLife
<1>8. ASSUME NEW q \in Polls, PollStep(q) PROVE PollsInv' /\ updateCount' \in {updateCount, updateCount + 1}
  <2>1. UNCHANGED <<updateCount, alive, failed>>
    BY <1>8 DEF PollStep, EventStartup, EventWait, WaitEnds, EventWaitEnds, slotVars
  <2>2. pc[q] \in {"asked", "asleep", "woken"} /\ alive
    BY <1>8 DEF PollStep, EventStartup, EventWait, WaitEnds, EventWaitEnds, PollsInv
  <2>3. \A p \in Polls \ {q} : pc'[p] = pc[p] /\ want'[p] = want[p]
    BY <1>8 DEF PollStep, EventStartup, EventWait, WaitEnds, EventWaitEnds, Answer
  <2>4. pc'[q] \in {"asleep", "woken"} => want'[q] >= 0
    BY <1>8 DEF PollStep, EventStartup, EventWait, WaitEnds, EventWaitEnds, Answer, PollsInv
  <2>5. updateCount' \in {updateCount, updateCount + 1}
    BY <1>0, <2>1
  <2> HIDE DEF TypeInv, TypeOK
  <2>6. \A p \in Polls : pc'[p] \in {"asleep", "woken"} => want'[p] >= 0
    BY <2>3, <2>4 DEF PollsInv
  <2>7. alive' /\ ~failed'
    BY <2>1, <2>2 DEF PollsInv
  <2> QED
    BY <2>5, <2>6, <2>7 DEF PollsInv
<1> QED
  BY <1>1, <1>2, <1>3, <1>4, <1>5, <1>6, <1>7, <1>8 DEF Server, NetOps, SectionStep, SlotOps

-----------------------------------------------------------------------------
(* The pages' side.                                                        *)

\* What triggerEvent lets through if nothing is old: everything.
LEMMA FreshAll ==
    ASSUME NEW batch \in Seq(Int), NEW count \in Int,
           \A i \in 1 .. Len(batch) : count <= batch[i]
    PROVE  Fresh(batch, count) = batch
<1> DEFINE n == Len(batch)
           kept == {i \in DOMAIN batch : count <= batch[i]}
           pick(S, k) == CHOOSE i \in S : Cardinality({j \in S : j <= i}) = k
           all(S) == [k \in 1 .. Cardinality(S) |-> batch[pick(S, k)]]
<1>1. n \in Nat /\ DOMAIN batch = 1 .. n /\ batch = [k \in 1 .. n |-> batch[k]]
  BY LenProperties
<1>2. kept = 1 .. n
  BY <1>1
<1>3. Cardinality(1 .. n) = n
  <2>1. n \in Nat /\ 1 \in Int /\ n \in Int
    BY <1>1
  <2>2. Cardinality(1 .. n) = IF 1 > n THEN 0 ELSE n - 1 + 1
    BY <2>1, FS_Interval
  <2> QED
    BY <2>1, <2>2
<1>4. ASSUME NEW i \in 1 .. n PROVE Cardinality({j \in 1 .. n : j <= i}) = i
  <2>1. {j \in 1 .. n : j <= i} = 1 .. i /\ i \in Nat
    BY <1>1
  <2>2. Cardinality(1 .. i) = i
    BY <2>1, FS_Interval
  <2> QED
    BY <2>1, <2>2
<1>5. ASSUME NEW k \in 1 .. n PROVE pick(1 .. n, k) = k
  BY <1>4
<1>6. Fresh(batch, count) = all(kept)
  BY DEF Fresh
<1> HIDE DEF kept, pick
<1>7. all(1 .. n) = [k \in 1 .. n |-> batch[k]]
  BY <1>3, <1>5
<1> HIDE DEF all
<1> QED
  BY <1>1, <1>2, <1>6, <1>7

\* How many of the events behind are sent if as many as possible are.
LEMMA KeptNewest ==
    ASSUME NEW n \in Nat, NEW lost \in Nat, NEW behind \in Nat, NEW most \in Nat,
           lost + n = behind, n <= most, lost = 0 \/ n = most
    PROVE  n = (IF behind > most THEN most ELSE behind) /\ lost = behind - n
OBVIOUS

\* What a page makes of an answer: it joins, is told nothing new, or is shown the next events.
LEMMA AnswerShown ==
    ASSUME TypeInv, NEW r \in Replies, NEW count \in -1 .. updateCount,
           Answers(r, count, updateCount), r.kind # "error"
    PROVE  /\ Fresh(r.batch, count) = r.batch
           /\ r.batch \in Seq(Int) /\ r.lost \in Int
           /\ r.count \in 0 .. updateCount
           /\ \/ count = -1 /\ r.lost = 0 /\ r.batch = <<>>
              \/ count >= 0 /\ r.count = count /\ r.lost = 0 /\ r.batch = <<>>
              \/ /\ count >= 0 /\ r.count \in count + 1 .. updateCount
                 /\ \E kept \in Nat :
                       /\ kept = IF r.count - count > MAX_USER_EVENTS
                                 THEN MAX_USER_EVENTS ELSE r.count - count
                       /\ r.batch = [i \in 1 .. kept |-> r.count - kept + i - 1]
                       /\ r.lost = r.count - count - kept
<1> DEFINE n == Len(r.batch)
<1>1. /\ updateCount \in Nat /\ MAX_USER_EVENTS \in Nat \ {0} /\ count \in Int
      /\ r.batch \in Seq(Int) /\ r.count \in Nat /\ r.lost \in Nat
  BY SizesAssumption DEF TypeInv, TypeOK, Replies
<1>2. /\ n \in Nat /\ r.batch = [i \in 1 .. n |-> r.batch[i]]
      /\ n = 0 => r.batch = <<>>
  BY <1>1, LenProperties, EmptySeq
<1>3. CASE r.kind = "startup"
  <2>1. count = -1 /\ r.count \in 0 .. updateCount /\ r.lost = 0 /\ r.batch = <<>>
    BY <1>1, <1>3 DEF Answers
  <2>2. Fresh(r.batch, count) = r.batch
    <3>1. Len(r.batch) = 0
      BY <2>1
    <3> QED
      BY <1>1, <3>1, FreshAll
  <2> QED
    BY <1>1, <2>1, <2>2
<1>4. CASE r.kind = "events"
  <2>1. /\ count >= 0 /\ r.count \in count .. updateCount
        /\ r.lost + n = r.count - count
        /\ n <= MAX_USER_EVENTS
        /\ r.lost = 0 \/ n = MAX_USER_EVENTS
        /\ \A i \in 1 .. n : r.batch[i] = r.count - n + i - 1
    BY <1>4 DEF Answers
  <2>2. r.count \in 0 .. updateCount
    BY <1>1, <2>1
  <2>3. ASSUME NEW i \in 1 .. n PROVE count <= r.batch[i]
    <3>1. r.batch[i] = r.count - n + i - 1
      BY <2>1
    <3>2. r.lost + n = r.count - count
      BY <2>1
    <3> HIDE DEF n
    <3>3. count <= r.count - n + i - 1
      BY <1>1, <1>2, <3>2
    <3> QED
      BY <3>1, <3>3
  <2>4. Fresh(r.batch, count) = r.batch
    BY <1>1, <2>3, FreshAll
  <2>5. CASE r.count = count
    <3>1. n = 0 /\ r.lost = 0
      <4> HIDE DEF n
      <4> QED
        BY <1>1, <1>2, <2>1, <2>5
    <3> QED
      BY <1>1, <1>2, <2>1, <2>2, <2>4, <2>5, <3>1
  <2>6. CASE r.count # count
    <3>1. r.batch = [i \in 1 .. n |-> r.count - n + i - 1]
      BY <1>2, <2>1
    <3>2. /\ n = IF r.count - count > MAX_USER_EVENTS THEN MAX_USER_EVENTS ELSE r.count - count
          /\ r.lost = r.count - count - n
          /\ r.count \in count + 1 .. updateCount
      <4> DEFINE behind == r.count - count
      <4>1. /\ r.count >= count /\ r.count \in Int /\ r.count <= updateCount
            /\ n \in Nat /\ r.lost + n = behind /\ n <= MAX_USER_EVENTS
            /\ r.lost = 0 \/ n = MAX_USER_EVENTS
        BY <1>1, <1>2, <2>1
      <4> HIDE DEF n
      <4>2. behind \in Nat /\ r.count \in count + 1 .. updateCount
        BY <1>1, <2>6, <4>1
      <4> HIDE DEF behind
      <4>3. n = IF behind > MAX_USER_EVENTS THEN MAX_USER_EVENTS ELSE behind
        BY <1>1, <4>1, <4>2, KeptNewest
      <4>4. r.lost = behind - n
        BY <1>1, <4>1, <4>2, KeptNewest
      <4> QED
        BY <4>2, <4>3, <4>4 DEF behind
    <3>3. \E kept \in Nat :
             /\ kept = IF r.count - count > MAX_USER_EVENTS
                       THEN MAX_USER_EVENTS ELSE r.count - count
             /\ r.batch = [i \in 1 .. kept |-> r.count - kept + i - 1]
             /\ r.lost = r.count - count - kept
      <4> HIDE DEF n
      <4> QED
        BY <1>2, <3>1, <3>2
    <3> QED
      BY <1>1, <2>1, <2>2, <2>4, <3>2, <3>3
  <2> QED
    BY <2>5, <2>6
<1> QED
  BY <1>3, <1>4 DEF Answers

\* A step of a page that lets go of requests, or goes on with those it had.
LEMMA PagesKeep ==
    ASSUME PageTypes, PagesInv, updateCount' = updateCount,
           \A g \in Pages :
              /\ apiCount'[g] \in -1 .. updateCount
              /\ \/ conn'[g] = NULL
                 \/ /\ conn'[g] = conn[g] /\ apiCount'[g] = apiCount[g]
                    /\ pc'[conn[g]] = pc[conn[g]]
                    /\ want'[conn[g]] = want[conn[g]]
                    /\ reply'[conn[g]] = reply[conn[g]]
    PROVE  PagesInv'
BY DEF PagesInv, Serves

LEMMA SentPolls ==
    ASSUME TypeInv, PollsInv, NEW p \in Polls, Sent(p)
    PROVE  /\ PollsInv' /\ updateCount' = updateCount
           /\ \A q \in Polls \ {p} : pc'[q] = pc[q] /\ want'[q] = want[q] /\ reply'[q] = reply[q]
<1>1. /\ UNCHANGED <<updateCount, alive, failed, want>>
      /\ pc' = [pc EXCEPT ![p] = "idle"] /\ reply' = [reply EXCEPT ![p] = NoReply]
  BY DEF Sent, slotVars
<1>2. pc \in [Polls -> {"idle", "asked", "asleep", "woken", "replied"}] /\ DOMAIN reply = Polls
  BY DEF TypeInv, TypeOK
<1> QED
  BY <1>1, <1>2 DEF PollsInv

LEMMA FetchKeeps ==
    ASSUME LPInv, NEW g \in Pages, FetchUpdates(g)
    PROVE  PageTypes' /\ PollsInv' /\ PagesInv' /\ updateCount' = updateCount
<1> USE DEF LPInv
<1>1. PICK p \in Polls :
          /\ \A h \in Pages : conn[h] # p
          /\ Ask(p, apiCount[g])
          /\ conn' = [conn EXCEPT ![g] = p]
  BY DEF FetchUpdates, Request
<1>2. /\ UNCHANGED <<updateCount, alive, failed, apiCount, shown, missed>>
      /\ p # NULL
  BY <1>1, PagesAssumption DEF FetchUpdates, Ask, slotVars
<1>3. /\ pc \in [Polls -> {"idle", "asked", "asleep", "woken", "replied"}]
      /\ DOMAIN reply = Polls /\ DOMAIN want = Polls
  BY DEF TypeInv, TypeOK
<1>4. \/ /\ reply' = [reply EXCEPT ![p] = ErrorReply]
         /\ pc' = [pc EXCEPT ![p] = "replied"] /\ want' = want
      \/ /\ alive
         /\ pc' = [pc EXCEPT ![p] = "asked"]
         /\ want' = [want EXCEPT ![p] = apiCount[g]] /\ reply' = reply
  BY <1>1 DEF Ask
<1>5. \A q \in Polls \ {p} : pc'[q] = pc[q] /\ want'[q] = want[q] /\ reply'[q] = reply[q]
  BY <1>3, <1>4
<1>6. Serves(p, apiCount[g])'
  <2>1. pc'[p] = "replied" => reply'[p].kind = "error"
    BY <1>3, <1>4 DEF ErrorReply, NoReply
  <2>2. pc'[p] = "replied" \/ (pc'[p] = "asked" /\ want'[p] = apiCount'[g])
    BY <1>2, <1>3, <1>4
  <2> QED
    BY <1>2, <2>1, <2>2 DEF Serves, Answers
<1>7. PageTypes'
  BY <1>1, <1>2 DEF PageTypes
<1>8. PollsInv'
  BY <1>2, <1>3, <1>4, <1>5 DEF PollsInv
<1>9. PagesInv'
  <2>1. \A h \in Pages : conn'[h] = IF h = g THEN p ELSE conn[h]
    BY <1>1 DEF PageTypes
  <2>2. (\A h \in Pages : conn[h] # NULL => Serves(conn[h], apiCount[h]))'
    <3>1. ASSUME NEW h \in Pages, h # g, conn'[h] # NULL PROVE Serves(conn[h], apiCount[h])'
      <4>1. conn[h] \in Polls \ {p} /\ Serves(conn[h], apiCount[h])
        BY <1>1, <2>1, <3>1 DEF PageTypes, PagesInv
      <4>2. conn'[h] = conn[h]
        BY <2>1, <3>1
      <4> QED
        BY <1>2, <1>5, <4>1, <4>2 DEF Serves
    <3> QED
      BY <1>2, <1>6, <2>1, <3>1 DEF Serves
  <2>3. \A h, k \in Pages : conn'[h] = conn'[k] /\ conn'[h] # NULL => h = k
    BY <1>1, <2>1 DEF PagesInv
  <2> QED
    BY <1>2, <2>2, <2>3 DEF PagesInv, Serves
<1> QED
  BY <1>2, <1>7, <1>8, <1>9

LEMMA SuccessKeeps ==
    ASSUME LPInv, NEW g \in Pages, OnSuccess(g)
    PROVE  PageTypes' /\ PollsInv' /\ PagesInv' /\ updateCount' = updateCount
<1> USE DEF LPInv
<1>0. PICK p \in Polls : p = conn[g]
  BY DEF OnSuccess, PageTypes
<1>1. PICK r \in Replies : r = reply[p]
  BY DEF TypeInv, TypeOK
<1>2. /\ p # NULL /\ pc[p] = "replied" /\ r.kind # "error"
      /\ apiCount' = [apiCount EXCEPT ![g] = r.count]
      /\ shown' = [shown EXCEPT ![g] = @ \o Fresh(r.batch, apiCount[g])]
      /\ missed' = [missed EXCEPT ![g] = @ + r.lost]
      /\ Sent(p)
      /\ conn' = [conn EXCEPT ![g] = NULL]
  BY <1>0, <1>1 DEF OnSuccess
<1>3. apiCount[g] \in -1 .. updateCount /\ Answers(r, apiCount[g], updateCount)
  BY <1>0, <1>1, <1>2 DEF PagesInv, Serves
<1>4. /\ Fresh(r.batch, apiCount[g]) = r.batch
      /\ r.batch \in Seq(Int) /\ r.lost \in Int
      /\ r.count \in 0 .. updateCount
  BY <1>2, <1>3, AnswerShown
<1>5. shown[g] \o r.batch \in Seq(Int)
  BY <1>4 DEF PageTypes
<1>6. updateCount \in Int
  BY SizesAssumption DEF TypeInv, TypeOK
<1>7. PageTypes'
  BY <1>2, <1>4, <1>5, <1>6 DEF PageTypes
<1>8. /\ PollsInv' /\ updateCount' = updateCount
      /\ \A q \in Polls \ {p} : pc'[q] = pc[q] /\ want'[q] = want[q] /\ reply'[q] = reply[q]
  BY <1>2, SentPolls
<1>9. \A h \in Pages \ {g} : conn[h] = NULL \/ conn[h] \in Polls \ {p}
  BY <1>0, <1>2 DEF PageTypes, PagesInv
<1>10. r.count \in -1 .. updateCount
  BY <1>4, <1>6
<1>11. \A h \in Pages : /\ conn'[h] = IF h = g THEN NULL ELSE conn[h]
                        /\ apiCount'[h] = IF h = g THEN r.count ELSE apiCount[h]
  BY <1>2 DEF PageTypes
<1>12. \A h \in Pages : apiCount'[h] \in -1 .. updateCount
  BY <1>10, <1>11 DEF PagesInv
<1>13. PagesInv'
  BY <1>8, <1>9, <1>11, <1>12, PagesKeep
<1> QED
  BY <1>7, <1>8, <1>13

LEMMA OtherKeeps ==
    ASSUME LPInv,
           \/ \E g \in Pages : ErrorAnswer(g) \/ Break(g)
           \/ \E p \in Polls : Discard(p)
    PROVE  /\ PageTypes' /\ PollsInv' /\ PagesInv'
           /\ UNCHANGED <<updateCount, apiCount, shown, missed>>
<1> USE DEF LPInv
<1>1. ASSUME NEW g \in Pages, ErrorAnswer(g)
      PROVE  /\ PageTypes' /\ PollsInv' /\ PagesInv'
             /\ UNCHANGED <<updateCount, apiCount, shown, missed>>
  <2>1. PICK p \in Polls : p = conn[g]
    BY <1>1 DEF ErrorAnswer, PageTypes
  <2>2. /\ p # NULL /\ Sent(p) /\ conn' = [conn EXCEPT ![g] = NULL]
        /\ UNCHANGED <<apiCount, shown, missed>>
    BY <1>1, <2>1 DEF ErrorAnswer, OnError
  <2>3. /\ PollsInv' /\ updateCount' = updateCount
        /\ \A q \in Polls \ {p} : pc'[q] = pc[q] /\ want'[q] = want[q] /\ reply'[q] = reply[q]
    BY <2>2, SentPolls
  <2>4. PageTypes'
    BY <2>2 DEF PageTypes
  <2>5. \A h \in Pages : conn'[h] = IF h = g THEN NULL ELSE conn[h]
    BY <2>2 DEF PageTypes
  <2>6. \A h \in Pages \ {g} : conn[h] = NULL \/ conn[h] \in Polls \ {p}
    BY <2>1, <2>2 DEF PageTypes, PagesInv
  <2>7. \A h \in Pages : apiCount'[h] \in -1 .. updateCount
    BY <2>2 DEF PagesInv
  <2>8. PagesInv'
    BY <2>2, <2>3, <2>5, <2>6, <2>7, PagesKeep
  <2> QED
    BY <2>2, <2>3, <2>4, <2>8
<1>2. ASSUME NEW g \in Pages, Break(g)
      PROVE  /\ PageTypes' /\ PollsInv' /\ PagesInv'
             /\ UNCHANGED <<updateCount, apiCount, shown, missed>>
  <2>1. /\ conn' = [conn EXCEPT ![g] = NULL]
        /\ UNCHANGED <<updateCount, alive, failed, pc, want, reply, apiCount, shown, missed>>
    BY <1>2 DEF Break, OnError, vars, slotVars, pollVars
  <2>2. PageTypes' /\ PollsInv'
    BY <2>1 DEF PageTypes, PollsInv
  <2>3. \A h \in Pages : conn'[h] = IF h = g THEN NULL ELSE conn[h]
    BY <2>1 DEF PageTypes
  <2>4. \A h \in Pages : apiCount'[h] \in -1 .. updateCount
    BY <2>1 DEF PagesInv
  <2>5. PagesInv'
    BY <2>1, <2>3, <2>4, PagesKeep
  <2> QED
    BY <2>1, <2>2, <2>5
<1>3. ASSUME NEW p \in Polls, Discard(p)
      PROVE  /\ PageTypes' /\ PollsInv' /\ PagesInv'
             /\ UNCHANGED <<updateCount, apiCount, shown, missed>>
  <2>1. /\ Sent(p) /\ UNCHANGED <<conn, apiCount, shown, missed>>
        /\ \A g \in Pages : conn[g] # p
    BY <1>3 DEF Discard, pageVars
  <2>2. /\ PollsInv' /\ updateCount' = updateCount
        /\ \A q \in Polls \ {p} : pc'[q] = pc[q] /\ want'[q] = want[q] /\ reply'[q] = reply[q]
    BY <2>1, SentPolls
  <2>3. PageTypes'
    BY <2>1 DEF PageTypes
  <2>4. \A h \in Pages : conn[h] = NULL \/ conn[h] \in Polls \ {p}
    BY <2>1 DEF PageTypes
  <2>5. \A h \in Pages : apiCount'[h] \in -1 .. updateCount
    BY <2>1 DEF PagesInv
  <2>6. PagesInv'
    BY <2>1, <2>2, <2>4, <2>5, PagesKeep
  <2> QED
    BY <2>1, <2>2, <2>3, <2>6
<1> QED
  BY <1>1, <1>2, <1>3

-----------------------------------------------------------------------------
(* The refinement.                                                         *)

\* What pages and server do together is what EventRing allows.
LEMMA StepIsNext ==
    ASSUME LPInv, [LPNext]_lpVars
    PROVE  [Next]_vars
<1>1. ASSUME NEW g \in Pages, FetchUpdates(g) PROVE Next
  <2>1. apiCount[g] \in -1 .. MaxUpdates
    BY SizesAssumption DEF LPInv, PagesInv, TypeInv, TypeOK
  <2>2. \E p \in Polls : Ask(p, apiCount[g])
    BY <1>1 DEF FetchUpdates, Request
  <2> QED
    BY <2>1, <2>2 DEF Next, Client
<1>2. ASSUME NEW g \in Pages, OnSuccess(g) \/ ErrorAnswer(g) PROVE Next
  <2>1. conn[g] \in Polls /\ Sent(conn[g])
    BY <1>2 DEF OnSuccess, ErrorAnswer, LPInv, PageTypes
  <2> QED
    BY <2>1 DEF Next, Client
<1>3. ASSUME NEW p \in Polls, Discard(p) PROVE Next
  BY <1>3 DEF Discard, Next, Client
<1>4. ASSUME NEW g \in Pages, Break(g) PROVE UNCHANGED vars
  BY <1>4 DEF Break
<1> QED
  BY <1>1, <1>2, <1>3, <1>4 DEF LPNext, PageStep, Next, lpVars

LEMMA LPInvNext ==
    ASSUME OneLife, LPInv, [LPNext]_lpVars
    PROVE  LPInv'
<1>1. TypeInv' /\ RingInv'
  BY StepIsNext, TypeInvNext, RingInvNext DEF LPInv
<1>2. CASE Server /\ UNCHANGED pageVars
  <2>0. UNCHANGED <<conn, apiCount, shown, missed>>
    BY <1>2 DEF pageVars
  <2>1. PollsInv' /\ updateCount' \in {updateCount, updateCount + 1} /\ updateCount \in Int
    BY <1>2, ServerPolls, SizesAssumption DEF LPInv, TypeInv, TypeOK
  <2>2. PageTypes'
    BY <2>0 DEF LPInv, PageTypes
  <2>3. ASSUME NEW g \in Pages, conn[g] # NULL PROVE Serves(conn[g], apiCount[g])'
    <3>1. PICK p \in Polls, count \in Int : p = conn[g] /\ count = apiCount[g]
      BY <2>3 DEF LPInv, PageTypes
    <3>2. count <= updateCount /\ Serves(p, count)
      BY <2>1, <2>3, <3>1 DEF LPInv, PagesInv
    <3>3. Serves(p, count)'
      BY <1>2, <3>2, ServerServes DEF LPInv
    <3> QED
      BY <2>0, <3>1, <3>3 DEF Serves
  <2>4. \A g \in Pages : apiCount'[g] \in -1 .. updateCount'
    BY <2>0, <2>1 DEF LPInv, PagesInv
  <2>5. PagesInv'
    BY <2>0, <2>3, <2>4 DEF LPInv, PagesInv
  <2> QED
    BY <1>1, <2>1, <2>2, <2>5 DEF LPInv
<1>3. ASSUME NEW g \in Pages, FetchUpdates(g) PROVE LPInv'
  BY <1>1, <1>3, FetchKeeps DEF LPInv
<1>4. ASSUME NEW g \in Pages, OnSuccess(g) PROVE LPInv'
  BY <1>1, <1>4, SuccessKeeps DEF LPInv
<1>5. CASE \/ \E g \in Pages : ErrorAnswer(g) \/ Break(g)
           \/ \E p \in Polls : Discard(p)
  BY <1>1, <1>5, OtherKeeps DEF LPInv
<1>6. CASE UNCHANGED lpVars
  BY <1>1, <1>6
     DEF lpVars, vars, pageVars, pollVars, slotVars, LPInv, PageTypes, PollsInv, PagesInv, Serves
<1> QED
  BY <1>2, <1>3, <1>4, <1>5, <1>6 DEF LPNext, PageStep

LEMMA LPInitFeeds == LPInit => FeedOfPages!FeedInit
BY DEF LPInit, Init, FreshRings, FeedOfPages!FeedInit

LEMMA StepFeeds ==
    ASSUME OneLife, LPInv, [LPNext]_lpVars
    PROVE  [FeedOfPages!FeedNext]_FeedOfPages!feedVars
<1>1. CASE Server /\ UNCHANGED pageVars
  <2>1. UNCHANGED <<apiCount, shown, missed>>
    BY <1>1 DEF pageVars
  <2>2. updateCount' \in {updateCount, updateCount + 1}
    BY <1>1, ServerPolls DEF LPInv
  <2>3. updateCount \in Int /\ updateCount' \in 0 .. MaxUpdates
    BY LPInvNext, SizesAssumption DEF LPInv, TypeInv, TypeOK
  <2>4. CASE updateCount' = updateCount
    BY <2>1, <2>4 DEF FeedOfPages!feedVars
  <2>5. CASE updateCount' = updateCount + 1
    <3>1. FeedOfPages!Publish
      BY SizesAssumption, <2>1, <2>3, <2>5 DEF FeedOfPages!Publish
    <3> QED
      BY <3>1 DEF FeedOfPages!FeedNext
  <2> QED
    BY <2>2, <2>4, <2>5
<1>2. ASSUME NEW g \in Pages, FetchUpdates(g) PROVE UNCHANGED FeedOfPages!feedVars
  BY <1>2, FetchKeeps DEF FetchUpdates, FeedOfPages!feedVars
<1>3. CASE \/ \E g \in Pages : ErrorAnswer(g) \/ Break(g)
           \/ \E p \in Polls : Discard(p)
  BY <1>3, OtherKeeps DEF FeedOfPages!feedVars
<1>4. CASE UNCHANGED lpVars
  BY <1>4 DEF lpVars, vars, pageVars, FeedOfPages!feedVars
<1>5. ASSUME NEW g \in Pages, OnSuccess(g)
      PROVE  [FeedOfPages!FeedNext]_FeedOfPages!feedVars
  <2>0. PICK p \in Polls : p = conn[g]
    BY <1>5 DEF OnSuccess, LPInv, PageTypes
  <2>1. PICK r \in Replies : r = reply[p]
    BY DEF LPInv, TypeInv, TypeOK
  <2>2. PICK count \in -1 .. updateCount : count = apiCount[g]
    BY DEF LPInv, PagesInv
  <2>3. /\ p # NULL /\ pc[p] = "replied" /\ r.kind # "error"
        /\ apiCount' = [apiCount EXCEPT ![g] = r.count]
        /\ shown' = [shown EXCEPT ![g] = @ \o Fresh(r.batch, count)]
        /\ missed' = [missed EXCEPT ![g] = @ + r.lost]
    BY <1>5, <2>0, <2>1, <2>2 DEF OnSuccess
  <2>4. Answers(r, count, updateCount)
    BY <2>0, <2>1, <2>2, <2>3 DEF LPInv, PagesInv, Serves
  <2>5. updateCount' = updateCount /\ updateCount \in Int
    BY <1>5, SuccessKeeps, SizesAssumption DEF LPInv, TypeInv, TypeOK
  <2>6. /\ Fresh(r.batch, count) = r.batch
        /\ r.batch \in Seq(Int) /\ r.lost \in Int
        /\ r.count \in 0 .. updateCount
        /\ \/ count = -1 /\ r.lost = 0 /\ r.batch = <<>>
           \/ count >= 0 /\ r.count = count /\ r.lost = 0 /\ r.batch = <<>>
           \/ /\ count >= 0 /\ r.count \in count + 1 .. updateCount
              /\ \E kept \in Nat :
                    /\ kept = IF r.count - count > MAX_USER_EVENTS
                              THEN MAX_USER_EVENTS ELSE r.count - count
                    /\ r.batch = [i \in 1 .. kept |-> r.count - kept + i - 1]
                    /\ r.lost = r.count - count - kept
    BY <2>3, <2>4, AnswerShown DEF LPInv
  <2>7. /\ apiCount \in [Pages -> Int] /\ shown \in [Pages -> Seq(Int)]
        /\ missed \in [Pages -> Int]
    BY DEF LPInv, PageTypes
  <2>8. ASSUME r.lost = 0, r.batch = <<>> PROVE UNCHANGED <<shown, missed>>
    <3>1. shown[g] \o <<>> = shown[g] /\ missed[g] + 0 = missed[g]
      BY <2>7
    <3> QED
      BY <2>3, <2>6, <2>7, <2>8, <3>1
  <2>9. CASE count = -1 /\ r.lost = 0 /\ r.batch = <<>>
    <3>1. UNCHANGED <<updateCount, shown, missed>> /\ apiCount[g] < 0
      BY <2>2, <2>5, <2>8, <2>9
    <3>2. FeedOfPages!Join(g)
      BY <2>3, <2>6, <3>1 DEF FeedOfPages!Join
    <3> QED
      BY <3>2 DEF FeedOfPages!FeedNext
  <2>10. CASE count >= 0 /\ r.count = count /\ r.lost = 0 /\ r.batch = <<>>
    BY <2>2, <2>3, <2>5, <2>7, <2>8, <2>10 DEF FeedOfPages!feedVars
  <2>11. CASE /\ count >= 0 /\ r.count \in count + 1 .. updateCount
              /\ \E kept \in Nat :
                    /\ kept = IF r.count - count > MAX_USER_EVENTS
                              THEN MAX_USER_EVENTS ELSE r.count - count
                    /\ r.batch = [i \in 1 .. kept |-> r.count - kept + i - 1]
                    /\ r.lost = r.count - count - kept
    <3>1. PICK kept \in Nat :
              /\ kept = IF r.count - count > MAX_USER_EVENTS
                        THEN MAX_USER_EVENTS ELSE r.count - count
              /\ r.batch = [i \in 1 .. kept |-> r.count - kept + i - 1]
              /\ r.lost = r.count - count - kept
      BY <2>11
    <3>2. missed[g] + (r.count - count - kept) = missed[g] + (r.count - count) - kept
      BY <2>6, <2>7
    <3>3. /\ shown' = [shown EXCEPT ![g] = @ \o [i \in 1 .. kept |-> r.count - kept + i - 1]]
          /\ missed' = [missed EXCEPT ![g] = @ + (r.count - count) - kept]
      BY <2>3, <2>6, <3>1, <3>2
    <3>4. FeedOfPages!Deliver(g)
      <4> DEFINE behind == r.count - apiCount[g]
                 most == IF behind > MAX_USER_EVENTS THEN MAX_USER_EVENTS ELSE behind
                 more(k) == [shown EXCEPT ![g] = @ \o [i \in 1 .. k |-> r.count - k + i - 1]]
                 less(k) == [missed EXCEPT ![g] = @ + behind - k]
      <4>1. /\ apiCount[g] >= 0 /\ r.count \in apiCount[g] + 1 .. updateCount
            /\ kept = most
        BY <2>2, <2>11, <3>1
      <4>2. shown' = more(kept) /\ missed' = less(kept)
        BY <2>2, <3>3
      <4>3. shown' = more(most) /\ missed' = less(most)
        <5> HIDE DEF most, more, less
        <5> QED
          BY <4>1, <4>2
      <4>4. apiCount' = [apiCount EXCEPT ![g] = r.count] /\ updateCount' = updateCount
        BY <2>3, <2>5
      <4> QED
        BY <4>1, <4>3, <4>4 DEF FeedOfPages!Deliver
    <3> QED
      BY <3>4 DEF FeedOfPages!FeedNext
  <2> QED
    BY <2>6, <2>9, <2>10, <2>11
<1> QED
  BY <1>1, <1>2, <1>3, <1>4, <1>5 DEF LPNext, PageStep

\* In one life of the account, whatever breaks and is asked again, what the pages are shown
\* is the feed: no event twice, out of order or left out untold, for any number of pages and
\* any size of the ring (events.c:268-307, muclient.js:15-98).
THEOREM PagesSeeTheFeed == OneLife => (LPSpec => ImplementsFeed)
<1> SUFFICES ASSUME OneLife PROVE LPSpec => ImplementsFeed
  OBVIOUS
<1>1. LPInit => LPInv /\ FeedOfPages!FeedInit
  BY LPInvInit, LPInitFeeds
<1>2. LPInv /\ [LPNext]_lpVars => LPInv' /\ [FeedOfPages!FeedNext]_FeedOfPages!feedVars
  BY LPInvNext, StepFeeds
<1> QED
  BY <1>1, <1>2, PTL DEF LPSpec, ImplementsFeed, FeedOfPages!FeedSpec

=============================================================================
