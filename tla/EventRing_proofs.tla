-------------------------- MODULE EventRing_proofs --------------------------
(***************************************************************************)
(* Proofs about EventRing, for every number of worlds and requests and     *)
(* every size of the rings.  TypeOK needs nothing but that a section never *)
(* outgrows MaxUpdates; what event_wait sends rests on where the newest    *)
(* events are in the ring, and that no wake-up is lost on every silent     *)
(* event of a section being followed by a broadcast.                       *)
(***************************************************************************)
EXTENDS EventRing, SequenceTheorems, FiniteSetTheorems, TLAPS

-----------------------------------------------------------------------------
(* Lemmas about the operators.                                             *)

\* Wrap and Back stay inside a ring of n slots.
LEMMA WrapInRange ==
    ASSUME NEW n \in Nat \ {0}, NEW x \in Int, 0 <= x, x < 2 * n
    PROVE  Wrap(x, n) \in 0 .. n - 1
BY DEF Wrap

LEMMA BackInRange ==
    ASSUME NEW n \in Nat \ {0}, NEW e \in 0 .. n - 1, NEW c \in 0 .. n
    PROVE  Back(e, c, n) \in 0 .. n - 1
BY DEF Back

\* The number of slots of a ring that hold an event is a natural number.
LEMMA HoldsType ==
    ASSUME NEW n \in Int, NEW ring, DOMAIN ring = 0 .. n, NEW e
    PROVE  Holds(ring, e) \in Nat
<1>1. IsFiniteSet(0 .. n)
  BY FS_Interval
<1>2. IsFiniteSet({s \in DOMAIN ring : ring[s] = e})
  BY <1>1, FS_Subset
<1> QED
  BY <1>2, FS_CardinalityType DEF Holds

\* n copies of a job are a sequence of jobs.
LEMMA CopiesType ==
    ASSUME NEW n \in Nat, NEW job \in Jobs
    PROVE  /\ Copies(n, job) \in Seq(Jobs)
           /\ Len(Copies(n, job)) = n
           /\ \A i \in 1 .. n : Copies(n, job)[i] = job
BY DEF Copies

\* Every job that other code puts into a section is one of Jobs.
LEMMA JobsType ==
    /\ \A w \in Worlds : Line(w) \in Jobs /\ Down(w) \in Jobs /\ Free(w) \in Jobs
    /\ \A w \in Worlds \cup {NULL} : AddEvent(w) \in Jobs
    /\ Wake \in Jobs
BY DEF Jobs

\* The jobs world_dc_event leads to: none, or one event with an alarm.
LEMMA DisconnectEventType ==
    ASSUME NEW w \in Worlds
    PROVE  /\ DisconnectEvent(w) \in Seq(Jobs)
           /\ Len(DisconnectEvent(w)) \in {0, 1}
           /\ \A i \in 1 .. Len(DisconnectEvent(w)) : DisconnectEvent(w)[i] = AddEvent(w)
BY JobsType DEF DisconnectEvent

\* In a list of jobs every event queued without an alarm has a broadcast ahead.
Covered(jobs) ==
    \A i \in 1 .. Len(jobs) :
        jobs[i].do = "queue" /\ ~jobs[i].alarm => \E j \in i + 1 .. Len(jobs) : Rings(jobs[j])

LEMMA CoveredTail ==
    ASSUME NEW jobs \in Seq(Jobs), jobs # <<>>, Covered(jobs)
    PROVE  Covered(Tail(jobs))
<1>1. /\ Tail(jobs) \in Seq(Jobs)
      /\ Len(Tail(jobs)) = Len(jobs) - 1
      /\ Len(jobs) \in Nat
      /\ \A i \in 1 .. Len(Tail(jobs)) : Tail(jobs)[i] = jobs[i + 1]
  BY HeadTailProperties
<1>2. SUFFICES ASSUME NEW i \in 1 .. Len(Tail(jobs)),
                      Tail(jobs)[i].do = "queue", ~Tail(jobs)[i].alarm
               PROVE  \E j \in i + 1 .. Len(Tail(jobs)) : Rings(Tail(jobs)[j])
  BY DEF Covered
<1>3. PICK j \in i + 2 .. Len(jobs) : Rings(jobs[j])
  <2>1. i + 1 \in 1 .. Len(jobs) /\ jobs[i + 1] = Tail(jobs)[i]
    BY <1>1
  <2>2. \E j \in (i + 1) + 1 .. Len(jobs) : Rings(jobs[j])
    BY <1>2, <2>1 DEF Covered
  <2> QED
    BY <2>2
<1>4. j - 1 \in i + 1 .. Len(Tail(jobs)) /\ Tail(jobs)[j - 1] = jobs[j]
  BY <1>1
<1> QED
  BY <1>3, <1>4

\* A list of jobs queues events only for these worlds, and frees a world at its end.
QueuesFor(worlds, jobs) ==
    \A i \in 1 .. Len(jobs) :
        /\ jobs[i].do = "queue" => jobs[i].world = NULL \/ jobs[i].world \in worlds
        /\ jobs[i].do = "free" => i = Len(jobs)

LEMMA QueuesForTail ==
    ASSUME NEW worlds, NEW jobs \in Seq(Jobs), jobs # <<>>, QueuesFor(worlds, jobs)
    PROVE  /\ QueuesFor(worlds, Tail(jobs))
           /\ Head(jobs).do = "free" => Tail(jobs) = <<>>
           /\ Head(jobs).do = "queue" => Head(jobs).world = NULL \/ Head(jobs).world \in worlds
<1>1. /\ Tail(jobs) \in Seq(Jobs)
      /\ Len(Tail(jobs)) = Len(jobs) - 1
      /\ Len(jobs) \in Nat \ {0}
      /\ \A i \in 1 .. Len(Tail(jobs)) : Tail(jobs)[i] = jobs[i + 1]
      /\ Head(jobs) = jobs[1]
  BY HeadTailProperties, EmptySeq, LenProperties
<1> DEFINE m == Len(Tail(jobs))
           n == Len(jobs)
<1>0. m = n - 1 /\ n \in Nat /\ m \in Nat
  BY <1>1, LenProperties
<1> HIDE DEF m, n
<1>2. ASSUME NEW i \in 1 .. m
      PROVE  i + 1 \in 1 .. n /\ (i + 1 = n => i = m)
  BY <1>0
<1>3. QueuesFor(worlds, Tail(jobs))
  BY <1>1, <1>2 DEF QueuesFor, m, n
<1>4. 1 \in 1 .. Len(jobs)
  <2>1. 1 <= n
    BY <1>0
  <2> QED
    BY <1>0, <2>1 DEF n
<1>5. Head(jobs).do = "free" => Len(Tail(jobs)) = 0
  <2>1. Head(jobs) = jobs[1]
    BY <1>1
  <2>2. Head(jobs).do = "free" => 1 = Len(jobs)
    BY <1>4, <2>1 DEF QueuesFor
  <2>3. 1 = n => m = 0
    BY <1>0
  <2> QED
    BY <2>2, <2>3 DEF m, n
<1>6. Len(Tail(jobs)) = 0 => Tail(jobs) = <<>>
  BY <1>1, EmptySeq
<1> QED
  BY <1>1, <1>3, <1>4, <1>5, <1>6 DEF QueuesFor

\* Jobs that are all of world w, or of none, and do not free it.
LEMMA AllFor ==
    ASSUME NEW worlds, NEW w \in worlds, NEW jobs \in Seq(Jobs),
           \A i \in 1 .. Len(jobs) :
               jobs[i] \in {AddEvent(NULL), AddEvent(w), Line(w), Wake, Down(w)}
    PROVE  QueuesFor(worlds, jobs)
BY DEF QueuesFor, AddEvent, Line, Wake, Down

-----------------------------------------------------------------------------
(* What the operations that open a section have in common: they take a     *)
(* list of covered jobs for open worlds and touch nothing of the rings and *)
(* the requests.                                                           *)

Opens(jobs) ==
    /\ jobs \in Seq(Jobs)
    /\ Covered(jobs)
    /\ QueuesFor(open, jobs)
    /\ Begin(jobs)
    /\ open' \in SUBSET Worlds /\ open \subseteq open'
    /\ netstatus' \in [Worlds -> {"disconnected", "connecting", "connected"}]
    /\ threads' \in [Worlds -> 0 .. MaxThreads]
    /\ UNCHANGED <<updateCount, ringVars, alive, slotVars, pollVars, wlog>>

LEMMA SingleJob ==
    ASSUME NEW w \in Worlds \cup {NULL}
    PROVE  /\ <<AddEvent(w)>> \in Seq(Jobs) /\ Covered(<<AddEvent(w)>>)
           /\ w = NULL => QueuesFor(open, <<AddEvent(w)>>)
BY JobsType DEF Covered, AddEvent, QueuesFor

\* A list none of whose jobs is a silent queueEvent is covered.
LEMMA AllRing ==
    ASSUME NEW jobs \in Seq(Jobs),
           \A i \in 1 .. Len(jobs) : jobs[i].do = "queue" => jobs[i].alarm
    PROVE  Covered(jobs)
BY DEF Covered

\* A disconnect event may precede any list whose events all ring.
LEMMA AfterDisconnect ==
    ASSUME NEW w \in Worlds, NEW rest \in Seq(Jobs),
           \A i \in 1 .. Len(rest) : rest[i].do = "queue" => rest[i].alarm,
           w \in open, QueuesFor(open, rest)
    PROVE  /\ DisconnectEvent(w) \o rest \in Seq(Jobs) /\ Covered(DisconnectEvent(w) \o rest)
           /\ QueuesFor(open, DisconnectEvent(w) \o rest)
<1> DEFINE first == DisconnectEvent(w)
           jobs == first \o rest
<1>1. /\ first \in Seq(Jobs)
      /\ \A i \in 1 .. Len(first) : first[i] = AddEvent(w)
  BY DisconnectEventType
<1> HIDE DEF first
<1>2. /\ jobs \in Seq(Jobs)
      /\ Len(jobs) = Len(first) + Len(rest)
      /\ \A i \in 1 .. Len(first) + Len(rest) :
            jobs[i] = IF i <= Len(first) THEN first[i] ELSE rest[i - Len(first)]
  BY <1>1, ConcatProperties
<1>3. Len(first) \in Nat /\ Len(rest) \in Nat
  BY <1>1, LenProperties
<1> HIDE DEF jobs
<1>4. ASSUME NEW i \in 1 .. Len(jobs), jobs[i].do = "queue" PROVE jobs[i].alarm
  <2>1. CASE i <= Len(first)
    BY <1>1, <1>2, <1>3, <2>1 DEF AddEvent
  <2>2. CASE i > Len(first)
    BY <1>2, <1>3, <1>4, <2>2
  <2> QED
    BY <1>2, <1>3, <2>1, <2>2
<1>5. Covered(jobs)
  BY <1>2, <1>4, AllRing
<1>6. QueuesFor(open, jobs)
  <2> SUFFICES ASSUME NEW i \in 1 .. Len(jobs)
               PROVE  /\ jobs[i].do = "queue" => jobs[i].world = NULL \/ jobs[i].world \in open
                      /\ jobs[i].do = "free" => i = Len(jobs)
    BY DEF QueuesFor
  <2>1. CASE i <= Len(first)
    <3>1. jobs[i] = AddEvent(w)
      BY <1>1, <1>2, <1>3, <2>1
    <3> QED
      BY <3>1 DEF AddEvent
  <2>2. CASE i > Len(first)
    <3>1. jobs[i] = rest[i - Len(first)] /\ i - Len(first) \in 1 .. Len(rest)
      BY <1>2, <1>3, <2>2
    <3>2. i - Len(first) = Len(rest) => i = Len(jobs)
      BY <1>2, <1>3
    <3> QED
      BY <3>1, <3>2 DEF QueuesFor
  <2> QED
    BY <1>2, <1>3, <2>1, <2>2
<1> QED
  BY <1>2, <1>5, <1>6 DEF jobs, first

LEMMA OperationsOpen ==
    ASSUME TypeOK,
           \/ UserOps
           \/ \E w \in Worlds : NetRead(w) \/ NetError(w)
    PROVE  \E jobs : Opens(jobs)
<1> USE DEF TypeOK
<1>1. ASSUME MessageEvent PROVE \E jobs : Opens(jobs)
  <2>1. Opens(<<AddEvent(NULL)>>)
    BY <1>1, SingleJob DEF MessageEvent, Opens, worldVars
  <2> QED
    BY <2>1
<1>2. ASSUME NEW w \in Worlds, WorldOpen(w) PROVE \E jobs : Opens(jobs)
  <2>1. Opens(<<AddEvent(NULL)>>)
    BY <1>2, SingleJob DEF WorldOpen, Opens
  <2> QED
    BY <2>1
<1>3. ASSUME NEW w \in Worlds, WorldEcho(w) PROVE \E jobs : Opens(jobs)
  <2>1. PICK n \in 1 .. MaxEcho : Begin(Copies(n, AddEvent(NULL)))
    BY <1>3 DEF WorldEcho
  <2>2. n \in Nat /\ AddEvent(NULL) \in Jobs
    BY SizesAssumption, JobsType
  <2> DEFINE jobs == Copies(n, AddEvent(NULL))
  <2>3. /\ jobs \in Seq(Jobs)
        /\ \A i \in 1 .. Len(jobs) : jobs[i] = AddEvent(NULL)
    BY <2>2, CopiesType
  <2>4. Begin(jobs)
    BY <2>1
  <2> HIDE DEF jobs, TypeOK
  <2>5. Opens(jobs)
    <3>1. \A i \in 1 .. Len(jobs) : jobs[i].alarm
      BY <2>3 DEF AddEvent
    <3>2. Covered(jobs)
      BY <2>3, <3>1, AllRing
    <3>3. QueuesFor(open, jobs)
      BY <2>3 DEF QueuesFor, AddEvent
    <3> QED
      BY <1>3, <2>3, <2>4, <3>2, <3>3 DEF WorldEcho, Opens, worldVars, TypeOK
  <2> QED
    BY <2>5
<1>4. ASSUME NEW w \in Worlds, WorldConnect(w) PROVE \E jobs : Opens(jobs)
  <2>1. /\ netstatus' \in [Worlds -> {"disconnected", "connecting", "connected"}]
        /\ threads' \in [Worlds -> 0 .. MaxThreads]
    <3>1. CASE netstatus[w] = "disconnected"
      <4>1. /\ threads[w] + 1 \in 0 .. MaxThreads
            /\ threads' = [threads EXCEPT ![w] = threads[w] + 1]
            /\ netstatus' = [netstatus EXCEPT ![w] = "connecting"]
        BY <1>4, <3>1, SizesAssumption DEF WorldConnect
      <4> QED
        BY <4>1
    <3>2. CASE netstatus[w] # "disconnected"
      BY <1>4, <3>2 DEF WorldConnect
    <3> QED
      BY <3>1, <3>2
  <2>2. Opens(<<AddEvent(NULL)>>)
    BY <1>4, <2>1, SingleJob DEF WorldConnect, Opens
  <2> QED
    BY <2>2
<1>5. ASSUME NEW w \in Worlds, WorldDisconnect(w) \/ NetError(w)
      PROVE  \E jobs : Opens(jobs)
  <2> DEFINE jobs == DisconnectEvent(w) \o <<Down(w)>>
  <2>1. /\ <<Down(w)>> \in Seq(Jobs)
        /\ \A i \in 1 .. Len(<<Down(w)>>) : <<Down(w)>>[i].do = "queue" => <<Down(w)>>[i].alarm
    BY JobsType DEF Down, AddEvent
  <2>2. jobs \in Seq(Jobs) /\ Covered(jobs) /\ QueuesFor(open, jobs)
    <3>1. w \in open /\ QueuesFor(open, <<Down(w)>>)
      BY <1>5 DEF WorldDisconnect, NetError, QueuesFor, Down
    <3> QED
      BY <2>1, <3>1, AfterDisconnect
  <2>3. Begin(jobs)
    BY <1>5 DEF WorldDisconnect, NetError
  <2> HIDE DEF jobs
  <2>4. Opens(jobs)
    BY <1>5, <2>2, <2>3 DEF WorldDisconnect, NetError, Opens, worldVars
  <2> QED
    BY <2>4
<1>6. ASSUME NEW w \in Worlds, WorldClose(w) PROVE \E jobs : Opens(jobs)
  <2> DEFINE rest == <<AddEvent(NULL), Down(w), Free(w)>>
             jobs == DisconnectEvent(w) \o rest
  <2>1. /\ rest \in Seq(Jobs)
        /\ \A i \in 1 .. Len(rest) : rest[i].do = "queue" => rest[i].alarm
    BY JobsType DEF AddEvent, Down, Free
  <2>2. jobs \in Seq(Jobs) /\ Covered(jobs) /\ QueuesFor(open, jobs)
    <3>1. w \in open /\ QueuesFor(open, rest)
      BY <1>6 DEF WorldClose, QueuesFor, AddEvent, Down, Free
    <3> QED
      BY <2>1, <3>1, AfterDisconnect
  <2>3. Begin(jobs)
    BY <1>6 DEF WorldClose
  <2> HIDE DEF jobs
  <2>4. Opens(jobs)
    BY <1>6, <2>2, <2>3 DEF WorldClose, Opens, worldVars
  <2> QED
    BY <2>4
<1>7. ASSUME NEW w \in Worlds, NetRead(w) PROVE \E jobs : Opens(jobs)
  <2>1. PICK n \in 0 .. MAX_LINES, end \in {"nothing", "prompt", "closed"} :
           Begin(Copies(n, Line(w))
                   \o (IF n > 0 THEN <<Wake>> ELSE <<>>)
                   \o (CASE end = "prompt" -> <<AddEvent(w)>>
                         [] end = "closed" -> <<AddEvent(w), Down(w)>>
                         [] OTHER -> <<>>))
    BY <1>7 DEF NetRead
  <2> DEFINE lines == Copies(n, Line(w))
             wake == IF n > 0 THEN <<Wake>> ELSE <<>>
             last == CASE end = "prompt" -> <<AddEvent(w)>>
                       [] end = "closed" -> <<AddEvent(w), Down(w)>>
                       [] OTHER -> <<>>
             read == lines \o wake
             jobs == read \o last
  <2>2. n \in Nat
    BY SizesAssumption
  <2>3. /\ lines \in Seq(Jobs)
        /\ Len(lines) = n
        /\ \A i \in 1 .. n : lines[i] = Line(w)
    BY <2>2, JobsType, CopiesType
  <2>4. /\ wake \in Seq(Jobs)
        /\ n > 0 => Len(wake) = 1 /\ wake[1] = Wake
        /\ n = 0 => Len(wake) = 0
    BY <2>2, JobsType
  <2>5. /\ last \in Seq(Jobs)
        /\ \A i \in 1 .. Len(last) : last[i] \in {AddEvent(w), Down(w)}
    <3>1. CASE end = "prompt"
      BY <3>1, JobsType
    <3>2. CASE end = "closed"
      BY <3>2, JobsType
    <3>3. CASE end = "nothing"
      BY <3>3
    <3> QED
      BY <3>1, <3>2, <3>3
  <2> HIDE DEF lines, wake, last, TypeOK
  <2>6. /\ read \in Seq(Jobs)
        /\ Len(read) = n + Len(wake)
        /\ \A i \in 1 .. n + Len(wake) : read[i] = IF i <= n THEN lines[i] ELSE wake[i - n]
    BY <2>3, <2>4, ConcatProperties
  <2> HIDE DEF read
  <2>7. /\ jobs \in Seq(Jobs)
        /\ Len(jobs) = Len(read) + Len(last)
        /\ \A i \in 1 .. Len(read) + Len(last) :
              jobs[i] = IF i <= Len(read) THEN read[i] ELSE last[i - Len(read)]
    BY <2>5, <2>6, ConcatProperties
  <2> HIDE DEF jobs
  <2>8. Covered(jobs)
    <3>1. SUFFICES ASSUME NEW i \in 1 .. Len(jobs), jobs[i].do = "queue", ~jobs[i].alarm
                   PROVE  \E j \in i + 1 .. Len(jobs) : Rings(jobs[j])
      BY DEF Covered
    <3>2. Len(last) \in Nat /\ Len(wake) \in Nat
      BY <2>4, <2>5, LenProperties
    <3>3. i <= n
      <4>1. CASE i > n + Len(wake)
        <5>1. i - Len(read) \in 1 .. Len(last) /\ jobs[i] = last[i - Len(read)]
          BY <2>2, <2>6, <2>7, <3>2, <4>1
        <5>2. jobs[i] \in {AddEvent(w), Down(w)}
          BY <2>5, <5>1
        <5> QED
          BY <3>1, <5>2 DEF AddEvent, Down
      <4>2. CASE i > n /\ i <= n + Len(wake)
        <5>1. i \in Int
          OBVIOUS
        <5>2. Len(wake) = 1 /\ wake[1] = Wake
          BY <2>2, <2>4, <3>2, <4>2, <5>1
        <5>3. i = n + 1
          BY <2>2, <3>2, <4>2, <5>1, <5>2
        <5>4. i <= Len(read) /\ jobs[i] = read[i]
          BY <2>2, <2>6, <2>7, <3>2, <4>2
        <5>5. read[i] = wake[i - n] /\ i - n = 1
          BY <2>2, <2>6, <3>2, <4>2, <5>3, <5>2
        <5> QED
          BY <3>1, <5>2, <5>4, <5>5 DEF Wake
      <4> QED
        BY <2>2, <3>2, <4>1, <4>2
    <3>4. n + 1 \in i + 1 .. Len(jobs) /\ jobs[n + 1] = Wake
      BY <2>2, <2>4, <2>6, <2>7, <3>2, <3>3
    <3> QED
      BY <3>4 DEF Rings, Wake
  <2>9. Begin(jobs)
    BY <2>1 DEF lines, wake, last, read, jobs
  <2>10. QueuesFor(open, jobs)
    <3>1. w \in open /\ Len(last) \in Nat /\ Len(wake) \in Nat
      BY <1>7, <2>4, <2>5, LenProperties DEF NetRead
    <3>2. ASSUME NEW i \in 1 .. Len(jobs) PROVE jobs[i] \in {Line(w), Wake, AddEvent(w), Down(w)}
      <4>1. CASE i <= n
        <5>1. i \in 1 .. n /\ i <= Len(read) /\ i \in 1 .. n + Len(wake)
          BY <2>2, <2>6, <3>1, <4>1
        <5>2. jobs[i] = lines[i]
          BY <2>6, <2>7, <4>1, <5>1
        <5> QED
          BY <2>3, <5>1, <5>2
      <4>2. CASE i > n /\ i <= n + Len(wake)
        <5>1. i \in 1 .. n + Len(wake) /\ i <= Len(read) /\ ~(i <= n)
          BY <2>2, <2>6, <3>1, <4>2
        <5>2. jobs[i] = wake[i - n]
          BY <2>6, <2>7, <5>1
        <5>3. Len(wake) = 1 /\ wake[1] = Wake
          BY <2>2, <2>4, <3>1, <4>2
        <5>4. i - n = 1
          BY <2>2, <4>2, <5>3
        <5> QED
          BY <5>2, <5>3, <5>4
      <4>3. CASE i > n + Len(wake)
        <5>1. i - Len(read) \in 1 .. Len(last) /\ jobs[i] = last[i - Len(read)]
          BY <2>2, <2>6, <2>7, <3>1, <4>3
        <5> QED
          BY <2>5, <5>1
      <4> QED
        BY <2>2, <3>1, <4>1, <4>2, <4>3
    <3> QED
      BY <2>7, <3>1, <3>2, AllFor
  <2>11. Opens(jobs)
    BY <1>7, <2>7, <2>8, <2>9, <2>10 DEF NetRead, Opens, worldVars, TypeOK
  <2> QED
    BY <2>11
<1> QED
  BY <1>1, <1>2, <1>3, <1>4, <1>5, <1>6, <1>7 DEF UserOps

-----------------------------------------------------------------------------
(* Type correctness.                                                       *)

\* What is still to be queued fits under the model's bound.
SectionFits == updateCount + Len(section) <= MaxUpdates

TypeInv == TypeOK /\ SectionFits

\* The slot event_wait starts from is one of the array.
LEMMA SlotInRange ==
    ASSUME TypeOK, NEW c \in 0 .. MAX_USER_EVENTS
    PROVE  Slot(c) \in Slots
BY SizesAssumption, BackInRange DEF Slot, Slots, TypeOK

\* What event_wait walks over are as many events as it is behind by, at most a ring.
LEMMA BatchType ==
    ASSUME TypeOK, NEW asked \in Int, asked < updateCount
    PROVE  /\ Dropped(asked) \in Nat
           /\ Behind(asked) - Dropped(asked) \in 1 .. MAX_USER_EVENTS
           /\ Batch(asked) \in Seq(Int)
           /\ Len(Batch(asked)) = Behind(asked) - Dropped(asked)
<1> DEFINE count == Behind(asked) - Dropped(asked)
           slot(i) == Wrap(Slot(count) + i - 1, MAX_USER_EVENTS)
<1>1. Dropped(asked) \in Nat /\ count \in 1 .. MAX_USER_EVENTS
  BY SizesAssumption DEF Dropped, Behind, TypeOK
<1>2. Slot(count) \in Slots
  BY <1>1, SlotInRange
<1>3. ASSUME NEW i \in 1 .. count PROVE events[slot(i)] \in Int
  <2>1. slot(i) \in Slots
    BY <1>1, <1>2, SizesAssumption DEF Wrap, Slots
  <2> QED
    BY <2>1, SizesAssumption DEF TypeOK, Ids, NoEvent
<1>4. Batch(asked) = [i \in 1 .. count |-> events[slot(i)]]
  BY DEF Batch
<1> HIDE DEF count, slot
<1>5. [i \in 1 .. count |-> events[slot(i)]] \in Seq(Int)
  BY <1>1, <1>3
<1> QED
  BY <1>1, <1>4, <1>5 DEF count

LEMMA ReplyTypes ==
    ASSUME TypeOK
    PROVE  /\ NoReply \in Replies /\ ErrorReply \in Replies /\ StartupReply \in Replies
           /\ \A asked \in Int : UpdateReply(asked) \in Replies
<1>1. updateCount \in Nat
  BY SizesAssumption DEF TypeOK
<1>2. NoReply \in Replies
  BY DEF NoReply, Replies
<1>3. ErrorReply \in Replies /\ StartupReply \in Replies
  BY <1>1, <1>2 DEF ErrorReply, StartupReply, NoReply, Replies
<1>4. ASSUME NEW asked \in Int PROVE UpdateReply(asked) \in Replies
  <2>1. CASE updateCount > asked
    BY <1>1, <2>1, BatchType DEF UpdateReply, Replies
  <2>2. CASE ~(updateCount > asked)
    BY <1>1, <1>2, <2>2 DEF UpdateReply, Replies, NoReply
  <2> QED
    BY <2>1, <2>2
<1> QED
  BY <1>2, <1>3, <1>4

\* The head of a section, and what is left of it.
LEMMA SectionHead ==
    ASSUME TypeInv, section # <<>>
    PROVE  /\ Head(section) \in Jobs
           /\ Head(section) = section[1]
           /\ Tail(section) \in Seq(Jobs)
           /\ Len(section) \in Nat \ {0}
           /\ Len(Tail(section)) = Len(section) - 1
           /\ \A i \in 1 .. Len(Tail(section)) : Tail(section)[i] = section[i + 1]
           /\ updateCount + 1 + Len(Tail(section)) <= MaxUpdates
           /\ updateCount + 1 \in 0 .. MaxUpdates
           /\ updateCount \in Ids
<1>1. /\ Head(section) \in Jobs
      /\ Tail(section) \in Seq(Jobs)
      /\ Len(section) \in Nat \ {0}
      /\ Len(Tail(section)) = Len(section) - 1
      /\ \A i \in 1 .. Len(Tail(section)) : Tail(section)[i] = section[i + 1]
  BY HeadTailProperties, EmptySeq DEF TypeInv, TypeOK
<1>2. Head(section) = section[1]
  BY DEF TypeInv, TypeOK
<1> QED
  BY <1>1, <1>2, SizesAssumption DEF TypeInv, TypeOK, SectionFits, Ids

\* Whose world a job names.
LEMMA JobWorld ==
    ASSUME NEW job \in Jobs
    PROVE  /\ job.do \in {"down", "free"} => job.world \in Worlds
           /\ job.world = NULL \/ job.world \in Worlds
BY SizesAssumption DEF Jobs, Line, AddEvent, Wake, Down, Free

LEMMA BroadcastType ==
    ASSUME TypeOK, NEW polls, Broadcast(polls)
    PROVE  pc' \in [Polls -> {"idle", "asked", "asleep", "woken", "replied"}]
BY DEF TypeOK, Broadcast

LEMMA TypeInvInit == Init => TypeInv
<1> SUFFICES ASSUME Init PROVE TypeInv
  OBVIOUS
<1>1. reply \in [Polls -> Replies]
  BY DEF Init, NoReply, Replies
<1>2. wlog \in [Worlds -> Seq(Ids)]
  BY DEF Init, FreshRings
<1>3. alive \in BOOLEAN /\ failed \in BOOLEAN
  BY DEF Init, FreshRings
<1>4. TypeOK
  <2>1. /\ updateCount = 0 /\ evtS = 0 /\ evtE = 0 /\ lives = 1
        /\ section = <<>> /\ open = {}
        /\ events = [s \in Slots |-> NoEvent]
        /\ wEvents = [w \in Worlds |-> [s \in WSlots |-> NoEvent]]
        /\ wEvtS = [w \in Worlds |-> 0] /\ wEvtE = [w \in Worlds |-> 0]
        /\ refcount = [e \in Ids |-> 0]
        /\ netstatus = [w \in Worlds |-> "disconnected"]
        /\ threads = [w \in Worlds |-> 0]
        /\ pc = [p \in Polls |-> "idle"] /\ want = [p \in Polls |-> 0]
    BY DEF Init, FreshRings
  <2> QED
    BY <1>1, <1>2, <1>3, <2>1, SizesAssumption DEF TypeOK, Slots, WSlots, Ids, NoEvent
<1>5. SectionFits
  BY SizesAssumption DEF Init, FreshRings, SectionFits
<1> QED
  BY <1>4, <1>5 DEF TypeInv

LEMMA TypeInvNext == TypeInv /\ [Next]_vars => TypeInv'
<1> SUFFICES ASSUME TypeInv, [Next]_vars PROVE TypeInv'
  OBVIOUS
<1> USE SizesAssumption
<1>0. TypeOK /\ SectionFits
  BY DEF TypeInv
<1>1. ASSUME NEW jobs, Opens(jobs) PROVE TypeInv'
  <2>1. TypeOK'
    BY <1>0, <1>1 DEF Opens, Begin, TypeOK, ringVars, pollVars, slotVars
  <2>2. SectionFits'
    BY <1>1 DEF Opens, Begin, SectionFits
  <2> QED
    BY <2>1, <2>2 DEF TypeInv
<1>2. ASSUME NEW w \in Worlds, ThreadEnds(w) PROVE TypeInv'
  BY <1>0, <1>2
     DEF ThreadEnds, TypeInv, TypeOK, SectionFits, ringVars, pollVars, slotVars
<1>3. CASE QueueEvent
  <2> DEFINE job == Head(section)
             w == job.world
  <2>1. /\ job \in Jobs
        /\ w = NULL \/ w \in Worlds
        /\ Tail(section) \in Seq(Jobs)
        /\ updateCount \in Ids
        /\ updateCount + 1 \in 0 .. MaxUpdates
        /\ updateCount + 1 + Len(Tail(section)) <= MaxUpdates
    BY <1>3, SectionHead, JobWorld DEF QueueEvent
  <2>2. evtS' \in Slots /\ evtE' \in Slots
    <3>1. Wrap(evtS + 1, MAX_USER_EVENTS) \in Slots /\ Wrap(evtE + 1, MAX_USER_EVENTS) \in Slots
      BY <1>0 DEF TypeOK, Slots, Wrap
    <3> QED
      BY <1>0, <1>3, <3>1 DEF QueueEvent, TypeOK
  <2>3. events' \in [Slots -> Ids \cup {NoEvent}]
    BY <1>0, <1>3, <2>1 DEF QueueEvent, TypeOK
  <2>4. pc' \in [Polls -> {"idle", "asked", "asleep", "woken", "replied"}]
    BY <1>0, <1>3, BroadcastType DEF QueueEvent
  <2>5. /\ updateCount' \in 0 .. MaxUpdates
        /\ section' \in Seq(Jobs)
        /\ open' \in SUBSET Worlds
        /\ netstatus' \in [Worlds -> {"disconnected", "connecting", "connected"}]
        /\ threads' \in [Worlds -> 0 .. MaxThreads]
        /\ alive' \in BOOLEAN
        /\ lives' \in 1 .. MaxLives
        /\ failed' \in BOOLEAN
        /\ want' \in [Polls -> Int]
        /\ reply' \in [Polls -> Replies]
    BY <1>0, <1>3, <2>1 DEF QueueEvent, TypeOK, worldVars, slotVars
  <2>6. /\ refcount' \in [Ids -> Int]
        /\ wEvents' \in [Worlds -> [WSlots -> Ids \cup {NoEvent}]]
        /\ wEvtS' \in [Worlds -> WSlots]
        /\ wEvtE' \in [Worlds -> WSlots]
        /\ wlog' \in [Worlds -> Seq(Ids)]
    <3>1. CASE w = NULL
      <4>1. refcount' = [x \in Ids |-> refcount[x] + Refers(1, updateCount, x)
                                        - Released(events[evtE], x)]
        BY <1>3, <3>1 DEF QueueEvent
      <4>2. refcount' \in [Ids -> Int]
        BY <1>0, <4>1 DEF TypeOK, Refers, Released
      <4> QED
        BY <1>0, <1>3, <3>1, <4>2 DEF QueueEvent, TypeOK
    <3>2. CASE w \in Worlds
      <4>1. w # NULL
        BY <3>2
      <4>2. /\ refcount' = [x \in Ids |-> refcount[x] + Refers(2, updateCount, x)
                                        - Released(events[evtE], x)
                                        - Released(wEvents[w][wEvtE[w]], x)]
            /\ wEvents' = [wEvents EXCEPT ![w][wEvtE[w]] = updateCount]
            /\ wEvtS' = [wEvtS EXCEPT ![w] = IF wEvents[w][wEvtE[w]] # NoEvent
                                            THEN Wrap(@ + 1, MAX_WORLD_EVENTS) ELSE @]
            /\ wEvtE' = [wEvtE EXCEPT ![w] = Wrap(@ + 1, MAX_WORLD_EVENTS)]
            /\ wlog' = [wlog EXCEPT ![w] = Append(@, updateCount)]
        BY <1>3, <4>1 DEF QueueEvent
      <4> HIDE DEF w
      <4>3. refcount' \in [Ids -> Int]
        BY <1>0, <4>2 DEF TypeOK, Refers, Released
      <4>4. wEvents' \in [Worlds -> [WSlots -> Ids \cup {NoEvent}]]
        BY <1>0, <2>1, <3>2, <4>2 DEF TypeOK
      <4>5. /\ Wrap(wEvtS[w] + 1, MAX_WORLD_EVENTS) \in WSlots
            /\ Wrap(wEvtE[w] + 1, MAX_WORLD_EVENTS) \in WSlots
        <5>1. wEvtS[w] \in WSlots /\ wEvtE[w] \in WSlots
          BY <1>0, <3>2 DEF TypeOK
        <5> QED
          BY <5>1, SizesAssumption DEF WSlots, Wrap
      <4>6. wEvtS' \in [Worlds -> WSlots] /\ wEvtE' \in [Worlds -> WSlots]
        BY <1>0, <3>2, <4>2, <4>5 DEF TypeOK
      <4>7. wlog' \in [Worlds -> Seq(Ids)]
        <5>1. Append(wlog[w], updateCount) \in Seq(Ids)
          BY <1>0, <2>1, <3>2 DEF TypeOK
        <5> QED
          BY <1>0, <3>2, <4>2, <5>1 DEF TypeOK
      <4> QED
        BY <4>3, <4>4, <4>6, <4>7
    <3> QED
      BY <2>1, <3>1, <3>2
  <2>7. TypeOK'
    BY <2>2, <2>3, <2>4, <2>5, <2>6 DEF TypeOK
  <2>8. SectionFits'
    BY <1>3, <2>1 DEF QueueEvent, SectionFits
  <2> QED
    BY <2>7, <2>8 DEF TypeInv
<1>4. CASE QueueEventFails
  <2>1. /\ section' = Tail(section) /\ updateCount' = updateCount + 1
        /\ failed' = TRUE
        /\ UNCHANGED <<ringVars, worldVars, alive, lives, pollVars, wlog>>
    BY <1>4 DEF QueueEventFails
  <2>2. TypeOK'
    BY <1>0, <1>4, <2>1, SectionHead
       DEF QueueEventFails, TypeOK, ringVars, worldVars, pollVars
  <2>3. SectionFits'
    BY <1>4, <2>1, SectionHead DEF QueueEventFails, SectionFits
  <2> QED
    BY <2>2, <2>3 DEF TypeInv
<1>5. CASE WakePolls
  <2>1. pc' \in [Polls -> {"idle", "asked", "asleep", "woken", "replied"}]
    BY <1>0, <1>5, BroadcastType DEF WakePolls
  <2>2. TypeOK'
    BY <1>0, <1>5, <2>1, SectionHead DEF WakePolls, TypeOK, ringVars, worldVars, slotVars
  <2>3. SectionFits'
    BY <1>0, <1>5, SectionHead DEF WakePolls, SectionFits, TypeOK
  <2> QED
    BY <2>2, <2>3 DEF TypeInv
<1>6. CASE NetDown
  <2>1. TypeOK'
    BY <1>0, <1>6, SectionHead DEF NetDown, TypeOK, ringVars, pollVars, slotVars
  <2>2. SectionFits'
    BY <1>0, <1>6, SectionHead DEF NetDown, SectionFits, TypeOK
  <2> QED
    BY <2>1, <2>2 DEF TypeInv
<1>7. CASE WorldFree
  <2> DEFINE w == Head(section).world
  <2>1. w \in Worlds /\ Tail(section) \in Seq(Jobs)
    BY <1>7, SectionHead, JobWorld DEF WorldFree
  <2>2. refcount' \in [Ids -> Int]
    <3>1. \A e \in Ids : Holds(wEvents[w], e) \in Nat
      <4>1. MAX_WORLD_EVENTS - 1 \in Int /\ DOMAIN wEvents[w] = 0 .. MAX_WORLD_EVENTS - 1
        BY <1>0, <2>1, SizesAssumption DEF TypeOK, WSlots
      <4> QED
        BY <4>1, HoldsType
    <3>2. refcount' = [e \in Ids |-> refcount[e] - Holds(wEvents[w], e)]
      BY <1>7 DEF WorldFree
    <3> QED
      BY <1>0, <3>1, <3>2 DEF TypeOK
  <2>3. /\ wEvents' \in [Worlds -> [WSlots -> Ids \cup {NoEvent}]]
        /\ wEvtS' \in [Worlds -> WSlots]
        /\ wEvtE' \in [Worlds -> WSlots]
    BY <1>0, <1>7, <2>1 DEF WorldFree, TypeOK, WSlots
  <2>4. /\ open' \in SUBSET Worlds
        /\ netstatus' \in [Worlds -> {"disconnected", "connecting", "connected"}]
        /\ wlog' \in [Worlds -> Seq(Ids)]
        /\ section' \in Seq(Jobs)
    BY <1>0, <1>7, <2>1 DEF WorldFree, TypeOK
  <2>5. TypeOK'
    BY <1>0, <1>7, <2>2, <2>3, <2>4 DEF WorldFree, TypeOK, pollVars, slotVars
  <2>6. SectionFits'
    BY <1>0, <1>7, SectionHead DEF WorldFree, SectionFits, TypeOK
  <2> QED
    BY <2>5, <2>6 DEF TypeInv
<1>8. CASE UserClean
  <2>1. refcount' \in [Ids -> Int]
    <3>1. ASSUME NEW e \in Ids
          PROVE  Cardinality({x \in open \X WSlots : wEvents[x[1]][x[2]] = e}) \in Nat
      <4>1. IsFiniteSet(open) /\ IsFiniteSet(WSlots)
        <5>1. IsFiniteSet(open)
          BY <1>0, FS_Subset DEF TypeOK
        <5>2. IsFiniteSet(WSlots)
          BY FS_Interval DEF WSlots
        <5> QED
          BY <5>1, <5>2
      <4>2. IsFiniteSet(open \X WSlots)
        BY <4>1, FS_Product
      <4>3. IsFiniteSet({x \in open \X WSlots : wEvents[x[1]][x[2]] = e})
        BY <4>2, FS_Subset
      <4> QED
        BY <4>3, FS_CardinalityType
    <3>2. \A e \in Ids : Holds(events, e) \in Nat
      BY <1>0, HoldsType DEF TypeOK, Slots
    <3>3. refcount' = [e \in Ids |->
                          refcount[e] - Holds(events, e)
                            - Cardinality({x \in open \X WSlots : wEvents[x[1]][x[2]] = e})]
      BY <1>8 DEF UserClean
    <3>4. ASSUME NEW e \in Ids PROVE refcount'[e] \in Int
      <4>1. refcount[e] \in Int
        BY <1>0 DEF TypeOK
      <4> QED
        BY <3>1, <3>2, <3>3, <4>1
    <3> QED
      BY <3>3, <3>4
  <2>2. /\ wEvents' \in [Worlds -> [WSlots -> Ids \cup {NoEvent}]]
        /\ wEvtS' \in [Worlds -> WSlots] /\ wEvtE' \in [Worlds -> WSlots]
        /\ open' \in SUBSET Worlds
        /\ netstatus' \in [Worlds -> {"disconnected", "connecting", "connected"}]
        /\ wlog' \in [Worlds -> Seq(Ids)]
    BY <1>8 DEF UserClean, WSlots
  <2>3. TypeOK'
    BY <1>0, <1>8, <2>1, <2>2 DEF UserClean, TypeOK, pollVars, slotVars
  <2>4. SectionFits'
    BY <1>0, <1>8 DEF UserClean, SectionFits
  <2> QED
    BY <2>3, <2>4 DEF TypeInv
<1>9. CASE UserLogin
  <2>1. TypeOK'
    <3>1. alive' \in BOOLEAN /\ failed' \in BOOLEAN
      BY <1>9 DEF UserLogin
    <3>2. /\ updateCount' = 0 /\ evtS' = 0 /\ evtE' = 0 /\ lives' = lives + 1
          /\ lives < MaxLives
          /\ events' = [s \in Slots |-> NoEvent]
          /\ netstatus' = [w \in Worlds |-> "disconnected"]
          /\ UNCHANGED <<wEvents, wEvtS, wEvtE, refcount, open, threads, section, pc, want,
                         reply, wlog>>
      BY <1>9 DEF UserLogin, pollVars
    <3> QED
      BY <1>0, <3>1, <3>2 DEF TypeOK, Slots
  <2>2. SectionFits'
    BY <1>0, <1>9, LenProperties DEF UserLogin, SectionFits, TypeOK
  <2> QED
    BY <2>1, <2>2 DEF TypeInv
<1>10. ASSUME NEW p \in Polls, PollStep(p) PROVE TypeInv'
  <2>1. want[p] \in Int
    BY <1>0 DEF TypeOK
  <2>2. ASSUME NEW r \in Replies, Answer(p, r),
               UNCHANGED <<updateCount, ringVars, worldVars, section, alive, slotVars, wlog>>
        PROVE  TypeInv'
    BY <1>0, <2>2 DEF Answer, TypeInv, TypeOK, SectionFits, ringVars, worldVars, slotVars
  <2>3. CASE EventStartup(p)
    BY <1>0, <2>2, <2>3, ReplyTypes DEF EventStartup
  <2>4. CASE EventWaitEnds(p)
    BY <1>0, <2>1, <2>2, <2>4, ReplyTypes DEF EventWaitEnds
  <2>5. CASE EventWait(p) /\ updateCount <= want[p]
    BY <1>0, <2>5 DEF EventWait, TypeInv, TypeOK, SectionFits, ringVars, worldVars, slotVars
  <2>6. CASE EventWait(p) /\ ~(updateCount <= want[p])
    <3>1. /\ Answer(p, UpdateReply(want[p]))
          /\ UNCHANGED <<updateCount, ringVars, worldVars, section, alive, slotVars, wlog>>
      BY <2>6 DEF EventWait
    <3> QED
      BY <1>0, <2>1, <2>2, <3>1, ReplyTypes
  <2>7. CASE WaitEnds(p)
    BY <1>0, <2>7 DEF WaitEnds, TypeInv, TypeOK, SectionFits, ringVars, worldVars, slotVars
  <2> QED
    BY <1>10, <2>3, <2>4, <2>5, <2>6, <2>7 DEF PollStep
<1>11. ASSUME NEW p \in Polls, NEW asked \in -1 .. MaxUpdates, Ask(p, asked) PROVE TypeInv'
  <2>1. /\ pc' \in [Polls -> {"idle", "asked", "asleep", "woken", "replied"}]
        /\ want' \in [Polls -> Int]
        /\ reply' \in [Polls -> Replies]
    <3>1. CASE ~alive \/ asked > updateCount
      <4>1. /\ reply' = [reply EXCEPT ![p] = ErrorReply]
            /\ pc' = [pc EXCEPT ![p] = "replied"]
            /\ want' = want
        BY <1>11, <3>1 DEF Ask
      <4> QED
        BY <1>0, <4>1, ReplyTypes DEF TypeOK
    <3>2. CASE ~(~alive \/ asked > updateCount)
      <4>1. /\ pc' = [pc EXCEPT ![p] = "asked"]
            /\ want' = [want EXCEPT ![p] = asked]
            /\ reply' = reply
        BY <1>11, <3>2 DEF Ask
      <4> QED
        BY <1>0, <4>1 DEF TypeOK
    <3> QED
      BY <3>1, <3>2
  <2> QED
    BY <1>0, <1>11, <2>1 DEF Ask, TypeInv, TypeOK, SectionFits, ringVars, worldVars, slotVars
<1>12. ASSUME NEW p \in Polls, Sent(p) PROVE TypeInv'
  BY <1>0, <1>12, ReplyTypes DEF Sent, TypeInv, TypeOK, SectionFits, ringVars, worldVars, slotVars
<1>13. CASE UNCHANGED vars
  BY <1>0, <1>13
     DEF vars, TypeInv, TypeOK, SectionFits, ringVars, worldVars, pollVars, slotVars
<1>14. ASSUME UserOps \/ \E w \in Worlds : NetRead(w) \/ NetError(w) PROVE TypeInv'
  BY <1>0, <1>1, <1>14, OperationsOpen
<1> QED
  BY <1>2, <1>3, <1>4, <1>5, <1>6, <1>7, <1>8, <1>9, <1>10, <1>11, <1>12, <1>13, <1>14
     DEF Next, Server, Client, NetOps, SectionStep, SlotOps

\* Every reachable state has its type (EventRing!TypeOK).
THEOREM TypeCorrect == Spec => []TypeOK
<1>1. TypeInv => TypeOK
  BY DEF TypeInv
<1> QED
  BY <1>1, TypeInvInit, TypeInvNext, PTL DEF Spec

-----------------------------------------------------------------------------
(* The user's ring, and what event_wait reads from it.                     *)

\* The inductive invariant: the slot c back from evtE holds the event numbered
\* c below updateCount, as far back as there are events and slots.
RingInv ==
    ~failed => \A c \in 1 .. MAX_USER_EVENTS :
        events[Slot(c)] = IF c <= updateCount THEN updateCount - c ELSE NoEvent

\* Walking i slots on from the slot c back is the slot c - i back.
LEMMA WalkIsBack ==
    ASSUME NEW n \in Nat \ {0}, NEW e \in 0 .. n - 1, NEW c \in 1 .. n, NEW i \in 0 .. c - 1
    PROVE  Wrap(Back(e, c, n) + i, n) = Back(e, c - i, n)
BY DEF Wrap, Back

\* After one more event, the slot c back is the slot that was c - 1 back, and the
\* slot 1 back is the one just written; the slot n back is the next to be written.
LEMMA BackAfterPush ==
    ASSUME NEW n \in Nat \ {0}, NEW e \in 0 .. n - 1
    PROVE  /\ \A c \in 2 .. n : /\ Back(Wrap(e + 1, n), c, n) = Back(e, c - 1, n)
                               /\ Back(e, c - 1, n) # e
           /\ Back(Wrap(e + 1, n), 1, n) = e
           /\ Back(e, n, n) = e
BY DEF Wrap, Back

LEMMA RingInvInit == Init => RingInv
<1> SUFFICES ASSUME Init, NEW c \in 1 .. MAX_USER_EVENTS
             PROVE  events[Slot(c)] = IF c <= updateCount THEN updateCount - c ELSE NoEvent
  BY DEF RingInv
<1>1. evtE = 0 /\ updateCount = 0 /\ events = [s \in Slots |-> NoEvent]
  BY DEF Init, FreshRings
<1>2. Slot(c) \in Slots
  BY <1>1, SizesAssumption, BackInRange DEF Slot, Slots
<1> QED
  BY <1>1, <1>2

\* Only queueEvent and a new login write the user's ring or updateCount; without
\* enough memory queueEvent would count an event that it does not store.
LEMMA RingInvNext ==
    ASSUME TypeInv, RingInv, [Next]_vars
    PROVE  RingInv'
<1> USE SizesAssumption
<1>0. TypeOK
  BY DEF TypeInv
<1>1. CASE QueueEvent
  <2>1. /\ events' = [events EXCEPT ![evtE] = updateCount]
        /\ evtE' = Wrap(evtE + 1, MAX_USER_EVENTS)
        /\ updateCount' = updateCount + 1
        /\ failed' = failed
    BY <1>1 DEF QueueEvent, slotVars
  <2>2. evtE \in 0 .. MAX_USER_EVENTS - 1 /\ updateCount \in Nat
    BY <1>0 DEF TypeOK, Slots
  <2>3. ASSUME ~failed, NEW c \in 1 .. MAX_USER_EVENTS
        PROVE  events'[Slot(c)'] = IF c <= updateCount' THEN updateCount' - c ELSE NoEvent
    <3>1. CASE c = 1
      <4>1. Slot(c)' = evtE
        BY <2>1, <2>2, <3>1, BackAfterPush DEF Slot
      <4> QED
        BY <1>0, <2>1, <2>2, <3>1, <4>1 DEF TypeOK
    <3>2. CASE c \in 2 .. MAX_USER_EVENTS
      <4>1. Slot(c)' = Slot(c - 1) /\ Slot(c - 1) # evtE
        BY <2>1, <2>2, <3>2, BackAfterPush DEF Slot
      <4>2. events[Slot(c - 1)] = IF c - 1 <= updateCount THEN updateCount - (c - 1) ELSE NoEvent
        BY <2>3, <3>2 DEF RingInv
      <4>3. Slot(c - 1) \in Slots
        BY <1>0, <3>2, SlotInRange
      <4>4. events'[Slot(c - 1)] = events[Slot(c - 1)]
        BY <1>0, <2>1, <4>1, <4>3 DEF TypeOK
      <4> QED
        BY <2>1, <2>2, <3>2, <4>1, <4>2, <4>4
    <3> QED
      BY <3>1, <3>2
  <2> QED
    BY <2>1, <2>3 DEF RingInv
<1>2. CASE UserLogin
  <2>1. evtE' = 0 /\ updateCount' = 0 /\ events' = [s \in Slots |-> NoEvent]
    BY <1>2 DEF UserLogin
  <2>2. ASSUME NEW c \in 1 .. MAX_USER_EVENTS PROVE Slot(c)' \in Slots
    BY <2>1, BackInRange DEF Slot, Slots
  <2> QED
    BY <2>1, <2>2 DEF RingInv
<1>3. ASSUME UNCHANGED <<updateCount, events, evtE, failed>> PROVE RingInv'
  BY <1>3 DEF RingInv, Slot
<1>4. ASSUME NEW jobs, Opens(jobs) PROVE RingInv'
  BY <1>3, <1>4 DEF Opens, ringVars, slotVars
<1>5. ASSUME UserOps \/ \E w \in Worlds : NetRead(w) \/ NetError(w) PROVE RingInv'
  BY <1>0, <1>4, <1>5, OperationsOpen
<1>6. ASSUME NEW w \in Worlds, ThreadEnds(w) PROVE RingInv'
  BY <1>3, <1>6 DEF ThreadEnds, ringVars, slotVars
<1>7. CASE QueueEventFails
  BY <1>7 DEF QueueEventFails, RingInv
<1>8. CASE WakePolls \/ NetDown \/ WorldFree \/ UserClean
  BY <1>3, <1>8 DEF WakePolls, NetDown, WorldFree, UserClean, ringVars, slotVars
<1>9. ASSUME NEW p \in Polls, PollStep(p) PROVE RingInv'
  BY <1>3, <1>9 DEF PollStep, EventStartup, EventWait, WaitEnds, EventWaitEnds, ringVars, slotVars
<1>10. ASSUME NEW p \in Polls, Sent(p) \/ \E asked \in -1 .. MaxUpdates : Ask(p, asked)
       PROVE  RingInv'
  BY <1>3, <1>10 DEF Sent, Ask, ringVars, slotVars
<1>11. CASE UNCHANGED vars
  BY <1>3, <1>11 DEF vars, ringVars, slotVars
<1> QED
  BY <1>1, <1>2, <1>5, <1>6, <1>7, <1>8, <1>9, <1>10, <1>11
     DEF Next, Server, Client, NetOps, SectionStep, SlotOps

LEMMA RingInvGivesBatch == TypeInv /\ RingInv => BatchIsLatest
<1> SUFFICES ASSUME TypeInv, RingInv, ~failed, NEW asked \in 0 .. updateCount - 1
             PROVE  /\ Len(Batch(asked)) + Dropped(asked) = updateCount - asked
                    /\ \/ Len(Batch(asked)) = updateCount - asked
                       \/ Len(Batch(asked)) = MAX_USER_EVENTS
                    /\ \A i \in 1 .. Len(Batch(asked)) :
                          Batch(asked)[i] = updateCount - Len(Batch(asked)) + i - 1
  BY DEF BatchIsLatest
<1> USE SizesAssumption
<1> DEFINE count == Behind(asked) - Dropped(asked)
<1>0. TypeOK /\ updateCount \in Nat /\ asked \in Int /\ asked < updateCount
  BY DEF TypeInv, TypeOK
<1>1. /\ Len(Batch(asked)) = count
      /\ count \in 1 .. MAX_USER_EVENTS
      /\ Dropped(asked) \in Nat
  BY <1>0, BatchType
<1>2. count + Dropped(asked) = updateCount - asked
  BY <1>0, <1>1 DEF Behind
<1>3. count = updateCount - asked \/ count = MAX_USER_EVENTS
  BY <1>0 DEF Behind, Dropped
<1>4. Batch(asked) = [i \in 1 .. count |-> events[Wrap(Slot(count) + i - 1, MAX_USER_EVENTS)]]
  BY DEF Batch
<1>5. ASSUME NEW i \in 1 .. count
      PROVE  events[Wrap(Slot(count) + i - 1, MAX_USER_EVENTS)] = updateCount - count + i - 1
  <2> HIDE DEF count
  <2>1. count <= updateCount
    BY <1>0, <1>1, <1>2
  <2>2. evtE \in 0 .. MAX_USER_EVENTS - 1
    BY <1>0 DEF TypeOK, Slots
  <2>3. Wrap(Slot(count) + (i - 1), MAX_USER_EVENTS) = Slot(count - (i - 1))
    BY <1>1, <2>2, WalkIsBack DEF Slot
  <2>4. Slot(count) \in Int
    BY <1>0, <1>1, SlotInRange DEF Slots
  <2>5. Slot(count) + i - 1 = Slot(count) + (i - 1)
    BY <2>4
  <2>6. count - (i - 1) \in 1 .. MAX_USER_EVENTS /\ count - (i - 1) <= updateCount
    <3>1. i \in Int /\ 1 <= i /\ i <= count /\ count \in Int /\ 1 <= count
      BY <1>1
    <3> QED
      BY <1>0, <1>1, <2>1, <3>1
  <2>7. events[Slot(count - (i - 1))] = updateCount - (count - (i - 1))
    BY <2>6 DEF RingInv
  <2> QED
    BY <1>0, <1>1, <2>3, <2>5, <2>7
<1> HIDE DEF count
<1> QED
  BY <1>1, <1>2, <1>3, <1>4, <1>5

\* As long as vasprintf does not fail, event_wait sends exactly the newest events
\* it owes (EventRing!BatchIsLatest; events.c:281-300).
THEOREM BatchCorrect == Spec => []BatchIsLatest
<1>1. TypeInv /\ RingInv /\ [Next]_vars => RingInv'
  BY RingInvNext
<1> QED
  BY <1>1, TypeInvInit, TypeInvNext, RingInvInit, RingInvGivesBatch, PTL DEF Spec

-----------------------------------------------------------------------------
(* A world's ring, and what event_startup replays from it.                 *)

\* The inductive invariant: of every world the slot c back from evtE holds the c-th newest
\* event queued for it, as far back as there are events and slots, and evtS is the oldest.
WorldRing(w) ==
    LET n == Len(wlog[w])
    IN  /\ \A c \in 1 .. MAX_WORLD_EVENTS :
              wEvents[w][Back(wEvtE[w], c, MAX_WORLD_EVENTS)] =
                  IF c <= n THEN wlog[w][n - c + 1] ELSE NoEvent
        /\ n < MAX_WORLD_EVENTS => wEvtS[w] = 0 /\ wEvtE[w] = n
        /\ n >= MAX_WORLD_EVENTS => wEvtS[w] = wEvtE[w]
ReplayInv == \A w \in Worlds : WorldRing(w)

\* An empty ring.
LEMMA EmptyRing ==
    ASSUME NEW w \in Worlds,
           wEvents'[w] = [s \in WSlots |-> NoEvent], wEvtS'[w] = 0, wEvtE'[w] = 0,
           wlog'[w] = <<>>
    PROVE  WorldRing(w)'
<1> USE SizesAssumption
<1>1. ASSUME NEW c \in 1 .. MAX_WORLD_EVENTS
      PROVE  wEvents'[w][Back(wEvtE'[w], c, MAX_WORLD_EVENTS)] = NoEvent
  <2>1. Back(wEvtE'[w], c, MAX_WORLD_EVENTS) \in WSlots
    BY BackInRange DEF WSlots
  <2> QED
    BY <2>1
<1>2. Len(wlog'[w]) = 0
  OBVIOUS
<1> QED
  BY <1>1, <1>2 DEF WorldRing

LEMMA ReplayInvInit == Init => ReplayInv
<1> USE SizesAssumption
<1> SUFFICES ASSUME Init, NEW w \in Worlds PROVE WorldRing(w)
  BY DEF ReplayInv
<1>1. /\ wEvents[w] = [s \in WSlots |-> NoEvent] /\ wEvtS[w] = 0 /\ wEvtE[w] = 0
      /\ wlog[w] = <<>> /\ Len(wlog[w]) = 0
  BY DEF Init, FreshRings
<1>2. ASSUME NEW c \in 1 .. MAX_WORLD_EVENTS
      PROVE  wEvents[w][Back(wEvtE[w], c, MAX_WORLD_EVENTS)] = NoEvent
  <2>1. Back(wEvtE[w], c, MAX_WORLD_EVENTS) \in WSlots
    BY <1>1, BackInRange DEF WSlots
  <2> QED
    BY <1>1, <2>1
<1> QED
  BY <1>1, <1>2 DEF WorldRing

\* queueEvent for world w.
LEMMA PushKeeps ==
    ASSUME TypeOK, NEW w \in Worlds, WorldRing(w), NEW e \in Ids,
           wEvents'[w] = [wEvents[w] EXCEPT ![wEvtE[w]] = e],
           wEvtE'[w] = Wrap(wEvtE[w] + 1, MAX_WORLD_EVENTS),
           wEvtS'[w] = IF wEvents[w][wEvtE[w]] # NoEvent
                       THEN Wrap(wEvtS[w] + 1, MAX_WORLD_EVENTS) ELSE wEvtS[w],
           wlog'[w] = Append(wlog[w], e)
    PROVE  WorldRing(w)'
<1> USE SizesAssumption
<1> DEFINE N == MAX_WORLD_EVENTS
           n == Len(wlog[w])
           E == wEvtE[w]
<1>1. /\ N \in Nat \ {0} /\ E \in 0 .. N - 1 /\ n \in Nat
      /\ wEvents[w] \in [WSlots -> Ids \cup {NoEvent}] /\ wlog[w] \in Seq(Ids)
      /\ E \in WSlots
  BY LenProperties DEF TypeOK, WSlots
<1>2. /\ Len(wlog'[w]) = n + 1
      /\ \A i \in 1 .. n : wlog'[w][i] = wlog[w][i]
      /\ wlog'[w][n + 1] = e
  BY <1>1, AppendProperties
<1>3. /\ \A c \in 1 .. N : wEvents[w][Back(E, c, N)] =
                              IF c <= n THEN wlog[w][n - c + 1] ELSE NoEvent
      /\ n < N => wEvtS[w] = 0 /\ E = n
      /\ n >= N => wEvtS[w] = E
  BY DEF WorldRing
<1>4. wEvents'[w][E] = e
  BY <1>1
<1>5. \A s \in WSlots : s # E => wEvents'[w][s] = wEvents[w][s]
  BY <1>1
<1>6. /\ \A c \in 2 .. N : Back(wEvtE'[w], c, N) = Back(E, c - 1, N) /\ Back(E, c - 1, N) # E
      /\ Back(wEvtE'[w], 1, N) = E
      /\ Back(E, N, N) = E
  BY <1>1, BackAfterPush
<1>7. ASSUME NEW c \in 1 .. N
      PROVE  wEvents'[w][Back(wEvtE'[w], c, N)] =
                 IF c <= n + 1 THEN wlog'[w][(n + 1) - c + 1] ELSE NoEvent
  <2>1. CASE c = 1
    <3>1. (n + 1) - c + 1 = n + 1 /\ c <= n + 1
      BY <1>1, <2>1
    <3> QED
      BY <1>2, <1>4, <1>6, <2>1, <3>1
  <2>2. CASE c # 1
    <3>1. c \in 2 .. N /\ c - 1 \in 1 .. N /\ c - 1 \in 0 .. N
      BY <2>2, <1>1
    <3>2. Back(E, c - 1, N) \in WSlots
      BY <1>1, <3>1, BackInRange DEF WSlots
    <3>3. wEvents'[w][Back(wEvtE'[w], c, N)] = wEvents[w][Back(E, c - 1, N)]
      BY <1>5, <1>6, <3>1, <3>2
    <3>4. wEvents[w][Back(E, c - 1, N)] =
              IF c - 1 <= n THEN wlog[w][n - (c - 1) + 1] ELSE NoEvent
      BY <1>3, <3>1
    <3>5. CASE c - 1 <= n
      <4>1. n - (c - 1) + 1 \in 1 .. n /\ (n + 1) - c + 1 = n - (c - 1) + 1 /\ c <= n + 1
        BY <1>1, <3>1, <3>5
      <4> QED
        BY <1>2, <3>3, <3>4, <3>5, <4>1
    <3>6. CASE ~(c - 1 <= n)
      <4>1. ~(c <= n + 1)
        BY <1>1, <3>1, <3>6
      <4> QED
        BY <3>3, <3>4, <3>6, <4>1
    <3> QED
      BY <3>5, <3>6
  <2> QED
    BY <2>1, <2>2
<1>8. wEvents[w][E] = IF N <= n THEN wlog[w][n - N + 1] ELSE NoEvent
  BY <1>1, <1>3, <1>6
<1>9. CASE n < N
  <2>1. wEvtS'[w] = 0 /\ E = n /\ wEvtE'[w] = Wrap(n + 1, N)
    BY <1>1, <1>3, <1>8, <1>9
  <2>2. /\ n + 1 < N => wEvtE'[w] = n + 1
        /\ n + 1 >= N => wEvtE'[w] = 0
    BY <1>1, <1>9, <2>1 DEF Wrap
  <2> HIDE DEF N, n, E
  <2>3. WorldRing(w)'
    BY <1>2, <1>7, <2>1, <2>2 DEF WorldRing, N
  <2> QED
    BY <2>3
<1>10. CASE n >= N
  <2>1. wEvents[w][E] \in Ids
    <3>1. n - N + 1 \in 1 .. n
      BY <1>1, <1>10
    <3> QED
      BY <1>1, <1>8, <1>10, <3>1
  <2>2. wEvents[w][E] # NoEvent
    BY <2>1 DEF Ids, NoEvent
  <2>3. wEvtS'[w] = wEvtE'[w]
    BY <1>3, <1>10, <2>2
  <2>4. ~(n + 1 < N)
    BY <1>1, <1>10
  <2> HIDE DEF N, n, E
  <2> QED
    BY <1>2, <1>7, <2>3, <2>4 DEF WorldRing, N
<1> QED
  BY <1>1, <1>9, <1>10

\* Nothing but queueEvent, world_free and user_clean writes a world's ring.
LEMMA ReplayInvNext ==
    ASSUME TypeInv, ReplayInv, [Next]_vars
    PROVE  ReplayInv'
<1>0. TypeOK
  BY DEF TypeInv
<1>1. ASSUME NEW w \in Worlds,
             wEvents'[w] = wEvents[w], wEvtS'[w] = wEvtS[w], wEvtE'[w] = wEvtE[w],
             wlog'[w] = wlog[w]
      PROVE  WorldRing(w)'
  BY <1>1 DEF ReplayInv, WorldRing
<1>2. ASSUME UNCHANGED <<wEvents, wEvtS, wEvtE, wlog>> PROVE ReplayInv'
  BY <1>1, <1>2 DEF ReplayInv
<1>3. CASE QueueEvent
  <2>1. /\ updateCount \in Ids
        /\ Head(section).world = NULL \/ Head(section).world \in Worlds
    BY <1>3, SectionHead, JobWorld DEF QueueEvent
  <2>2. CASE Head(section).world = NULL
    BY <1>2, <1>3, <2>2 DEF QueueEvent
  <2>3. CASE Head(section).world # NULL
    <3>1. PICK w \in Worlds : w = Head(section).world
      BY <2>1, <2>3
    <3>2. /\ wEvents' = [wEvents EXCEPT ![w][wEvtE[w]] = updateCount]
          /\ wEvtS' = [wEvtS EXCEPT ![w] =
                          IF wEvents[w][wEvtE[w]] # NoEvent
                          THEN Wrap(@ + 1, MAX_WORLD_EVENTS) ELSE @]
          /\ wEvtE' = [wEvtE EXCEPT ![w] = Wrap(@ + 1, MAX_WORLD_EVENTS)]
          /\ wlog' = [wlog EXCEPT ![w] = Append(@, updateCount)]
      BY <1>3, <2>3, <3>1 DEF QueueEvent
    <3>3. /\ wEvents'[w] = [wEvents[w] EXCEPT ![wEvtE[w]] = updateCount]
          /\ wEvtS'[w] = IF wEvents[w][wEvtE[w]] # NoEvent
                         THEN Wrap(wEvtS[w] + 1, MAX_WORLD_EVENTS) ELSE wEvtS[w]
          /\ wEvtE'[w] = Wrap(wEvtE[w] + 1, MAX_WORLD_EVENTS)
          /\ wlog'[w] = Append(wlog[w], updateCount)
      BY <1>0, <3>1, <3>2 DEF TypeOK
    <3>4. WorldRing(w)'
      BY <1>0, <2>1, <3>1, <3>3, PushKeeps DEF ReplayInv
    <3>5. ASSUME NEW v \in Worlds, v # w PROVE WorldRing(v)'
      <4>1. wEvents'[v] = wEvents[v] /\ wEvtS'[v] = wEvtS[v] /\ wEvtE'[v] = wEvtE[v]
            /\ wlog'[v] = wlog[v]
        BY <1>0, <3>2, <3>5 DEF TypeOK
      <4> QED
        BY <1>1, <4>1
    <3> QED
      BY <3>4, <3>5 DEF ReplayInv
  <2> QED
    BY <2>2, <2>3
<1>4. CASE WorldFree
  <2>1. PICK w \in Worlds : w = Head(section).world
    BY <1>4, SectionHead, JobWorld DEF WorldFree
  <2>2. /\ wEvents' = [wEvents EXCEPT ![w] = [s \in WSlots |-> NoEvent]]
        /\ wEvtS' = [wEvtS EXCEPT ![w] = 0]
        /\ wEvtE' = [wEvtE EXCEPT ![w] = 0]
        /\ wlog' = [wlog EXCEPT ![w] = <<>>]
    BY <1>4, <2>1 DEF WorldFree
  <2>3. /\ wEvents'[w] = [s \in WSlots |-> NoEvent] /\ wEvtS'[w] = 0 /\ wEvtE'[w] = 0
        /\ wlog'[w] = <<>>
    BY <1>0, <2>1, <2>2 DEF TypeOK
  <2>4. WorldRing(w)'
    BY <2>1, <2>3, EmptyRing
  <2>5. ASSUME NEW v \in Worlds, v # w PROVE WorldRing(v)'
    <3>1. wEvents'[v] = wEvents[v] /\ wEvtS'[v] = wEvtS[v] /\ wEvtE'[v] = wEvtE[v]
          /\ wlog'[v] = wlog[v]
      BY <1>0, <2>2, <2>5 DEF TypeOK
    <3> QED
      BY <1>1, <3>1
  <2> QED
    BY <2>4, <2>5 DEF ReplayInv
<1>5. CASE UserClean
  <2>1. ASSUME NEW w \in Worlds
        PROVE  /\ wEvents'[w] = [s \in WSlots |-> NoEvent] /\ wEvtS'[w] = 0 /\ wEvtE'[w] = 0
               /\ wlog'[w] = <<>>
    BY <1>5 DEF UserClean
  <2> QED
    BY <2>1, EmptyRing DEF ReplayInv
<1>6. ASSUME NEW jobs, Opens(jobs) PROVE ReplayInv'
  BY <1>2, <1>6 DEF Opens, ringVars
<1>7. ASSUME UserOps \/ \E w \in Worlds : NetRead(w) \/ NetError(w) PROVE ReplayInv'
  BY <1>0, <1>6, <1>7, OperationsOpen
<1>8. ASSUME NEW w \in Worlds, ThreadEnds(w) PROVE ReplayInv'
  BY <1>2, <1>8 DEF ThreadEnds, ringVars
<1>9. CASE QueueEventFails \/ WakePolls \/ NetDown \/ UserLogin
  BY <1>2, <1>9 DEF QueueEventFails, WakePolls, NetDown, UserLogin, ringVars
<1>10. ASSUME NEW p \in Polls, PollStep(p) PROVE ReplayInv'
  BY <1>2, <1>10 DEF PollStep, EventStartup, EventWait, WaitEnds, EventWaitEnds, ringVars
<1>11. ASSUME NEW p \in Polls, Sent(p) \/ \E asked \in -1 .. MaxUpdates : Ask(p, asked)
       PROVE  ReplayInv'
  BY <1>2, <1>11 DEF Sent, Ask, ringVars
<1>12. CASE UNCHANGED vars
  BY <1>2, <1>12 DEF vars, ringVars
<1> QED
  BY <1>3, <1>4, <1>5, <1>7, <1>8, <1>9, <1>10, <1>11, <1>12
     DEF Next, Server, Client, NetOps, SectionStep, SlotOps

\* From evtS on, the j-th slot holds the j-th of the newest events, and then there is none.
LEMMA ReplaySlots ==
    ASSUME TypeOK, NEW w \in Worlds, WorldRing(w), NEW k \in 0 .. MAX_WORLD_EVENTS,
           k = IF Len(wlog[w]) > MAX_WORLD_EVENTS THEN MAX_WORLD_EVENTS ELSE Len(wlog[w])
    PROVE  /\ \A j \in 0 .. k - 1 : /\ wEvents[w][ReplaySlot(w, j)] = wlog[w][Len(wlog[w]) - k + 1 + j]
                                    /\ wEvents[w][ReplaySlot(w, j)] # NoEvent
           /\ k < MAX_WORLD_EVENTS => wEvents[w][ReplaySlot(w, k)] = NoEvent
<1> USE SizesAssumption
<1> DEFINE N == MAX_WORLD_EVENTS
           n == Len(wlog[w])
           E == wEvtE[w]
<1>1. N \in Nat \ {0} /\ E \in 0 .. N - 1 /\ n \in Nat /\ wlog[w] \in [1 .. n -> Ids]
  BY LenProperties DEF TypeOK, WSlots
<1>2. /\ \A c \in 1 .. N : wEvents[w][Back(E, c, N)] =
                              IF c <= n THEN wlog[w][n - c + 1] ELSE NoEvent
      /\ n < N => wEvtS[w] = 0 /\ E = n
      /\ n >= N => wEvtS[w] = E
  BY DEF WorldRing
<1>3. ASSUME NEW j \in 0 .. k - 1
      PROVE  ReplaySlot(w, j) = Back(E, k - j, N)
  <2>0. j \in Nat /\ j < k /\ k \in Nat /\ k <= N /\ E \in Int /\ 0 <= E /\ E < N
    BY <1>1, <1>3
  <2>1. CASE n < N
    <3>1. wEvtS[w] = 0 /\ E = n /\ k = n
      BY <1>1, <1>2, <2>1
    <3>2. ReplaySlot(w, j) = j
      <4>1. wEvtS[w] + j = j /\ j < N
        BY <2>0, <3>1
      <4> QED
        BY <2>0, <4>1 DEF ReplaySlot, Wrap
    <3>3. Back(E, k - j, N) = j
      <4> HIDE DEF n, N, E
      <4>0. E = k
        BY <3>1
      <4>1. E - (k - j) = j /\ ~(E - (k - j) < 0)
        BY <2>0, <4>0
      <4> QED
        BY <4>1, Zenon DEF Back
    <3> QED
      BY <3>2, <3>3
  <2>2. CASE n >= N
    <3>1. wEvtS[w] = E /\ k = N
      BY <1>1, <1>2, <2>2
    <3> HIDE DEF n, N, E
    <3> QED
      BY <1>1, <2>0, <2>2, <3>1 DEF ReplaySlot, Wrap, Back, N, E
  <2> QED
    BY <1>1, <2>1, <2>2
<1>4. ASSUME NEW j \in 0 .. k - 1
      PROVE  /\ wEvents[w][ReplaySlot(w, j)] = wlog[w][n - k + 1 + j]
             /\ wEvents[w][ReplaySlot(w, j)] # NoEvent
  <2>0. j \in Nat /\ j < k /\ k <= n /\ k <= N /\ k \in Nat
    BY <1>1
  <2> HIDE DEF n, N, E
  <2>1. /\ k - j \in 1 .. N /\ k - j <= n /\ n - (k - j) + 1 = n - k + 1 + j
        /\ n - k + 1 + j \in 1 .. n
    BY <1>1, <2>0
  <2>2. wlog[w][n - k + 1 + j] \in Ids
    BY <1>1, <2>1
  <2>3. wlog[w][n - k + 1 + j] # NoEvent
    BY <2>2 DEF Ids, NoEvent
  <2> QED
    BY <1>2, <1>3, <2>1, <2>3
<1>5. ASSUME k < N PROVE wEvents[w][ReplaySlot(w, k)] = NoEvent
  <2>1. k = n /\ n < N /\ wEvtS[w] = 0 /\ E = n
    BY <1>1, <1>2, <1>5
  <2>2. ReplaySlot(w, k) = Back(E, N, N)
    BY <1>1, <2>1 DEF ReplaySlot, Wrap, Back
  <2>3. N \in 1 .. N /\ ~(N <= n)
    BY <1>1, <2>1
  <2> HIDE DEF n, N, E
  <2> QED
    BY <1>2, <2>2, <2>3
<1> QED
  BY <1>4, <1>5

LEMMA ReplayInvGivesReplay == TypeInv /\ ReplayInv => ReplayIsLatest
<1> SUFFICES ASSUME TypeInv, ReplayInv, NEW w \in Worlds
             PROVE  LET n == Len(wlog[w])
                        k == IF n > MAX_WORLD_EVENTS THEN MAX_WORLD_EVENTS ELSE n
                    IN  Replay(w) = SubSeq(wlog[w], n - k + 1, n)
  BY DEF ReplayIsLatest
<1> USE SizesAssumption
<1> DEFINE N == MAX_WORLD_EVENTS
           n == Len(wlog[w])
           k == IF n > N THEN N ELSE n
           Ends(m) == /\ \A j \in 0 .. m - 1 : wEvents[w][ReplaySlot(w, j)] # NoEvent
                      /\ m < N => wEvents[w][ReplaySlot(w, m)] = NoEvent
<1>1. /\ TypeOK /\ WorldRing(w) /\ N \in Nat \ {0} /\ n \in Nat /\ wlog[w] \in Seq(Ids)
      /\ k \in 0 .. N /\ k <= n
  BY LenProperties DEF TypeInv, TypeOK, ReplayInv
<1>2. /\ \A j \in 0 .. k - 1 : /\ wEvents[w][ReplaySlot(w, j)] = wlog[w][n - k + 1 + j]
                               /\ wEvents[w][ReplaySlot(w, j)] # NoEvent
      /\ k < N => wEvents[w][ReplaySlot(w, k)] = NoEvent
  BY <1>1, ReplaySlots
<1> HIDE DEF k
<1>3. Ends(k)
  BY <1>2
<1>4. ASSUME NEW m \in 0 .. N, Ends(m) PROVE m = k
  <2>1. ~(m < k)
    <3>1. m < k => m \in 0 .. k - 1 /\ m < N
      BY <1>1
    <3> QED
      BY <1>2, <1>4, <3>1
  <2>2. ~(k < m)
    <3>1. k < m => k \in 0 .. m - 1 /\ k < N
      BY <1>1
    <3> QED
      BY <1>2, <1>4, <3>1
  <2> QED
    BY <1>1, <2>1, <2>2
<1>5. ReplayLength(w) = CHOOSE m \in 0 .. N : Ends(m)
  BY DEF ReplayLength
<1>6. ReplayLength(w) = k
  <2> HIDE DEF Ends
  <2> QED
    BY <1>1, <1>3, <1>4, <1>5
<1>7. Replay(w) = [j \in 1 .. k |-> wEvents[w][ReplaySlot(w, j - 1)]]
  BY <1>6 DEF Replay
<1>8. ASSUME NEW j \in 1 .. k
      PROVE  wEvents[w][ReplaySlot(w, j - 1)] = wlog[w][(n - k + 1) + j - 1]
  <2>1. j - 1 \in 0 .. k - 1 /\ n - k + 1 + (j - 1) = (n - k + 1) + j - 1
    BY <1>1
  <2> QED
    BY <1>2, <2>1
<1>9. SubSeq(wlog[w], n - k + 1, n) = [j \in 1 .. k |-> wlog[w][(n - k + 1) + j - 1]]
  <2> DEFINE m == n - k + 1
             last == SubSeq(wlog[w], m, n)
  <2>1. m \in Int /\ n \in Int /\ n - m + 1 = k /\ 1 <= m
    BY <1>1
  <2>2. \A i \in m .. n : wlog[w][i] \in Ids
    BY <1>1, <2>1
  <2>3. m <= n \/ k = 0
    BY <1>1
  <2> HIDE DEF m, n
  <2>4. /\ last \in Seq(Ids) /\ Len(last) = k
        /\ \A i \in 1 .. k : last[i] = wlog[w][m + i - 1]
    BY <2>1, <2>2, <2>3, SubSeqProperties
  <2>5. last \in [1 .. k -> Ids]
    BY <2>4, LenProperties
  <2> HIDE DEF last
  <2>6. last = [i \in 1 .. k |-> wlog[w][m + i - 1]]
    BY <2>4, <2>5
  <2> QED
    BY <2>6 DEF last, m
<1>10. Replay(w) = SubSeq(wlog[w], n - k + 1, n)
  BY <1>7, <1>8, <1>9
<1> QED
  BY <1>10 DEF k

\* event_startup replays of every world the newest events its ring can hold, in order
\* (EventRing!ReplayIsLatest; events.c:248-262).
THEOREM ReplayCorrect == Spec => []ReplayIsLatest
<1>1. TypeInv /\ ReplayInv /\ [Next]_vars => ReplayInv'
  BY ReplayInvNext
<1> QED
  BY <1>1, TypeInvInit, TypeInvNext, ReplayInvInit, ReplayInvGivesReplay, PTL DEF Spec

-----------------------------------------------------------------------------
(* Reference counts.                                                       *)

\* The places in worlds' rings that hold event e.
InWorlds(e) == {x \in Worlds \X WSlots : wEvents[x[1]][x[2]] = e}

\* The inductive invariant: references are exact, a section queues events only for worlds
\* that stay open until it is done, and the ring of a closed world is empty.
RefInv ==
    /\ RefcountExact
    /\ alive => QueuesFor(open, section)
    /\ ~alive => section = <<>> /\ open = {}
    /\ \A w \in Worlds \ open, s \in WSlots : wEvents[w][s] = NoEvent

\* Two finite sets that differ in one element at most.
LEMMA OneChanged ==
    ASSUME NEW A, NEW B, NEW d, IsFiniteSet(A), IsFiniteSet(B), A \ {d} = B \ {d}
    PROVE  Cardinality(B) = Cardinality(A) + (IF d \in B THEN 1 ELSE 0) - (IF d \in A THEN 1 ELSE 0)
<1>1. /\ Cardinality(A \ {d}) = IF d \in A THEN Cardinality(A) - 1 ELSE Cardinality(A)
      /\ Cardinality(B \ {d}) = IF d \in B THEN Cardinality(B) - 1 ELSE Cardinality(B)
  BY FS_RemoveElement
<1>2. Cardinality(A) \in Int /\ Cardinality(B) \in Int
  BY FS_CardinalityType
<1> DEFINE a == Cardinality(A)
           b == Cardinality(B)
           c == Cardinality(A \ {d})
<1>3. /\ a \in Int /\ b \in Int
      /\ c = IF d \in A THEN a - 1 ELSE a
      /\ c = IF d \in B THEN b - 1 ELSE b
  BY <1>1, <1>2
<1> HIDE DEF a, b, c
<1>4. b = a + (IF d \in B THEN 1 ELSE 0) - (IF d \in A THEN 1 ELSE 0)
  BY <1>3
<1> QED
  BY <1>4 DEF a, b

\* Writing event e into slot s of the user's ring.
LEMMA HoldsPush ==
    ASSUME TypeOK, NEW s \in Slots, NEW e \in Ids, NEW x \in Ids,
           events' = [events EXCEPT ![s] = e]
    PROVE  Holds(events', x) = Holds(events, x) + Refers(1, e, x) - Released(events[s], x)
<1> DEFINE A == {i \in DOMAIN events : events[i] = x}
           B == {i \in DOMAIN events' : events'[i] = x}
<1>1. DOMAIN events = Slots /\ DOMAIN events' = Slots
  BY DEF TypeOK
<1>2. IsFiniteSet(Slots)
  BY SizesAssumption, FS_Interval DEF Slots
<1>3. IsFiniteSet(A) /\ IsFiniteSet(B)
  BY <1>1, <1>2, FS_Subset
<1>4. A \ {s} = B \ {s}
  BY <1>1
<1>5. (s \in A <=> events[s] = x) /\ (s \in B <=> e = x)
  BY <1>1
<1> HIDE DEF A, B
<1>6. Cardinality(B) = Cardinality(A) + (IF s \in B THEN 1 ELSE 0) - (IF s \in A THEN 1 ELSE 0)
  BY <1>3, <1>4, OneChanged
<1>7. /\ Refers(1, e, x) = IF s \in B THEN 1 ELSE 0
      /\ Released(events[s], x) = IF s \in A THEN 1 ELSE 0
  BY <1>5 DEF Refers, Released
<1> QED
  BY <1>6, <1>7 DEF Holds, A, B

LEMMA InWorldsFinite ==
    ASSUME NEW e
    PROVE  IsFiniteSet(InWorlds(e)) /\ IsFiniteSet(InWorlds(e)')
<1>1. IsFiniteSet(WSlots)
  BY SizesAssumption, FS_Interval DEF WSlots
<1>2. IsFiniteSet(Worlds \X WSlots)
  BY <1>1, SizesAssumption, FS_Product
<1>3. InWorlds(e) \subseteq Worlds \X WSlots /\ InWorlds(e)' \subseteq Worlds \X WSlots
  BY DEF InWorlds
<1> QED
  BY <1>2, <1>3, FS_Subset

\* Writing event e into slot s of world w's ring.
LEMMA WorldsPush ==
    ASSUME TypeOK, NEW w \in Worlds, NEW s \in WSlots, NEW e \in Ids, NEW x \in Ids,
           wEvents' = [wEvents EXCEPT ![w][s] = e]
    PROVE  Cardinality(InWorlds(x)') =
               Cardinality(InWorlds(x)) + Refers(1, e, x) - Released(wEvents[w][s], x)
<1> DEFINE A == InWorlds(x)
           B == InWorlds(x)'
           d == <<w, s>>
<1>1. IsFiniteSet(A) /\ IsFiniteSet(B)
  BY InWorldsFinite
<1>2. \A v \in Worlds, t \in WSlots :
          wEvents'[v][t] = IF v = w /\ t = s THEN e ELSE wEvents[v][t]
  BY DEF TypeOK
<1>3. A \ {d} = B \ {d}
  BY <1>2 DEF InWorlds
<1>4. (d \in A <=> wEvents[w][s] = x) /\ (d \in B <=> e = x)
  BY <1>2 DEF InWorlds
<1> HIDE DEF A, B, d
<1>5. Cardinality(B) = Cardinality(A) + (IF d \in B THEN 1 ELSE 0) - (IF d \in A THEN 1 ELSE 0)
  BY <1>1, <1>3, OneChanged
<1>6. /\ Refers(1, e, x) = IF d \in B THEN 1 ELSE 0
      /\ Released(wEvents[w][s], x) = IF d \in A THEN 1 ELSE 0
  BY <1>4 DEF Refers, Released
<1> QED
  BY <1>5, <1>6 DEF A, B

\* Emptying the ring of world w.
LEMMA WorldsFree ==
    ASSUME TypeOK, NEW w \in Worlds, NEW x \in Ids,
           wEvents' = [wEvents EXCEPT ![w] = [s \in WSlots |-> NoEvent]]
    PROVE  Cardinality(InWorlds(x)') = Cardinality(InWorlds(x)) - Holds(wEvents[w], x)
<1> DEFINE held == {s \in WSlots : wEvents[w][s] = x}
           row == {<<w, s>> : s \in held}
           A == InWorlds(x)
           B == InWorlds(x)'
<1>1. x # NoEvent
  BY DEF Ids, NoEvent
<1>2. \A v \in Worlds, t \in WSlots :
          wEvents'[v][t] = IF v = w THEN NoEvent ELSE wEvents[v][t]
  BY DEF TypeOK
<1>3. B = A \ row /\ A \cap row = row
  BY <1>1, <1>2 DEF InWorlds
<1>4. IsFiniteSet(held)
  <2>1. IsFiniteSet(WSlots)
    BY SizesAssumption, FS_Interval DEF WSlots
  <2> QED
    BY <2>1, FS_Subset
<1>5. Holds(wEvents[w], x) = Cardinality(held)
  BY DEF Holds, TypeOK
<1>6. ExistsBijection(held, row)
  <2> DEFINE f == [s \in held |-> <<w, s>>]
  <2>1. f \in Bijection(held, row)
    BY DEF Bijection, Injection, Surjection, IsInjective
  <2> QED
    BY <2>1 DEF ExistsBijection
<1>7. IsFiniteSet(A)
  BY InWorldsFinite
<1> HIDE DEF held, row, A, B
<1>8. Cardinality(row) = Cardinality(held)
  BY <1>4, <1>6, FS_Bijection
<1>9. Cardinality(B) = Cardinality(A) - Cardinality(row)
  BY <1>3, <1>7, FS_Difference
<1> QED
  BY <1>5, <1>8, <1>9 DEF A, B

\* No ring holds an event if all its slots are empty.
LEMMA NothingHeld ==
    ASSUME NEW x \in Ids, NEW ring, \A s \in DOMAIN ring : ring[s] = NoEvent
    PROVE  Holds(ring, x) = 0
<1>1. {s \in DOMAIN ring : ring[s] = x} = {}
  BY DEF Ids, NoEvent
<1> QED
  BY <1>1, FS_EmptySet DEF Holds

LEMMA RefInvInit == Init => RefInv
<1> SUFFICES ASSUME Init PROVE RefInv
  OBVIOUS
<1>1. ASSUME NEW e \in Ids PROVE Holds(events, e) = 0 /\ Cardinality(InWorlds(e)) = 0
  <2>1. Holds(events, e) = 0
    BY NothingHeld DEF Init, FreshRings
  <2>2. InWorlds(e) = {}
    BY DEF Init, FreshRings, InWorlds, Ids, NoEvent
  <2> QED
    BY <2>1, <2>2, FS_EmptySet
<1>2. RefcountExact
  BY <1>1 DEF RefcountExact, InWorlds, Init, FreshRings
<1>3. alive /\ section = <<>> /\ \A w \in Worlds, s \in WSlots : wEvents[w][s] = NoEvent
  BY DEF Init, FreshRings
<1>4. QueuesFor(open, section)
  BY <1>3 DEF QueuesFor
<1> QED
  BY <1>2, <1>3, <1>4 DEF RefInv

\* A larger set of open worlds allows the same jobs.
LEMMA QueuesForMore ==
    ASSUME NEW few, NEW many, NEW jobs, few \subseteq many, QueuesFor(few, jobs)
    PROVE  QueuesFor(many, jobs)
BY DEF QueuesFor

\* Both terms of a reference count are numbers.
LEMMA CountTypes ==
    ASSUME TypeOK, NEW e \in Ids
    PROVE  /\ Holds(events, e) \in Int /\ Cardinality(InWorlds(e)) \in Int
           /\ refcount[e] \in Int
<1>1. Holds(events, e) \in Nat
  BY HoldsType, SizesAssumption DEF TypeOK, Slots
<1>2. Cardinality(InWorlds(e)) \in Nat
  BY InWorldsFinite, FS_CardinalityType
<1> QED
  BY <1>1, <1>2 DEF TypeOK

\* A step that leaves the rings and the references alone, and goes on to a shorter section.
LEMMA RefInvSkips ==
    ASSUME TypeInv, RefInv, section # <<>>, section' = Tail(section),
           UNCHANGED <<events, wEvents, refcount, open, alive>>
    PROVE  RefInv'
<1>1. alive /\ QueuesFor(open, section)
  BY DEF RefInv
<1>2. QueuesFor(open, Tail(section))
  BY <1>1, QueuesForTail DEF TypeInv, TypeOK
<1>3. RefcountExact'
  BY DEF RefInv, RefcountExact, Holds
<1> QED
  BY <1>1, <1>2, <1>3 DEF RefInv

LEMMA RefInvQueues ==
    ASSUME TypeInv, RefInv, QueueEvent
    PROVE  RefInv'
<1> USE DEF TypeInv, TypeOK
<1> DEFINE e == updateCount
           lost == events[evtE]
<1>1. alive /\ section # <<>> /\ Head(section).do = "queue"
  BY DEF QueueEvent, RefInv
<1>2. PICK w : w = Head(section).world
  OBVIOUS
<1>3. w = NULL \/ w \in open
  BY <1>1, <1>2, QueuesForTail DEF RefInv
<1>4. QueuesFor(open, Tail(section))
  BY <1>1, QueuesForTail DEF RefInv
<1>5. e \in Ids
  BY <1>1, SectionHead
<1>6. events' = [events EXCEPT ![evtE] = e] /\ UNCHANGED <<open, alive>> /\ section' = Tail(section)
  BY DEF QueueEvent, worldVars
<1>7. ASSUME NEW x \in Ids
      PROVE  Holds(events', x) = Holds(events, x) + Refers(1, e, x) - Released(lost, x)
  BY <1>5, <1>6, HoldsPush
<1>8. ASSUME NEW x \in Ids
      PROVE  /\ refcount[x] = Holds(events, x) + Cardinality(InWorlds(x))
             /\ Holds(events, x) \in Int /\ Cardinality(InWorlds(x)) \in Int
             /\ Refers(1, e, x) \in Int /\ Released(lost, x) \in Int
             /\ Refers(2, e, x) = Refers(1, e, x) + Refers(1, e, x)
  BY <1>1, CountTypes DEF RefInv, RefcountExact, InWorlds, Refers, Released
<1>9. CASE w = NULL
  <2>1. /\ refcount' = [x \in Ids |-> refcount[x] + Refers(1, e, x) - Released(lost, x)]
        /\ wEvents' = wEvents
    BY <1>2, <1>9 DEF QueueEvent
  <2>2. ASSUME NEW x \in Ids
        PROVE  refcount'[x] = Holds(events', x) + Cardinality(InWorlds(x)')
    <3>1. InWorlds(x)' = InWorlds(x)
      BY <2>1 DEF InWorlds
    <3>2. refcount'[x] = refcount[x] + Refers(1, e, x) - Released(lost, x)
      BY <2>1
    <3> HIDE DEF e, lost
    <3> QED
      BY <1>7, <1>8, <3>1, <3>2
  <2>3. RefcountExact'
    BY <1>1, <1>6, <2>2 DEF RefcountExact, InWorlds
  <2> QED
    BY <1>1, <1>4, <1>6, <2>1, <2>3 DEF RefInv
<1>10. CASE w \in open
  <2>0. w \in Worlds /\ w # NULL /\ wEvtE[w] \in WSlots
    BY <1>10, SizesAssumption
  <2> DEFINE gone == wEvents[w][wEvtE[w]]
  <2>1. /\ refcount' = [x \in Ids |-> refcount[x] + Refers(2, e, x) - Released(lost, x)
                                        - Released(gone, x)]
        /\ wEvents' = [wEvents EXCEPT ![w][wEvtE[w]] = e]
    BY <1>2, <2>0 DEF QueueEvent
  <2>2. ASSUME NEW x \in Ids
        PROVE  refcount'[x] = Holds(events', x) + Cardinality(InWorlds(x)')
    <3>1. Cardinality(InWorlds(x)') =
              Cardinality(InWorlds(x)) + Refers(1, e, x) - Released(gone, x)
      BY <1>5, <2>0, <2>1, WorldsPush
    <3>2. /\ refcount'[x] = refcount[x] + Refers(2, e, x) - Released(lost, x) - Released(gone, x)
          /\ Released(gone, x) \in Int
      BY <2>1 DEF Released
    <3> HIDE DEF e, lost, gone
    <3> QED
      BY <1>7, <1>8, <3>1, <3>2
  <2>3. RefcountExact'
    BY <1>1, <1>6, <2>2 DEF RefcountExact, InWorlds
  <2>4. \A v \in Worlds \ open, s \in WSlots : wEvents'[v][s] = NoEvent
    BY <1>10, <2>1 DEF RefInv
  <2> QED
    BY <1>1, <1>4, <1>6, <2>3, <2>4 DEF RefInv
<1> QED
  BY <1>3, <1>9, <1>10

LEMMA RefInvFrees ==
    ASSUME TypeInv, RefInv, WorldFree
    PROVE  RefInv'
<1> USE DEF TypeInv, TypeOK
<1>1. alive /\ section # <<>> /\ Head(section).do = "free"
  BY DEF WorldFree, RefInv
<1>2. PICK w : w = Head(section).world
  OBVIOUS
<1>3. w \in Worlds
  BY <1>1, <1>2, SectionHead, JobWorld
<1>4. Tail(section) = <<>>
  BY <1>1, QueuesForTail DEF RefInv
<1>5. /\ refcount' = [e \in Ids |-> refcount[e] - Holds(wEvents[w], e)]
      /\ wEvents' = [wEvents EXCEPT ![w] = [s \in WSlots |-> NoEvent]]
      /\ open' = open \ {w}
      /\ section' = <<>>
      /\ UNCHANGED <<events, alive>>
  BY <1>2, <1>4 DEF WorldFree
<1>6. ASSUME NEW x \in Ids
      PROVE  refcount'[x] = Holds(events', x) + Cardinality(InWorlds(x)')
  <2>1. Cardinality(InWorlds(x)') = Cardinality(InWorlds(x)) - Holds(wEvents[w], x)
    BY <1>3, <1>5, WorldsFree
  <2>2. Holds(wEvents[w], x) \in Int
    BY <1>3, HoldsType, SizesAssumption DEF WSlots
  <2>3. refcount[x] = Holds(events, x) + Cardinality(InWorlds(x))
    BY <1>1 DEF RefInv, RefcountExact, InWorlds
  <2>4. refcount'[x] = refcount[x] - Holds(wEvents[w], x) /\ Holds(events', x) = Holds(events, x)
    BY <1>5
  <2> QED
    BY <2>1, <2>2, <2>3, <2>4, CountTypes
<1>7. RefcountExact'
  BY <1>1, <1>5, <1>6 DEF RefcountExact, InWorlds
<1>8. QueuesFor(open', section')
  BY <1>5 DEF QueuesFor
<1>9. \A v \in Worlds \ open', s \in WSlots : wEvents'[v][s] = NoEvent
  BY <1>3, <1>5 DEF RefInv
<1> QED
  BY <1>1, <1>5, <1>7, <1>8, <1>9 DEF RefInv

LEMMA RefInvCleans ==
    ASSUME TypeInv, RefInv, UserClean
    PROVE  RefInv'
<1> USE DEF TypeInv, TypeOK
<1>1. ASSUME NEW e \in Ids PROVE refcount'[e] = 0
  <2>1. InWorlds(e) = {x \in open \X WSlots : wEvents[x[1]][x[2]] = e}
    BY DEF InWorlds, RefInv, Ids, NoEvent
  <2>2. refcount[e] = Holds(events, e) + Cardinality(InWorlds(e))
    BY DEF RefInv, RefcountExact, InWorlds, UserClean
  <2>3. refcount'[e] = refcount[e] - Holds(events, e) - Cardinality(InWorlds(e))
    BY <2>1 DEF UserClean
  <2> QED
    BY <2>2, <2>3, CountTypes
<1>2. ~alive' /\ section' = <<>> /\ open' = {}
  BY DEF UserClean
<1>3. RefcountExact'
  BY <1>1, <1>2 DEF RefcountExact
<1>4. \A w \in Worlds, s \in WSlots : wEvents'[w][s] = NoEvent
  BY DEF UserClean
<1> QED
  BY <1>2, <1>3, <1>4 DEF RefInv

LEMMA RefInvLogsIn ==
    ASSUME TypeInv, RefInv, UserLogin
    PROVE  RefInv'
<1> USE DEF TypeInv, TypeOK
<1>1. /\ events' = [s \in Slots |-> NoEvent]
      /\ alive' /\ section' = <<>> /\ open' = {} /\ open = {}
      /\ wEvents' = wEvents /\ refcount' = refcount /\ ~alive
  BY DEF UserLogin, RefInv
<1>2. \A w \in Worlds, s \in WSlots : wEvents'[w][s] = NoEvent
  BY <1>1 DEF RefInv
<1>3. ASSUME NEW e \in Ids
      PROVE  refcount'[e] = Holds(events', e) + Cardinality(InWorlds(e)')
  <2>1. Holds(events', e) = 0
    BY <1>1, NothingHeld
  <2>2. InWorlds(e)' = {}
    BY <1>2 DEF InWorlds, Ids, NoEvent
  <2>3. refcount'[e] = 0
    BY <1>1 DEF RefInv, RefcountExact
  <2> QED
    BY <2>1, <2>2, <2>3, FS_EmptySet
<1>4. RefcountExact'
  BY <1>1, <1>3 DEF RefcountExact, InWorlds
<1>5. QueuesFor(open', section')
  BY <1>1 DEF QueuesFor
<1> QED
  BY <1>1, <1>2, <1>4, <1>5 DEF RefInv

LEMMA RefInvNext ==
    ASSUME TypeInv, RefInv, [Next]_vars
    PROVE  RefInv'
<1>1. CASE UserOps \/ \E w \in Worlds : NetRead(w) \/ NetError(w)
  <2>1. PICK jobs : Opens(jobs)
    BY <1>1, OperationsOpen DEF TypeInv
  <2>2. /\ alive /\ section' = jobs /\ QueuesFor(open, jobs) /\ open \subseteq open'
        /\ UNCHANGED <<events, wEvents, refcount, alive>>
    BY <2>1 DEF Opens, Begin, ringVars
  <2>3. QueuesFor(open', section')
    BY <2>2, QueuesForMore
  <2>4. RefcountExact'
    BY <2>2 DEF RefInv, RefcountExact, Holds
  <2> QED
    BY <2>2, <2>3, <2>4 DEF RefInv
<1>2. CASE QueueEvent
  BY <1>2, RefInvQueues
<1>3. CASE QueueEventFails
  BY <1>3, RefInvSkips DEF QueueEventFails, ringVars, worldVars
<1>4. CASE WakePolls
  BY <1>4, RefInvSkips DEF WakePolls, ringVars, worldVars
<1>5. CASE NetDown
  BY <1>5, RefInvSkips DEF NetDown, ringVars
<1>6. CASE WorldFree
  BY <1>6, RefInvFrees
<1>7. CASE UserClean
  BY <1>7, RefInvCleans
<1>8. CASE UserLogin
  BY <1>8, RefInvLogsIn
<1>9. CASE UNCHANGED <<events, wEvents, refcount, open, section, alive>>
  BY <1>9 DEF RefInv, RefcountExact, Holds, QueuesFor
<1>10. ASSUME \/ \E w \in Worlds : ThreadEnds(w)
              \/ \E p \in Polls : PollStep(p)
              \/ Client
              \/ UNCHANGED vars
       PROVE  UNCHANGED <<events, wEvents, refcount, open, section, alive>>
  BY <1>10 DEF ThreadEnds, PollStep, EventStartup, EventWait, WaitEnds, EventWaitEnds,
               Client, Sent, Ask, vars, ringVars, worldVars
<1> QED
  BY <1>1, <1>2, <1>3, <1>4, <1>5, <1>6, <1>7, <1>8, <1>9, <1>10
     DEF Next, Server, NetOps, SectionStep, SlotOps

\* An event's reference count is the number of rings that hold it, for rings of any
\* sizes: queueEvent, world_free and user_clean release what they overwrite, no more and
\* no less (events.c:26-33, 56-112, users.c:158-167).
THEOREM RefcountCorrect == Spec => []RefcountExact
<1>1. Init => TypeInv /\ RefInv
  BY TypeInvInit, RefInvInit
<1>2. TypeInv /\ RefInv /\ [Next]_vars => (TypeInv /\ RefInv)'
  BY TypeInvNext, RefInvNext
<1>3. RefInv => RefcountExact
  BY DEF RefInv
<1> QED
  BY <1>1, <1>2, <1>3, PTL DEF Spec

-----------------------------------------------------------------------------
(* No wake-up is lost.                                                     *)

\* The inductive invariant: the silent events of a section are all covered by a
\* broadcast, and a thread that sleeps has asked for an event, not for a start-up.
WakeInv ==
    /\ Covered(section)
    /\ \A p \in Polls : pc[p] = "asleep" => want[p] >= 0
    /\ NoLostWakeup

LEMMA WakeInvInit == Init => WakeInv
BY DEF Init, FreshRings, WakeInv, Covered, NoLostWakeup

\* A broadcast that is not the head of a section is still ahead in its tail.
LEMMA RingsInTail ==
    ASSUME TypeInv, section # <<>>, NEW j \in 2 .. Len(section), Rings(section[j])
    PROVE  \E i \in 1 .. Len(Tail(section)) : Rings(Tail(section)[i])
<1>1. j - 1 \in 1 .. Len(Tail(section)) /\ Tail(section)[j - 1] = section[j]
  BY SectionHead
<1> QED
  BY <1>1

LEMMA WakeInvNext ==
    ASSUME TypeInv, WakeInv, [Next]_vars
    PROVE  WakeInv'
<1> USE SizesAssumption
<1>0. /\ TypeOK /\ updateCount \in Nat /\ Covered(section)
      /\ \A p \in Polls : pc[p] = "asleep" => want[p] >= 0
  BY DEF TypeInv, TypeOK, WakeInv
<1>1. ASSUME section # <<>>, section' = Tail(section) PROVE Covered(section)'
  BY <1>0, <1>1, CoveredTail DEF TypeOK, Covered
<1>2. ASSUME \A p \in Polls : pc'[p] # "asleep", Covered(section)' PROVE WakeInv'
  BY <1>2 DEF WakeInv, NoLostWakeup
<1>3. ASSUME Broadcast(Polls), NEW p \in Polls PROVE pc'[p] # "asleep"
  BY <1>0, <1>3 DEF Broadcast, TypeOK
<1>4. CASE QueueEvent
  <2>1. section # <<>> /\ section' = Tail(section) /\ Covered(section)'
    BY <1>1, <1>4 DEF QueueEvent
  <2>2. CASE Head(section).alarm
    <3>1. Broadcast(Polls)
      BY <1>4, <2>2 DEF QueueEvent
    <3> QED
      BY <1>2, <1>3, <2>1, <3>1
  <2>3. CASE ~Head(section).alarm
    <3>1. Head(section) = section[1] /\ 1 \in 1 .. Len(section)
      BY <2>1, SectionHead
    <3>2. PICK j \in 2 .. Len(section) : Rings(section[j])
      <4>1. section[1].do = "queue" /\ ~section[1].alarm
        BY <1>4, <2>3, <3>1 DEF QueueEvent
      <4>2. \E j \in 1 + 1 .. Len(section) : Rings(section[j])
        BY <1>0, <3>1, <4>1 DEF Covered
      <4> QED
        BY <4>2
    <3>3. \E i \in 1 .. Len(section') : Rings(section'[i])
      BY <2>1, <3>2, RingsInTail
    <3>4. pc' = pc /\ want' = want
      BY <1>0, <1>4, <2>3 DEF QueueEvent, Broadcast, TypeOK
    <3> QED
      BY <1>0, <2>1, <3>3, <3>4 DEF WakeInv, NoLostWakeup
  <2> QED
    BY <2>2, <2>3
<1>5. CASE QueueEventFails
  <2>1. /\ section # <<>> /\ section' = Tail(section) /\ Covered(section)' /\ failed'
        /\ UNCHANGED <<pc, want>>
    BY <1>1, <1>5 DEF QueueEventFails, pollVars
  <2> QED
    BY <1>0, <2>1 DEF WakeInv, NoLostWakeup
<1>6. CASE WakePolls
  BY <1>1, <1>2, <1>3, <1>6 DEF WakePolls
<1>7. CASE NetDown \/ WorldFree
  <2>1. /\ section # <<>> /\ section' = Tail(section) /\ Covered(section)'
        /\ Head(section).do \in {"down", "free"}
        /\ UNCHANGED <<updateCount, failed, pc, want>>
    BY <1>1, <1>7 DEF NetDown, WorldFree, pollVars, slotVars
  <2>2. ASSUME ~failed, NEW p \in Polls, pc[p] = "asleep", updateCount > want[p]
        PROVE  \E i \in 1 .. Len(section') : Rings(section'[i])
    <3>1. PICK j \in 1 .. Len(section) : Rings(section[j])
      BY <2>2 DEF WakeInv, NoLostWakeup
    <3>2. j # 1
      BY <2>1, <3>1, SectionHead DEF Rings
    <3>3. j \in 2 .. Len(section)
      BY <2>1, <3>2, SectionHead
    <3> QED
      BY <2>1, <3>1, <3>3, RingsInTail
  <2> QED
    BY <1>0, <2>1, <2>2 DEF WakeInv, NoLostWakeup
<1>8. ASSUME NEW jobs, Opens(jobs) PROVE WakeInv'
  <2>1. /\ section = <<>> /\ section' = jobs /\ Covered(jobs)
        /\ UNCHANGED <<updateCount, failed, pc, want>>
    BY <1>8 DEF Opens, Begin, pollVars, slotVars
  <2>2. ~failed => \A p \in Polls : ~(pc[p] = "asleep" /\ updateCount > want[p])
    BY <2>1 DEF WakeInv, NoLostWakeup
  <2> QED
    BY <1>0, <2>1, <2>2 DEF WakeInv, NoLostWakeup, Covered
<1>9. ASSUME UserOps \/ \E w \in Worlds : NetRead(w) \/ NetError(w) PROVE WakeInv'
  BY <1>0, <1>8, <1>9, OperationsOpen
<1>10. ASSUME UNCHANGED <<updateCount, section, failed>>,
              \A p \in Polls : pc'[p] = "asleep" =>
                  \/ pc[p] = "asleep" /\ want'[p] = want[p]
                  \/ 0 <= want'[p] /\ updateCount <= want'[p] /\ want'[p] \in Int
       PROVE  WakeInv'
  BY <1>0, <1>10 DEF WakeInv, NoLostWakeup, Covered
<1>11. ASSUME NEW w \in Worlds, ThreadEnds(w) PROVE WakeInv'
  BY <1>10, <1>11 DEF ThreadEnds, pollVars, slotVars
<1>12. CASE UserClean
  BY <1>10, <1>12 DEF UserClean, pollVars, slotVars
<1>13. CASE UserLogin
  <2>1. updateCount' = 0 /\ UNCHANGED <<section, pc, want>>
    BY <1>13 DEF UserLogin, pollVars
  <2>2. \A p \in Polls : want[p] \in Int
    BY <1>0 DEF TypeOK
  <2> QED
    BY <1>0, <2>1, <2>2 DEF WakeInv, NoLostWakeup, Covered
<1>14. ASSUME NEW p \in Polls, PollStep(p) PROVE WakeInv'
  <2>1. pc \in [Polls -> {"idle", "asked", "asleep", "woken", "replied"}] /\ want \in [Polls -> Int]
    BY <1>0 DEF TypeOK
  <2>2. CASE EventWait(p) /\ updateCount <= want[p]
    BY <1>10, <2>1, <2>2 DEF EventWait, slotVars
  <2>3. CASE EventStartup(p) \/ EventWaitEnds(p) \/ (EventWait(p) /\ ~(updateCount <= want[p]))
    BY <1>10, <2>1, <2>3 DEF EventStartup, EventWaitEnds, EventWait, Answer, slotVars
  <2>4. CASE WaitEnds(p)
    BY <1>10, <2>1, <2>4 DEF WaitEnds, slotVars
  <2> QED
    BY <1>14, <2>2, <2>3, <2>4 DEF PollStep
<1>15. ASSUME NEW p \in Polls, Sent(p) \/ \E asked \in -1 .. MaxUpdates : Ask(p, asked)
       PROVE  WakeInv'
  <2>1. pc \in [Polls -> {"idle", "asked", "asleep", "woken", "replied"}] /\ want \in [Polls -> Int]
    BY <1>0 DEF TypeOK
  <2>2. CASE Sent(p)
    BY <1>10, <2>1, <2>2 DEF Sent, slotVars
  <2>3. CASE \E asked \in -1 .. MaxUpdates : Ask(p, asked)
    BY <1>10, <2>1, <2>3 DEF Ask, slotVars
  <2> QED
    BY <1>15, <2>2, <2>3
<1>16. CASE UNCHANGED vars
  BY <1>10, <1>16 DEF vars, pollVars, slotVars
<1> QED
  BY <1>4, <1>5, <1>6, <1>7, <1>9, <1>11, <1>12, <1>13, <1>14, <1>15, <1>16
     DEF Next, Server, Client, NetOps, SectionStep, SlotOps

\* As long as vasprintf does not fail, a thread never stays asleep in event_wait
\* with an event for it and no broadcast to come (EventRing!NoLostWakeup).
THEOREM WakeupCorrect == Spec => []NoLostWakeup
<1>1. TypeInv /\ WakeInv /\ [Next]_vars => WakeInv'
  BY WakeInvNext
<1>2. WakeInv => NoLostWakeup
  BY DEF WakeInv
<1> QED
  BY <1>1, <1>2, TypeInvInit, TypeInvNext, WakeInvInit, PTL DEF Spec

=============================================================================
