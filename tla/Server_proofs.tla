--------------------------- MODULE Server_proofs ---------------------------
(***************************************************************************)
(* Proofs about Server, for every number of sockets, workers, connecting   *)
(* threads and users and every size of the queue.                          *)
(***************************************************************************)
EXTENDS Server, SequenceTheorems, FiniteSetTheorems, TLAPS

-----------------------------------------------------------------------------
(* The queue of sockets.                                                   *)

\* Places in the ring: the indices stay below twice its size, or are just that.
LEMMA ModBelow ==
    ASSUME NEW n \in Nat \ {0}, NEW x \in 0 .. n - 1
    PROVE  x % n = x
OBVIOUS

LEMMA ModAbove ==
    ASSUME NEW n \in Nat \ {0}, NEW x \in n .. 2 * n - 1
    PROVE  x % n = x - n
<1>1. x = n * 1 + (x - n) /\ x - n \in 0 .. n - 1
  OBVIOUS
<1> QED
  BY <1>1

LEMMA ModTwice ==
    ASSUME NEW n \in Nat \ {0}
    PROVE  (2 * n) % n = 0
OBVIOUS

\* The slot of a place, as a number below n.
LEMMA Places ==
    ASSUME NEW n \in Nat \ {0}, NEW x \in 0 .. 2 * n
    PROVE  /\ x % n \in 0 .. n - 1
           /\ x % n = IF x < n THEN x ELSE IF x < 2 * n THEN x - n ELSE 0
<1>1. CASE x < n
  <2>1. x \in 0 .. n - 1
    BY <1>1
  <2> QED
    BY <1>1, <2>1, ModBelow
<1>2. CASE n <= x /\ x < 2 * n
  <2>1. x \in n .. 2 * n - 1 /\ x - n \in 0 .. n - 1 /\ ~(x < n)
    BY <1>2
  <2>2. x % n = x - n
    BY <2>1, ModAbove
  <2> QED
    BY <1>2, <2>1, <2>2
<1>3. CASE x = 2 * n
  <2>1. x % n = 0
    BY <1>3, ModTwice
  <2>2. ~(x < n) /\ ~(x < 2 * n) /\ 0 \in 0 .. n - 1
    BY <1>3
  <2> QED
    BY <2>1, <2>2
<1>4. x < n \/ (n <= x /\ x < 2 * n) \/ x = 2 * n
  OBVIOUS
<1> QED
  BY <1>1, <1>2, <1>3, <1>4

\* Two places less than n apart have different slots.
LEMMA Apart ==
    ASSUME NEW n \in Nat \ {0}, NEW x \in 0 .. 2 * n, NEW y \in 0 .. 2 * n, x < y, y < x + n
    PROVE  x % n # y % n
<1> DEFINE At(z) == IF z < n THEN z ELSE IF z < 2 * n THEN z - n ELSE 0
<1>1. x % n = At(x)
  BY Places
<1>2. y % n = At(y)
  BY Places
<1>3. At(x) # At(y)
  OBVIOUS
<1> QED
  BY <1>1, <1>2, <1>3

\* The queue's own invariant: its types, and what it is to its users.
QueueInv ==
    /\ queue \in [0 .. QSIZE - 1 -> Conns \cup {NULL}]
    /\ sq_head \in Nat /\ sq_tail \in Nat
    /\ waiting \in Seq(Conns)
    /\ hand \in Conns \cup {NULL}
    /\ QueueInOrder

\* produce_socket writes behind the last socket and over none of the others.
LEMMA ProduceKeeps ==
    ASSUME QueueInv, NEW c \in Conns, Produce(c)
    PROVE  /\ queue' \in [0 .. QSIZE - 1 -> Conns \cup {NULL}]
           /\ sq_head' \in Nat /\ sq_tail' \in Nat
           /\ waiting' \in Seq(Conns)
           /\ QueueInOrder'
<1> USE QueueAssumption
<1> DEFINE n == Len(waiting)
<1>1. /\ n \in Nat /\ n < QSIZE
      /\ sq_head = sq_tail + n /\ sq_tail \in 0 .. QSIZE
  BY LenProperties DEF QueueInv, QueueInOrder, Produce
<1>2. sq_head % QSIZE \in 0 .. QSIZE - 1
  BY <1>1, Places
<1>3. /\ queue' = [queue EXCEPT ![sq_head % QSIZE] = c]
      /\ sq_head' = sq_head + 1 /\ sq_tail' = sq_tail
      /\ waiting' = Append(waiting, c)
  BY DEF Produce
<1>4. /\ waiting' \in Seq(Conns) /\ Len(waiting') = n + 1
      /\ \A i \in 1 .. n : waiting'[i] = waiting[i]
      /\ waiting'[n + 1] = c
  BY <1>3, AppendProperties DEF QueueInv
<1>5. ASSUME NEW i \in 1 .. n + 1
      PROVE  waiting'[i] = queue'[(sq_tail' + i - 1) % QSIZE]
  <2>1. CASE i = n + 1
    BY <1>1, <1>2, <1>3, <1>4, <2>1 DEF QueueInv
  <2>2. CASE i <= n
    <3>0. /\ sq_tail + i - 1 \in 0 .. 2 * QSIZE /\ sq_head \in 0 .. 2 * QSIZE
          /\ sq_tail + i - 1 < sq_head /\ sq_head < (sq_tail + i - 1) + QSIZE
      BY <1>1, <2>2
    <3>1. (sq_tail + i - 1) % QSIZE # sq_head % QSIZE
      BY <3>0, Apart
    <3>2. (sq_tail + i - 1) % QSIZE \in 0 .. QSIZE - 1
      BY <3>0, Places
    <3>3. waiting[i] = queue[(sq_tail + i - 1) % QSIZE]
      BY <2>2 DEF QueueInv, QueueInOrder
    <3> QED
      BY <1>3, <1>4, <2>2, <3>1, <3>2, <3>3 DEF QueueInv
  <2> QED
    BY <1>1, <2>1, <2>2
<1>6. queue' \in [0 .. QSIZE - 1 -> Conns \cup {NULL}]
  BY <1>3 DEF QueueInv
<1>7. QueueInOrder'
  BY <1>1, <1>3, <1>4, <1>5 DEF QueueInOrder
<1>8. sq_head' \in Nat /\ sq_tail' \in Nat
  BY <1>3 DEF QueueInv
<1> QED
  BY <1>4, <1>6, <1>7, <1>8

\* consume_socket takes the oldest socket, and the wrap of the indices moves no other.
LEMMA ConsumeKeeps ==
    ASSUME QueueInv, NEW w, NEW c, Consume(w, c)
    PROVE  /\ queue' \in [0 .. QSIZE - 1 -> Conns \cup {NULL}]
           /\ sq_head' \in Nat /\ sq_tail' \in Nat
           /\ waiting' \in Seq(Conns)
           /\ QueueInOrder'
<1> USE QueueAssumption
<1> DEFINE n == Len(waiting)
<1>1. /\ n \in Nat \ {0} /\ n <= QSIZE /\ waiting # <<>>
      /\ sq_head = sq_tail + n /\ sq_tail \in 0 .. QSIZE
  BY LenProperties, EmptySeq DEF QueueInv, QueueInOrder, Consume
<1>2. /\ queue' = [queue EXCEPT ![sq_tail % QSIZE] = NULL]
      /\ sq_tail' = sq_tail + 1 - Wrap /\ sq_head' = sq_head - Wrap
      /\ waiting' = Tail(waiting)
  BY DEF Consume
<1>3. /\ sq_tail' \in 0 .. QSIZE /\ sq_head' \in Nat
      /\ sq_head' - sq_tail' = n - 1
  BY <1>1, <1>2 DEF Wrap
<1>4. /\ waiting' \in Seq(Conns) /\ Len(waiting') = n - 1
      /\ \A i \in 1 .. n - 1 : waiting'[i] = waiting[i + 1]
  BY <1>1, <1>2, HeadTailProperties DEF QueueInv
<1>5. ASSUME NEW i \in 1 .. n - 1
      PROVE  waiting'[i] = queue'[(sq_tail' + i - 1) % QSIZE]
  <2>1. (sq_tail' + i - 1) % QSIZE = (sq_tail + i) % QSIZE
    <3>1. CASE sq_tail < QSIZE
      <4>1. Wrap = 0
        BY <1>1, <3>1 DEF Wrap
      <4>2. sq_tail' + i - 1 = sq_tail + i
        BY <1>1, <1>2, <4>1
      <4> QED
        BY <4>2
    <3>2. CASE sq_tail = QSIZE
      <4>1. Wrap = QSIZE
        BY <1>1, <3>2 DEF Wrap
      <4>2. sq_tail' + i - 1 = i /\ sq_tail + i = QSIZE + i
        BY <1>1, <1>2, <3>2, <4>1
      <4>3. i \in 0 .. QSIZE - 1 /\ QSIZE + i \in QSIZE .. 2 * QSIZE - 1
        BY <1>1
      <4>4. i % QSIZE = i /\ (QSIZE + i) % QSIZE = (QSIZE + i) - QSIZE
        BY <4>3, ModBelow, ModAbove
      <4> QED
        BY <4>2, <4>3, <4>4
    <3> QED
      BY <1>1, <3>1, <3>2
  <2>0. /\ QSIZE \in Nat \ {0} /\ sq_tail \in 0 .. 2 * QSIZE
        /\ sq_tail + i \in 0 .. 2 * QSIZE
        /\ sq_tail < sq_tail + i /\ sq_tail + i < sq_tail + QSIZE
    BY <1>1
  <2>2. (sq_tail + i) % QSIZE # sq_tail % QSIZE
    BY <2>0, Apart
  <2>3. (sq_tail + i) % QSIZE \in 0 .. QSIZE - 1
    BY <2>0, Places
  <2>4. waiting[i + 1] = queue[(sq_tail + i) % QSIZE]
    BY <1>1 DEF QueueInv, QueueInOrder
  <2> QED
    BY <1>2, <1>4, <2>1, <2>2, <2>3, <2>4 DEF QueueInv
<1>6. queue' \in [0 .. QSIZE - 1 -> Conns \cup {NULL}]
  BY <1>2 DEF QueueInv
<1>7. QueueInOrder'
  BY <1>1, <1>3, <1>4, <1>5 DEF QueueInOrder
<1> QED
  BY <1>3, <1>4, <1>6, <1>7

\* Every step of the server keeps the queue's invariant: only the master and the workers
\* touch it.
LEMMA QueueStep == QueueInv /\ [Next]_vars => QueueInv'
<1> SUFFICES ASSUME QueueInv, [Next]_vars PROVE QueueInv'
  OBVIOUS
<1>1. ASSUME UNCHANGED queueVars, hand' \in Conns \cup {NULL} PROVE QueueInv'
  BY <1>1 DEF QueueInv, QueueInOrder, queueVars
<1>2. ASSUME NEW c \in Conns, Accept(c) PROVE QueueInv'
  BY <1>1, <1>2 DEF Accept
<1>3. CASE MasterWaits
  BY <1>3 DEF MasterWaits, ProduceWaits, QueueInv, QueueInOrder
<1>4. CASE MasterQueues
  <2>1. hand \in Conns /\ Produce(hand) /\ hand' = NULL
    BY <1>4 DEF MasterQueues, QueueInv
  <2> QED
    BY <2>1, ProduceKeeps DEF QueueInv
<1>5. ASSUME NEW w \in Workers, WorkerWaits(w) PROVE QueueInv'
  BY <1>5 DEF WorkerWaits, ConsumeWaits, QueueInv, QueueInOrder
<1>6. ASSUME NEW w \in Workers, WorkerTakes(w) PROVE QueueInv'
  <2>1. PICK c \in Conns \cup {NULL} : Consume(w, c) /\ hand' = hand
    BY <1>6 DEF WorkerTakes
  <2> QED
    BY <2>1, ConsumeKeeps DEF QueueInv
<1>7. ASSUME NEW w \in Workers, WorkerCloses(w) PROVE QueueInv'
  BY <1>1, <1>7 DEF WorkerCloses, QueueInv
<1>8. ASSUME NEW t \in Threads, Do(t) PROVE QueueInv'
  BY <1>1, <1>8 DEF Do, QueueInv
<1>9. CASE NetPoll
  BY <1>1, <1>9 DEF NetPoll, QueueInv
<1>10. CASE Signal
  BY <1>1, <1>10 DEF Signal, QueueInv
<1>11. CASE UNCHANGED vars
  BY <1>1, <1>11 DEF vars, QueueInv
<1> QED
  BY <1>2, <1>3, <1>4, <1>5, <1>6, <1>7, <1>8, <1>9, <1>10, <1>11 DEF Next

\* In every state of every server the sockets between the indices are those that were put in
\* and not taken out, oldest first (produce_socket, consume_socket).
THEOREM QueueCorrect == Spec => []QueueInOrder
<1>1. Init => QueueInv
  BY QueueAssumption DEF Init, QInit, QueueInv, QueueInOrder
<1>2. QueueInv => QueueInOrder
  BY DEF QueueInv
<1> QED
  BY <1>1, <1>2, QueueStep, PTL DEF Spec

-----------------------------------------------------------------------------
(* What threads hold while they do one thing after the other.              *)

Depths == [Mutexes -> Nat]
Nothing == [m \in Mutexes |-> 0]
Step == ({"lock", "unlock", "pass"} \X Mutexes) \cup {<<"write">>, <<"connect">>}
        \cup ({"spawn"} \X Users)

\* A step makes of what a thread holds, h, what it holds then, k; nothing is unlocked that it
\* does not hold.
Moves(step, h, k) ==
    /\ step[1] = "lock" => k = [h EXCEPT ![step[2]] = h[step[2]] + 1]
    /\ step[1] = "unlock" => h[step[2]] > 0 /\ k = [h EXCEPT ![step[2]] = h[step[2]] - 1]
    /\ step[1] \notin {"lock", "unlock"} => k = h

\* Mutex m may be asked for by a thread that holds h: all it holds are earlier ones, or m.
MayAsk(m, h) == \A n \in Mutexes : h[n] > 0 => n = m \/ Rank(n) < Rank(m)

\* The steps, each with what is held before it, of a thread that keeps the order of the mutexes
\* and locks only those in M; and all there are.
AnyStep == Step \X Depths
Ordered(M) ==
    {p \in AnyStep : /\ p[1][1] \in {"lock", "pass"} => MayAsk(p[1][2], p[2])
                     /\ p[1][1] = "lock" => p[1][2] \in M}

\* held[i] is what the thread holds after i steps of s
Run(A, s, held) ==
    /\ held \in [0 .. Len(s) -> Depths]
    /\ \A i \in 1 .. Len(s) : Moves(s[i], held[i - 1], held[i]) /\ <<s[i], held[i - 1]>> \in A

\* A thread that holds h can do s, in steps of A, and holds k then.
Path(A, s, h, k) ==
    /\ s \in Seq(Step)
    /\ \E held : Run(A, s, held) /\ held[0] = h /\ held[Len(s)] = k

LEMMA PathOfNone ==
    ASSUME NEW A, NEW h \in Depths
    PROVE  Path(A, <<>>, h, h)
<1> DEFINE held == [i \in 0 .. 0 |-> h]
<1>1. <<>> \in Seq(Step) /\ Len(<<>>) = 0
  BY EmptySeq
<1>2. Run(A, <<>>, held) /\ held[0] = h
  BY <1>1 DEF Run
<1> HIDE DEF held
<1> QED
  BY <1>1, <1>2 DEF Path

LEMMA PathOfOne ==
    ASSUME NEW A, NEW step \in Step, NEW h \in Depths, NEW k \in Depths, Moves(step, h, k),
           <<step, h>> \in A
    PROVE  Path(A, <<step>>, h, k)
<1> DEFINE held == [i \in 0 .. 1 |-> IF i = 0 THEN h ELSE k]
           s == <<step>>
<1>1. s \in Seq(Step) /\ Len(s) = 1 /\ s[1] = step
  OBVIOUS
<1>2. held \in [0 .. 1 -> Depths] /\ held[0] = h /\ held[1] = k
  OBVIOUS
<1> HIDE DEF held, s
<1>3. \A i \in 1 .. Len(s) : i = 1 /\ i - 1 = 0
  BY <1>1
<1>4. Run(A, s, held)
  <2>1. held \in [0 .. Len(s) -> Depths]
    BY <1>1, <1>2
  <2>2. \A i \in 1 .. Len(s) : Moves(s[i], held[i - 1], held[i]) /\ <<s[i], held[i - 1]>> \in A
    BY <1>1, <1>2, <1>3
  <2> QED
    BY <2>1, <2>2 DEF Run
<1>5. Path(A, s, h, k)
  BY <1>1, <1>2, <1>4 DEF Path
<1> QED
  BY <1>5 DEF s

\* One after the other.
LEMMA PathOfBoth ==
    ASSUME NEW A, NEW s, NEW t, NEW h, NEW j, NEW k, Path(A, s, h, j), Path(A, t, j, k)
    PROVE  Path(A, s \o t, h, k)
<1>1. PICK f : Run(A, s, f) /\ f[0] = h /\ f[Len(s)] = j
  BY DEF Path
<1>2. PICK g : Run(A, t, g) /\ g[0] = j /\ g[Len(t)] = k
  BY DEF Path
<1>3. s \in Seq(Step) /\ t \in Seq(Step) /\ Len(s) \in Nat /\ Len(t) \in Nat
  BY LenProperties DEF Path
<1> DEFINE both == s \o t
           held == [i \in 0 .. Len(s) + Len(t) |-> IF i <= Len(s) THEN f[i] ELSE g[i - Len(s)]]
<1>4. /\ both \in Seq(Step) /\ Len(both) = Len(s) + Len(t)
      /\ \A i \in 1 .. Len(s) : both[i] = s[i]
      /\ \A i \in 1 .. Len(s) + Len(t) : i > Len(s) => both[i] = t[i - Len(s)]
  BY <1>3, ConcatProperties
<1>5. /\ f \in [0 .. Len(s) -> Depths] /\ g \in [0 .. Len(t) -> Depths]
      /\ \A i \in 1 .. Len(s) : Moves(s[i], f[i - 1], f[i]) /\ <<s[i], f[i - 1]>> \in A
      /\ \A i \in 1 .. Len(t) : Moves(t[i], g[i - 1], g[i]) /\ <<t[i], g[i - 1]>> \in A
  BY <1>1, <1>2 DEF Run
<1>6. held \in [0 .. Len(s) + Len(t) -> Depths]
  <2>1. ASSUME NEW i \in 0 .. Len(s) + Len(t)
        PROVE  (IF i <= Len(s) THEN f[i] ELSE g[i - Len(s)]) \in Depths
    <3>1. CASE i <= Len(s)
      <4>1. i \in 0 .. Len(s)
        BY <1>3, <3>1
      <4> QED
        BY <1>5, <3>1, <4>1
    <3>2. CASE ~(i <= Len(s))
      <4>1. i - Len(s) \in 0 .. Len(t)
        BY <1>3, <3>2
      <4> QED
        BY <1>5, <3>2, <4>1
    <3> QED
      BY <3>1, <3>2
  <2> QED
    BY <2>1
<1>7. \A i \in 0 .. Len(s) + Len(t) : held[i] = IF i <= Len(s) THEN f[i] ELSE g[i - Len(s)]
  OBVIOUS
<1> HIDE DEF both, held
<1>8. ASSUME NEW i \in 1 .. Len(both)
      PROVE  Moves(both[i], held[i - 1], held[i]) /\ <<both[i], held[i - 1]>> \in A
  <2>1. i \in 1 .. Len(s) + Len(t) /\ i \in 0 .. Len(s) + Len(t) /\ i - 1 \in 0 .. Len(s) + Len(t)
    BY <1>3, <1>4
  <2>2. CASE i <= Len(s)
    <3>1. i \in 1 .. Len(s) /\ i - 1 <= Len(s)
      BY <1>3, <2>1, <2>2
    <3>2. held[i] = f[i] /\ held[i - 1] = f[i - 1] /\ both[i] = s[i]
      BY <1>4, <1>7, <2>1, <2>2, <3>1
    <3> QED
      BY <1>5, <3>1, <3>2
  <2>3. CASE ~(i <= Len(s))
    <3>1. i - Len(s) \in 1 .. Len(t) /\ i > Len(s)
      BY <1>3, <2>1, <2>3
    <3>2. held[i] = g[i - Len(s)] /\ both[i] = t[i - Len(s)]
      BY <1>4, <1>7, <2>1, <2>3, <3>1
    <3>3. held[i - 1] = g[(i - Len(s)) - 1]
      <4>1. CASE i - 1 <= Len(s)
        <5>1. i - 1 = Len(s) /\ (i - Len(s)) - 1 = 0
          BY <1>3, <2>1, <2>3, <4>1
        <5> QED
          BY <1>1, <1>2, <1>7, <2>1, <4>1, <5>1
      <4>2. CASE ~(i - 1 <= Len(s))
        <5>1. (i - 1) - Len(s) = (i - Len(s)) - 1
          BY <1>3, <2>1
        <5> QED
          BY <1>7, <2>1, <4>2, <5>1
      <4> QED
        BY <4>1, <4>2
    <3> QED
      BY <1>5, <3>1, <3>2, <3>3
  <2> QED
    BY <2>2, <2>3
<1>9. held[0] = h /\ held[Len(both)] = k
  <2>1. held[0] = f[0]
    BY <1>3, <1>7
  <2>2. CASE Len(t) = 0
    BY <1>1, <1>2, <1>3, <1>4, <1>7, <2>1, <2>2
  <2>3. CASE Len(t) # 0
    <3>1. Len(both) \in 0 .. Len(s) + Len(t) /\ ~(Len(both) <= Len(s)) /\ Len(both) - Len(s) = Len(t)
      BY <1>3, <1>4, <2>3
    <3> QED
      BY <1>1, <1>2, <1>7, <2>1, <3>1
  <2> QED
    BY <2>2, <2>3
<1>10. Run(A, both, held)
  BY <1>4, <1>6, <1>8 DEF Run
<1>11. Path(A, both, h, k)
  BY <1>4, <1>9, <1>10 DEF Path
<1> QED
  BY <1>11 DEF both

\* What is left when the first step is done.
LEMMA PathGoesOn ==
    ASSUME NEW A, NEW s, NEW h, NEW k, Path(A, s, h, k), s # <<>>
    PROVE  /\ Head(s) \in Step /\ <<Head(s), h>> \in A
           /\ \E j \in Depths : Moves(Head(s), h, j) /\ Path(A, Tail(s), j, k)
<1>1. PICK f : Run(A, s, f) /\ f[0] = h /\ f[Len(s)] = k
  BY DEF Path
<1>2. s \in Seq(Step)
  BY DEF Path
<1> DEFINE t == Tail(s)
<1>3. /\ Len(s) \in Nat /\ Len(s) >= 1 /\ Head(s) = s[1] /\ s[1] \in Step
      /\ t \in Seq(Step) /\ Len(t) = Len(s) - 1
      /\ \A i \in 1 .. Len(t) : t[i] = s[i + 1]
  <2>1. Len(s) \in Nat /\ Len(s) # 0
    BY <1>2, LenProperties, EmptySeq
  <2> QED
    BY <1>2, <2>1, HeadTailProperties
<1>4. /\ f \in [0 .. Len(s) -> Depths]
      /\ \A i \in 1 .. Len(s) : Moves(s[i], f[i - 1], f[i]) /\ <<s[i], f[i - 1]>> \in A
  BY <1>1 DEF Run
<1>5. 1 \in 1 .. Len(s) /\ 1 \in 0 .. Len(s)
  BY <1>3
<1>6. Moves(s[1], h, f[1]) /\ <<s[1], h>> \in A /\ f[1] \in Depths
  <2>1. 1 - 1 = 0
    OBVIOUS
  <2>2. Moves(s[1], f[1 - 1], f[1]) /\ <<s[1], f[1 - 1]>> \in A
    BY <1>4, <1>5
  <2> QED
    BY <1>1, <1>4, <1>5, <2>1, <2>2
<1> HIDE DEF t
<1> DEFINE held == [i \in 0 .. Len(t) |-> f[i + 1]]
<1>7. held \in [0 .. Len(t) -> Depths]
  BY <1>3, <1>4
<1>8. held[0] = f[1] /\ held[Len(t)] = k /\ \A i \in 0 .. Len(t) : held[i] = f[i + 1]
  <2>1. 0 \in 0 .. Len(t) /\ Len(t) \in 0 .. Len(t) /\ Len(t) + 1 = Len(s) /\ 0 + 1 = 1
    BY <1>3
  <2> QED
    BY <1>1, <2>1
<1> HIDE DEF held
<1>9. ASSUME NEW i \in 1 .. Len(t)
      PROVE  Moves(t[i], held[i - 1], held[i]) /\ <<t[i], held[i - 1]>> \in A
  <2>1. i + 1 \in 1 .. Len(s) /\ i \in 0 .. Len(t) /\ i - 1 \in 0 .. Len(t) /\ (i - 1) + 1 = (i + 1) - 1
    BY <1>3
  <2>2. held[i] = f[i + 1] /\ held[i - 1] = f[(i + 1) - 1] /\ t[i] = s[i + 1]
    BY <1>3, <1>8, <2>1
  <2> QED
    BY <1>4, <2>1, <2>2
<1>10. Path(A, t, f[1], k)
  BY <1>3, <1>7, <1>8, <1>9 DEF Path, Run
<1> QED
  BY <1>3, <1>6, <1>10 DEF t

-----------------------------------------------------------------------------
(* What handlers and threads do keeps the order.                           *)

Plus(h, m) == [h EXCEPT ![m] = h[m] + 1]

LEMMA Ranks ==
    /\ Rank("net") = 1 /\ Rank("sessions") = 2 /\ Rank("users") = 3
    /\ \A u \in Users : Rank(u) = 4 /\ u \notin {"net", "sessions", "users"}
BY ServerAssumption DEF Rank

LEMMA PlusIs ==
    ASSUME NEW h \in Depths, NEW m \in Mutexes
    PROVE  /\ Plus(h, m) \in Depths
           /\ Plus(h, m)[m] > 0
           /\ [Plus(h, m) EXCEPT ![m] = Plus(h, m)[m] - 1] = h
<1>1. h[m] \in Nat /\ h[m] + 1 \in Nat /\ h[m] + 1 > 0 /\ (h[m] + 1) - 1 = h[m]
  BY DEF Depths
<1>2. Plus(h, m) \in Depths /\ Plus(h, m)[m] = h[m] + 1
  BY <1>1 DEF Depths, Plus
<1>3. [Plus(h, m) EXCEPT ![m] = h[m]] = h
  BY <1>1 DEF Depths, Plus
<1> QED
  BY <1>1, <1>2, <1>3

LEMMA NothingIs == Nothing \in Depths /\ \A m \in Mutexes : Nothing[m] = 0 /\ MayAsk(m, Nothing)
<1>1. Nothing \in Depths /\ \A m \in Mutexes : Nothing[m] = 0 /\ ~(Nothing[m] > 0)
  BY DEF Nothing, Depths
<1> QED
  BY <1>1 DEF MayAsk

LEMMA MayAskMore ==
    ASSUME NEW h \in Depths, NEW m \in Mutexes, NEW n \in Mutexes, MayAsk(n, h),
           m = n \/ Rank(m) < Rank(n)
    PROVE  MayAsk(n, Plus(h, m))
BY DEF MayAsk, Plus, Depths

LEMMA PassKeeps ==
    ASSUME NEW M, NEW m \in Mutexes, NEW h \in Depths, MayAsk(m, h)
    PROVE  Path(Ordered(M), Pass(m), h, h)
<1> DEFINE step == <<"pass", m>>
<1>1. step \in Step /\ step[1] = "pass" /\ step[2] = m
  BY DEF Step
<1> HIDE DEF step
<1>2. Moves(step, h, h)
  BY <1>1 DEF Moves
<1>3. <<step, h>> \in Ordered(M)
  BY <1>1 DEF Ordered, AnyStep
<1>4. Path(Ordered(M), <<step>>, h, h)
  BY <1>1, <1>2, <1>3, PathOfOne
<1> QED
  BY <1>4 DEF step, Pass

LEMMA OtherKeeps ==
    ASSUME NEW M, NEW step \in Step, step[1] \notin {"lock", "unlock", "pass"}, NEW h \in Depths
    PROVE  Path(Ordered(M), <<step>>, h, h)
<1>1. Moves(step, h, h)
  BY DEF Moves
<1>2. <<step, h>> \in Ordered(M)
  BY DEF Ordered, AnyStep
<1> QED
  BY <1>1, <1>2, PathOfOne

LEMMA WriteKeeps ==
    ASSUME NEW M, NEW h \in Depths
    PROVE  Path(Ordered(M), Write, h, h)
<1> DEFINE step == <<"write">>
<1>1. step \in Step /\ step[1] \notin {"lock", "unlock", "pass"}
  BY DEF Step
<1> HIDE DEF step
<1>2. Path(Ordered(M), <<step>>, h, h)
  BY <1>1, OtherKeeps
<1> QED
  BY <1>2 DEF step, Write

LEMMA UnderKeeps ==
    ASSUME NEW M \in SUBSET Mutexes, NEW m \in M, NEW h \in Depths, MayAsk(m, h), NEW s,
           Path(Ordered(M), s, Plus(h, m), Plus(h, m))
    PROVE  Path(Ordered(M), Under(m, s), h, h)
<1> DEFINE lock == <<"lock", m>>
           unlock == <<"unlock", m>>
           k == Plus(h, m)
<1>1. /\ lock \in Step /\ lock[1] = "lock" /\ lock[2] = m
      /\ unlock \in Step /\ unlock[1] = "unlock" /\ unlock[2] = m
  BY DEF Step
<1> HIDE DEF lock, unlock, k
<1>2. k \in Depths /\ k = [h EXCEPT ![m] = h[m] + 1] /\ k[m] > 0 /\ h = [k EXCEPT ![m] = k[m] - 1]
  BY PlusIs DEF k, Plus
<1>3. Path(Ordered(M), <<lock>>, h, k)
  <2>1. Moves(lock, h, k)
    BY <1>1, <1>2 DEF Moves
  <2>2. <<lock, h>> \in Ordered(M)
    BY <1>1 DEF Ordered, AnyStep
  <2> QED
    BY <1>1, <1>2, <2>1, <2>2, PathOfOne
<1>4. Path(Ordered(M), <<unlock>>, k, h)
  <2>1. Moves(unlock, k, h)
    BY <1>1, <1>2 DEF Moves
  <2>2. <<unlock, k>> \in Ordered(M)
    BY <1>1, <1>2 DEF Ordered, AnyStep
  <2> QED
    BY <1>1, <1>2, <2>1, <2>2, PathOfOne
<1>5. Path(Ordered(M), <<lock>> \o s, h, k)
  BY <1>3, PathOfBoth DEF k
<1>6. Path(Ordered(M), (<<lock>> \o s) \o <<unlock>>, h, h)
  BY <1>4, <1>5, PathOfBoth
<1> QED
  BY <1>6 DEF lock, unlock, Under

Keeps(M, s) == Path(Ordered(M), s, Nothing, Nothing)

LEMMA BothKeep ==
    ASSUME NEW M, NEW s, NEW t, Keeps(M, s), Keeps(M, t)
    PROVE  Keeps(M, s \o t)
BY PathOfBoth DEF Keeps

\* What threads but main lock.
Others == Mutexes \ {"users"}

\* A user's mutex, on top of what holds no other user's.
LEMMA UnderUser ==
    ASSUME NEW M \in SUBSET Mutexes, NEW u \in Users, u \in M, NEW h \in Depths, MayAsk(u, h), NEW s,
           s \in {<<>>, Write, Pass(u), << <<"spawn", u>> >> \o Pass(u)}
    PROVE  Path(Ordered(M), Under(u, s), h, h)
<1>1. u \in Mutexes
  BY DEF Mutexes
<1> DEFINE k == Plus(h, u)
<1>2. k \in Depths /\ MayAsk(u, k)
  BY <1>1, PlusIs, MayAskMore
<1>3. Path(Ordered(M), Pass(u), k, k) /\ Path(Ordered(M), Write, k, k) /\ Path(Ordered(M), <<>>, k, k)
  BY <1>1, <1>2, PassKeeps, WriteKeeps, PathOfNone
<1>4. Path(Ordered(M), << <<"spawn", u>> >> \o Pass(u), k, k)
  <2> DEFINE step == <<"spawn", u>>
  <2>1. step \in Step /\ step[1] \notin {"lock", "unlock", "pass"}
    BY DEF Step
  <2> HIDE DEF step
  <2>2. Path(Ordered(M), <<step>>, k, k)
    BY <1>2, <2>1, OtherKeeps
  <2>3. Path(Ordered(M), <<step>> \o Pass(u), k, k)
    BY <1>3, <2>2, PathOfBoth
  <2> QED
    BY <2>3 DEF step
<1>5. Path(Ordered(M), s, k, k)
  BY <1>3, <1>4
<1> QED
  BY <1>5, UnderKeeps

\* A user's mutex alone, and under the net mutex.
LEMMA UsersKeep ==
    ASSUME NEW M \in SUBSET Mutexes, NEW u \in Users, {u, "net"} \subseteq M, NEW s,
           s \in {<<>>, Write, Pass(u), << <<"spawn", u>> >> \o Pass(u)}
    PROVE  /\ Keeps(M, Under(u, s)) /\ Keeps(M, Under("net", Under(u, s)))
           /\ Keeps(M, Under("net", Under("net", Under(u, s))))
<1> DEFINE one == Plus(Nothing, "net")
           two == Plus(one, "net")
<1>1. u \in Mutexes /\ "net" \in Mutexes /\ Nothing \in Depths
      /\ MayAsk(u, Nothing) /\ MayAsk("net", Nothing)
  BY NothingIs DEF Mutexes
<1>2. Rank("net") < Rank(u)
  BY Ranks
<1>3. one \in Depths /\ MayAsk("net", one) /\ MayAsk(u, one)
  BY <1>1, <1>2, PlusIs, MayAskMore
<1> HIDE DEF one
<1>4. two \in Depths /\ MayAsk(u, two)
  BY <1>1, <1>2, <1>3, PlusIs, MayAskMore
<1> HIDE DEF two
<1>5. Keeps(M, Under(u, s))
  BY <1>1, UnderUser DEF Keeps
<1>6. Path(Ordered(M), Under(u, s), one, one) /\ Path(Ordered(M), Under(u, s), two, two)
  BY <1>3, <1>4, UnderUser
<1>7. Keeps(M, Under("net", Under(u, s)))
  BY <1>1, <1>6, UnderKeeps DEF Keeps, one
<1>8. Path(Ordered(M), Under("net", Under(u, s)), one, one)
  BY <1>3, <1>6, UnderKeeps DEF two
<1>9. Keeps(M, Under("net", Under("net", Under(u, s))))
  BY <1>1, <1>8, UnderKeeps DEF Keeps, one
<1> QED
  BY <1>5, <1>7, <1>9

\* Handlers lock no mutex but the net mutex and users' own, in that order.
LEMMA HandlersKeep ==
    ASSUME NEW kind \in Kinds, NEW u \in Users
    PROVE  Keeps(Others, Handler(kind, u))
<1>1. u \in Others /\ "net" \in Others /\ Others \in SUBSET Mutexes /\ "sessions" \in Mutexes
      /\ "users" \in Mutexes
  BY Ranks DEF Others, Mutexes
<1>2. Keeps(Others, Pass("sessions")) /\ Keeps(Others, Pass("users")) /\ Keeps(Others, Write)
  BY <1>1, NothingIs, PassKeeps, WriteKeeps DEF Keeps
<1>3. Keeps(Others, Lookup)
  BY <1>2, BothKeep DEF Lookup
<1>4. Keeps(Others, Startup(u)) /\ Keeps(Others, WorldOpen(u)) /\ Keeps(Others, WorldOp(u))
      /\ Keeps(Others, WorldConnect(u))
  <2>1. {u, "net"} \subseteq Others
    BY <1>1
  <2>2. Keeps(Others, Under(u, Write)) /\ Keeps(Others, Under(u, <<>>))
        /\ Keeps(Others, Under("net", Under(u, Pass(u))))
        /\ Keeps(Others, Under("net", Under(u, << <<"spawn", u>> >> \o Pass(u))))
    BY <1>1, <2>1, UsersKeep
  <2> QED
    BY <2>2 DEF Startup, WorldOpen, WorldOp, WorldConnect
<1>5. Keeps(Others, EventWait(u))
  BY <1>4, BothKeep DEF EventWait, Startup, WorldOpen
<1>6. Keeps(Others, Login)
  <2>1. Keeps(Others, Pass("sessions") \o Pass("users"))
    BY <1>2, BothKeep
  <2> QED
    BY <1>2, <2>1, BothKeep DEF Login
<1>7. Keeps(Others, Logout) /\ Keeps(Others, Page)
  BY <1>2, BothKeep DEF Logout, Page
<1>8. /\ Keeps(Others, Lookup \o Startup(u)) /\ Keeps(Others, Lookup \o EventWait(u))
      /\ Keeps(Others, Lookup \o WorldOp(u)) /\ Keeps(Others, Lookup \o WorldConnect(u))
      /\ Keeps(Others, Lookup \o WorldOpen(u)) /\ Keeps(Others, Pass("sessions") \o Login)
      /\ Keeps(Others, Pass("sessions") \o Page) /\ Keeps(Others, Lookup \o Logout)
  BY <1>2, <1>3, <1>4, <1>5, <1>6, <1>7, BothKeep
<1> QED
  BY <1>8 DEF Kinds, Handler

\* A connecting thread tries to connect under the net mutex.
LEMMA ConnectorsKeep ==
    ASSUME NEW u \in Users, NEW succeeds \in BOOLEAN
    PROVE  Keeps(Others, ThreadConnect(u, succeeds))
<1>1. u \in Mutexes /\ "net" \in Mutexes /\ "net" \in Others /\ Others \in SUBSET Mutexes
  BY DEF Others, Mutexes
<1>2. Keeps(Others, Pass(u)) /\ Keeps(Others, Pass("net")) /\ Keeps(Others, <<>>)
  BY <1>1, NothingIs, PassKeeps, PathOfNone DEF Keeps
<1>3. Keeps(Others, Under("net", << <<"connect">> >>))
  <2> DEFINE step == <<"connect">>
  <2>1. step \in Step /\ step[1] \notin {"lock", "unlock", "pass"}
    BY DEF Step
  <2> HIDE DEF step
  <2>2. Plus(Nothing, "net") \in Depths /\ MayAsk("net", Nothing) /\ Nothing \in Depths
    BY <1>1, NothingIs, PlusIs
  <2>3. Path(Ordered(Others), <<step>>, Plus(Nothing, "net"), Plus(Nothing, "net"))
    BY <2>1, <2>2, OtherKeeps
  <2>4. Keeps(Others, Under("net", <<step>>))
    BY <1>1, <2>2, <2>3, UnderKeeps DEF Keeps
  <2> QED
    BY <2>4 DEF step
<1>4. Keeps(Others, IF succeeds THEN Pass("net") ELSE <<>>)
  BY <1>2
<1>5. Keeps(Others, Pass(u) \o Under("net", << <<"connect">> >>))
  BY <1>2, <1>3, BothKeep
<1>6. Keeps(Others, (Pass(u) \o Under("net", << <<"connect">> >>))
                     \o (IF succeeds THEN Pass("net") ELSE <<>>))
  BY <1>4, <1>5, BothKeep
<1> QED
  BY <1>2, <1>6, BothKeep DEF ThreadConnect

\* The main thread, as long as it polls.
LEMMA MainKeeps ==
    ASSUME NEW u \in Users
    PROVE  Keeps(Mutexes, PollRead(u)) /\ Keeps(Mutexes, Sweep(u))
<1>1. u \in Mutexes /\ {"net", "sessions", "users"} \subseteq Mutexes /\ Mutexes \in SUBSET Mutexes
  BY DEF Mutexes
<1>2. Keeps(Mutexes, PollRead(u))
  <2>1. {u, "net"} \subseteq Mutexes
    BY <1>1
  <2> QED
    BY <1>1, <2>1, UsersKeep DEF PollRead
<1>3. Keeps(Mutexes, Sweep(u))
  <2> DEFINE h1 == Plus(Nothing, "net")
             h2 == Plus(h1, "sessions")
             h3 == Plus(h2, "users")
             g2 == Plus(h1, "users")
             g3 == Plus(g2, u)
  <2>1. /\ Nothing \in Depths /\ \A m \in Mutexes : MayAsk(m, Nothing)
        /\ Rank("net") < Rank("sessions") /\ Rank("net") < Rank("users") /\ Rank("net") < Rank(u)
        /\ Rank("sessions") < Rank("users") /\ Rank("sessions") < Rank(u)
        /\ Rank("users") < Rank(u)
    BY NothingIs, Ranks
  <2>2. h1 \in Depths /\ MayAsk("sessions", h1) /\ MayAsk("users", h1) /\ MayAsk(u, h1)
    BY <1>1, <2>1, PlusIs, MayAskMore
  <2> HIDE DEF h1
  <2>3. h2 \in Depths /\ MayAsk("users", h2) /\ MayAsk(u, h2)
    BY <1>1, <2>1, <2>2, PlusIs, MayAskMore
  <2>4. g2 \in Depths /\ MayAsk(u, g2)
    BY <1>1, <2>1, <2>2, PlusIs, MayAskMore
  <2> HIDE DEF h2, g2
  <2>5. h3 \in Depths /\ MayAsk(u, h3)
    BY <1>1, <2>1, <2>3, PlusIs, MayAskMore
  <2> HIDE DEF h3
  <2>6. Path(Ordered(Mutexes), Under(u, <<>>), h3, h3)
    BY <1>1, <2>5, UnderUser
  <2>7. Path(Ordered(Mutexes), Under("users", Under(u, <<>>)), h2, h2)
    BY <1>1, <2>3, <2>6, UnderKeeps DEF h3
  <2>8. Path(Ordered(Mutexes), Under("sessions", Under("users", Under(u, <<>>))), h1, h1)
    BY <1>1, <2>2, <2>7, UnderKeeps DEF h2
  <2>9. Path(Ordered(Mutexes), Pass(u), g2, g2)
    BY <1>1, <2>4, PassKeeps
  <2>10. Path(Ordered(Mutexes), Under("users", Pass(u)), h1, h1)
    BY <1>1, <2>2, <2>9, UnderKeeps DEF g2
  <2>11. Path(Ordered(Mutexes),
              Under("sessions", Under("users", Under(u, <<>>))) \o Under("users", Pass(u)), h1, h1)
    BY <2>8, <2>10, PathOfBoth
  <2> QED
    BY <1>1, <2>1, <2>11, UnderKeeps DEF Keeps, Sweep, h1
<1> QED
  BY <1>2, <1>3

\* do_shutdown gives back what it locks, whatever main held before.
ShutdownSteps == {"lock", "unlock"} \X ({"users"} \cup Users)

LEMMA UsersInOrder ==
    /\ Cardinality(Users) \in Nat
    /\ InOrder \in [1 .. Cardinality(Users) -> Users]
<1> DEFINE n == Cardinality(Users)
           Good(s) == \A u \in Users : \E i \in DOMAIN s : s[i] = u
<1>1. n \in Nat
  BY ServerAssumption, FS_CardinalityType
<1>2. \E s \in [1 .. n -> Users] : Good(s)
  <2>1. PICK f : f \in Bijection(1 .. n, Users)
    BY ServerAssumption, FS_CardinalityType DEF ExistsBijection
  <2>2. f \in [1 .. n -> Users] /\ \A u \in Users : \E i \in 1 .. n : f[i] = u
    BY <2>1 DEF Bijection, Injection, Surjection
  <2> QED
    BY <2>2
<1> QED
  BY <1>1, <1>2 DEF InOrder

LEMMA Halves ==
    ASSUME NEW n \in Nat, NEW i \in 1 .. 2 * n
    PROVE  /\ (i + 1) \div 2 \in 1 .. n
           /\ i % 2 = 1 => (i - 1) % 2 = 0
           /\ i % 2 # 1 => i % 2 = 0 /\ (i - 1) % 2 = 1 /\ ((i - 1) + 1) \div 2 = (i + 1) \div 2
OBVIOUS

LEMMA ShutdownPath ==
    ASSUME NEW h \in Depths
    PROVE  Path(AnyStep, Shutdown, h, h) /\ Shutdown \in Seq(ShutdownSteps)
<1> DEFINE n == Cardinality(Users)
           clean == [i \in 1 .. 2 * n |->
                       <<IF i % 2 = 1 THEN "lock" ELSE "unlock", InOrder[(i + 1) \div 2]>>]
           lock == <<"lock", "users">>
           unlock == <<"unlock", "users">>
           k == Plus(h, "users")
<1>1. n \in Nat /\ InOrder \in [1 .. n -> Users]
  BY UsersInOrder
<1>2. /\ lock \in Step /\ lock[1] = "lock" /\ lock[2] = "users" /\ lock \in ShutdownSteps
      /\ unlock \in Step /\ unlock[1] = "unlock" /\ unlock[2] = "users" /\ unlock \in ShutdownSteps
      /\ "users" \in Mutexes
  BY DEF Step, Mutexes, ShutdownSteps
<1>3. k \in Depths /\ k = [h EXCEPT !["users"] = h["users"] + 1] /\ k["users"] > 0
      /\ h = [k EXCEPT !["users"] = k["users"] - 1]
  BY <1>2, PlusIs DEF Plus
<1>4. Shutdown = (<<lock>> \o clean) \o <<unlock>>
  BY DEF Shutdown, Under
<1>5. ASSUME NEW i \in 1 .. 2 * n PROVE InOrder[(i + 1) \div 2] \in Users
  BY <1>1, <1>5, Halves
<1>6. clean \in Seq(ShutdownSteps) /\ clean \in Seq(Step) /\ Len(clean) = 2 * n
      /\ \A i \in 1 .. 2 * n :
            clean[i] = <<IF i % 2 = 1 THEN "lock" ELSE "unlock", InOrder[(i + 1) \div 2]>>
  <2> DEFINE e(i) == <<IF i % 2 = 1 THEN "lock" ELSE "unlock", InOrder[(i + 1) \div 2]>>
  <2>1. \A i \in 1 .. 2 * n : e(i) \in ShutdownSteps /\ e(i) \in Step
    BY <1>5 DEF ShutdownSteps, Step, Mutexes
  <2>2. 2 * n \in Nat
    BY <1>1
  <2> HIDE DEF n, e
  <2>3. /\ [i \in 1 .. 2 * n |-> e(i)] \in Seq(ShutdownSteps)
        /\ [i \in 1 .. 2 * n |-> e(i)] \in Seq(Step)
        /\ Len([i \in 1 .. 2 * n |-> e(i)]) = 2 * n
    BY <2>1, <2>2
  <2> QED
    BY <2>3 DEF e
<1> DEFINE held == [i \in 0 .. 2 * n |-> IF i % 2 = 0 THEN k ELSE Plus(k, InOrder[(i + 1) \div 2])]
<1> HIDE DEF n, clean, lock, unlock, k
<1>7. ASSUME NEW i \in 1 .. 2 * n
      PROVE  LET u == InOrder[(i + 1) \div 2]
             IN  u \in Mutexes /\ Plus(k, u) \in Depths /\ Plus(k, u)[u] > 0
                 /\ k = [Plus(k, u) EXCEPT ![u] = Plus(k, u)[u] - 1]
                 /\ Plus(k, u) = [k EXCEPT ![u] = k[u] + 1]
  <2>1. InOrder[(i + 1) \div 2] \in Mutexes
    BY <1>5, <1>7 DEF Mutexes
  <2> QED
    BY <1>3, <2>1, PlusIs DEF Plus
<1>8. held \in [0 .. 2 * n -> Depths]
  <2>1. ASSUME NEW i \in 0 .. 2 * n
        PROVE  (IF i % 2 = 0 THEN k ELSE Plus(k, InOrder[(i + 1) \div 2])) \in Depths
    <3>1. CASE i = 0
      BY <1>3, <3>1
    <3>2. CASE i \in 1 .. 2 * n
      BY <1>3, <1>7, <3>2
    <3> QED
      BY <1>1, <3>1, <3>2
  <2> QED
    BY <2>1
<1>9. /\ held[0] = k /\ held[2 * n] = k
      /\ \A i \in 0 .. 2 * n : held[i] = IF i % 2 = 0 THEN k ELSE Plus(k, InOrder[(i + 1) \div 2])
  <2>1. 0 % 2 = 0 /\ (2 * n) % 2 = 0 /\ 2 * n \in 0 .. 2 * n /\ 0 \in 0 .. 2 * n
    BY <1>1
  <2> QED
    BY <2>1
<1> HIDE DEF held
<1>10. ASSUME NEW i \in 1 .. 2 * n
       PROVE  Moves(clean[i], held[i - 1], held[i]) /\ <<clean[i], held[i - 1]>> \in AnyStep
  <2> DEFINE u == InOrder[(i + 1) \div 2]
  <2>1. i \in 0 .. 2 * n /\ i - 1 \in 0 .. 2 * n
    BY <1>1
  <2>2. clean[i] \in Step /\ clean[i] = <<IF i % 2 = 1 THEN "lock" ELSE "unlock", u>>
    <3>1. i \in 1 .. Len(clean)
      BY <1>6, <1>10
    <3> QED
      BY <1>6, <1>10, <3>1
  <2>3. <<clean[i], held[i - 1]>> \in AnyStep
    BY <1>8, <2>1, <2>2 DEF AnyStep
  <2>4. CASE i % 2 = 1
    <3>1. held[i - 1] = k /\ held[i] = Plus(k, u)
      <4>1. (i - 1) % 2 = 0 /\ ~(i % 2 = 0)
        BY <1>1, <2>4, Halves
      <4> QED
        BY <1>9, <2>1, <4>1
    <3>2. clean[i][1] = "lock" /\ clean[i][2] = u
      BY <2>2, <2>4
    <3>3. Moves(clean[i], k, Plus(k, u))
      BY <1>7, <3>2 DEF Moves
    <3> QED
      BY <2>3, <3>1, <3>3
  <2>5. CASE i % 2 # 1
    <3>1. held[i - 1] = Plus(k, u) /\ held[i] = k
      <4>1. i % 2 = 0 /\ ~((i - 1) % 2 = 0) /\ ((i - 1) + 1) \div 2 = (i + 1) \div 2
        BY <1>1, <2>5, Halves
      <4> QED
        BY <1>9, <2>1, <4>1
    <3>2. clean[i][1] = "unlock" /\ clean[i][2] = u
      BY <2>2, <2>5
    <3>3. Moves(clean[i], Plus(k, u), k)
      BY <1>7, <3>2 DEF Moves
    <3> QED
      BY <2>3, <3>1, <3>3
  <2> QED
    BY <2>4, <2>5
<1>11. Path(AnyStep, clean, k, k)
  <2>1. Run(AnyStep, clean, held)
    BY <1>6, <1>8, <1>10 DEF Run
  <2> QED
    BY <1>6, <1>9, <2>1 DEF Path
<1>12. Path(AnyStep, <<lock>>, h, k)
  <2>1. Moves(lock, h, k)
    BY <1>2, <1>3 DEF Moves
  <2> QED
    BY <1>2, <1>3, <2>1, PathOfOne DEF AnyStep
<1>13. Path(AnyStep, <<unlock>>, k, h)
  <2>1. Moves(unlock, k, h)
    BY <1>2, <1>3 DEF Moves
  <2> QED
    BY <1>2, <1>3, <2>1, PathOfOne DEF AnyStep
<1>14. Path(AnyStep, <<lock>> \o clean, h, k)
  BY <1>11, <1>12, PathOfBoth
<1>15. Path(AnyStep, Shutdown, h, h)
  BY <1>4, <1>13, <1>14, PathOfBoth
<1>16. <<lock>> \in Seq(ShutdownSteps) /\ <<unlock>> \in Seq(ShutdownSteps)
  BY <1>2
<1>17. (<<lock>> \o clean) \o <<unlock>> \in Seq(ShutdownSteps)
  <2>1. <<lock>> \o clean \in Seq(ShutdownSteps)
    BY <1>6, <1>16, ConcatProperties
  <2> QED
    BY <1>16, <2>1, ConcatProperties
<1> QED
  BY <1>4, <1>15, <1>17

-----------------------------------------------------------------------------
(* The invariant of the mutexes.                                           *)

\* What thread t holds when the mutexes' owners and depths are o and d.
Held(o, d, t) == [m \in Mutexes |-> IF o[m] = t THEN d[m] ELSE 0]
Sound(o, d) ==
    /\ o \in [Mutexes -> Threads \cup {NULL}] /\ d \in Depths
    /\ \A m \in Mutexes : o[m] = NULL <=> d[m] = 0

LEMMA NullIsNone == NULL \notin Threads
BY ServerAssumption DEF Threads

LEMMA HeldIs ==
    ASSUME NEW o, NEW d, Sound(o, d), NEW t \in Threads
    PROVE  /\ Held(o, d, t) \in Depths
           /\ \A m \in Mutexes : Held(o, d, t)[m] > 0 <=> o[m] = t
<1>1. \A m \in Mutexes : d[m] \in Nat /\ (o[m] = NULL <=> d[m] = 0)
  BY DEF Sound, Depths
<1>2. Held(o, d, t) \in Depths
  BY <1>1 DEF Held, Depths
<1>3. ASSUME NEW m \in Mutexes PROVE Held(o, d, t)[m] > 0 <=> o[m] = t
  <2>1. Held(o, d, t)[m] = IF o[m] = t THEN d[m] ELSE 0
    BY DEF Held
  <2>2. CASE o[m] = t
    <3>1. o[m] # NULL
      BY <2>2, NullIsNone
    <3>2. d[m] \in Nat /\ d[m] # 0
      BY <1>1, <3>1
    <3> QED
      BY <2>1, <2>2, <3>2
  <2>3. CASE o[m] # t
    BY <2>1, <2>3
  <2> QED
    BY <2>2, <2>3
<1> QED
  BY <1>2, <1>3

\* Thread t locks m, unlocks m: the owners and depths are p and e then.
Locks(o, d, t, m, p, e) ==
    o[m] \in {t, NULL} /\ p = [o EXCEPT ![m] = t] /\ e = [d EXCEPT ![m] = d[m] + 1]
Unlocks(o, d, t, m, p, e) ==
    /\ o[m] = t
    /\ p = [o EXCEPT ![m] = IF d[m] = 1 THEN NULL ELSE t]
    /\ e = [d EXCEPT ![m] = d[m] - 1]

LEMMA LockHeld ==
    ASSUME NEW o, NEW d, NEW t \in Threads, NEW m \in Mutexes, NEW p, NEW e,
           Sound(o, d), Locks(o, d, t, m, p, e)
    PROVE  /\ Sound(p, e)
           /\ Held(p, e, t) = [Held(o, d, t) EXCEPT ![m] = Held(o, d, t)[m] + 1]
           /\ \A r \in Threads : r # t => Held(p, e, r) = Held(o, d, r)
<1>0. o[m] \in {t, NULL} /\ p = [o EXCEPT ![m] = t] /\ e = [d EXCEPT ![m] = d[m] + 1]
  BY DEF Locks
<1>1. o \in [Mutexes -> Threads \cup {NULL}] /\ d \in [Mutexes -> Nat]
      /\ \A n \in Mutexes : o[n] = NULL <=> d[n] = 0
  BY DEF Sound, Depths
<1>2. d[m] + 1 \in Nat /\ d[m] + 1 # 0 /\ t # NULL
  BY <1>0, <1>1, NullIsNone
<1>3. Sound(p, e)
  <2>1. p \in [Mutexes -> Threads \cup {NULL}] /\ e \in [Mutexes -> Nat]
    BY <1>0, <1>1, <1>2
  <2>2. ASSUME NEW n \in Mutexes PROVE p[n] = NULL <=> e[n] = 0
    BY <1>0, <1>1, <1>2
  <2> QED
    BY <2>1, <2>2 DEF Sound, Depths
<1>4. ASSUME NEW r \in Threads, r # t PROVE Held(p, e, r) = Held(o, d, r)
  <2>1. ASSUME NEW n \in Mutexes
        PROVE  (IF p[n] = r THEN e[n] ELSE 0) = (IF o[n] = r THEN d[n] ELSE 0)
    <3>1. CASE n = m
      <4>1. p[n] # r /\ o[n] # r
        BY <1>0, <1>1, <1>4, <3>1, NullIsNone
      <4> QED
        BY <4>1
    <3>2. CASE n # m
      BY <1>0, <1>1, <3>2
    <3> QED
      BY <3>1, <3>2
  <2> QED
    BY <2>1 DEF Held
<1>5. Held(p, e, t) = [Held(o, d, t) EXCEPT ![m] = Held(o, d, t)[m] + 1]
  <2>1. Held(o, d, t)[m] + 1 = d[m] + 1
    <3>1. Held(o, d, t)[m] = IF o[m] = t THEN d[m] ELSE 0
      BY <1>0 DEF Held
    <3>2. o[m] = NULL => d[m] = 0
      BY <1>0, <1>1
    <3> QED
      BY <1>0, <3>1, <3>2
  <2>2. ASSUME NEW n \in Mutexes
        PROVE  (IF p[n] = t THEN e[n] ELSE 0)
                = IF n = m THEN d[m] + 1 ELSE IF o[n] = t THEN d[n] ELSE 0
    BY <1>0, <1>1
  <2>3. [Held(o, d, t) EXCEPT ![m] = d[m] + 1]
          = [n \in Mutexes |-> IF n = m THEN d[m] + 1 ELSE IF o[n] = t THEN d[n] ELSE 0]
    BY DEF Held
  <2>4. Held(p, e, t) = [n \in Mutexes |-> IF n = m THEN d[m] + 1 ELSE IF o[n] = t THEN d[n] ELSE 0]
    BY <2>2 DEF Held
  <2> QED
    BY <2>1, <2>3, <2>4
<1> QED
  BY <1>3, <1>4, <1>5

LEMMA UnlockHeld ==
    ASSUME NEW o, NEW d, NEW t \in Threads, NEW m \in Mutexes, NEW p, NEW e,
           Sound(o, d), Unlocks(o, d, t, m, p, e)
    PROVE  /\ Sound(p, e)
           /\ Held(p, e, t) = [Held(o, d, t) EXCEPT ![m] = Held(o, d, t)[m] - 1]
           /\ \A r \in Threads : r # t => Held(p, e, r) = Held(o, d, r)
<1>0. /\ o[m] = t
      /\ p = [o EXCEPT ![m] = IF d[m] = 1 THEN NULL ELSE t]
      /\ e = [d EXCEPT ![m] = d[m] - 1]
  BY DEF Unlocks
<1>1. o \in [Mutexes -> Threads \cup {NULL}] /\ d \in [Mutexes -> Nat]
      /\ \A n \in Mutexes : o[n] = NULL <=> d[n] = 0
  BY DEF Sound, Depths
<1>2. /\ t # NULL /\ d[m] \in Nat /\ d[m] # 0 /\ d[m] - 1 \in Nat /\ (d[m] - 1 = 0 <=> d[m] = 1)
  <2>1. t # NULL
    BY NullIsNone
  <2>2. d[m] \in Nat /\ d[m] # 0
    BY <1>0, <1>1, <2>1
  <2> QED
    BY <2>1, <2>2
<1>3. Sound(p, e)
  <2>1. p \in [Mutexes -> Threads \cup {NULL}] /\ e \in [Mutexes -> Nat]
    BY <1>0, <1>1, <1>2
  <2>2. ASSUME NEW n \in Mutexes PROVE p[n] = NULL <=> e[n] = 0
    BY <1>0, <1>1, <1>2
  <2> QED
    BY <2>1, <2>2 DEF Sound, Depths
<1>4. ASSUME NEW r \in Threads, r # t PROVE Held(p, e, r) = Held(o, d, r)
  <2>1. ASSUME NEW n \in Mutexes
        PROVE  (IF p[n] = r THEN e[n] ELSE 0) = (IF o[n] = r THEN d[n] ELSE 0)
    <3>1. CASE n = m
      <4>1. p[n] # r /\ o[n] # r
        BY <1>0, <1>1, <1>4, <3>1, NullIsNone
      <4> QED
        BY <4>1
    <3>2. CASE n # m
      BY <1>0, <1>1, <3>2
    <3> QED
      BY <3>1, <3>2
  <2> QED
    BY <2>1 DEF Held
<1>5. Held(p, e, t) = [Held(o, d, t) EXCEPT ![m] = Held(o, d, t)[m] - 1]
  <2>1. Held(o, d, t)[m] = d[m]
    BY <1>0 DEF Held
  <2>2. ASSUME NEW n \in Mutexes
        PROVE  (IF p[n] = t THEN e[n] ELSE 0)
                = IF n = m THEN d[m] - 1 ELSE IF o[n] = t THEN d[n] ELSE 0
    <3>1. CASE n = m /\ d[m] = 1
      <4>1. p[n] = NULL /\ d[m] - 1 = 0
        BY <1>0, <1>1, <3>1
      <4> QED
        BY <1>2, <3>1, <4>1
    <3>2. CASE n = m /\ d[m] # 1
      BY <1>0, <1>1, <3>2
    <3>3. CASE n # m
      BY <1>0, <1>1, <3>3
    <3> QED
      BY <3>1, <3>2, <3>3
  <2>3. [Held(o, d, t) EXCEPT ![m] = d[m] - 1]
          = [n \in Mutexes |-> IF n = m THEN d[m] - 1 ELSE IF o[n] = t THEN d[n] ELSE 0]
    BY DEF Held
  <2>4. Held(p, e, t) = [n \in Mutexes |-> IF n = m THEN d[m] - 1 ELSE IF o[n] = t THEN d[n] ELSE 0]
    BY <2>2 DEF Held
  <2> QED
    BY <2>1, <2>3, <2>4
<1> QED
  BY <1>3, <1>4, <1>5

\* The steps that thread t may do, and what it is bound to: to keep the order and to give back
\* what it locks, but for the signal handler.
Rules(t, e) ==
    IF t # MAIN THEN Ordered(Others) ELSE IF e = "no" THEN Ordered(Mutexes) ELSE AnyStep
Works(t, p, h, e) ==
    \E k : Path(Rules(t, e), p, h, k) /\ (t # MAIN \/ e = "no" => k = Nothing)

MutexInv ==
    /\ Sound(owner, depth)
    /\ owner["users"] \in {NULL, MAIN}
    /\ prog \in [Threads -> Seq(Step)]
ExitInv ==
    /\ exited \in {"no", "stopping", "yes"}
    /\ exited # "no" => prog[MAIN] \in Seq(ShutdownSteps)
    /\ exited = "yes" => prog[MAIN] = <<>>
ServeInv ==
    /\ load \in Loads
    /\ serves \in [Workers -> Conns \cup {NULL}]
    /\ \A w \in Workers : serves[w] = NULL => prog[w] = <<>>
WorkInv == \A t \in Threads : Works(t, prog[t], Held(owner, depth, t), exited)
LockInv == MutexInv /\ ExitInv /\ ServeInv /\ WorkInv

LEMMA WorkGoesOn ==
    ASSUME NEW t, NEW p, NEW h, NEW e, Works(t, p, h, e), p # <<>>
    PROVE  /\ Head(p) \in Step /\ <<Head(p), h>> \in Rules(t, e)
           /\ \E j \in Depths : Moves(Head(p), h, j) /\ Works(t, Tail(p), j, e)
<1>1. PICK k : Path(Rules(t, e), p, h, k) /\ (t # MAIN \/ e = "no" => k = Nothing)
  BY DEF Works
<1>2. /\ Head(p) \in Step /\ <<Head(p), h>> \in Rules(t, e)
      /\ \E j \in Depths : Moves(Head(p), h, j) /\ Path(Rules(t, e), Tail(p), j, k)
  BY <1>1, PathGoesOn
<1> QED
  BY <1>1, <1>2 DEF Works

\* Who has nothing to do holds nothing.
LEMMA WorkDone ==
    ASSUME NEW t, NEW h, NEW e, Works(t, <<>>, h, e), t # MAIN \/ e = "no"
    PROVE  h = Nothing
<1>1. Path(Rules(t, e), <<>>, h, Nothing)
  BY DEF Works
<1>2. PICK f : f[0] = h /\ f[Len(<<>>)] = Nothing
  BY <1>1 DEF Path
<1> QED
  BY <1>2

LEMMA OthersBegin ==
    ASSUME NEW t, t # MAIN, NEW s, Keeps(Others, s), NEW e
    PROVE  Works(t, s, Nothing, e)
<1>1. Path(Rules(t, e), s, Nothing, Nothing)
  BY DEF Rules, Keeps
<1> QED
  BY <1>1 DEF Works

LEMMA MainBegins ==
    ASSUME NEW s, Keeps(Mutexes, s)
    PROVE  Works(MAIN, s, Nothing, "no")
<1>1. Path(Rules(MAIN, "no"), s, Nothing, Nothing)
  BY DEF Rules, Keeps
<1> QED
  BY <1>1 DEF Works

\* Once main is stopping its rules stay the same, and a signal is nothing to the others.
LEMMA WorkExits ==
    ASSUME NEW t, NEW p, NEW h, NEW e, NEW f, Works(t, p, h, e),
           e = f \/ t # MAIN \/ (e # "no" /\ f # "no")
    PROVE  Works(t, p, h, f)
<1>1. PICK k : Path(Rules(t, e), p, h, k) /\ (t # MAIN \/ e = "no" => k = Nothing)
  BY DEF Works
<1>2. Rules(t, e) = Rules(t, f)
  BY DEF Rules
<1> QED
  BY <1>1, <1>2 DEF Works

LEMMA ThreadsAre ==
    /\ MAIN \in Threads /\ NULL # MAIN
    /\ \A c \in Connectors : c \in Threads /\ c # MAIN /\ c \notin Workers
    /\ \A w \in Workers : w \in Threads /\ w # MAIN
BY ServerAssumption DEF Threads

\* What a thread's next step does to the mutexes.
LEMMA StepWorks ==
    ASSUME MutexInv, WorkInv, NEW t \in Threads, Do(t)
    PROVE  /\ Sound(owner', depth')
           /\ owner'["users"] \in {NULL, MAIN}
           /\ Works(t, Tail(prog[t]), Held(owner', depth', t), exited)
           /\ \A r \in Threads : r # t => Held(owner', depth', r) = Held(owner, depth, r)
<1> DEFINE step == Head(prog[t])
           h == Held(owner, depth, t)
           Here == /\ Sound(owner', depth')
                   /\ owner'["users"] \in {NULL, MAIN}
                   /\ Works(t, Tail(prog[t]), Held(owner', depth', t), exited)
                   /\ \A r \in Threads : r # t => Held(owner', depth', r) = Held(owner, depth, r)
<1>1. /\ Sound(owner, depth) /\ owner["users"] \in {NULL, MAIN} /\ prog[t] # <<>>
      /\ Works(t, prog[t], h, exited)
  BY DEF MutexInv, WorkInv, Do, Idle
<1>2. /\ step \in Step /\ <<step, h>> \in Rules(t, exited)
      /\ \E j \in Depths : Moves(step, h, j) /\ Works(t, Tail(prog[t]), j, exited)
  BY <1>1, WorkGoesOn
<1>3. PICK j \in Depths : Moves(step, h, j) /\ Works(t, Tail(prog[t]), j, exited)
  BY <1>2
<1>4. \/ step[1] = "lock" /\ Lock(t, step[2])
      \/ step[1] = "unlock" /\ Unlock(t, step[2])
      \/ step[1] \notin {"lock", "unlock"} /\ UNCHANGED <<owner, depth>>
  BY DEF Do
<1>5. step[1] \in {"lock", "unlock"} => step[2] \in Mutexes
  BY <1>2 DEF Step
<1> HIDE DEF step
<1>6. /\ h \in Depths /\ \A m \in Mutexes : h[m] > 0 <=> owner[m] = t
      /\ owner \in [Mutexes -> Threads \cup {NULL}] /\ depth \in Depths /\ "users" \in Mutexes
  <2>1. "users" \in Mutexes
    BY DEF Mutexes
  <2> QED
    BY <1>1, <2>1, HeldIs DEF Sound
<1> HIDE DEF h
<1>7. CASE step[1] = "lock" /\ Lock(t, step[2])
  <2> DEFINE m == step[2]
  <2>1. /\ m \in Mutexes /\ owner[m] \in {t, NULL}
        /\ owner' = [owner EXCEPT ![m] = t] /\ depth' = [depth EXCEPT ![m] = @ + 1]
    BY <1>5, <1>7 DEF Lock, Free
  <2>2. j = [h EXCEPT ![m] = h[m] + 1]
    BY <1>3, <1>7 DEF Moves
  <2>3. m = "users" => t = MAIN
    <3>1. CASE t # MAIN
      <4>1. <<step, h>> \in Ordered(Others)
        BY <1>2, <3>1 DEF Rules
      <4>2. m \in Others
        BY <1>7, <4>1 DEF Ordered
      <4> QED
        BY <4>2 DEF Others
    <3> QED
      BY <3>1
  <2> HIDE DEF m
  <2>4. /\ Sound(owner', depth')
        /\ Held(owner', depth', t) = [Held(owner, depth, t) EXCEPT ![m] = Held(owner, depth, t)[m] + 1]
        /\ \A r \in Threads : r # t => Held(owner', depth', r) = Held(owner, depth, r)
    <3>1. PICK p, e : p = owner' /\ e = depth'
      OBVIOUS
    <3>2. Locks(owner, depth, t, m, p, e)
      BY <2>1, <3>1 DEF Locks
    <3>3. /\ Sound(p, e)
          /\ Held(p, e, t) = [Held(owner, depth, t) EXCEPT ![m] = Held(owner, depth, t)[m] + 1]
          /\ \A r \in Threads : r # t => Held(p, e, r) = Held(owner, depth, r)
      BY <1>1, <2>1, <3>2, LockHeld
    <3> QED
      BY <3>1, <3>3
  <2>5. owner'["users"] \in {NULL, MAIN}
    BY <1>1, <1>6, <2>1, <2>3
  <2> QED
    BY <1>3, <2>2, <2>4, <2>5 DEF h
<1>8. CASE step[1] = "unlock" /\ Unlock(t, step[2])
  <2> DEFINE m == step[2]
  <2>1. /\ m \in Mutexes
        /\ owner' = [owner EXCEPT ![m] = IF depth[m] = 1 THEN NULL ELSE t]
        /\ depth' = [depth EXCEPT ![m] = @ - 1]
    BY <1>5, <1>8 DEF Unlock
  <2>2. j = [h EXCEPT ![m] = h[m] - 1] /\ h[m] > 0
    BY <1>3, <1>8 DEF Moves
  <2>3. owner[m] = t
    BY <1>6, <2>1, <2>2
  <2> HIDE DEF m
  <2>4. /\ Sound(owner', depth')
        /\ Held(owner', depth', t) = [Held(owner, depth, t) EXCEPT ![m] = Held(owner, depth, t)[m] - 1]
        /\ \A r \in Threads : r # t => Held(owner', depth', r) = Held(owner, depth, r)
    <3>1. PICK p, e : p = owner' /\ e = depth'
      OBVIOUS
    <3>2. Unlocks(owner, depth, t, m, p, e)
      BY <2>1, <2>3, <3>1 DEF Unlocks
    <3>3. /\ Sound(p, e)
          /\ Held(p, e, t) = [Held(owner, depth, t) EXCEPT ![m] = Held(owner, depth, t)[m] - 1]
          /\ \A r \in Threads : r # t => Held(p, e, r) = Held(owner, depth, r)
      BY <1>1, <2>1, <2>3, <3>2, UnlockHeld
    <3> QED
      BY <3>1, <3>3
  <2>5. owner'["users"] \in {NULL, MAIN}
    BY <1>1, <1>6, <2>1, <2>3
  <2> QED
    BY <1>3, <2>2, <2>4, <2>5 DEF h
<1>9. CASE step[1] \notin {"lock", "unlock"} /\ UNCHANGED <<owner, depth>>
  <2>1. j = h
    BY <1>3, <1>9 DEF Moves
  <2> QED
    BY <1>1, <1>3, <1>9, <2>1 DEF h
<1> QED
  BY <1>4, <1>7, <1>8, <1>9

\* What a step leaves undone is the rest of its thread's work, and the work of every other
\* thread stays as it was, unless one begins to connect a world.
LEMMA DoKeeps ==
    ASSUME LockInv, NEW t \in Threads, Do(t)
    PROVE  LockInv'
<1> USE ThreadsAre
<1>1. MutexInv /\ ExitInv /\ ServeInv /\ WorkInv
  BY DEF LockInv
<1>2. /\ Sound(owner', depth') /\ owner'["users"] \in {NULL, MAIN}
      /\ Works(t, Tail(prog[t]), Held(owner', depth', t), exited)
      /\ \A r \in Threads : r # t => Held(owner', depth', r) = Held(owner, depth, r)
  BY <1>1, StepWorks
<1>3. /\ prog \in [Threads -> Seq(Step)] /\ prog[t] \in Seq(Step) /\ prog[t] # <<>>
      /\ Head(prog[t]) \in Step /\ Tail(prog[t]) \in Seq(Step)
      /\ Len(prog[t]) = 1 => Tail(prog[t]) = <<>>
  <2>1. prog \in [Threads -> Seq(Step)] /\ prog[t] # <<>>
    BY <1>1 DEF MutexInv, Do, Idle
  <2>2. Len(prog[t]) = 1 => Tail(prog[t]) = <<>>
    <3>1. prog[t] \in Seq(Step)
      BY <2>1
    <3>2. Len(prog[t]) = 1 => Len(Tail(prog[t])) = 0 /\ Tail(prog[t]) \in Seq(Step)
      BY <2>1, <3>1, HeadTailProperties
    <3> QED
      BY <3>2, EmptySeq
  <2> QED
    BY <2>1, <2>2, HeadTailProperties
<1>4. /\ exited # "yes" /\ load' = load /\ serves' = serves
      /\ exited' = IF t = MAIN /\ exited = "stopping" /\ Len(prog[t]) = 1 THEN "yes" ELSE exited
      /\ \/ prog' = [prog EXCEPT ![t] = Tail(@)]
         \/ /\ Head(prog[t])[1] = "spawn"
            /\ \E c \in Connectors, succeeds \in BOOLEAN :
                  /\ prog[c] = <<>>
                  /\ prog' = [prog EXCEPT ![t] = Tail(@),
                                          ![c] = ThreadConnect(Head(prog[t])[2], succeeds)]
  BY DEF Do, Idle
\* The work of the threads; c begins, or nobody.
<1>5. ASSUME NEW r \in Threads PROVE Works(r, prog'[r], Held(owner', depth', r), exited')
  <2>0. Works(r, prog[r], Held(owner, depth, r), exited)
    BY <1>1 DEF WorkInv
  <2>1. exited' = exited \/ (exited # "no" /\ exited' # "no")
    <3>1. CASE t = MAIN /\ exited = "stopping" /\ Len(prog[t]) = 1
      <4>1. exited' = "yes" /\ exited = "stopping"
        BY <1>4, <3>1
      <4> QED
        BY <4>1
    <3>2. CASE ~(t = MAIN /\ exited = "stopping" /\ Len(prog[t]) = 1)
      <4>1. exited' = exited
        BY <1>4, <3>2
      <4> QED
        BY <4>1
    <3> QED
      BY <3>1, <3>2
  <2>2. CASE r = t
    <3>1. prog'[r] = Tail(prog[t])
      BY <1>3, <1>4, <2>2
    <3>2. Works(t, Tail(prog[t]), Held(owner', depth', t), exited')
      BY <1>2, <2>1, WorkExits
    <3> QED
      BY <2>2, <3>1, <3>2
  <2>3. CASE r # t /\ prog'[r] = prog[r]
    <3>1. Works(r, prog[r], Held(owner, depth, r), exited')
      BY <2>0, <2>1, WorkExits
    <3> QED
      BY <1>2, <2>3, <3>1
  <2>4. CASE r # t /\ prog'[r] # prog[r]
    <3>1. PICK succeeds \in BOOLEAN :
             /\ r \in Connectors /\ prog[r] = <<>> /\ Head(prog[t])[1] = "spawn"
             /\ prog'[r] = ThreadConnect(Head(prog[t])[2], succeeds)
      BY <1>3, <1>4, <2>4
    <3>2. Held(owner, depth, r) = Nothing
      BY <2>0, <3>1, WorkDone
    <3>3. Head(prog[t])[2] \in Users
      BY <1>3, <3>1 DEF Step
    <3>4. Works(r, ThreadConnect(Head(prog[t])[2], succeeds), Nothing, exited')
      <4> DEFINE s == ThreadConnect(Head(prog[t])[2], succeeds)
      <4>1. Keeps(Others, s) /\ r # MAIN
        BY <3>1, <3>3, ConnectorsKeep
      <4> HIDE DEF s
      <4>2. Works(r, s, Nothing, exited')
        <5>1. PICK e : e = exited'
          OBVIOUS
        <5>2. Works(r, s, Nothing, e)
          BY <4>1, OthersBegin
        <5> QED
          BY <5>1, <5>2
      <4> QED
        BY <4>2 DEF s
    <3> QED
      BY <1>2, <2>4, <3>1, <3>2, <3>4
  <2> QED
    BY <2>2, <2>3, <2>4
<1>6. prog' \in [Threads -> Seq(Step)]
  <2>1. CASE prog' = [prog EXCEPT ![t] = Tail(@)]
    BY <1>3, <2>1
  <2>2. ASSUME NEW c \in Connectors, NEW succeeds \in BOOLEAN, Head(prog[t])[1] = "spawn",
               prog' = [prog EXCEPT ![t] = Tail(@), ![c] = ThreadConnect(Head(prog[t])[2], succeeds)]
        PROVE  prog' \in [Threads -> Seq(Step)]
    <3>1. Head(prog[t])[2] \in Users
      BY <1>3, <2>2 DEF Step
    <3>2. ThreadConnect(Head(prog[t])[2], succeeds) \in Seq(Step)
      BY <2>2, <3>1, ConnectorsKeep DEF Keeps, Path
    <3> QED
      BY <1>3, <2>2, <3>2
  <2> QED
    BY <1>4, <2>1, <2>2
<1>7. \A r \in Threads : r # t /\ r \notin Connectors => prog'[r] = prog[r]
  BY <1>3, <1>4
<1>8. prog'[t] = Tail(prog[t]) \/ t \in Connectors
  BY <1>3, <1>4
<1>9. ExitInv'
  <2>1. exited' \in {"no", "stopping", "yes"} /\ (exited' # "no" => exited # "no")
    BY <1>1, <1>4 DEF ExitInv
  <2>2. exited # "no" => prog'[MAIN] \in Seq(ShutdownSteps)
    <3>1. CASE t = MAIN
      <4>1. prog'[MAIN] = Tail(prog[MAIN])
        BY <1>8, <3>1
      <4>2. ASSUME prog[MAIN] \in Seq(ShutdownSteps) PROVE Tail(prog[MAIN]) \in Seq(ShutdownSteps)
        BY <1>3, <3>1, <4>2, HeadTailProperties
      <4> QED
        BY <1>1, <4>1, <4>2 DEF ExitInv
    <3>2. CASE t # MAIN
      <4>1. prog'[MAIN] = prog[MAIN]
        BY <1>7, <3>2
      <4> QED
        BY <1>1, <4>1 DEF ExitInv
    <3> QED
      BY <3>1, <3>2
  <2>3. exited' = "yes" => prog'[MAIN] = <<>>
    <3>1. ASSUME exited' = "yes" PROVE t = MAIN /\ Len(prog[t]) = 1
      BY <1>4, <3>1
    <3> QED
      BY <1>3, <1>8, <3>1
  <2> QED
    BY <2>1, <2>2, <2>3 DEF ExitInv
<1>10. ServeInv'
  <2>1. ASSUME NEW w \in Workers, serves[w] = NULL PROVE prog'[w] = <<>>
    <3>1. prog[w] = <<>>
      BY <1>1, <2>1 DEF ServeInv
    <3>2. w # t
      BY <1>3, <3>1
    <3>3. w \in Threads /\ w \notin Connectors
      BY <2>1
    <3> QED
      BY <1>7, <3>1, <3>2, <3>3
  <2> QED
    BY <1>1, <1>4, <2>1 DEF ServeInv
<1>11. MutexInv'
  BY <1>2, <1>6 DEF MutexInv
<1>12. WorkInv'
  BY <1>5 DEF WorkInv
<1> QED
  BY <1>9, <1>10, <1>11, <1>12 DEF LockInv

\* The socket a worker takes was put in by the master.
LEMMA TakenIsThere ==
    ASSUME QueueInv, NEW w, NEW c, Consume(w, c)
    PROVE  c \in Conns
<1> USE QueueAssumption
<1>1. /\ waiting \in Seq(Conns) /\ sq_head - sq_tail = Len(waiting) /\ sq_head # sq_tail
      /\ sq_head \in Nat /\ sq_tail \in Nat /\ c = queue[sq_tail % QSIZE]
      /\ \A i \in 1 .. Len(waiting) : waiting[i] = queue[(sq_tail + i - 1) % QSIZE]
  BY DEF QueueInv, QueueInOrder, Consume
<1>2. Len(waiting) \in Nat
  BY <1>1, LenProperties
<1>3. 1 \in 1 .. Len(waiting) /\ sq_tail + 1 - 1 = sq_tail
  BY <1>1, <1>2
<1>4. waiting[1] = c
  BY <1>1, <1>3
<1>5. waiting[1] \in Conns
  BY <1>1, <1>3
<1> QED
  BY <1>4, <1>5

\* What a step leaves alone.
LEMMA LockSame ==
    ASSUME LockInv, UNCHANGED <<load, serves, prog, owner, depth, exited>>
    PROVE  LockInv'
BY DEF LockInv, MutexInv, ExitInv, ServeInv, WorkInv

LEMMA TakesKeeps ==
    ASSUME QueueInv, LockInv, NEW w \in Workers, WorkerTakes(w)
    PROVE  LockInv'
<1> USE ThreadsAre
<1>1. MutexInv /\ ExitInv /\ ServeInv /\ WorkInv
  BY DEF LockInv
<1>2. PICK c \in Conns \cup {NULL}, kind \in load.kinds, u \in Users :
         /\ Consume(w, c)
         /\ serves' = [serves EXCEPT ![w] = c]
         /\ prog' = [prog EXCEPT ![w] = Handler(kind, u)]
  BY DEF WorkerTakes
<1>3. /\ serves[w] = NULL /\ load' = load /\ owner' = owner /\ depth' = depth /\ exited' = exited
  BY DEF WorkerTakes
<1>4. c \in Conns /\ c # NULL
  BY <1>2, TakenIsThere, QueueAssumption
<1>5. Keeps(Others, Handler(kind, u)) /\ Handler(kind, u) \in Seq(Step)
  <2>1. kind \in Kinds
    BY <1>1, <1>2, LoadsAssumption DEF ServeInv
  <2>2. Keeps(Others, Handler(kind, u))
    BY <2>1, HandlersKeep
  <2> QED
    BY <2>2 DEF Keeps, Path
<1>6. prog \in [Threads -> Seq(Step)] /\ prog[w] = <<>>
  BY <1>1, <1>3 DEF MutexInv, ServeInv
<1>7. /\ prog' \in [Threads -> Seq(Step)] /\ prog'[w] = Handler(kind, u)
      /\ \A r \in Threads : r # w => prog'[r] = prog[r]
  BY <1>2, <1>5, <1>6
<1>8. ASSUME NEW r \in Threads PROVE Works(r, prog'[r], Held(owner, depth, r), exited)
  <2>1. Works(r, prog[r], Held(owner, depth, r), exited)
    BY <1>1 DEF WorkInv
  <2>2. CASE r = w
    <3>1. Works(w, <<>>, Held(owner, depth, w), exited)
      BY <1>6, <2>1, <2>2
    <3>2. Held(owner, depth, w) = Nothing
      BY <3>1, WorkDone
    <3>3. Works(w, Handler(kind, u), Nothing, exited)
      BY <1>5, OthersBegin
    <3> QED
      BY <1>7, <2>2, <3>2, <3>3
  <2>3. CASE r # w
    BY <1>7, <2>1, <2>3
  <2> QED
    BY <2>2, <2>3
<1>9. MutexInv'
  BY <1>1, <1>3, <1>7 DEF MutexInv
<1>10. ExitInv'
  BY <1>1, <1>3, <1>7 DEF ExitInv
<1>11. ServeInv'
  <2>1. serves \in [Workers -> Conns \cup {NULL}]
    BY <1>1 DEF ServeInv
  <2>2. serves' \in [Workers -> Conns \cup {NULL}]
    BY <1>2, <2>1
  <2>3. ASSUME NEW v \in Workers, serves'[v] = NULL PROVE prog'[v] = <<>>
    <3>1. v # w /\ serves[v] = NULL
      BY <1>2, <1>4, <2>1, <2>3
    <3>2. prog[v] = <<>>
      BY <1>1, <3>1 DEF ServeInv
    <3> QED
      BY <1>7, <3>1, <3>2
  <2> QED
    BY <1>1, <1>3, <2>2, <2>3 DEF ServeInv
<1>12. WorkInv'
  BY <1>3, <1>8 DEF WorkInv
<1> QED
  BY <1>9, <1>10, <1>11, <1>12 DEF LockInv

\* Main takes up work, p, that it does by its rules.
LEMMA MainKeepsOn ==
    ASSUME LockInv, NEW p \in Seq(Step), prog' = [prog EXCEPT ![MAIN] = p],
           UNCHANGED <<load, serves, owner, depth>>,
           exited' \in {"no", "stopping"}, exited' = "no" => exited = "no",
           exited' = "stopping" => p \in Seq(ShutdownSteps),
           Works(MAIN, p, Held(owner, depth, MAIN), exited')
    PROVE  LockInv'
<1> USE ThreadsAre
<1>1. MutexInv /\ ExitInv /\ ServeInv /\ WorkInv
  BY DEF LockInv
<1>2. /\ prog' \in [Threads -> Seq(Step)] /\ prog'[MAIN] = p
      /\ \A r \in Threads : r # MAIN => prog'[r] = prog[r]
  BY <1>1 DEF MutexInv
<1>3. ASSUME NEW r \in Threads PROVE Works(r, prog'[r], Held(owner, depth, r), exited')
  <2>1. CASE r = MAIN
    BY <1>2, <2>1
  <2>2. CASE r # MAIN
    <3>1. Works(r, prog[r], Held(owner, depth, r), exited)
      BY <1>1 DEF WorkInv
    <3>2. PICK e : e = exited'
      OBVIOUS
    <3>3. Works(r, prog[r], Held(owner, depth, r), e)
      BY <2>2, <3>1, WorkExits
    <3> QED
      BY <1>2, <2>2, <3>2, <3>3
  <2> QED
    BY <2>1, <2>2
<1>4. MutexInv'
  BY <1>1, <1>2 DEF MutexInv
<1>5. ExitInv'
  BY <1>2 DEF ExitInv
<1>6. ServeInv'
  <2>1. ASSUME NEW w \in Workers PROVE prog'[w] = prog[w]
    BY <1>2
  <2> QED
    BY <1>1, <2>1 DEF ServeInv
<1>7. WorkInv'
  BY <1>3 DEF WorkInv
<1> QED
  BY <1>4, <1>5, <1>6, <1>7 DEF LockInv

LEMMA PollKeeps ==
    ASSUME LockInv, NetPoll
    PROVE  LockInv'
<1>1. PICK u \in Users, p \in {"read", "sweep"} :
         prog' = [prog EXCEPT ![MAIN] = IF p = "read" THEN PollRead(u) ELSE Sweep(u)]
  BY DEF NetPoll
<1> DEFINE s == IF p = "read" THEN PollRead(u) ELSE Sweep(u)
<1>2. Keeps(Mutexes, s) /\ s \in Seq(Step)
  <2>1. Keeps(Mutexes, s)
    BY MainKeeps
  <2> QED
    BY <2>1 DEF Keeps, Path
<1>3. prog' = [prog EXCEPT ![MAIN] = s]
  BY <1>1
<1> HIDE DEF s
<1>4. prog[MAIN] = <<>> /\ exited = "no" /\ exited' = "no" /\ UNCHANGED <<load, serves, owner, depth>>
  BY DEF NetPoll, Idle
<1>5. Works(MAIN, <<>>, Held(owner, depth, MAIN), "no")
  BY <1>4, ThreadsAre DEF LockInv, WorkInv
<1>6. Held(owner, depth, MAIN) = Nothing
  BY <1>5, WorkDone
<1>7. Works(MAIN, s, Held(owner, depth, MAIN), exited')
  BY <1>2, <1>4, <1>6, MainBegins
<1> QED
  BY <1>2, <1>3, <1>4, <1>7, MainKeepsOn

LEMMA SignalKeeps ==
    ASSUME LockInv, Signal
    PROVE  LockInv'
<1> DEFINE h == Held(owner, depth, MAIN)
<1>1. h \in Depths
  BY HeldIs, ThreadsAre DEF LockInv, MutexInv
<1>2. exited' = "stopping" /\ prog' = [prog EXCEPT ![MAIN] = Shutdown]
      /\ UNCHANGED <<load, serves, owner, depth>>
  BY DEF Signal
<1> HIDE DEF h
<1>3. Path(AnyStep, Shutdown, h, h) /\ Shutdown \in Seq(ShutdownSteps)
  BY <1>1, ShutdownPath
<1>4. Shutdown \in Seq(Step)
  BY <1>3 DEF Path
<1>5. Works(MAIN, Shutdown, h, "stopping")
  <2>1. Rules(MAIN, "stopping") = AnyStep
    BY DEF Rules
  <2> QED
    BY <1>3, <2>1 DEF Works
<1>6. Works(MAIN, Shutdown, Held(owner, depth, MAIN), exited')
  BY <1>2, <1>5 DEF h
<1> QED
  BY <1>2, <1>3, <1>4, <1>6, MainKeepsOn

LEMMA LockInit == Init => LockInv
<1> SUFFICES ASSUME Init PROVE LockInv
  OBVIOUS
<1>1. /\ load \in Loads /\ serves = [w \in Workers |-> NULL] /\ prog = [t \in Threads |-> <<>>]
      /\ owner = [m \in Mutexes |-> NULL] /\ depth = [m \in Mutexes |-> 0] /\ exited = "no"
  BY DEF Init
<1>2. MutexInv
  <2>1. "users" \in Mutexes
    BY DEF Mutexes
  <2> QED
    BY <1>1, <2>1 DEF MutexInv, Sound, Depths
<1>3. ServeInv
  BY <1>1, ThreadsAre DEF ServeInv
<1>4. WorkInv
  <2>1. ASSUME NEW t \in Threads PROVE Works(t, prog[t], Held(owner, depth, t), exited)
    <3>1. Held(owner, depth, t) = Nothing
      <4>1. \A m \in Mutexes : (IF owner[m] = t THEN depth[m] ELSE 0) = 0
        BY <1>1
      <4> QED
        BY <4>1 DEF Held, Nothing
    <3>2. Path(Rules(t, exited), <<>>, Nothing, Nothing)
      BY NothingIs, PathOfNone
    <3>3. Works(t, <<>>, Nothing, exited)
      BY <3>2 DEF Works
    <3> QED
      BY <1>1, <3>1, <3>3
  <2> QED
    BY <2>1 DEF WorkInv
<1> QED
  BY <1>1, <1>2, <1>3, <1>4 DEF LockInv, ExitInv

LEMMA LockStep == QueueInv /\ LockInv /\ [Next]_vars => LockInv'
<1> SUFFICES ASSUME QueueInv, LockInv, [Next]_vars PROVE LockInv'
  OBVIOUS
<1>1. ASSUME NEW c \in Conns, Accept(c) PROVE LockInv'
  BY <1>1, LockSame DEF Accept, threadVars
<1>2. CASE MasterWaits
  BY <1>2, LockSame DEF MasterWaits, threadVars
<1>3. CASE MasterQueues
  BY <1>3, LockSame DEF MasterQueues, threadVars
<1>4. ASSUME NEW w \in Workers, WorkerWaits(w) PROVE LockInv'
  BY <1>4, LockSame DEF WorkerWaits, threadVars
<1>5. ASSUME NEW w \in Workers, WorkerTakes(w) PROVE LockInv'
  BY <1>5, TakesKeeps
\* A worker is done with a connection when it has nothing more to do.
<1>6. ASSUME NEW w \in Workers, WorkerCloses(w) PROVE LockInv'
  <2>1. /\ prog[w] = <<>> /\ serves' = [serves EXCEPT ![w] = NULL]
        /\ UNCHANGED <<load, prog, owner, depth, exited>>
    BY <1>6 DEF WorkerCloses, threadVars, Idle
  <2>2. MutexInv /\ ExitInv /\ ServeInv /\ WorkInv
    BY DEF LockInv
  <2>3. MutexInv' /\ ExitInv' /\ WorkInv'
    BY <2>1, <2>2 DEF MutexInv, ExitInv, WorkInv
  <2>4. ServeInv'
    BY <2>1, <2>2 DEF ServeInv
  <2> QED
    BY <2>3, <2>4 DEF LockInv
<1>7. ASSUME NEW t \in Threads, Do(t) PROVE LockInv'
  BY <1>7, DoKeeps
<1>8. CASE NetPoll
  BY <1>8, PollKeeps
<1>9. CASE Signal
  BY <1>9, SignalKeeps
<1>10. CASE UNCHANGED vars
  BY <1>10, LockSame DEF vars, threadVars
<1> QED
  BY <1>1, <1>2, <1>3, <1>4, <1>5, <1>6, <1>7, <1>8, <1>9, <1>10 DEF Next

LEMMA InOrderThen == LockInv => LocksInOrder
<1> SUFFICES ASSUME LockInv, NEW t \in Threads, NEW m \in Mutexes, NEW n \in Mutexes,
                    Wants(t, m), owner[n] = t, ~(t = MAIN /\ exited = "stopping")
             PROVE  m = n \/ Rank(n) < Rank(m)
  BY DEF LocksInOrder
<1> DEFINE p == prog[t]
           h == Held(owner, depth, t)
<1>1. p # <<>> /\ Head(p)[1] \in {"lock", "pass"} /\ Head(p)[2] = m
  BY DEF Wants, Idle
<1>2. Works(t, p, h, exited)
  BY DEF LockInv, WorkInv
<1>3. <<Head(p), h>> \in Rules(t, exited)
  BY <1>1, <1>2, WorkGoesOn
<1>4. t # MAIN \/ exited = "no"
  BY <1>1 DEF LockInv, ExitInv
<1>5. <<Head(p), h>> \in Ordered(Others) \/ <<Head(p), h>> \in Ordered(Mutexes)
  BY <1>3, <1>4 DEF Rules
<1>6. h[n] > 0
  BY HeldIs DEF LockInv, MutexInv
<1> HIDE DEF p, h
<1>7. MayAsk(m, h)
  BY <1>1, <1>5 DEF Ordered
<1> QED
  BY <1>6, <1>7 DEF MayAsk

\* In every state of every server no thread asks for a mutex while it holds a later one, or
\* another user's, but for the signal handler (net.c:597-624, worlds.c, users.c).
THEOREM MutexesInOrder == Spec => []LocksInOrder
<1>1. Init => QueueInv
  BY QueueAssumption DEF Init, QInit, QueueInv, QueueInOrder
<1> QED
  BY <1>1, LockInit, QueueStep, LockStep, InOrderThen, PTL DEF Spec

\* Thread t of S waits for mutex m, which another one of S has.
WaitsIn(S, t, m) == t \in S /\ m \in Mutexes /\ Wants(t, m) /\ owner[m] \in S \ {t}

\* The one that has it asks for a later one.
LEMMA WaitsForLater ==
    ASSUME LockInv, NEW S \in SUBSET Threads, ~(MAIN \in S /\ exited = "stopping"),
           \A t \in S : \E m \in Mutexes : WaitsIn(S, t, m),
           NEW t, NEW m, WaitsIn(S, t, m)
    PROVE  \E r, n : WaitsIn(S, r, n) /\ Rank(m) < Rank(n)
<1> DEFINE r == owner[m]
<1>1. r \in S /\ r # t /\ m \in Mutexes
  BY DEF WaitsIn
<1>2. PICK n \in Mutexes : WaitsIn(S, r, n)
  BY <1>1
<1>3. m # n
  BY <1>2 DEF WaitsIn
<1>4. Wants(r, n) /\ r \in Threads /\ ~(r = MAIN /\ exited = "stopping")
  BY <1>1, <1>2 DEF WaitsIn
<1>5. LocksInOrder
  BY InOrderThen
<1>6. Rank(m) < Rank(n)
  BY <1>1, <1>3, <1>4, <1>5 DEF LocksInOrder
<1> QED
  BY <1>2, <1>6

\* Nor does the signal handler close a circle: nobody else ever has the users mutex, and who
\* has a user's asks for no other.
LEMMA StoppingWaits ==
    ASSUME LockInv, exited = "stopping", NEW S \in SUBSET Threads, MAIN \in S,
           \A t \in S : \E m \in Mutexes : WaitsIn(S, t, m)
    PROVE  FALSE
<1>1. PICK m \in Mutexes : WaitsIn(S, MAIN, m)
  OBVIOUS
<1> DEFINE r == owner[m]
<1>2. r \in S /\ r # MAIN /\ r \in Threads /\ Wants(MAIN, m)
  BY <1>1 DEF WaitsIn
<1>3. m \in {"users"} \cup Users
  <2>1. prog[MAIN] \in Seq(ShutdownSteps) /\ prog[MAIN] # <<>> /\ Head(prog[MAIN])[2] = m
    BY <1>2 DEF LockInv, ExitInv, Wants, Idle
  <2>2. Head(prog[MAIN]) \in ShutdownSteps
    BY <2>1, HeadTailProperties
  <2> QED
    BY <2>1, <2>2 DEF ShutdownSteps
<1>4. m # "users"
  BY <1>2, NullIsNone DEF LockInv, MutexInv
<1>5. PICK n \in Mutexes : WaitsIn(S, r, n)
  BY <1>2
<1>6. m # n
  BY <1>5 DEF WaitsIn
<1>7. Wants(r, n) /\ ~(r = MAIN /\ exited = "stopping")
  BY <1>2, <1>5 DEF WaitsIn
<1>8. Rank(m) < Rank(n)
  BY <1>2, <1>6, <1>7, InOrderThen DEF LocksInOrder
<1>9. Rank(m) = 4 /\ Rank(n) \in 1 .. 4
  BY <1>3, <1>4, Ranks DEF Mutexes
<1> QED
  BY <1>8, <1>9

LEMMA NoCircleThen == LockInv => NoCircle
<1> SUFFICES ASSUME LockInv, NEW S \in SUBSET Threads, S # {},
                    ~ \E t \in S : \A m \in Mutexes : Wants(t, m) => owner[m] \notin S \ {t}
             PROVE  FALSE
  BY DEF NoCircle
<1>1. \A t \in S : \E m \in Mutexes : WaitsIn(S, t, m)
  BY DEF WaitsIn
<1>2. ~(MAIN \in S /\ exited = "stopping")
  BY <1>1, StoppingWaits
<1>3. \A t, m : WaitsIn(S, t, m) => \E r, n : WaitsIn(S, r, n) /\ Rank(m) < Rank(n)
  BY <1>1, <1>2, WaitsForLater
<1>4. \A t, m : WaitsIn(S, t, m) => Rank(m) \in 1 .. 4
  BY Ranks DEF WaitsIn, Mutexes
<1>5. \E t, m : WaitsIn(S, t, m)
  BY <1>1
<1>6. \E t, m : WaitsIn(S, t, m) /\ Rank(m) \in 2 .. 4
  BY <1>3, <1>4, <1>5
<1>7. \E t, m : WaitsIn(S, t, m) /\ Rank(m) \in 3 .. 4
  BY <1>3, <1>4, <1>6
<1>8. \E t, m : WaitsIn(S, t, m) /\ Rank(m) = 4
  BY <1>3, <1>4, <1>7
<1> QED
  BY <1>3, <1>4, <1>8

\* In no state of any server do threads wait for each other's mutexes in a circle, not even
\* when the signal handler asks for mutexes out of order (banana.c:332-346).
THEOREM NoDeadlockCircle == Spec => []NoCircle
<1>1. Init => QueueInv
  BY QueueAssumption DEF Init, QInit, QueueInv, QueueInOrder
<1> QED
  BY <1>1, LockInit, QueueStep, LockStep, NoCircleThen, PTL DEF Spec
=============================================================================
