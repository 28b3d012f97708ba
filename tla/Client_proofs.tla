--------------------------- MODULE Client_proofs ---------------------------
(***************************************************************************)
(* Proofs about Client, for any number of broken connections and reloads.  *)
(***************************************************************************)
EXTENDS Client, SequenceTheorems, WellFoundedInduction, TLAPS

-----------------------------------------------------------------------------
(* Induction, over sets of numbers.                                        *)

\* A set of numbers with 0, and with n + 1 for each n, has them all.
LEMMA AllNumbers ==
    ASSUME NEW T \in SUBSET Nat, 0 \in T, \A n \in T : n + 1 \in T
    PROVE  T = Nat
<1> SUFFICES ASSUME Nat \ T # {} PROVE FALSE
  OBVIOUS
<1>1. PICK x \in Nat \ T : \A y \in Nat \ T : <<y, x>> \notin OpToRel(<, Nat)
  <2>1. Nat \ T \subseteq Nat
    OBVIOUS
  <2> QED
    BY <2>1, NatLessThanWellFounded, WFMin, Zenon
<1>2. \A y \in Nat \ T : ~(y < x)
  BY <1>1, Zenon DEF OpToRel
<1>3. x # 0 /\ x - 1 \in Nat /\ x - 1 < x
  OBVIOUS
<1>4. x - 1 \in T
  BY <1>2, <1>3
<1>5. (x - 1) + 1 \in T
  BY <1>4
<1> QED
  BY <1>3, <1>5

\* As AllNumbers, up to m.
LEMMA NumbersUpTo ==
    ASSUME NEW m \in Nat, NEW T \in SUBSET Nat, 0 \in T, \A n \in T : n < m => n + 1 \in T
    PROVE  m \in T
<1> DEFINE U == {n \in Nat : n <= m => n \in T}
<1>1. 0 \in U
  OBVIOUS
<1>2. ASSUME NEW n \in U PROVE n + 1 \in U
  <2> SUFFICES ASSUME n + 1 <= m PROVE n + 1 \in T
    OBVIOUS
  <2>1. n \in Nat /\ n <= m /\ n < m
    OBVIOUS
  <2>2. n \in T
    BY <2>1
  <2> QED
    BY <2>1, <2>2
<1>3. U \in SUBSET Nat
  OBVIOUS
<1> HIDE DEF U
<1>4. U = Nat
  BY <1>1, <1>2, <1>3, AllNumbers
<1> QED
  BY <1>4 DEF U

\* A set of positions that is not empty has a first one.
LEMMA MinIsIn ==
    ASSUME NEW S \in SUBSET Nat, S # {}
    PROVE  Min(S) \in S /\ \A y \in S : Min(S) <= y
<1>1. PICK x \in S : \A y \in S : <<y, x>> \notin OpToRel(<, Nat)
  BY NatLessThanWellFounded, WFMin, Zenon
<1>2. \A y \in S : ~(y < x)
  BY <1>1, Zenon DEF OpToRel
<1>3. \A y \in S : x <= y
  BY <1>2
<1> QED
  BY <1>3 DEF Min

\* A set of positions in a sequence that is not empty has a last one.
LEMMA MaxIsIn ==
    ASSUME NEW n \in Nat, NEW S \in SUBSET (1 .. n), S # {}
    PROVE  Max(S) \in S /\ \A y \in S : y <= Max(S)
<1> DEFINE T == {i \in 0 .. n : n - i \in S}
<1>1. T \in SUBSET Nat /\ T # {}
  <2>1. T \in SUBSET Nat
    OBVIOUS
  <2>2. PICK x \in S : TRUE
    OBVIOUS
  <2>3. n - x \in T
    <3>1. x \in 1 .. n /\ n - (n - x) = x
      OBVIOUS
    <3> QED
      BY <3>1
  <2> HIDE DEF T
  <2> QED
    BY <2>1, <2>3
<1>2. Min(T) \in T /\ \A y \in T : Min(T) <= y
  BY <1>1, MinIsIn
<1>3. \A y \in S : y <= n - Min(T)
  <2>1. ASSUME NEW y \in S PROVE y <= n - Min(T)
    <3>1. n - y \in T
      OBVIOUS
    <3> HIDE DEF T
    <3>2. Min(T) <= n - y
      BY <1>2, <3>1
    <3>3. Min(T) \in Nat
      BY <1>1, <1>2
    <3>4. y \in 1 .. n
      OBVIOUS
    <3> QED
      BY <3>2, <3>3, <3>4
  <2> QED
    BY <2>1
<1>4. n - Min(T) \in S
  BY <1>2
<1> HIDE DEF T
<1> QED
  BY <1>3, <1>4 DEF Max

LEMMA ListIs ==
    ASSUME NEW n \in Nat, NEW S, NEW f \in [1 .. n -> S]
    PROVE  f \in Seq(S) /\ Len(f) = n /\ DOMAIN f = 1 .. n
<1>1. f \in Seq(S)
  BY SeqDef
<1>2. Len(f) \in Nat /\ 1 .. Len(f) = 1 .. n
  BY <1>1, LenProperties
<1>3. Len(f) = n
  <2>1. (n = 0 \/ n \in 1 .. Len(f)) /\ (Len(f) = 0 \/ Len(f) \in 1 .. n)
    BY <1>2
  <2>2. n \notin 1 .. n \/ n <= Len(f)
    BY <1>2
  <2> QED
    BY <1>2, <2>1, <2>2
<1> QED
  BY <1>1, <1>3

-----------------------------------------------------------------------------
(* Folds.                                                                  *)

LEMMA LastIsMax ==
    ASSUME NEW n \in Nat, NEW t \in SUBSET (1 .. n + 1), n + 1 \in t
    PROVE  Max(t) = n + 1
<1>1. \A y \in t : y \in Int /\ n + 1 >= y
  OBVIOUS
<1>2. \A x \in t : (\A y \in t : x >= y) => x = n + 1
  <2> TAKE x \in t
  <2> HAVE \A y \in t : x >= y
  <2>1. x >= n + 1 /\ n + 1 >= x /\ x \in Int
    BY <1>1
  <2> QED
    BY <2>1
<1> QED
  BY <1>1, <1>2, Zenon DEF Max

\* What a fold computes with F from q over s, for the sets t of positions up to n.
IsFold(g, F, q, s, n) ==
    \A t \in SUBSET (1 .. n) :
        g[t] = IF t = {} THEN q ELSE F[g[t \ {Max(t)}], s[Max(t)]]

\* There is such a function.
LEMMA FoldIsThere ==
    ASSUME NEW A, NEW B, NEW F \in [A \X B -> A], NEW q \in A, NEW s \in Seq(B)
    PROVE  \E g \in [SUBSET (1 .. Len(s)) -> A] : IsFold(g, F, q, s, Len(s))
<1> DEFINE T == {n \in Nat : \E g \in [SUBSET (1 .. n) -> A] : IsFold(g, F, q, s, n)}
<1>1. 0 \in T
  <2> DEFINE g == [t \in SUBSET (1 .. 0) |-> q]
  <2>1. 1 .. 0 = {}
    OBVIOUS
  <2>2. g \in [SUBSET (1 .. 0) -> A] /\ IsFold(g, F, q, s, 0)
    BY <2>1 DEF IsFold
  <2> QED
    BY <2>2
<1>2. ASSUME NEW n \in T, n < Len(s) PROVE n + 1 \in T
  <2>1. n \in Nat /\ n + 1 \in Nat
    OBVIOUS
  <2>2. PICK g \in [SUBSET (1 .. n) -> A] : IsFold(g, F, q, s, n)
    OBVIOUS
  <2> DEFINE h == [t \in SUBSET (1 .. n + 1) |->
                     IF n + 1 \in t THEN F[g[t \ {n + 1}], s[n + 1]] ELSE g[t]]
  <2>3. s[n + 1] \in B
    BY <1>2, <2>1, ElementOfSeq, LenProperties
  <2>4. \A t \in SUBSET (1 .. n + 1) : t \ {n + 1} \in SUBSET (1 .. n)
    BY <2>1
  <2>5. h \in [SUBSET (1 .. n + 1) -> A]
    BY <2>2, <2>3, <2>4
  <2>6. ASSUME NEW t \in SUBSET (1 .. n + 1), t # {}
        PROVE  h[t] = F[h[t \ {Max(t)}], s[Max(t)]]
    <3>1. CASE n + 1 \in t
      <4>1. Max(t) = n + 1
        BY <2>1, <3>1, LastIsMax
      <4>2. h[t] = F[g[t \ {n + 1}], s[n + 1]]
        BY <3>1
      <4>3. h[t \ {n + 1}] = g[t \ {n + 1}]
        BY <2>4
      <4> QED
        BY <4>1, <4>2, <4>3
    <3>2. CASE n + 1 \notin t
      <4>1. t \in SUBSET (1 .. n) /\ t \ {Max(t)} \in SUBSET (1 .. n + 1)
            /\ n + 1 \notin t \ {Max(t)}
        BY <2>4, <3>2
      <4>2. h[t] = g[t] /\ h[t \ {Max(t)}] = g[t \ {Max(t)}]
        BY <3>2, <4>1
      <4>3. g[t] = F[g[t \ {Max(t)}], s[Max(t)]]
        BY <2>2, <2>6, <4>1 DEF IsFold
      <4> QED
        BY <4>2, <4>3
    <3> QED
      BY <3>1, <3>2
  <2>7. h[{}] = q
    <3>1. g[{}] = q
      BY <2>2 DEF IsFold
    <3> QED
      BY <3>1
  <2> HIDE DEF h
  <2>8. IsFold(h, F, q, s, n + 1)
    BY <2>6, <2>7 DEF IsFold
  <2> QED
    BY <2>1, <2>5, <2>8
<1>3. Len(s) \in Nat /\ T \in SUBSET Nat
  BY LenProperties
<1> HIDE DEF T
<1>4. Len(s) \in T
  BY <1>1, <1>2, <1>3, NumbersUpTo
<1> QED
  BY <1>4 DEF T

-----------------------------------------------------------------------------
(* The queue of API calls.                                                 *)

\* What a page calls
CallNames == {"config", "reconfig", "header", "open", "connect", "autosend", "send"}

Queues == [semaphore : Nat, queue : Seq(Nat), ajax : Nat]

LEMMA CallAjaxType == \A q \in Queues, id \in Nat : callAjax(q, id) \in Queues
<1> TAKE q \in Queues, id \in Nat
<1>1. q.queue \in Seq(Nat) /\ q.semaphore \in Nat /\ q.ajax \in Nat
  BY DEF Queues
<1>2. Append(q.queue, id) \in Seq(Nat)
  BY <1>1, AppendProperties
<1>3. q.semaphore + 1 \in Nat /\ 1 \in Nat
  BY <1>1
<1>4. CASE q.semaphore = 0
  <2>1. callAjax(q, id) = [q EXCEPT !.semaphore = 1, !.ajax = id]
    BY <1>4 DEF callAjax
  <2> QED
    BY <1>3, <2>1 DEF Queues
<1>5. CASE q.semaphore # 0
  <2>1. callAjax(q, id) = [q EXCEPT !.semaphore = @ + 1, !.queue = Append(@, id)]
    BY <1>5 DEF callAjax
  <2> QED
    BY <1>2, <1>3, <2>1 DEF Queues
<1> QED
  BY <1>4, <1>5

\* What each of several calls preserves, all of them do: R[k] is where the queue may be after
\* k of them.
LEMMA Calls ==
    ASSUME NEW q \in Queues, NEW ids \in Seq(Nat), NEW R, q \in R[0],
           \A k \in Nat : k < Len(ids) =>
              \A r \in R[k] \cap Queues : callAjax(r, ids[k + 1]) \in R[k + 1]
    PROVE  FoldLeft(callAjax, q, ids) \in R[Len(ids)] \cap Queues
<1> DEFINE Iter(g) == g = [t \in SUBSET DOMAIN ids |->
                             IF t = {} THEN q ELSE callAjax(g[t \ {Max(t)}], ids[Max(t)])]
           iter == CHOOSE g : Iter(g)
<1>1. FoldLeft(callAjax, q, ids) = iter[DOMAIN ids]
  BY DEF FoldLeft, MapThenFoldSet
<1>2. Len(ids) \in Nat /\ DOMAIN ids = 1 .. Len(ids) /\ \A i \in 1 .. Len(ids) : ids[i] \in Nat
  BY LenProperties, ElementOfSeq
<1>3. Iter(iter)
  <2> DEFINE F == [p \in Queues \X Nat |-> callAjax(p[1], p[2])]
  <2>1. F \in [Queues \X Nat -> Queues] /\ \A r \in Queues, i \in Nat : F[r, i] = callAjax(r, i)
    BY CallAjaxType
  <2> HIDE DEF F
  <2>2. PICK g \in [SUBSET (1 .. Len(ids)) -> Queues] : IsFold(g, F, q, ids, Len(ids))
    BY <2>1, FoldIsThere
  <2>3. ASSUME NEW t \in SUBSET (1 .. Len(ids)), t # {}
        PROVE  F[g[t \ {Max(t)}], ids[Max(t)]] = callAjax(g[t \ {Max(t)}], ids[Max(t)])
    <3>1. Max(t) \in 1 .. Len(ids)
      BY <1>2, <2>3, MaxIsIn
    <3>2. t \ {Max(t)} \in SUBSET (1 .. Len(ids))
      OBVIOUS
    <3>3. g[t \ {Max(t)}] \in Queues /\ ids[Max(t)] \in Nat
      BY <1>2, <2>2, <3>1, <3>2
    <3> QED
      BY <2>1, <3>3
  <2>4. Iter(g)
    BY <1>2, <2>2, <2>3 DEF IsFold
  <2> QED
    BY <2>4
<1>4. \A t \in SUBSET (1 .. Len(ids)) :
        iter[t] = IF t = {} THEN q ELSE callAjax(iter[t \ {Max(t)}], ids[Max(t)])
  BY <1>2, <1>3
<1> HIDE DEF iter
<1> DEFINE T == {k \in Nat : k <= Len(ids) => iter[1 .. k] \in R[k] \cap Queues}
<1>5. 0 \in T
  <2>1. 1 .. 0 = {}
    OBVIOUS
  <2>2. iter[1 .. 0] = q
    BY <1>4, <2>1
  <2> QED
    BY <2>2
<1>6. ASSUME NEW k \in T, k < Len(ids) PROVE k + 1 \in T
  <2>1. k \in Nat /\ iter[1 .. k] \in R[k] \cap Queues
    BY <1>2, <1>6
  <2>2. Max(1 .. k + 1) = k + 1
    BY <2>1, LastIsMax
  <2>3. ((1 .. k + 1) \ {k + 1}) = 1 .. k /\ k + 1 \in 1 .. k + 1
        /\ (1 .. k + 1) \in SUBSET (1 .. Len(ids))
    BY <1>2, <1>6, <2>1
  <2>4. iter[1 .. k + 1] = callAjax(iter[1 .. k], ids[k + 1])
    BY <1>4, <2>2, <2>3
  <2>5. ids[k + 1] \in Nat
    BY <1>2, <1>6, <2>1
  <2>6. iter[1 .. k + 1] \in R[k + 1] \cap Queues
    BY <1>6, <2>1, <2>4, <2>5, CallAjaxType
  <2> QED
    BY <2>1, <2>6
<1>7. T \in SUBSET Nat
  OBVIOUS
<1> HIDE DEF T
<1>8. Len(ids) \in T
  BY <1>2, <1>5, <1>6, <1>7, NumbersUpTo
<1> QED
  BY <1>1, <1>2, <1>8 DEF T

\* The queue with n calls made: those in it are in order, after the one under way
Orderly(q, n) ==
    /\ q \in Queues /\ q.ajax <= n
    /\ \A i \in 1 .. Len(q.queue) : q.ajax < q.queue[i] /\ q.queue[i] <= n
    /\ \A i, j \in 1 .. Len(q.queue) : i < j => q.queue[i] < q.queue[j]
    /\ IF q.ajax = 0 THEN q.semaphore = 0 /\ q.queue = <<>>
       ELSE q.semaphore = Len(q.queue) + 1

LEMMA OrderlyParts ==
    ASSUME NEW n \in Nat, NEW q, Orderly(q, n)
    PROVE  /\ q = [semaphore |-> q.semaphore, queue |-> q.queue, ajax |-> q.ajax]
           /\ q.semaphore \in Nat /\ q.queue \in Seq(Nat) /\ q.ajax \in Nat /\ q.ajax <= n
           /\ Len(q.queue) \in Nat /\ \A i \in 1 .. Len(q.queue) : q.queue[i] \in Nat
<1>1. /\ q = [semaphore |-> q.semaphore, queue |-> q.queue, ajax |-> q.ajax]
      /\ q.semaphore \in Nat /\ q.queue \in Seq(Nat) /\ q.ajax \in Nat /\ q.ajax <= n
  BY DEF Orderly, Queues
<1> QED
  BY <1>1, LenProperties, ElementOfSeq

LEMMA OneCall ==
    ASSUME NEW n \in Nat, NEW q, Orderly(q, n)
    PROVE  LET r == callAjax(q, n + 1)
           IN  Orderly(r, n + 1) /\ (r.ajax = q.ajax \/ (q.ajax = 0 /\ r.ajax = n + 1))
<1> DEFINE r == callAjax(q, n + 1)
<1> DEFINE ss == q.semaphore  queue == q.queue  aj == q.ajax
<1>1. /\ q = [semaphore |-> ss, queue |-> queue, ajax |-> aj]
      /\ ss \in Nat /\ queue \in Seq(Nat) /\ aj \in Nat /\ aj <= n
      /\ Len(queue) \in Nat /\ \A i \in 1 .. Len(queue) : queue[i] \in Nat
  BY OrderlyParts
<1>2. /\ \A i \in 1 .. Len(queue) : aj < queue[i] /\ queue[i] <= n
      /\ \A i, j \in 1 .. Len(queue) : i < j => queue[i] < queue[j]
      /\ (aj = 0 => ss = 0 /\ queue = <<>>) /\ (aj # 0 => ss = Len(queue) + 1)
  BY DEF Orderly
<1>3. r \in Queues
  BY <1>1, CallAjaxType DEF Orderly
<1>4. CASE ss = 0
  <2>1. aj = 0 /\ queue = <<>>
    BY <1>1, <1>2, <1>4
  <2>2. r = [q EXCEPT !.semaphore = 1, !.ajax = n + 1]
    BY <1>4 DEF callAjax
  <2>3. r.semaphore = 1 /\ r.queue = <<>> /\ r.ajax = n + 1
    BY <1>1, <2>1, <2>2
  <2>4. Len(<<>>) = 0
    BY EmptySeq
  <2> HIDE DEF r
  <2>5. 1 .. Len(r.queue) = {} /\ r.ajax # 0 /\ r.ajax <= n + 1 /\ r.semaphore = Len(r.queue) + 1
    BY <2>3, <2>4
  <2>6. Orderly(r, n + 1)
    BY <1>3, <2>5 DEF Orderly
  <2> QED
    BY <2>1, <2>3, <2>6 DEF r
<1>5. CASE ss # 0
  <2>1. aj # 0 /\ ss = Len(queue) + 1
    BY <1>2, <1>5
  <2>2. r = [q EXCEPT !.semaphore = @ + 1, !.queue = Append(@, n + 1)]
    BY <1>5 DEF callAjax
  <2>3. r.semaphore = ss + 1 /\ r.queue = Append(queue, n + 1) /\ r.ajax = aj
    BY <1>1, <2>2
  <2>4. /\ Len(Append(queue, n + 1)) = Len(queue) + 1
        /\ \A i \in 1 .. Len(queue) : Append(queue, n + 1)[i] = queue[i]
        /\ Append(queue, n + 1)[Len(queue) + 1] = n + 1
    BY <1>1, AppendProperties
  <2> HIDE DEF r, ss, queue, aj
  <2>5. \A i \in 1 .. Len(r.queue) : r.ajax < r.queue[i] /\ r.queue[i] <= n + 1
    <3> TAKE i \in 1 .. Len(r.queue)
    <3>1. i \in 1 .. Len(queue) \/ i = Len(queue) + 1
      BY <1>1, <2>3, <2>4
    <3>2. CASE i \in 1 .. Len(queue)
      BY <1>1, <1>2, <2>3, <2>4, <3>2
    <3>3. CASE i = Len(queue) + 1
      BY <1>1, <2>3, <2>4, <3>3
    <3> QED
      BY <3>1, <3>2, <3>3
  <2>6. \A i, j \in 1 .. Len(r.queue) : i < j => r.queue[i] < r.queue[j]
    <3> TAKE i, j \in 1 .. Len(r.queue)
    <3> HAVE i < j
    <3>1. i \in 1 .. Len(queue) /\ (j \in 1 .. Len(queue) \/ j = Len(queue) + 1)
      BY <1>1, <2>3, <2>4
    <3>2. CASE j \in 1 .. Len(queue)
      BY <1>2, <2>3, <2>4, <3>1, <3>2
    <3>3. CASE j = Len(queue) + 1
      <4>1. r.queue[i] = queue[i] /\ r.queue[j] = n + 1 /\ queue[i] <= n /\ queue[i] \in Nat
        BY <1>1, <1>2, <2>3, <2>4, <3>1, <3>3
      <4> QED
        BY <4>1
    <3> QED
      BY <3>1, <3>2, <3>3
  <2>7. r.ajax # 0 /\ r.ajax <= n + 1 /\ r.semaphore = Len(r.queue) + 1
    BY <1>1, <2>1, <2>3, <2>4
  <2>8. Orderly(r, n + 1)
    BY <1>3, <2>5, <2>6, <2>7 DEF Orderly
  <2> QED
    BY <2>3, <2>8 DEF r, aj
<1> QED
  BY <1>4, <1>5

\* The calls of the page go to the end of the queue, in order.
LEMMA MakeCalls ==
    ASSUME NEW n \in Nat, NEW q, Orderly(q, n), NEW ops \in Seq(CallNames)
    PROVE  LET r == FoldLeft(callAjax, q, [i \in DOMAIN ops |-> n + i])
           IN  /\ Orderly(r, n + Len(ops))
               /\ r.ajax = q.ajax \/ (q.ajax = 0 /\ r.ajax > n)
<1> DEFINE ids == [i \in DOMAIN ops |-> n + i]
           Good(r, k) == /\ Orderly(r, n + k)
                         /\ r.ajax = q.ajax \/ (q.ajax = 0 /\ r.ajax > n)
           R == [k \in Nat |-> {r \in Queues : Good(r, k)}]
<1>1. /\ Len(ops) \in Nat /\ ids \in Seq(Nat) /\ Len(ids) = Len(ops)
      /\ \A i \in 1 .. Len(ops) : ids[i] = n + i
  <2>1. Len(ops) \in Nat /\ DOMAIN ops = 1 .. Len(ops)
    BY LenProperties
  <2>2. ids \in [1 .. Len(ops) -> Nat]
    BY <2>1
  <2> QED
    BY <2>1, <2>2, ListIs
<1>2. q \in Queues /\ q \in R[0]
  BY DEF Orderly
<1>3. ASSUME NEW k \in Nat, k < Len(ids), NEW r \in R[k] \cap Queues
      PROVE  callAjax(r, ids[k + 1]) \in R[k + 1]
  <2> DEFINE t == callAjax(r, (n + k) + 1)
  <2>1. ids[k + 1] = (n + k) + 1 /\ n + k \in Nat /\ n + (k + 1) = (n + k) + 1
    BY <1>1, <1>3
  <2>2. Good(r, k)
    OBVIOUS
  <2>3. Orderly(t, n + (k + 1)) /\ (t.ajax = r.ajax \/ (r.ajax = 0 /\ t.ajax = (n + k) + 1))
    BY <2>1, <2>2, OneCall
  <2>4. t.ajax = q.ajax \/ (q.ajax = 0 /\ t.ajax > n)
    BY <2>1, <2>2, <2>3
  <2>5. t \in Queues
    BY <2>3 DEF Orderly
  <2> QED
    BY <2>1, <2>3, <2>4, <2>5
<1> HIDE DEF R, ids
<1>4. FoldLeft(callAjax, q, ids) \in R[Len(ids)] \cap Queues
  BY <1>1, <1>2, <1>3, Calls
<1> QED
  BY <1>1, <1>4 DEF R, ids

\* When a call ends the next is under way.
LEMMA EndCall ==
    ASSUME NEW n \in Nat, NEW q, Orderly(q, n), q.ajax # 0
    PROVE  LET r == callQueueComplete(q)
           IN  Orderly(r, n) /\ (r.ajax = 0 \/ r.ajax > q.ajax)
<1> DEFINE r == callQueueComplete(q)
<1> DEFINE ss == q.semaphore  queue == q.queue  aj == q.ajax
<1>1. /\ q = [semaphore |-> ss, queue |-> queue, ajax |-> aj]
      /\ ss \in Nat /\ queue \in Seq(Nat) /\ aj \in Nat /\ aj <= n
      /\ Len(queue) \in Nat /\ \A i \in 1 .. Len(queue) : queue[i] \in Nat
  BY OrderlyParts
<1>2. /\ \A i \in 1 .. Len(queue) : aj < queue[i] /\ queue[i] <= n
      /\ \A i, j \in 1 .. Len(queue) : i < j => queue[i] < queue[j]
      /\ ss = Len(queue) + 1
  BY DEF Orderly
<1>3. CASE ss > 1
  <2>1. r = [semaphore |-> ss - 1, queue |-> Tail(queue), ajax |-> Head(queue)]
    BY <1>3 DEF callQueueComplete
  <2>2. queue # <<>> /\ Len(queue) > 0
    BY <1>1, <1>2, <1>3, EmptySeq
  <2>3. /\ Tail(queue) \in Seq(Nat) /\ Len(Tail(queue)) = Len(queue) - 1
        /\ \A i \in 1 .. Len(Tail(queue)) : Tail(queue)[i] = queue[i + 1]
        /\ Head(queue) = queue[1]
    BY <1>1, <2>2, HeadTailProperties
  <2> HIDE DEF r, ss, queue, aj
  <2>4. r.semaphore = ss - 1 /\ r.queue = Tail(queue) /\ r.ajax = queue[1]
    BY <2>1, <2>3
  <2>5. queue[1] \in Nat /\ aj < queue[1] /\ queue[1] <= n /\ ss - 1 \in Nat
    BY <1>1, <1>2, <1>3, <2>2
  <2>6. r \in Queues
    BY <2>1, <2>3, <2>5 DEF Queues
  <2>7. \A i \in 1 .. Len(r.queue) : r.ajax < r.queue[i] /\ r.queue[i] <= n
    BY <1>1, <1>2, <2>3, <2>4
  <2>8. \A i, j \in 1 .. Len(r.queue) : i < j => r.queue[i] < r.queue[j]
    BY <1>1, <1>2, <2>3, <2>4
  <2>9. r.ajax # 0 /\ r.ajax <= n /\ r.semaphore = Len(r.queue) + 1 /\ r.ajax > aj
    BY <1>1, <1>2, <2>3, <2>4, <2>5
  <2>10. Orderly(r, n)
    BY <2>6, <2>7, <2>8, <2>9 DEF Orderly
  <2> QED
    BY <2>9, <2>10 DEF r, aj
<1>4. CASE ~(ss > 1)
  <2>1. r = [q EXCEPT !.semaphore = @ - 1, !.ajax = 0]
    BY <1>4 DEF callQueueComplete
  <2>2. ss = 1 /\ Len(queue) = 0
    BY <1>1, <1>2, <1>4
  <2>3. queue = <<>>
    BY <1>1, <2>2, EmptySeq
  <2>4. r.semaphore = 0 /\ r.queue = <<>> /\ r.ajax = 0
    BY <1>1, <2>1, <2>2, <2>3
  <2> HIDE DEF r
  <2>5. r \in Queues
    <3>1. q \in Queues /\ q.semaphore - 1 \in Nat /\ 0 \in Nat
      BY <2>2 DEF Orderly
    <3> QED
      BY <2>1, <3>1 DEF Queues
  <2>6. 1 .. Len(<<>>) = {}
    BY EmptySeq
  <2>7. Orderly(r, n)
    BY <2>4, <2>5, <2>6 DEF Orderly
  <2> QED
    BY <2>4, <2>7 DEF r
<1> QED
  BY <1>3, <1>4

-----------------------------------------------------------------------------
(* The calls that follow events.                                           *)

\* FlattenSeq puts sequences one after the other: R[k] is what k of them are together.
LEMMA Flat ==
    ASSUME NEW A, NEW s \in Seq(Seq(A)), NEW R, <<>> \in R[0],
           \A k \in Nat : k < Len(s) => \A r \in R[k] \cap Seq(A) : r \o s[k + 1] \in R[k + 1]
    PROVE  FlattenSeq(s) \in R[Len(s)] \cap Seq(A)
<1> DEFINE Flatten(f, n) == \A i \in 1 .. n : f[i] = IF i = 1 THEN s[1] ELSE f[i - 1] \o s[i]
           Iter(f) == f = [i \in 1 .. Len(s) |-> IF i = 1 THEN s[i] ELSE f[i - 1] \o s[i]]
           flatten == CHOOSE f : Iter(f)
<1>1. FlattenSeq(s) = IF Len(s) = 0 THEN s ELSE flatten[Len(s)]
  BY DEF FlattenSeq
<1>2. Len(s) \in Nat /\ \A i \in 1 .. Len(s) : s[i] \in Seq(A)
  BY LenProperties, ElementOfSeq
<1>3. CASE Len(s) = 0
  <2>1. s = <<>> /\ <<>> \in Seq(A)
    BY <1>3, EmptySeq
  <2> QED
    BY <1>1, <1>3, <2>1
<1>4. CASE Len(s) # 0
  <2>1. Iter(flatten)
    <3> DEFINE T == {n \in Nat : \E f \in [1 .. n -> Seq(A)] : Flatten(f, n)}
    <3>1. 0 \in T
      <4>1. [i \in {} |-> <<>>] \in [1 .. 0 -> Seq(A)] /\ 1 .. 0 = {}
        OBVIOUS
      <4> QED
        BY <4>1
    <3>2. ASSUME NEW n \in T, n < Len(s) PROVE n + 1 \in T
      <4>1. PICK f \in [1 .. n -> Seq(A)] : Flatten(f, n)
        OBVIOUS
      <4>2. n \in Nat /\ n + 1 \in 1 .. Len(s)
        BY <1>2, <3>2
      <4> DEFINE last == IF n = 0 THEN s[1] ELSE f[n] \o s[n + 1]
                 g == [i \in 1 .. n + 1 |-> IF i = n + 1 THEN last ELSE f[i]]
      <4>3. last \in Seq(A)
        <5>1. CASE n = 0
          BY <1>2, <4>2, <5>1
        <5>2. CASE n # 0
          <6>1. f[n] \in Seq(A) /\ s[n + 1] \in Seq(A)
            BY <1>2, <4>2, <5>2
          <6> QED
            BY <5>2, <6>1, ConcatProperties
        <5> QED
          BY <5>1, <5>2
      <4>4. g \in [1 .. n + 1 -> Seq(A)]
        BY <4>2, <4>3
      <4>5. Flatten(g, n + 1)
        <5> SUFFICES ASSUME NEW i \in 1 .. n + 1
                     PROVE  g[i] = IF i = 1 THEN s[1] ELSE g[i - 1] \o s[i]
          OBVIOUS
        <5>1. CASE i = n + 1
          <6>1. CASE n = 0
            BY <4>2, <5>1, <6>1
          <6>2. CASE n # 0
            <7>1. i # 1 /\ i - 1 = n /\ n \in 1 .. n + 1 /\ n # n + 1
              BY <4>2, <5>1, <6>2
            <7> QED
              BY <5>1, <6>2, <7>1
          <6> QED
            BY <6>1, <6>2
        <5>2. CASE i # n + 1
          <6>1. i \in 1 .. n /\ (i = 1 \/ (i - 1 \in 1 .. n + 1 /\ i - 1 # n + 1))
            BY <4>2, <5>2
          <6>2. f[i] = IF i = 1 THEN s[1] ELSE f[i - 1] \o s[i]
            BY <4>1, <6>1
          <6> QED
            BY <5>2, <6>1, <6>2
        <5> QED
          BY <5>1, <5>2
      <4> HIDE DEF g, Flatten
      <4>6. \E h \in [1 .. n + 1 -> Seq(A)] : Flatten(h, n + 1)
        BY <4>4, <4>5
      <4> QED
        BY <4>2, <4>6
    <3>3. T \in SUBSET Nat
      OBVIOUS
    <3> HIDE DEF T
    <3>4. Len(s) \in T
      BY <1>2, <3>1, <3>2, <3>3, NumbersUpTo
    <3>5. PICK f \in [1 .. Len(s) -> Seq(A)] : Flatten(f, Len(s))
      BY <3>4 DEF T
    <3>6. Iter(f)
      BY <3>5
    <3> QED
      BY <3>6
  <2>2. \A i \in 1 .. Len(s) : flatten[i] = IF i = 1 THEN s[i] ELSE flatten[i - 1] \o s[i]
    BY <2>1
  <2> HIDE DEF flatten
  <2> DEFINE T == {k \in Nat : 0 < k /\ k <= Len(s) => flatten[k] \in R[k] \cap Seq(A)}
  <2>3. 0 \in T
    OBVIOUS
  <2>4. ASSUME NEW k \in T, k < Len(s) PROVE k + 1 \in T
    <3>1. k \in Nat /\ k + 1 \in 1 .. Len(s) /\ s[k + 1] \in Seq(A)
      BY <1>2, <2>4
    <3>2. CASE k = 0
      <4>1. flatten[1] = s[1] /\ s[1] \in Seq(A)
        BY <2>2, <3>1, <3>2
      <4>2. <<>> \o s[1] = s[1] /\ <<>> \in Seq(A)
        BY <4>1, ConcatEmptySeq, EmptySeq
      <4>3. <<>> \o s[0 + 1] \in R[0 + 1]
        BY <2>4, <3>2, <4>2
      <4>4. s[1] \in R[1]
        BY <4>2, <4>3
      <4> QED
        BY <3>2, <4>1, <4>4
    <3>3. CASE k # 0
      <4>1. flatten[k] \in R[k] \cap Seq(A)
        BY <1>2, <2>4, <3>1, <3>3
      <4>2. k + 1 # 1 /\ (k + 1) - 1 = k
        BY <3>1, <3>3
      <4>3. flatten[k + 1] = flatten[k] \o s[k + 1]
        BY <2>2, <3>1, <4>2
      <4>4. flatten[k] \o s[k + 1] \in Seq(A)
        BY <3>1, <4>1, ConcatProperties
      <4>5. flatten[k] \o s[k + 1] \in R[k + 1]
        BY <2>4, <3>1, <4>1
      <4>6. flatten[k + 1] \in R[k + 1] \cap Seq(A) /\ k + 1 \in Nat
        BY <3>1, <4>3, <4>4, <4>5
      <4> QED
        BY <4>6
    <3> QED
      BY <3>2, <3>3
  <2>5. T \in SUBSET Nat
    OBVIOUS
  <2> HIDE DEF T
  <2>6. Len(s) \in T
    BY <1>2, <2>3, <2>4, <2>5, NumbersUpTo
  <2> QED
    BY <1>1, <1>2, <1>4, <2>6 DEF T
<1> QED
  BY <1>3, <1>4

\* If only one of the sequences, of one element at most, has v, v is there once.
LEMMA FlatHasOnce ==
    ASSUME NEW s \in Seq(Seq(CallNames)), NEW v \in CallNames,
           \A i \in 1 .. Len(s) : s[i] # <<>> => s[i] = <<s[i][1]>>,
           \A i, j \in 1 .. Len(s) : s[i] = <<v>> /\ s[j] = <<v>> => i = j
    PROVE  /\ FlattenSeq(s) \in Seq(CallNames)
           /\ \A p, q \in 1 .. Len(FlattenSeq(s)) :
                FlattenSeq(s)[p] = v /\ FlattenSeq(s)[q] = v => p = q
           /\ \A p \in 1 .. Len(FlattenSeq(s)) :
                FlattenSeq(s)[p] = v => \E i \in 1 .. Len(s) : s[i] = <<v>>
<1> DEFINE Once(r) == \A p, q \in 1 .. Len(r) : r[p] = v /\ r[q] = v => p = q
           From(r, k) == \A p \in 1 .. Len(r) : r[p] = v => \E i \in 1 .. k : s[i] = <<v>>
           R == [k \in Nat |-> {r \in Seq(CallNames) : Once(r) /\ From(r, k)}]
<1>1. Len(s) \in Nat /\ \A i \in 1 .. Len(s) : s[i] \in Seq(CallNames)
  BY LenProperties, ElementOfSeq
<1>2. <<>> \in R[0]
  <2>1. <<>> \in Seq(CallNames) /\ 1 .. Len(<<>>) = {}
    BY EmptySeq
  <2> QED
    BY <2>1
<1>3. ASSUME NEW k \in Nat, k < Len(s), NEW r \in R[k] \cap Seq(CallNames)
      PROVE  r \o s[k + 1] \in R[k + 1]
  <2>1. r \in Seq(CallNames) /\ Len(r) \in Nat /\ Once(r) /\ From(r, k)
    BY LenProperties
  <2>2. k + 1 \in 1 .. Len(s) /\ s[k + 1] \in Seq(CallNames)
    BY <1>1, <1>3
  <2>3. CASE s[k + 1] = <<>>
    <3>1. r \o s[k + 1] = r
      BY <2>1, <2>3, ConcatEmptySeq
    <3>2. From(r, k + 1)
      <4> SUFFICES ASSUME NEW p \in 1 .. Len(r), r[p] = v
                   PROVE  \E i \in 1 .. k + 1 : s[i] = <<v>>
        OBVIOUS
      <4>1. PICK i \in 1 .. k : s[i] = <<v>>
        BY <2>1
      <4>2. i \in 1 .. k + 1
        OBVIOUS
      <4> QED
        BY <4>1, <4>2
    <3> HIDE DEF From, Once
    <3>3. r \in {u \in Seq(CallNames) : Once(u) /\ From(u, k + 1)} /\ k + 1 \in Nat
      BY <2>1, <3>2
    <3> QED
      BY <3>1, <3>3
  <2>4. CASE s[k + 1] # <<>>
    <3> DEFINE e == s[k + 1][1]
               t == r \o s[k + 1]
    <3>1. s[k + 1] = <<e>> /\ Len(s[k + 1]) = 1 /\ s[k + 1][1] = e
      <4>1. s[k + 1] = <<e>>
        BY <2>2, <2>4
      <4> HIDE DEF e
      <4>2. Len(<<e>>) = 1
        OBVIOUS
      <4> QED
        BY <4>1, <4>2 DEF e
    <3> HIDE DEF e
    <3>2. /\ t \in Seq(CallNames) /\ Len(t) = Len(r) + Len(s[k + 1])
          /\ \A p \in 1 .. Len(r) + Len(s[k + 1]) :
                t[p] = IF p <= Len(r) THEN r[p] ELSE s[k + 1][p - Len(r)]
      BY <2>1, <2>2, ConcatProperties
    <3> HIDE DEF t
    <3>3. /\ t \in Seq(CallNames) /\ Len(t) = Len(r) + 1 /\ t[Len(r) + 1] = e
          /\ \A p \in 1 .. Len(r) : t[p] = r[p]
      <4>1. Len(r) + 1 \in 1 .. Len(r) + 1 /\ ~(Len(r) + 1 <= Len(r)) /\ (Len(r) + 1) - Len(r) = 1
        BY <2>1
      <4> QED
        BY <2>1, <3>1, <3>2, <4>1
    <3>4. ASSUME e = v, NEW p \in 1 .. Len(r), r[p] = v PROVE FALSE
      <4>1. PICK i \in 1 .. k : s[i] = <<v>>
        BY <2>1, <3>4
      <4>2. i \in 1 .. Len(s)
        BY <1>1, <1>3
      <4>4. s[k + 1] = <<v>>
        BY <3>1, <3>4
      <4>3. i = k + 1
        BY <2>2, <4>1, <4>2, <4>4
      <4> QED
        BY <4>3
    <3>5. From(t, k + 1)
      <4> SUFFICES ASSUME NEW p \in 1 .. Len(t), t[p] = v
                   PROVE  \E i \in 1 .. k + 1 : s[i] = <<v>>
        OBVIOUS
      <4>1. CASE p \in 1 .. Len(r)
        <5>1. \E i \in 1 .. k : s[i] = <<v>>
          BY <2>1, <3>3, <4>1
        <5> QED
          BY <5>1
      <4>2. CASE p \notin 1 .. Len(r)
        <5>1. p = Len(r) + 1
          BY <2>1, <3>3, <4>2
        <5>2. s[k + 1] = <<v>>
          BY <3>1, <3>3, <5>1
        <5>3. k + 1 \in 1 .. k + 1
          OBVIOUS
        <5> QED
          BY <5>2, <5>3
      <4> QED
        BY <4>1, <4>2
    <3>6. Once(t)
      <4> SUFFICES ASSUME NEW p \in 1 .. Len(t), NEW q \in 1 .. Len(t), t[p] = v, t[q] = v
                   PROVE  p = q
        OBVIOUS
      <4>1. (p \in 1 .. Len(r) \/ p = Len(r) + 1) /\ (q \in 1 .. Len(r) \/ q = Len(r) + 1)
        BY <2>1, <3>3
      <4>2. CASE p \in 1 .. Len(r) /\ q \in 1 .. Len(r)
        BY <2>1, <3>3, <4>2
      <4>3. CASE p \in 1 .. Len(r) /\ q = Len(r) + 1
        BY <3>3, <3>4, <4>3
      <4>4. CASE p = Len(r) + 1 /\ q \in 1 .. Len(r)
        BY <3>3, <3>4, <4>4
      <4> QED
        BY <4>1, <4>2, <4>3, <4>4
    <3> HIDE DEF From, Once
    <3>7. t \in {u \in Seq(CallNames) : Once(u) /\ From(u, k + 1)} /\ k + 1 \in Nat
      BY <3>3, <3>5, <3>6
    <3> QED
      BY <3>7 DEF t
  <2> QED
    BY <2>3, <2>4
<1> HIDE DEF R
<1>4. FlattenSeq(s) \in R[Len(s)] \cap Seq(CallNames)
  BY <1>2, <1>3, Flat
<1> QED
  BY <1>1, <1>4 DEF R

-----------------------------------------------------------------------------
(* The inductive invariants.                                               *)

Names == {"onOpen", "onConnecting", "onConnect", "onConnectFail", "onDisconnect",
          "onSystemMessage"}
Events == [name : Names, seen : Nat]
Statuses == {"none", "disconnected", "connecting", "connected"}

Types ==
    /\ at \in {"loading", "loaded", "leaving", "left"}
    /\ count \in Int /\ count <= Len(events) /\ -1 <= count
    /\ (at \in {"loaded", "leaving"} => count >= 0)
    /\ belief \in Statuses /\ world \in Statuses
    /\ events \in Seq(Events)
    /\ made \in Seq(CallNames) /\ handled \in Seq(1 .. Len(made))
    /\ orphans \in SUBSET (1 .. Len(made)) /\ answered \in BOOLEAN

\* What was handled, and what may still be, comes before the call under way
BeforeAjax ==
    /\ answered => calls.ajax # 0
    /\ \A id \in orphans : (calls.ajax # 0 => id < calls.ajax)
                           /\ \A i \in DOMAIN handled : handled[i] # id
    /\ calls.ajax # 0 =>
         \A i \in DOMAIN handled : handled[i] < calls.ajax \/ (answered /\ handled[i] = calls.ajax)

QueueInv ==
    /\ Orderly(calls, Len(made))
    /\ orphans \subseteq broken
    /\ BeforeAjax
    /\ CallsInOrder

\* An event that says something of the world's status
Says(e) == e.name # "onSystemMessage"

\* What a page that believes b knows after the events of s from first to last
Told(st, b, s, from, to) ==
    \/ st = b /\ \A i \in from .. to : ~Says(s[i])
    \/ \E i \in from .. to :
          /\ Says(s[i]) /\ st = StatusAfter("none", s[i])
          /\ \A j \in i + 1 .. to : ~Says(s[j])
Knows(st, b, s, n) == n >= 0 => Told(st, b, s, n + 1, Len(s))
WillKnow(st) == Knows(st, belief, events, count)

\* The world is opened once, connected to once, by the first page that hears of it
ConnectedOnce ==
    /\ \A i, j \in DOMAIN events : events[i].name = "onOpen" /\ events[j].name = "onOpen" => i = j
    /\ world = "none" => \A i \in DOMAIN events : events[i].name # "onOpen"
    /\ \A i, j \in DOMAIN made : made[i] = "connect" /\ made[j] = "connect" => i = j
    /\ (\E i \in DOMAIN made : made[i] = "connect") =>
         \E i \in DOMAIN events : events[i].name = "onOpen" /\ events[i].seen > 0
    /\ (\A i \in DOMAIN handled : made[handled[i]] # "connect") =>
         thread = "none" /\ world \in {"none", "disconnected"}

\* What the page knows, or will when it has been told all there is
StatusKnown ==
    /\ thread \in {"none", "resolve", "tries", "failed", "up"}
    /\ thread \in {"resolve", "tries", "failed"} => world = "connecting"
    /\ ~raced =>
         /\ thread = "up" => world = "connected"
         /\ thread = "failed" => WillKnow("disconnected")
         /\ thread \in {"none", "resolve", "tries"} => WillKnow(world)

(* What a page knows of its world.                                         *)

LEMMA StatusType ==
    \A st \in Statuses, e \in Events : StatusAfter(st, e) \in Statuses
BY DEF StatusAfter, Statuses, Events

LEMMA StatusAfterIs ==
    ASSUME NEW st, NEW e \in Events
    PROVE  StatusAfter(st, e) = IF Says(e) THEN StatusAfter("none", e) ELSE st
<1>1. e.name \in Names
  BY DEF Events
<1> QED
  BY <1>1 DEF StatusAfter, Says, Names

\* What statuses a sequence of events leads to: R[k] is the status after k of them.
LEMMA StatusFold ==
    ASSUME NEW b \in Statuses, NEW s \in Seq(Events), NEW R, b \in R[0],
           \A k \in Nat : k < Len(s) =>
              \A st \in R[k] \cap Statuses : StatusAfter(st, s[k + 1]) \in R[k + 1]
    PROVE  FoldLeft(StatusAfter, b, s) \in R[Len(s)] \cap Statuses
<1> DEFINE Iter(g) == g = [t \in SUBSET DOMAIN s |->
                             IF t = {} THEN b ELSE StatusAfter(g[t \ {Max(t)}], s[Max(t)])]
           iter == CHOOSE g : Iter(g)
<1>1. FoldLeft(StatusAfter, b, s) = iter[DOMAIN s]
  BY DEF FoldLeft, MapThenFoldSet
<1>2. Len(s) \in Nat /\ DOMAIN s = 1 .. Len(s) /\ \A i \in 1 .. Len(s) : s[i] \in Events
  BY LenProperties, ElementOfSeq
<1>3. Iter(iter)
  <2> DEFINE F == [p \in Statuses \X Events |-> StatusAfter(p[1], p[2])]
  <2>1. /\ F \in [Statuses \X Events -> Statuses]
        /\ \A r \in Statuses, e \in Events : F[r, e] = StatusAfter(r, e)
    BY StatusType
  <2> HIDE DEF F
  <2>2. PICK g \in [SUBSET (1 .. Len(s)) -> Statuses] : IsFold(g, F, b, s, Len(s))
    BY <2>1, FoldIsThere
  <2>3. ASSUME NEW t \in SUBSET (1 .. Len(s)), t # {}
        PROVE  F[g[t \ {Max(t)}], s[Max(t)]] = StatusAfter(g[t \ {Max(t)}], s[Max(t)])
    <3>1. Max(t) \in 1 .. Len(s)
      BY <1>2, <2>3, MaxIsIn
    <3>2. t \ {Max(t)} \in SUBSET (1 .. Len(s))
      OBVIOUS
    <3>3. g[t \ {Max(t)}] \in Statuses /\ s[Max(t)] \in Events
      BY <1>2, <2>2, <3>1, <3>2
    <3> QED
      BY <2>1, <3>3
  <2>4. Iter(g)
    BY <1>2, <2>2, <2>3 DEF IsFold
  <2> QED
    BY <2>4
<1>4. \A t \in SUBSET (1 .. Len(s)) :
        iter[t] = IF t = {} THEN b ELSE StatusAfter(iter[t \ {Max(t)}], s[Max(t)])
  BY <1>2, <1>3
<1> HIDE DEF iter
<1> DEFINE T == {k \in Nat : k <= Len(s) => iter[1 .. k] \in R[k] \cap Statuses}
<1>5. 0 \in T
  <2>1. 1 .. 0 = {}
    OBVIOUS
  <2>2. iter[1 .. 0] = b
    BY <1>4, <2>1
  <2> QED
    BY <2>2
<1>6. ASSUME NEW k \in T, k < Len(s) PROVE k + 1 \in T
  <2>1. k \in Nat /\ iter[1 .. k] \in R[k] \cap Statuses
    BY <1>2, <1>6
  <2>2. Max(1 .. k + 1) = k + 1
    BY <2>1, LastIsMax
  <2>3. ((1 .. k + 1) \ {k + 1}) = 1 .. k /\ k + 1 \in 1 .. k + 1
        /\ (1 .. k + 1) \in SUBSET (1 .. Len(s))
    BY <1>2, <1>6, <2>1
  <2>4. iter[1 .. k + 1] = StatusAfter(iter[1 .. k], s[k + 1])
    BY <1>4, <2>2, <2>3
  <2>5. s[k + 1] \in Events
    BY <1>2, <1>6, <2>1
  <2>6. iter[1 .. k + 1] \in R[k + 1] \cap Statuses
    BY <1>6, <2>1, <2>4, <2>5, StatusType
  <2> QED
    BY <2>1, <2>6
<1>7. T \in SUBSET Nat
  OBVIOUS
<1> HIDE DEF T
<1>8. Len(s) \in T
  BY <1>2, <1>5, <1>6, <1>7, NumbersUpTo
<1> QED
  BY <1>1, <1>2, <1>8 DEF T

\* The last event that says something of the status tells it.
LEMMA StatusIsTold ==
    ASSUME NEW b \in Statuses, NEW s \in Seq(Events)
    PROVE  /\ FoldLeft(StatusAfter, b, s) \in Statuses
           /\ Told(FoldLeft(StatusAfter, b, s), b, s, 1, Len(s))
<1> DEFINE R == [k \in Nat |-> {st \in Statuses : Told(st, b, s, 1, k)}]
<1>1. b \in R[0]
  BY DEF Told
<1>2. ASSUME NEW k \in Nat, k < Len(s), NEW st \in R[k] \cap Statuses
      PROVE  StatusAfter(st, s[k + 1]) \in R[k + 1]
  <2>1. k + 1 \in Nat /\ Told(st, b, s, 1, k) /\ s[k + 1] \in Events /\ st \in Statuses
    BY <1>2, LenProperties, ElementOfSeq
  <2>2. StatusAfter(st, s[k + 1]) \in Statuses
    BY <2>1, StatusType
  <2>3. CASE Says(s[k + 1])
    <3>1. StatusAfter(st, s[k + 1]) = StatusAfter("none", s[k + 1])
      BY <2>1, <2>3, StatusAfterIs
    <3>2. k + 1 \in 1 .. k + 1 /\ ((k + 1) + 1 .. k + 1) = {}
      BY <2>1
    <3>3. Told(StatusAfter(st, s[k + 1]), b, s, 1, k + 1)
      BY <2>3, <3>1, <3>2, Zenon DEF Told
    <3> QED
      BY <2>1, <2>2, <3>3
  <2>4. CASE ~Says(s[k + 1])
    <3>1. StatusAfter(st, s[k + 1]) = st
      BY <2>1, <2>4, StatusAfterIs
    <3>2. \A i \in 1 .. k + 1 : i \in 1 .. k \/ i = k + 1
      BY <2>1
    <3>3. CASE st = b /\ \A i \in 1 .. k : ~Says(s[i])
      <4>1. \A i \in 1 .. k + 1 : ~Says(s[i])
        BY <2>4, <3>2, <3>3
      <4>2. Told(st, b, s, 1, k + 1)
        BY <3>3, <4>1 DEF Told
      <4> QED
        BY <2>1, <3>1, <4>2
    <3>4. CASE \E i \in 1 .. k : /\ Says(s[i]) /\ st = StatusAfter("none", s[i])
                                 /\ \A j \in i + 1 .. k : ~Says(s[j])
      <4>1. PICK i \in 1 .. k : /\ Says(s[i]) /\ st = StatusAfter("none", s[i])
                                /\ \A j \in i + 1 .. k : ~Says(s[j])
        BY <3>4
      <4>2. i \in 1 .. k + 1 /\ \A j \in i + 1 .. k + 1 : j \in i + 1 .. k \/ j = k + 1
        BY <2>1
      <4>3. \A j \in i + 1 .. k + 1 : ~Says(s[j])
        BY <2>4, <4>1, <4>2
      <4>4. Told(st, b, s, 1, k + 1)
        BY <4>1, <4>2, <4>3 DEF Told
      <4> QED
        BY <2>1, <3>1, <4>4
    <3> QED
      BY <2>1, <3>3, <3>4 DEF Told
  <2> QED
    BY <2>3, <2>4
<1> HIDE DEF R
<1>3. FoldLeft(StatusAfter, b, s) \in R[Len(s)] \cap Statuses
  BY <1>1, <1>2, StatusFold
<1>4. Len(s) \in Nat
  BY LenProperties
<1> QED
  BY <1>3, <1>4 DEF R

LEMMA ToldOnce ==
    ASSUME NEW b, NEW s, NEW from \in Int, NEW to \in Int, NEW st, NEW other,
           Told(st, b, s, from, to), Told(other, b, s, from, to)
    PROVE  st = other
<1>1. CASE \A i \in from .. to : ~Says(s[i])
  BY <1>1 DEF Told
<1>2. CASE \E i \in from .. to : Says(s[i])
  <2>1. PICK i \in from .. to : /\ Says(s[i]) /\ st = StatusAfter("none", s[i])
                                /\ \A j \in i + 1 .. to : ~Says(s[j])
    BY <1>2 DEF Told
  <2>2. PICK k \in from .. to : /\ Says(s[k]) /\ other = StatusAfter("none", s[k])
                                /\ \A j \in k + 1 .. to : ~Says(s[j])
    BY <1>2 DEF Told
  <2>3. ~(i < k) /\ ~(k < i)
    <3>1. (i < k => k \in i + 1 .. to) /\ (k < i => i \in k + 1 .. to)
      OBVIOUS
    <3> QED
      BY <2>1, <2>2, <3>1
  <2>4. i = k
    BY <2>3
  <2> QED
    BY <2>1, <2>2, <2>4
<1> QED
  BY <1>1, <1>2

-----------------------------------------------------------------------------
(* Events and calls that are added.                                        *)

\* One event more.
Adds(name) ==
    /\ events' \in Seq(Events) /\ Len(events') = Len(events) + 1
    /\ events'[Len(events) + 1] = [name |-> name, seen |-> 0]
    /\ \A i \in 1 .. Len(events) : events'[i] = events[i]

LEMMA QueueAdds ==
    ASSUME Types, NEW name \in Names, Queue(<<name>>)
    PROVE  Adds(name)
<1> DEFINE e == [name |-> name, seen |-> 0]
           t == [i \in DOMAIN <<name>> |-> [name |-> <<name>>[i], seen |-> 0]]
<1>1. events \in Seq(Events) /\ Len(events) \in Nat
  BY LenProperties DEF Types
<1>2. e \in Events
  BY DEF Events
<1>3. DOMAIN <<name>> = 1 .. 1 /\ \A i \in 1 .. 1 : i = 1
  OBVIOUS
<1>4. t \in [1 .. 1 -> Events] /\ t[1] = e
  BY <1>2, <1>3
<1>5. events' = events \o t
  BY DEF Queue
<1> HIDE DEF t, e
<1>6. t \in Seq(Events) /\ Len(t) = 1
  BY <1>4, ListIs
<1>7. /\ events' \in Seq(Events) /\ Len(events') = Len(events) + 1
      /\ \A i \in 1 .. Len(events) + 1 :
            events'[i] = IF i <= Len(events) THEN events[i] ELSE t[i - Len(events)]
  <2>1. PICK u : u = events \o t
    OBVIOUS
  <2>2. /\ u \in Seq(Events) /\ Len(u) = Len(events) + Len(t)
        /\ \A i \in 1 .. Len(events) + Len(t) :
              u[i] = IF i <= Len(events) THEN events[i] ELSE t[i - Len(events)]
    BY <1>1, <1>6, <2>1, ConcatProperties
  <2> QED
    BY <1>5, <1>6, <2>1, <2>2
<1>8. events'[Len(events) + 1] = e /\ \A i \in 1 .. Len(events) : events'[i] = events[i]
  <2>1. Len(events) + 1 \in 1 .. Len(events) + 1 /\ ~(Len(events) + 1 <= Len(events))
        /\ (Len(events) + 1) - Len(events) = 1
    BY <1>1
  <2> QED
    BY <1>1, <1>4, <1>7, <2>1
<1> QED
  BY <1>7, <1>8 DEF Adds, e

\* What the handler of a call does.
LEMMA DoesOne ==
    ASSUME Types, NEW op, Does(op)
    PROVE  \/ op = "open" /\ world = "none" /\ Adds("onOpen")
              /\ world' = "disconnected" /\ thread' = thread
           \/ op = "connect" /\ world = "disconnected" /\ Adds("onConnecting")
              /\ world' = "connecting" /\ thread' = "resolve"
           \/ op = "connect" /\ world \in {"connecting", "connected"} /\ Adds("onConnectFail")
              /\ world' = world /\ thread' = thread
           \/ (op # "connect" \/ world = "none") /\ Adds("onSystemMessage")
              /\ world' = world /\ thread' = thread
           \/ op # "connect" /\ events' = events /\ world' = world /\ thread' = thread
<1>1. \A name \in Names : Queue(<<name>>) => Adds(name)
  BY QueueAdds
<1>2. {"onOpen", "onConnecting", "onConnectFail", "onSystemMessage"} \subseteq Names
  BY DEF Names
<1>3. world \in Statuses
  BY DEF Types
<1> HIDE DEF Types
<1> QED
  BY <1>1, <1>2, <1>3 DEF Does, Statuses

-----------------------------------------------------------------------------
(* The calls that an update makes.                                         *)

LEMMA ConcatIs ==
    ASSUME NEW A, NEW s \in Seq(A), NEW t \in Seq(A), NEW u, u = s \o t
    PROVE  /\ u \in Seq(A) /\ Len(u) = Len(s) + Len(t) /\ Len(s) \in Nat /\ Len(t) \in Nat
           /\ \A i \in 1 .. Len(s) : i \in 1 .. Len(u) /\ u[i] = s[i]
           /\ \A i \in 1 .. Len(u) : i \notin 1 .. Len(s) =>
                 i - Len(s) \in 1 .. Len(t) /\ u[i] = t[i - Len(s)]
<1>1. Len(s) \in Nat /\ Len(t) \in Nat
  BY LenProperties
<1>2. /\ u \in Seq(A) /\ Len(u) = Len(s) + Len(t)
      /\ \A i \in 1 .. Len(s) + Len(t) : u[i] = IF i <= Len(s) THEN s[i] ELSE t[i - Len(s)]
  BY ConcatProperties
<1>3. \A i \in 1 .. Len(s) : i \in 1 .. Len(s) + Len(t) /\ i <= Len(s)
  BY <1>1
<1>4. \A i \in 1 .. Len(s) + Len(t) : i \notin 1 .. Len(s) =>
         i - Len(s) \in 1 .. Len(t) /\ ~(i <= Len(s))
  BY <1>1
<1> QED
  BY <1>1, <1>2, <1>3, <1>4

LEMMA DumpedIs ==
    ASSUME Types
    PROVE  /\ Dumped \in Seq(Events) /\ Len(Dumped) = Len(events) /\ Len(events) \in Nat
           /\ \A i \in 1 .. Len(events) :
                /\ Dumped[i].name = events[i].name
                /\ Dumped[i].seen = IF count >= 0 /\ i > count THEN events[i].seen + 1
                                    ELSE events[i].seen
<1>1. /\ Len(events) \in Nat /\ DOMAIN events = 1 .. Len(events)
      /\ \A i \in 1 .. Len(events) : events[i] \in Events
  BY LenProperties, ElementOfSeq DEF Types
<1>2. \A i \in 1 .. Len(events) :
        /\ Dumped[i] = IF count >= 0 /\ i > count THEN [events[i] EXCEPT !.seen = @ + 1]
                       ELSE events[i]
        /\ events[i].seen \in Nat /\ events[i].name \in Names
        /\ events[i] = [name |-> events[i].name, seen |-> events[i].seen]
  BY <1>1 DEF Dumped, Events
<1>3. \A i \in 1 .. Len(events) :
        /\ Dumped[i] \in Events /\ Dumped[i].name = events[i].name
        /\ Dumped[i].seen = IF count >= 0 /\ i > count THEN events[i].seen + 1
                            ELSE events[i].seen
  <2> TAKE i \in 1 .. Len(events)
  <2>1. CASE count >= 0 /\ i > count
    <3>1. PICK e : e = events[i]
      OBVIOUS
    <3>2. /\ Dumped[i] = [e EXCEPT !.seen = e.seen + 1] /\ e = [name |-> e.name, seen |-> e.seen]
          /\ e.seen \in Nat /\ e.name \in Names
      BY <1>2, <2>1, <3>1
    <3>3. e.seen + 1 \in Nat
      BY <3>2
    <3>4. Dumped[i] = [name |-> e.name, seen |-> e.seen + 1]
      BY <3>2
    <3> QED
      BY <2>1, <3>1, <3>2, <3>3, <3>4 DEF Events
  <2>2. CASE ~(count >= 0 /\ i > count)
    BY <1>1, <1>2, <2>2
  <2> QED
    BY <2>1, <2>2
<1>4. Dumped \in [1 .. Len(events) -> Events]
  <2>1. Dumped = [i \in 1 .. Len(events) |-> Dumped[i]]
    BY <1>1 DEF Dumped
  <2> QED
    BY <1>3, <2>1
<1>5. Dumped \in Seq(Events) /\ Len(Dumped) = Len(events)
  BY <1>1, <1>4, ListIs
<1> QED
  BY <1>1, <1>3, <1>5

LEMMA NewsIs ==
    ASSUME Types
    PROVE  /\ News \in Seq(Events) /\ Len(News) \in Nat
           /\ count < 0 => Len(News) = 0
           /\ count >= 0 => /\ Len(News) = Len(events) - count
                            /\ \A i \in 1 .. Len(News) : count + i \in 1 .. Len(events)
                                                         /\ News[i] = Dumped[count + i]
<1>1. count \in Int /\ count <= Len(events) /\ Len(events) \in Nat
  BY DumpedIs DEF Types
<1>2. CASE count < 0
  <2>1. News = <<>>
    BY <1>2 DEF News
  <2> QED
    BY <1>1, <1>2, <2>1, EmptySeq
<1>3. CASE count >= 0
  <2>1. News = SubSeq(Dumped, count + 1, Len(events))
    BY <1>1, <1>3 DEF News
  <2>2. \A i \in count + 1 .. Len(events) : Dumped[i] \in Events
    <3>1. \A i \in count + 1 .. Len(events) : i \in 1 .. Len(Dumped)
      BY <1>1, <1>3, DumpedIs
    <3> QED
      BY <3>1, DumpedIs, ElementOfSeq
  <2>3. count + 1 \in Int /\ Len(events) \in Int
    BY <1>1
  <2>4. /\ News \in Seq(Events)
        /\ Len(News) = IF count + 1 <= Len(events) THEN Len(events) - (count + 1) + 1 ELSE 0
        /\ \A i \in 1 .. Len(events) - (count + 1) + 1 : News[i] = Dumped[(count + 1) + i - 1]
    BY <2>1, <2>2, <2>3, SubSeqProperties
  <2>5. Len(News) = Len(events) - count /\ Len(events) - (count + 1) + 1 = Len(events) - count
    BY <1>1, <1>3, <2>4
  <2>6. \A i \in 1 .. Len(News) : count + i \in 1 .. Len(events) /\ (count + 1) + i - 1 = count + i
    BY <1>1, <1>3, <2>5
  <2> QED
    BY <1>1, <1>3, <2>4, <2>5, <2>6
<1> QED
  BY <1>1, <1>2, <1>3

\* The calls made on an update
Ops == FlattenSeq([i \in DOMAIN News |-> OnEvent(News[i])])
          \o (IF first THEN OnFirstSuccess(Len(events)) \o OnReady ELSE <<>>)

\* They connect only after the first word of an onOpen, and once.
LEMMA OpsAre ==
    ASSUME Types, ConnectedOnce
    PROVE  /\ Ops \in Seq(CallNames)
           /\ \A p, q \in 1 .. Len(Ops) : Ops[p] = "connect" /\ Ops[q] = "connect" => p = q
           /\ \A p \in 1 .. Len(Ops) : Ops[p] = "connect" =>
                \E i \in 1 .. Len(events) : /\ events[i].name = "onOpen" /\ events[i].seen = 0
                                            /\ count >= 0 /\ i > count
<1> DEFINE calls_of == [i \in DOMAIN News |-> OnEvent(News[i])]
           f == FlattenSeq(calls_of)
           rest == IF first THEN OnFirstSuccess(Len(events)) \o OnReady ELSE <<>>
<1>1. \A e \in Events : /\ OnEvent(e) \in Seq(CallNames)
                        /\ OnEvent(e) # <<>> => OnEvent(e) = <<OnEvent(e)[1]>>
                        /\ OnEvent(e) = <<"connect">> => e.name = "onOpen" /\ e.seen = 1
  <2> TAKE e \in Events
  <2>1. /\ OnEvent(e) \in {<<"connect">>, <<"autosend">>, <<>>}
        /\ ~(e.name = "onOpen" /\ e.seen = 1) => OnEvent(e) \in {<<"autosend">>, <<>>}
    BY DEF OnEvent
  <2>2. \A a \in CallNames : <<a>> \in Seq(CallNames) /\ <<a>> = <<<<a>>[1]>> /\ <<a>>[1] = a
    <3> TAKE a \in CallNames
    <3>1. <<a>>[1] = a /\ <<a>> \in Seq(CallNames)
      OBVIOUS
    <3> QED
      BY <3>1
  <2>3. <<>> \in Seq(CallNames) /\ <<>> # <<"connect">> /\ <<"autosend">> # <<"connect">>
    <3>1. Len(<<"connect">>) = 1 /\ Len(<<>>) = 0
      OBVIOUS
    <3>2. <<"autosend">>[1] # <<"connect">>[1]
      OBVIOUS
    <3> QED
      BY <3>1, <3>2, EmptySeq
  <2>4. {"connect", "autosend"} \subseteq CallNames
    BY DEF CallNames
  <2>5. OnEvent(e) \in Seq(CallNames)
    BY <2>1, <2>2, <2>3, <2>4
  <2>6. OnEvent(e) # <<>> => OnEvent(e) = <<OnEvent(e)[1]>>
    BY <2>1, <2>2, <2>4
  <2>7. OnEvent(e) = <<"connect">> => e.name = "onOpen" /\ e.seen = 1
    BY <2>1, <2>3
  <2> QED
    BY <2>5, <2>6, <2>7
<1>2. /\ Len(News) \in Nat /\ DOMAIN News = 1 .. Len(News)
      /\ \A i \in 1 .. Len(News) : News[i] \in Events
  BY NewsIs, LenProperties, ElementOfSeq
<1>3. /\ calls_of \in Seq(Seq(CallNames)) /\ Len(calls_of) = Len(News)
      /\ \A i \in 1 .. Len(News) : calls_of[i] = OnEvent(News[i])
  <2>1. calls_of \in [1 .. Len(News) -> Seq(CallNames)]
    BY <1>1, <1>2
  <2> QED
    BY <1>2, <2>1, ListIs
<1>4. ASSUME NEW i \in 1 .. Len(News), calls_of[i] = <<"connect">>
      PROVE  /\ count >= 0 /\ count + i \in 1 .. Len(events)
             /\ events[count + i].name = "onOpen" /\ events[count + i].seen = 0
  <2>1. News[i].name = "onOpen" /\ News[i].seen = 1
    BY <1>1, <1>2, <1>3, <1>4
  <2>2. count >= 0
    <3>1. count \in Int /\ (count < 0 => Len(News) = 0)
      BY NewsIs DEF Types
    <3> QED
      BY <3>1
  <2>3. count + i \in 1 .. Len(events) /\ News[i] = Dumped[count + i] /\ count + i > count
    BY <2>2, NewsIs DEF Types
  <2>4. events[count + i].name = "onOpen" /\ events[count + i].seen + 1 = 1
    BY <2>1, <2>2, <2>3, DumpedIs
  <2>5. events[count + i].seen \in Nat
    <3>1. events[count + i] \in Events
      BY <2>3, ElementOfSeq DEF Types
    <3> QED
      BY <3>1 DEF Events
  <2> QED
    BY <2>2, <2>3, <2>4, <2>5
<1>5. ASSUME NEW i \in 1 .. Len(News), NEW j \in 1 .. Len(News),
             calls_of[i] = <<"connect">>, calls_of[j] = <<"connect">>
      PROVE  i = j
  <2>1. /\ count + i \in DOMAIN events /\ events[count + i].name = "onOpen"
        /\ count + j \in DOMAIN events /\ events[count + j].name = "onOpen"
    BY <1>4, <1>5, LenProperties DEF Types
  <2>2. count + i = count + j
    BY <2>1 DEF ConnectedOnce
  <2> QED
    BY <2>2 DEF Types
<1>6. /\ f \in Seq(CallNames)
      /\ \A p, q \in 1 .. Len(f) : f[p] = "connect" /\ f[q] = "connect" => p = q
      /\ \A p \in 1 .. Len(f) : f[p] = "connect" =>
            \E i \in 1 .. Len(calls_of) : calls_of[i] = <<"connect">>
  <2>1. \A i \in 1 .. Len(calls_of) : calls_of[i] # <<>> => calls_of[i] = <<calls_of[i][1]>>
    BY <1>1, <1>2, <1>3
  <2>2. \A i, j \in 1 .. Len(calls_of) :
          calls_of[i] = <<"connect">> /\ calls_of[j] = <<"connect">> => i = j
    BY <1>3, <1>5
  <2>3. calls_of \in Seq(Seq(CallNames)) /\ "connect" \in CallNames
    BY <1>3 DEF CallNames
  <2> HIDE DEF calls_of
  <2>4. /\ FlattenSeq(calls_of) \in Seq(CallNames)
        /\ \A p, q \in 1 .. Len(FlattenSeq(calls_of)) :
             FlattenSeq(calls_of)[p] = "connect" /\ FlattenSeq(calls_of)[q] = "connect" => p = q
        /\ \A p \in 1 .. Len(FlattenSeq(calls_of)) :
             FlattenSeq(calls_of)[p] = "connect" =>
                \E i \in 1 .. Len(calls_of) : calls_of[i] = <<"connect">>
    BY <2>1, <2>2, <2>3, FlatHasOnce, Zenon
  <2> QED
    BY <2>4
<1>7. rest \in Seq(CallNames) /\ Len(rest) \in Nat /\ \A p \in 1 .. Len(rest) : rest[p] # "connect"
  <2> DEFINE A == {"config", "reconfig", "header"}
  <2>1. rest \in Seq(A)
    <3>1. CASE first
      <4>1. <<"config">> \in Seq(A) /\ <<"reconfig">> \in Seq(A) /\ <<"header">> \in Seq(A)
        OBVIOUS
      <4>2. OnFirstSuccess(Len(events)) \in Seq(A) /\ OnReady \in Seq(A)
        BY <4>1 DEF OnFirstSuccess, OnReady
      <4>3. OnFirstSuccess(Len(events)) \o OnReady \in Seq(A)
        BY <4>2, ConcatProperties
      <4> QED
        BY <3>1, <4>3, Zenon
    <3>2. CASE ~first
      <4>1. <<>> \in Seq(A)
        BY EmptySeq
      <4> QED
        BY <3>2, <4>1, Zenon
    <3> QED
      BY <3>1, <3>2
  <2> HIDE DEF rest
  <2>2. Len(rest) \in Nat /\ \A p \in 1 .. Len(rest) : rest[p] \in A
    BY <2>1, LenProperties, ElementOfSeq
  <2>3. rest \in Seq(CallNames)
    <3>1. A \subseteq CallNames
      BY DEF CallNames
    <3> QED
      BY <2>1, <3>1, SeqMonotonic
  <2> QED
    BY <2>2, <2>3
<1>8. Ops = f \o rest
  BY DEF Ops
<1> HIDE DEF f, rest
<1>9. /\ Ops \in Seq(CallNames) /\ Len(f) \in Nat
      /\ \A i \in 1 .. Len(f) : Ops[i] = f[i]
      /\ \A i \in 1 .. Len(Ops) : i \notin 1 .. Len(f) =>
            i - Len(f) \in 1 .. Len(rest) /\ Ops[i] = rest[i - Len(f)]
  BY <1>6, <1>7, <1>8, ConcatIs
<1>10. \A p \in 1 .. Len(Ops) : Ops[p] = "connect" => p \in 1 .. Len(f) /\ f[p] = "connect"
  BY <1>7, <1>9
<1>11. ASSUME NEW p \in 1 .. Len(Ops), Ops[p] = "connect"
       PROVE  \E i \in 1 .. Len(events) : /\ events[i].name = "onOpen" /\ events[i].seen = 0
                                          /\ count >= 0 /\ i > count
  <2>1. PICK i \in 1 .. Len(calls_of) : calls_of[i] = <<"connect">>
    BY <1>6, <1>10, <1>11
  <2>2. /\ count >= 0 /\ count + i \in 1 .. Len(events)
        /\ events[count + i].name = "onOpen" /\ events[count + i].seen = 0
    BY <1>3, <1>4, <2>1
  <2>3. count + i > count
    BY <1>3 DEF Types
  <2> QED
    BY <2>2, <2>3
<1> QED
  BY <1>6, <1>9, <1>10, <1>11

-----------------------------------------------------------------------------
(* Types are kept.                                                         *)

LEMMA Grows ==
    ASSUME Types, NEW ops \in Seq(CallNames), made' = made \o ops
    PROVE  /\ made' \in Seq(CallNames) /\ Len(made') = Len(made) + Len(ops)
           /\ Len(made) \in Nat /\ Len(ops) \in Nat /\ 1 .. Len(made) \subseteq 1 .. Len(made')
           /\ \A i \in 1 .. Len(made) : made'[i] = made[i]
           /\ \A i \in 1 .. Len(made') : i \notin 1 .. Len(made) =>
                 i - Len(made) \in 1 .. Len(ops) /\ made'[i] = ops[i - Len(made)]
           /\ handled \in Seq(1 .. Len(made'))
<1>1. PICK m : m = made'
  OBVIOUS
<1>2. /\ m \in Seq(CallNames) /\ Len(m) = Len(made) + Len(ops)
      /\ Len(made) \in Nat /\ Len(ops) \in Nat
      /\ \A i \in 1 .. Len(made) : i \in 1 .. Len(m) /\ m[i] = made[i]
      /\ \A i \in 1 .. Len(m) : i \notin 1 .. Len(made) =>
            i - Len(made) \in 1 .. Len(ops) /\ m[i] = ops[i - Len(made)]
  <2>1. made \in Seq(CallNames) /\ m = made \o ops
    BY <1>1 DEF Types
  <2> QED
    BY <2>1, ConcatIs
<1>3. 1 .. Len(made) \subseteq 1 .. Len(m)
  BY <1>2
<1>4. handled \in Seq(1 .. Len(m))
  <2>1. handled \in Seq(1 .. Len(made))
    BY DEF Types
  <2> QED
    BY <1>3, <2>1, SeqMonotonic
<1> QED
  BY <1>1, <1>2, <1>3, <1>4

\* The calls on top of those of OnSuccessOf
LEMMA SuccessIs ==
    \A op : /\ OnSuccessOf(op) \in Seq(CallNames)
            /\ \A p \in 1 .. Len(OnSuccessOf(op)) : OnSuccessOf(op)[p] # "connect"
<1> TAKE op
<1>1. OnSuccessOf(op) \in {<<"open">>, <<"send">>, <<>>}
  BY DEF OnSuccessOf
<1>2. \A a \in {"open", "send"} :
        <<a>> \in Seq({"open", "send"}) /\ <<a>>[1] = a /\ Len(<<a>>) = 1
  <2> TAKE a \in {"open", "send"}
  <2> QED
    OBVIOUS
<1>3. <<>> \in Seq({"open", "send"})
  BY EmptySeq
<1>4. OnSuccessOf(op) \in Seq({"open", "send"})
  BY <1>1, <1>2, <1>3
<1>5. {"open", "send"} \subseteq CallNames
  BY DEF CallNames
<1>6. OnSuccessOf(op) \in Seq(CallNames)
  BY <1>4, <1>5, SeqMonotonic
<1>7. \A p \in 1 .. Len(OnSuccessOf(op)) : OnSuccessOf(op)[p] \in {"open", "send"}
  BY <1>4, ElementOfSeq
<1> QED
  BY <1>6, <1>7

LEMMA TypesNext ==
    ASSUME Types, ConnectedOnce, calls \in Queues, calls.ajax <= Len(made), [Next]_vars
    PROVE  Types'
<1>1. /\ Len(events) \in Nat /\ Len(made) \in Nat /\ count \in Int /\ count <= Len(events)
      /\ DOMAIN made = 1 .. Len(made)
  BY LenProperties DEF Types
<1>2. calls.ajax \in Nat /\ (calls.ajax # 0 => calls.ajax \in 1 .. Len(made))
  BY <1>1 DEF Queues
<1>3. \A name : Adds(name) =>
        events' \in Seq(Events) /\ Len(events') = Len(events) + 1 /\ count <= Len(events')
  BY <1>1 DEF Adds
<1>4. {"none", "disconnected", "connecting", "connected"} = Statuses
  BY DEF Statuses
<1>5. ASSUME NEW id \in DOMAIN made, Handle(id) PROVE Types'
  <2>1. /\ UNCHANGED <<at, count, belief, made>> /\ Does(made[id])
        /\ handled' = Append(handled, id)
        /\ orphans' \in SUBSET (1 .. Len(made)) /\ answered' \in BOOLEAN
    BY <1>5 DEF Handle, Types
  <2>2. events' \in Seq(Events) /\ count <= Len(events') /\ world' \in Statuses
    <3>1. events \in Seq(Events) /\ world \in Statuses
      BY DEF Types
    <3> QED
      BY <1>1, <1>3, <1>4, <2>1, <3>1, DoesOne
  <2>3. handled' \in Seq(1 .. Len(made))
    <3>1. handled \in Seq(1 .. Len(made)) /\ id \in 1 .. Len(made)
      BY <1>1 DEF Types
    <3> QED
      BY <2>1, <3>1, AppendProperties
  <2> QED
    BY <2>1, <2>2, <2>3 DEF Types
<1>6. ASSUME ThreadStep PROVE Types'
  <2>1. UNCHANGED <<at, count, belief, made, handled, orphans, answered>>
    BY <1>6 DEF ThreadStep, pageVars
  <2>2. world' \in Statuses
    BY <1>4, <1>6 DEF ThreadStep, Types
  <2>3. events' = events \/ \E name \in Names : Queue(<<name>>)
    BY <1>6 DEF ThreadStep, Names
  <2>4. events' \in Seq(Events) /\ count <= Len(events')
    <3>1. CASE events' = events
      BY <1>1, <3>1 DEF Types
    <3>2. CASE \E name \in Names : Queue(<<name>>)
      BY <1>3, <3>2, QueueAdds
    <3> QED
      BY <2>3, <3>1, <3>2
  <2> QED
    BY <2>1, <2>2, <2>4 DEF Types
<1>7. ASSUME NetRead PROVE Types'
  <2>1. UNCHANGED <<at, count, belief, made, handled, orphans, answered>>
        /\ world' = "disconnected" /\ Queue(<<"onDisconnect">>) /\ "onDisconnect" \in Names
    BY <1>7 DEF NetRead, pageVars, Names
  <2>2. events' \in Seq(Events) /\ count <= Len(events') /\ world' \in Statuses
    BY <1>3, <1>4, <2>1, QueueAdds
  <2> QED
    BY <2>1, <2>2 DEF Types
<1>8. ASSUME Update PROVE Types'
  <2>1. /\ events' = Dumped /\ count' = Len(events) /\ belief' = Status
        /\ made' = made \o Ops /\ at' \in {"leaving", "loaded"}
        /\ UNCHANGED <<answered, orphans, world, handled>>
    BY <1>8 DEF Update, Make, Ops
  <2>2. /\ made' \in Seq(CallNames) /\ 1 .. Len(made) \subseteq 1 .. Len(made')
        /\ handled \in Seq(1 .. Len(made'))
    BY <2>1, OpsAre, Grows
  <2>3. events' \in Seq(Events) /\ count' \in Int /\ count' <= Len(events') /\ 0 <= count' /\ -1 <= count'
    BY <1>1, <2>1, DumpedIs
  <2>4. belief' \in Statuses
    <3>1. CASE count < 0
      BY <2>1, <3>1 DEF Status, Types
    <3>2. CASE ~(count < 0)
      <4>1. belief \in Statuses
        BY DEF Types
      <4> QED
        BY <2>1, <3>2, <4>1, NewsIs, StatusIsTold DEF Status
    <3> QED
      BY <3>1, <3>2
  <2> QED
    BY <2>1, <2>2, <2>3, <2>4 DEF Types
<1>9. ASSUME UpdateBreaks PROVE Types'
  <2>1. /\ events' = Dumped
        /\ UNCHANGED <<at, count, belief, answered, orphans, world, made, handled>>
    BY <1>9 DEF UpdateBreaks
  <2>2. events' \in Seq(Events) /\ count <= Len(events')
    BY <1>1, <2>1, DumpedIs
  <2> QED
    BY <2>1, <2>2 DEF Types
<1>10. ASSUME Complete PROVE Types'
  <2>1. /\ made' = made \o OnSuccessOf(made[calls.ajax]) /\ answered' = FALSE
        /\ UNCHANGED <<at, count, belief, orphans, events, world, handled>>
    BY <1>10 DEF Complete, worldVars
  <2>2. /\ made' \in Seq(CallNames) /\ 1 .. Len(made) \subseteq 1 .. Len(made')
        /\ handled \in Seq(1 .. Len(made'))
    BY <2>1, SuccessIs, Grows
  <2> QED
    BY <2>1, <2>2 DEF Types
<1>11. ASSUME CallBreaks PROVE Types'
  <2>1. /\ calls.ajax # 0 /\ answered' = FALSE
        /\ orphans' = orphans \/ orphans' = orphans \cup {calls.ajax}
        /\ UNCHANGED <<at, count, belief, events, world, made, handled>>
    BY <1>11 DEF CallBreaks, worldVars
  <2>2. orphans' \in SUBSET (1 .. Len(made))
    <3>1. calls.ajax \in 1 .. Len(made) /\ orphans \in SUBSET (1 .. Len(made))
      BY <1>2, <2>1 DEF Types
    <3>2. orphans \cup {calls.ajax} \in SUBSET (1 .. Len(made))
      BY <3>1
    <3> QED
      BY <2>1, <3>1, <3>2
  <2> QED
    BY <2>1, <2>2 DEF Types
<1>12. ASSUME Forget PROVE orphans' \in SUBSET (1 .. Len(made))
  BY <1>2, <1>12 DEF Forget, Types
<1>13. ASSUME Reload PROVE Types'
  <2>1. /\ at' = "loading" /\ count' = -1 /\ belief' = "none" /\ answered' = FALSE /\ Forget
        /\ UNCHANGED <<events, world, made, handled>>
    BY <1>13 DEF Reload, worldVars
  <2>2. orphans' \in SUBSET (1 .. Len(made)) /\ -1 \in Int /\ -1 <= Len(events)
    BY <1>1, <1>12, <2>1
  <2>3. count' \in Int /\ count' <= Len(events') /\ -1 <= count'
    BY <2>1, <2>2
  <2>4. /\ events' \in Seq(Events) /\ made' \in Seq(CallNames)
        /\ handled' \in Seq(1 .. Len(made')) /\ world' \in Statuses /\ belief' \in Statuses
        /\ at' \in {"loading", "loaded", "leaving", "left"} /\ at' \notin {"loaded", "leaving"}
    BY <1>4, <2>1 DEF Types
  <2> QED
    BY <2>1, <2>2, <2>3, <2>4 DEF Types
<1>14. ASSUME Leave PROVE Types'
  <2>1. /\ at' = "left" /\ answered' = FALSE /\ Forget
        /\ UNCHANGED <<count, belief, events, world, made, handled>>
    BY <1>14 DEF Leave, worldVars
  <2>2. orphans' \in SUBSET (1 .. Len(made))
    BY <1>12, <2>1
  <2> QED
    BY <2>1, <2>2 DEF Types
<1>15. ASSUME UNCHANGED vars PROVE Types'
  BY <1>15 DEF vars, pageVars, worldVars, Types
<1> QED
  BY <1>5, <1>6, <1>7, <1>8, <1>9, <1>10, <1>11, <1>13, <1>14, <1>15 DEF Next

-----------------------------------------------------------------------------
(* Calls stay in order.                                                    *)

LEMMA HandledIs ==
    ASSUME Types
    PROVE  /\ Len(handled) \in Nat /\ DOMAIN handled = 1 .. Len(handled) /\ Len(made) \in Nat
           /\ DOMAIN made = 1 .. Len(made)
           /\ \A i \in DOMAIN handled : handled[i] \in 1 .. Len(made) /\ handled[i] \in Nat
           /\ \A id \in orphans : id \in Nat /\ id <= Len(made)
<1>1. handled \in Seq(1 .. Len(made)) /\ orphans \subseteq 1 .. Len(made) /\ made \in Seq(CallNames)
  BY DEF Types
<1>2. /\ Len(handled) \in Nat /\ DOMAIN handled = 1 .. Len(handled) /\ Len(made) \in Nat
      /\ DOMAIN made = 1 .. Len(made)
  BY <1>1, LenProperties
<1>3. \A i \in DOMAIN handled : handled[i] \in 1 .. Len(made)
  BY <1>1, <1>2, ElementOfSeq
<1> QED
  BY <1>1, <1>2, <1>3

\* The call that is handled now comes after all others, or its connection broke.
LEMMA HandleQueue ==
    ASSUME Types, QueueInv, NEW id \in DOMAIN made, Handle(id)
    PROVE  QueueInv'
<1>1. /\ UNCHANGED <<calls, made, broken>> /\ handled' = Append(handled, id)
      /\ \/ id = calls.ajax /\ ~answered /\ answered' = TRUE /\ orphans' = orphans
         \/ id \in orphans /\ orphans' = orphans \ {id} /\ answered' = answered
  BY DEF Handle
<1>2. /\ Len(handled) \in Nat /\ DOMAIN handled = 1 .. Len(handled)
      /\ \A i \in DOMAIN handled : handled[i] \in Nat
      /\ \A o \in orphans : o \in Nat
      /\ id \in 1 .. Len(made) /\ id # 0 /\ id \in Nat
  BY HandledIs
<1>3. /\ handled' \in Seq(1 .. Len(made)) /\ Len(handled') = Len(handled) + 1
      /\ handled'[Len(handled) + 1] = id
      /\ \A i \in 1 .. Len(handled) : handled'[i] = handled[i]
  <2>1. PICK h : h = handled'
    OBVIOUS
  <2>2. h = Append(handled, id) /\ handled \in Seq(1 .. Len(made))
    BY <1>1, <2>1 DEF Types
  <2>3. /\ h \in Seq(1 .. Len(made)) /\ Len(h) = Len(handled) + 1 /\ h[Len(handled) + 1] = id
        /\ \A i \in 1 .. Len(handled) : h[i] = handled[i]
    BY <1>2, <2>2, AppendProperties
  <2> QED
    BY <2>1, <2>3
<1>4. DOMAIN handled' = 1 .. Len(handled) + 1
  BY <1>3, LenProperties
<1>5. calls.ajax \in Nat
  BY DEF QueueInv, Orderly, Queues
<1>6. (\A i \in DOMAIN handled : handled[i] # id)
      /\ ((\A i \in DOMAIN handled : handled[i] < id) \/ id \in broken)
  <2>1. CASE id = calls.ajax /\ ~answered
    <3>1. \A i \in DOMAIN handled : handled[i] < id
      BY <1>2, <2>1 DEF QueueInv, BeforeAjax
    <3> QED
      BY <1>2, <3>1
  <2>2. CASE id \in orphans
    BY <2>2 DEF QueueInv, BeforeAjax
  <2> QED
    BY <1>1, <2>1, <2>2
<1>7. CallsInOrder'
  <2> SUFFICES ASSUME NEW i \in DOMAIN handled', NEW j \in DOMAIN handled', i < j
               PROVE  /\ handled'[i] # handled'[j]
                      /\ handled'[i] < handled'[j] \/ handled'[j] \in broken
    BY <1>1 DEF CallsInOrder
  <2>1. i \in 1 .. Len(handled) /\ (j \in 1 .. Len(handled) \/ j = Len(handled) + 1)
    BY <1>2, <1>4
  <2>2. CASE j \in 1 .. Len(handled)
    <3>1. handled'[i] = handled[i] /\ handled'[j] = handled[j]
      BY <1>3, <2>1, <2>2
    <3>2. handled[i] # handled[j] /\ (handled[i] < handled[j] \/ handled[j] \in broken)
      BY <1>2, <2>1, <2>2 DEF QueueInv, CallsInOrder
    <3> QED
      BY <3>1, <3>2
  <2>3. CASE j = Len(handled) + 1
    <3>1. handled'[i] = handled[i] /\ handled'[j] = id
      BY <1>3, <2>1, <2>3
    <3> QED
      BY <1>2, <1>6, <2>1, <3>1
  <2> QED
    BY <2>1, <2>2, <2>3
<1>8. \A i \in DOMAIN handled' : handled'[i] = id \/ \E k \in DOMAIN handled : handled'[i] = handled[k]
  <2> TAKE i \in DOMAIN handled'
  <2>1. i \in DOMAIN handled \/ i = Len(handled) + 1
    BY <1>2, <1>4
  <2> QED
    BY <1>2, <1>3, <2>1
<1>9. BeforeAjax'
  <2>1. ASSUME id = calls.ajax, ~answered, answered' = TRUE, orphans' = orphans PROVE BeforeAjax'
    <3>1. \A o \in orphans : o < calls.ajax /\ \A i \in DOMAIN handled : handled[i] # o
      BY <1>2, <2>1 DEF QueueInv, BeforeAjax
    <3>2. \A o \in orphans : o < calls.ajax /\ \A i \in DOMAIN handled' : handled'[i] # o
      BY <1>2, <1>8, <2>1, <3>1
    <3>3. \A i \in DOMAIN handled : handled[i] < calls.ajax
      BY <1>2, <2>1 DEF QueueInv, BeforeAjax
    <3>4. \A i \in DOMAIN handled' : handled'[i] < calls.ajax \/ handled'[i] = calls.ajax
      BY <1>8, <2>1, <3>3
    <3> QED
      BY <1>1, <1>2, <2>1, <3>2, <3>4 DEF BeforeAjax
  <2>2. ASSUME id \in orphans, orphans' = orphans \ {id}, answered' = answered PROVE BeforeAjax'
    <3>1. \A o \in orphans : (calls.ajax # 0 => o < calls.ajax)
                             /\ \A i \in DOMAIN handled : handled[i] # o
      BY DEF QueueInv, BeforeAjax
    <3>2. \A o \in orphans' : (calls.ajax # 0 => o < calls.ajax)
                              /\ \A i \in DOMAIN handled' : handled'[i] # o
      BY <1>8, <2>2, <3>1
    <3>3. calls.ajax # 0 => \A i \in DOMAIN handled' :
             handled'[i] < calls.ajax \/ (answered /\ handled'[i] = calls.ajax)
      BY <1>8, <2>2, <3>1 DEF QueueInv, BeforeAjax
    <3> QED
      BY <1>1, <2>2, <3>2, <3>3 DEF QueueInv, BeforeAjax
  <2> QED
    BY <1>1, <2>1, <2>2
<1> QED
  BY <1>1, <1>7, <1>9 DEF QueueInv

\* When the page makes calls.
LEMMA MakeQueue ==
    ASSUME Types, QueueInv, NEW ops \in Seq(CallNames), made' = made \o ops,
           NEW q, Orderly(q, Len(made')), calls' = q,
           UNCHANGED <<orphans, handled, broken>>,
           \/ answered' = answered /\ q.ajax = calls.ajax
           \/ answered' = answered /\ calls.ajax = 0 /\ q.ajax > Len(made)
           \/ answered' = FALSE /\ calls.ajax # 0 /\ (q.ajax = 0 \/ q.ajax > calls.ajax)
    PROVE  QueueInv'
<1>1. /\ Len(made) \in Nat /\ calls.ajax \in Nat
      /\ \A i \in DOMAIN handled : handled[i] \in Nat /\ handled[i] <= Len(made)
      /\ \A id \in orphans : id \in Nat /\ id <= Len(made)
  BY HandledIs DEF QueueInv, Orderly, Queues
<1>2. q.ajax \in Nat
  BY DEF Orderly, Queues
<1>3. /\ answered => calls.ajax # 0
      /\ \A id \in orphans : (calls.ajax # 0 => id < calls.ajax)
                             /\ \A i \in DOMAIN handled : handled[i] # id
      /\ calls.ajax # 0 => \A i \in DOMAIN handled :
           handled[i] < calls.ajax \/ (answered /\ handled[i] = calls.ajax)
  BY DEF QueueInv, BeforeAjax
<1>4. /\ answered' => q.ajax # 0
      /\ \A id \in orphans : q.ajax # 0 => id < q.ajax
      /\ q.ajax # 0 => \A i \in DOMAIN handled :
           handled[i] < q.ajax \/ (answered' /\ handled[i] = q.ajax)
  <2>1. CASE answered' = answered /\ q.ajax = calls.ajax
    BY <1>3, <2>1, Zenon
  <2>2. CASE answered' = answered /\ calls.ajax = 0 /\ q.ajax > Len(made)
    <3>1. ~answered /\ ~answered'
      BY <1>3, <2>2, Zenon
    <3>2. /\ \A id \in orphans : id < q.ajax
          /\ \A i \in DOMAIN handled : handled[i] < q.ajax
      BY <1>1, <1>2, <2>2
    <3> QED
      BY <3>1, <3>2, Zenon
  <2>3. CASE answered' = FALSE /\ calls.ajax # 0 /\ (q.ajax = 0 \/ q.ajax > calls.ajax)
    <3>1. /\ \A id \in orphans : id < calls.ajax
          /\ \A i \in DOMAIN handled : handled[i] < calls.ajax \/ handled[i] = calls.ajax
      BY <1>3, <2>3, Zenon
    <3>2. q.ajax # 0 => q.ajax > calls.ajax
      BY <2>3, Zenon
    <3>3. q.ajax # 0 => /\ \A id \in orphans : id < q.ajax
                        /\ \A i \in DOMAIN handled : handled[i] < q.ajax
      BY <1>1, <1>2, <3>1, <3>2
    <3> QED
      BY <2>3, <3>3, Zenon
  <2> QED
    BY <2>1, <2>2, <2>3
<1>5. BeforeAjax'
  BY <1>3, <1>4, Zenon DEF BeforeAjax
<1>6. CallsInOrder' /\ orphans' \subseteq broken'
  BY DEF QueueInv, CallsInOrder
<1> QED
  BY <1>5, <1>6 DEF QueueInv

\* When a call is given up: the server may still be at work for it.
LEMMA GiveUpQueue ==
    ASSUME Types, QueueInv, Orderly(calls', Len(made)), calls'.ajax = 0 \/ calls'.ajax > calls.ajax,
           answered' = FALSE, UNCHANGED <<handled, made>>,
           broken' = broken \cup ({calls.ajax} \ {0}),
           \/ orphans' = orphans
           \/ ~answered /\ calls.ajax # 0 /\ orphans' = orphans \cup {calls.ajax},
           calls.ajax = 0 => calls'.ajax = 0
    PROVE  QueueInv'
<1>1. /\ Len(made) \in Nat /\ calls.ajax \in Nat
      /\ \A i \in DOMAIN handled : handled[i] \in Nat /\ handled[i] <= Len(made)
      /\ \A id \in orphans : id \in Nat /\ id <= Len(made)
  BY HandledIs DEF QueueInv, Orderly, Queues
<1>2. calls'.ajax \in Nat
  BY DEF Orderly, Queues
<1>3. /\ \A id \in orphans : (calls.ajax # 0 => id < calls.ajax)
                             /\ \A i \in DOMAIN handled : handled[i] # id
      /\ calls.ajax # 0 => \A i \in DOMAIN handled :
           handled[i] < calls.ajax \/ (answered /\ handled[i] = calls.ajax)
  BY DEF QueueInv, BeforeAjax
<1>4. orphans' \subseteq broken'
  BY DEF QueueInv
<1>5. ASSUME NEW id \in orphans'
      PROVE  (calls'.ajax # 0 => id < calls'.ajax) /\ \A i \in DOMAIN handled : handled[i] # id
  <2>1. CASE id \in orphans
    BY <1>1, <1>2, <1>3, <2>1
  <2>2. CASE ~answered /\ calls.ajax # 0 /\ id = calls.ajax
    <3>1. \A i \in DOMAIN handled : handled[i] < id
      BY <1>3, <2>2
    <3> QED
      BY <1>1, <1>2, <2>2, <3>1
  <2> QED
    BY <1>5, <2>1, <2>2
<1>6. calls'.ajax # 0 => \A i \in DOMAIN handled : handled[i] < calls'.ajax
  BY <1>1, <1>2, <1>3
<1>7. BeforeAjax'
  BY <1>5, <1>6 DEF BeforeAjax
<1>8. CallsInOrder'
  BY DEF QueueInv, CallsInOrder
<1> QED
  BY <1>4, <1>7, <1>8 DEF QueueInv

LEMMA QueueNext ==
    ASSUME Types, ConnectedOnce, QueueInv, [Next]_vars
    PROVE  QueueInv'
<1>1. Len(made) \in Nat /\ Orderly(calls, Len(made)) /\ calls.ajax \in Nat
  BY HandledIs DEF QueueInv, Orderly, Queues
<1>2. ASSUME NEW id \in DOMAIN made, Handle(id) PROVE QueueInv'
  BY <1>2, HandleQueue
<1>3. ASSUME UNCHANGED <<calls, answered, orphans, made, handled, broken>> PROVE QueueInv'
  BY <1>3 DEF QueueInv, BeforeAjax, CallsInOrder
<1>4. ASSUME ThreadStep \/ NetRead \/ UpdateBreaks \/ UNCHANGED vars PROVE QueueInv'
  BY <1>3, <1>4 DEF ThreadStep, NetRead, UpdateBreaks, vars, pageVars
<1>5. ASSUME Update PROVE QueueInv'
  <2>1. /\ made' = made \o Ops /\ UNCHANGED <<answered, orphans, handled, broken>>
        /\ calls' = FoldLeft(callAjax, calls, [i \in DOMAIN Ops |-> Len(made) + i])
    BY <1>5 DEF Update, Make, Ops
  <2>2. Ops \in Seq(CallNames)
    BY OpsAre
  <2>3. Len(made') = Len(made) + Len(Ops)
    BY <2>1, <2>2, Grows
  <2>4. PICK q : q = calls'
    OBVIOUS
  <2>5. Orderly(q, Len(made')) /\ (q.ajax = calls.ajax \/ (calls.ajax = 0 /\ q.ajax > Len(made)))
    BY <1>1, <2>1, <2>2, <2>3, <2>4, MakeCalls
  <2> QED
    BY <2>1, <2>2, <2>4, <2>5, MakeQueue
<1>6. ASSUME Complete PROVE QueueInv'
  <2> DEFINE ops == OnSuccessOf(made[calls.ajax])
             q == FoldLeft(callAjax, calls, [i \in DOMAIN ops |-> Len(made) + i])
  <2>1. /\ made' = made \o ops /\ UNCHANGED <<orphans, handled, broken>>
        /\ calls' = callQueueComplete(q) /\ answered' = FALSE /\ calls.ajax # 0
    BY <1>6 DEF Complete
  <2>2. ops \in Seq(CallNames)
    BY SuccessIs
  <2> HIDE DEF ops
  <2>3. Len(made') = Len(made) + Len(ops) /\ Len(made') \in Nat
    BY <1>1, <2>1, <2>2, Grows, LenProperties
  <2>4. Orderly(q, Len(made')) /\ q.ajax = calls.ajax
    BY <1>1, <2>1, <2>2, <2>3, MakeCalls
  <2> HIDE DEF q
  <2>5. PICK r : r = calls'
    OBVIOUS
  <2>6. Orderly(r, Len(made')) /\ (r.ajax = 0 \/ r.ajax > calls.ajax)
    BY <2>1, <2>3, <2>4, <2>5, EndCall
  <2> QED
    BY <2>1, <2>2, <2>5, <2>6, MakeQueue
<1>7. ASSUME CallBreaks PROVE QueueInv'
  <2>1. /\ calls.ajax # 0 /\ calls' = callQueueComplete(calls) /\ answered' = FALSE
        /\ UNCHANGED <<handled, made>> /\ broken' = broken \cup ({calls.ajax} \ {0})
        /\ \/ orphans' = orphans
           \/ ~answered /\ calls.ajax # 0 /\ orphans' = orphans \cup {calls.ajax}
    BY <1>7 DEF CallBreaks
  <2>2. Orderly(calls', Len(made)) /\ (calls'.ajax = 0 \/ calls'.ajax > calls.ajax)
    BY <1>1, <2>1, EndCall
  <2> QED
    BY <2>1, <2>2, GiveUpQueue
<1>8. ASSUME Reload \/ Leave PROVE QueueInv'
  <2>1. /\ calls' = NoCalls /\ answered' = FALSE
        /\ UNCHANGED <<handled, made>> /\ broken' = broken \cup ({calls.ajax} \ {0})
        /\ \/ orphans' = orphans
           \/ ~answered /\ calls.ajax # 0 /\ orphans' = orphans \cup {calls.ajax}
    BY <1>8 DEF Reload, Leave, Forget
  <2>2. /\ NoCalls.ajax = 0 /\ NoCalls.semaphore = 0 /\ NoCalls.queue = <<>> /\ NoCalls \in Queues
        /\ 1 .. Len(<<>>) = {}
    BY EmptySeq DEF NoCalls, Queues
  <2>3. Orderly(NoCalls, Len(made))
    BY <1>1, <2>2 DEF Orderly
  <2> QED
    BY <2>1, <2>2, <2>3, GiveUpQueue
<1> QED
  BY <1>2, <1>4, <1>5, <1>6, <1>7, <1>8 DEF Next

-----------------------------------------------------------------------------
(* The world is connected to once.                                         *)

\* Events keep their names, and what was dumped.
LEMMA DumpedKeeps ==
    ASSUME Types, ConnectedOnce, events' = Dumped, UNCHANGED <<world, thread, handled>>,
           UNCHANGED made
    PROVE  ConnectedOnce'
<1>1. /\ Len(events) \in Nat /\ DOMAIN events = 1 .. Len(events)
      /\ DOMAIN events' = 1 .. Len(events)
      /\ \A i \in 1 .. Len(events) : /\ events'[i].name = events[i].name
                                     /\ events[i].seen > 0 => events'[i].seen > 0
  <2>1. /\ Len(events) \in Nat /\ DOMAIN events = 1 .. Len(events)
        /\ DOMAIN Dumped = 1 .. Len(events)
    BY DumpedIs, LenProperties DEF Types
  <2>2. ASSUME NEW i \in 1 .. Len(events)
        PROVE  Dumped[i].name = events[i].name /\ (events[i].seen > 0 => Dumped[i].seen > 0)
    <3>1. events[i].seen \in Nat
      <4>1. events[i] \in Events
        BY <2>1, ElementOfSeq DEF Types
      <4> QED
        BY <4>1 DEF Events
    <3> QED
      BY <3>1, DumpedIs
  <2> QED
    BY <2>1, <2>2
<1> QED
  BY <1>1 DEF ConnectedOnce

\* One event more, that is no onOpen.
LEMMA AddsKeeps ==
    ASSUME Types, ConnectedOnce, NEW name \in Names, name # "onOpen", Adds(name),
           world = "none" \/ world' # "none"
    PROVE  /\ \A i, j \in DOMAIN events' :
                events'[i].name = "onOpen" /\ events'[j].name = "onOpen" => i = j
           /\ world' = "none" => \A i \in DOMAIN events' : events'[i].name # "onOpen"
           /\ (\E i \in DOMAIN made : made[i] = "connect") =>
                \E i \in DOMAIN events' : events'[i].name = "onOpen" /\ events'[i].seen > 0
<1>1. Len(events) \in Nat /\ DOMAIN events = 1 .. Len(events)
  BY LenProperties DEF Types
<1>2. DOMAIN events' = 1 .. Len(events) + 1
  BY LenProperties DEF Adds
<1>3. \A i \in DOMAIN events : i \in DOMAIN events' /\ events'[i] = events[i]
  BY <1>1, <1>2 DEF Adds
<1>4. \A i \in DOMAIN events' : events'[i].name = "onOpen" => i \in DOMAIN events
  <2> SUFFICES ASSUME NEW i \in DOMAIN events', i \notin DOMAIN events
               PROVE  events'[i].name # "onOpen"
    OBVIOUS
  <2>1. i = Len(events) + 1
    BY <1>1, <1>2
  <2> QED
    BY <2>1 DEF Adds
<1> QED
  BY <1>3, <1>4 DEF ConnectedOnce

\* An onOpen, to a world that was not open.
LEMMA OpensOnce ==
    ASSUME Types, ConnectedOnce, world = "none", Adds("onOpen"), world' = "disconnected"
    PROVE  /\ \A i, j \in DOMAIN events' :
                events'[i].name = "onOpen" /\ events'[j].name = "onOpen" => i = j
           /\ (\E i \in DOMAIN made : made[i] = "connect") =>
                \E i \in DOMAIN events' : events'[i].name = "onOpen" /\ events'[i].seen > 0
<1>1. Len(events) \in Nat /\ DOMAIN events = 1 .. Len(events)
  BY LenProperties DEF Types
<1>2. DOMAIN events' = 1 .. Len(events) + 1
  BY LenProperties DEF Adds
<1>3. \A i \in DOMAIN events : i \in DOMAIN events' /\ events'[i] = events[i]
  BY <1>1, <1>2 DEF Adds
<1>4. \A i \in DOMAIN events' : events'[i].name = "onOpen" => i = Len(events) + 1
  <2> SUFFICES ASSUME NEW i \in DOMAIN events', i # Len(events) + 1
               PROVE  events'[i].name # "onOpen"
    OBVIOUS
  <2>1. i \in DOMAIN events
    BY <1>1, <1>2
  <2> QED
    BY <1>3, <2>1 DEF ConnectedOnce
<1> QED
  BY <1>3, <1>4 DEF ConnectedOnce

LEMMA HandleConnects ==
    ASSUME Types, QueueInv, ConnectedOnce, NEW id \in DOMAIN made, Handle(id)
    PROVE  ConnectedOnce'
<1>1. made' = made /\ Does(made[id]) /\ handled' = Append(handled, id)
  BY DEF Handle
<1>2. (\A i \in DOMAIN handled' : made[handled'[i]] # "connect") =>
         made[id] # "connect" /\ \A i \in DOMAIN handled : made[handled[i]] # "connect"
  <2>1. handled \in Seq(1 .. Len(made)) /\ id \in 1 .. Len(made) /\ Len(handled) \in Nat
        /\ DOMAIN handled = 1 .. Len(handled)
    BY HandledIs DEF Types
  <2>2. PICK h : h = handled'
    OBVIOUS
  <2>3. /\ h \in Seq(1 .. Len(made)) /\ Len(h) = Len(handled) + 1
        /\ h[Len(handled) + 1] = id /\ \A i \in 1 .. Len(handled) : h[i] = handled[i]
    BY <1>1, <2>1, <2>2, AppendProperties
  <2>4. DOMAIN h = 1 .. Len(handled) + 1
    BY <2>3, LenProperties
  <2>5. Len(handled) + 1 \in DOMAIN h /\ \A i \in DOMAIN handled : i \in DOMAIN h
    BY <2>1, <2>4
  <2> QED
    BY <2>1, <2>2, <2>3, <2>5
<1>3. /\ \A i, j \in DOMAIN made : made[i] = "connect" /\ made[j] = "connect" => i = j
      /\ (\A i \in DOMAIN handled : made[handled[i]] # "connect") =>
            thread = "none" /\ world \in {"none", "disconnected"}
  BY DEF ConnectedOnce
<1>4. /\ {"onConnecting", "onConnectFail", "onSystemMessage"} \subseteq Names
      /\ "onOpen" \notin {"onConnecting", "onConnectFail", "onSystemMessage"}
  BY DEF Names
<1>5. CASE made[id] = "open" /\ world = "none" /\ Adds("onOpen")
           /\ world' = "disconnected" /\ thread' = thread
  <2>1. (\A i \in DOMAIN handled' : made[handled'[i]] # "connect") => thread' = "none"
    BY <1>2, <1>3, <1>5
  <2> QED
    BY <1>1, <1>3, <1>5, <2>1, OpensOnce DEF ConnectedOnce
<1>6. ASSUME NEW name \in {"onConnecting", "onConnectFail", "onSystemMessage"}, Adds(name),
             world = "none" \/ world' # "none",
             made[id] = "connect" \/ (world' = world /\ thread' = thread)
      PROVE  ConnectedOnce'
  <2>1. (\A i \in DOMAIN handled' : made[handled'[i]] # "connect") =>
            thread' = "none" /\ world' \in {"none", "disconnected"}
    BY <1>2, <1>3, <1>6
  <2>2. name \in Names /\ name # "onOpen"
    BY <1>4
  <2> QED
    BY <1>1, <1>3, <1>6, <2>1, <2>2, AddsKeeps DEF ConnectedOnce
<1>7. CASE made[id] = "connect" /\ world = "disconnected" /\ Adds("onConnecting")
           /\ world' = "connecting" /\ thread' = "resolve"
  BY <1>6, <1>7
<1>8. CASE made[id] = "connect" /\ world \in {"connecting", "connected"} /\ Adds("onConnectFail")
           /\ world' = world /\ thread' = thread
  BY <1>6, <1>8
<1>9. CASE Adds("onSystemMessage") /\ world' = world /\ thread' = thread
  BY <1>6, <1>9
<1>10. CASE made[id] # "connect" /\ events' = events /\ world' = world /\ thread' = thread
  BY <1>1, <1>2, <1>10 DEF ConnectedOnce
<1> QED
  BY <1>1, <1>5, <1>7, <1>8, <1>9, <1>10, DoesOne

LEMMA ConnectedNext ==
    ASSUME Types, QueueInv, ConnectedOnce, [Next]_vars
    PROVE  ConnectedOnce'
<1>1. ASSUME NEW id \in DOMAIN made, Handle(id) PROVE ConnectedOnce'
  BY <1>1, HandleConnects
<1>2. ASSUME thread # "none" \/ world = "connected",
             UNCHANGED <<made, handled>>, world' \in {"connecting", "connected", "disconnected"},
             events' = events \/ \E name \in Names \ {"onOpen"} : Adds(name)
      PROVE  ConnectedOnce'
  <2>1. ~ \A i \in DOMAIN handled : made[handled[i]] # "connect"
    BY <1>2 DEF ConnectedOnce
  <2>2. CASE events' = events
    BY <1>2, <2>1, <2>2 DEF ConnectedOnce
  <2>3. CASE \E name \in Names \ {"onOpen"} : Adds(name)
    <3>1. world' # "none"
      BY <1>2
    <3> QED
      BY <1>2, <2>1, <2>3, <3>1, AddsKeeps DEF ConnectedOnce
  <2> QED
    BY <1>2, <2>2, <2>3
<1>3. {"onConnecting", "onConnect", "onConnectFail", "onDisconnect"} \subseteq Names \ {"onOpen"}
  BY DEF Names
<1>4. \A name \in Names : Queue(<<name>>) => Adds(name)
  BY QueueAdds
<1>5. ASSUME ThreadStep PROVE ConnectedOnce'
  <2>1. events' = events \/ \E name \in Names \ {"onOpen"} : Adds(name)
    BY <1>3, <1>4, <1>5 DEF ThreadStep
  <2>2. thread # "none" /\ UNCHANGED <<made, handled>>
        /\ world' \in {world, "connected", "disconnected"}
    BY <1>5 DEF ThreadStep
  <2>3. PICK i \in DOMAIN handled : made[handled[i]] = "connect"
    BY <2>2 DEF ConnectedOnce
  <2>4. handled[i] \in DOMAIN made
    BY HandledIs
  <2>5. world # "none" /\ world \in Statuses
    BY <2>3, <2>4 DEF ConnectedOnce, Types
  <2>6. world' \in {"connecting", "connected", "disconnected"}
    BY <2>2, <2>5 DEF Statuses
  <2> QED
    BY <1>2, <2>1, <2>2, <2>6
<1>6. ASSUME NetRead PROVE ConnectedOnce'
  <2>1. world = "connected" /\ world' = "disconnected" /\ UNCHANGED <<made, handled>>
        /\ Adds("onDisconnect")
    BY <1>3, <1>4, <1>6 DEF NetRead
  <2> QED
    BY <1>2, <1>3, <2>1
<1>7. ASSUME Update PROVE ConnectedOnce'
  <2>1. /\ events' = Dumped /\ made' = made \o Ops /\ UNCHANGED <<world, thread, handled>>
    BY <1>7 DEF Update, Make, Ops
  <2>2. /\ Len(made) \in Nat /\ 1 .. Len(made) \subseteq 1 .. Len(made')
        /\ \A i \in 1 .. Len(made) : made'[i] = made[i]
        /\ \A i \in 1 .. Len(made') : i \notin 1 .. Len(made) =>
              i - Len(made) \in 1 .. Len(Ops) /\ made'[i] = Ops[i - Len(made)]
        /\ DOMAIN made = 1 .. Len(made) /\ DOMAIN made' = 1 .. Len(made')
    <3>1. Ops \in Seq(CallNames)
      BY OpsAre
    <3>2. made' \in Seq(CallNames)
      BY <2>1, <3>1, Grows
    <3> QED
      BY <2>1, <3>1, <3>2, Grows, HandledIs, LenProperties
  <2>3. /\ DOMAIN events = 1 .. Len(events) /\ DOMAIN events' = 1 .. Len(events)
        /\ \A i \in 1 .. Len(events) : events[i].seen \in Nat
    <3>1. \A i \in 1 .. Len(events) : events[i] \in Events
      BY ElementOfSeq DEF Types
    <3> QED
      BY <2>1, <3>1, DumpedIs, LenProperties DEF Types, Events
  <2>4. \A i \in 1 .. Len(events) :
          /\ events'[i].name = events[i].name
          /\ events[i].seen > 0 => events'[i].seen > 0
          /\ count >= 0 /\ i > count => events'[i].seen > 0
    <3> TAKE i \in 1 .. Len(events)
    <3>1. /\ events'[i].name = events[i].name
          /\ events'[i].seen = IF count >= 0 /\ i > count THEN events[i].seen + 1
                               ELSE events[i].seen
      BY <2>1, DumpedIs
    <3>2. events[i].seen \in Nat
      BY <2>3
    <3> QED
      BY <3>1, <3>2
  <2>5. ASSUME NEW i \in DOMAIN made', made'[i] = "connect", i \notin DOMAIN made
        PROVE  /\ \A j \in DOMAIN made : made[j] # "connect"
               /\ \E k \in DOMAIN events : events[k].name = "onOpen" /\ events'[k].seen > 0
    <3>1. i - Len(made) \in 1 .. Len(Ops) /\ Ops[i - Len(made)] = "connect"
      BY <2>2, <2>5
    <3>2. PICK k \in 1 .. Len(events) : /\ events[k].name = "onOpen" /\ events[k].seen = 0
                                         /\ count >= 0 /\ k > count
      BY <3>1, OpsAre
    <3>3. ASSUME NEW j \in DOMAIN made, made[j] = "connect" PROVE FALSE
      <4>1. PICK l \in DOMAIN events : events[l].name = "onOpen" /\ events[l].seen > 0
        BY <3>3 DEF ConnectedOnce
      <4>2. l = k
        BY <2>3, <3>2, <4>1 DEF ConnectedOnce
      <4> QED
        BY <3>2, <4>1, <4>2
    <3> QED
      BY <2>3, <2>4, <3>2, <3>3
  <2>6. \A i, j \in DOMAIN made' : made'[i] = "connect" /\ made'[j] = "connect" => i = j
    <3> SUFFICES ASSUME NEW i \in DOMAIN made', NEW j \in DOMAIN made',
                        made'[i] = "connect", made'[j] = "connect"
                 PROVE  i = j
      OBVIOUS
    <3>1. CASE i \in DOMAIN made /\ j \in DOMAIN made
      BY <2>2, <3>1 DEF ConnectedOnce
    <3>2. CASE i \in DOMAIN made /\ j \notin DOMAIN made
      BY <2>2, <2>5, <3>2
    <3>3. CASE i \notin DOMAIN made /\ j \in DOMAIN made
      BY <2>2, <2>5, <3>3
    <3>4. CASE i \notin DOMAIN made /\ j \notin DOMAIN made
      <4>1. /\ i - Len(made) \in 1 .. Len(Ops) /\ Ops[i - Len(made)] = "connect"
            /\ j - Len(made) \in 1 .. Len(Ops) /\ Ops[j - Len(made)] = "connect"
        BY <2>2, <3>4
      <4>2. i - Len(made) = j - Len(made)
        BY <4>1, OpsAre
      <4> QED
        BY <2>2, <4>2
    <3> QED
      BY <3>1, <3>2, <3>3, <3>4
  <2>7. ASSUME NEW i \in DOMAIN made', made'[i] = "connect"
        PROVE  \E k \in DOMAIN events' : events'[k].name = "onOpen" /\ events'[k].seen > 0
    <3>1. CASE i \in DOMAIN made
      <4>1. PICK l \in DOMAIN events : events[l].name = "onOpen" /\ events[l].seen > 0
        BY <2>2, <2>7, <3>1 DEF ConnectedOnce
      <4> QED
        BY <2>3, <2>4, <4>1
    <3>2. CASE i \notin DOMAIN made
      BY <2>3, <2>4, <2>5, <2>7, <3>2
    <3> QED
      BY <3>1, <3>2
  <2>8. \A i \in DOMAIN handled : made'[handled[i]] = made[handled[i]]
    BY <2>2, HandledIs
  <2>9. /\ \A i, j \in DOMAIN events' :
             events'[i].name = "onOpen" /\ events'[j].name = "onOpen" => i = j
        /\ world' = "none" => \A i \in DOMAIN events' : events'[i].name # "onOpen"
    <3>1. DOMAIN events' = DOMAIN events /\ world' = world
      BY <2>1, <2>3
    <3>2. \A i \in DOMAIN events : events'[i].name = events[i].name
      BY <2>3, <2>4
    <3> QED
      BY <3>1, <3>2, Zenon DEF ConnectedOnce
  <2>10. (\A i \in DOMAIN handled' : made'[handled'[i]] # "connect") =>
            thread' = "none" /\ world' \in {"none", "disconnected"}
    BY <2>1, <2>8 DEF ConnectedOnce
  <2> QED
    BY <2>6, <2>7, <2>9, <2>10 DEF ConnectedOnce
<1>8. ASSUME UpdateBreaks PROVE ConnectedOnce'
  <2>1. events' = Dumped /\ UNCHANGED <<world, thread, handled, made>>
    BY <1>8 DEF UpdateBreaks
  <2> QED
    BY <2>1, DumpedKeeps
<1>9. ASSUME Complete PROVE ConnectedOnce'
  <2> DEFINE ops == OnSuccessOf(made[calls.ajax])
  <2>1. made' = made \o ops /\ UNCHANGED <<events, world, thread, handled>>
    BY <1>9 DEF Complete, worldVars
  <2>2. ops \in Seq(CallNames) /\ \A p \in 1 .. Len(ops) : ops[p] # "connect"
    BY SuccessIs
  <2> HIDE DEF ops
  <2>3. /\ DOMAIN made = 1 .. Len(made) /\ DOMAIN made' = 1 .. Len(made')
        /\ 1 .. Len(made) \subseteq 1 .. Len(made')
        /\ \A i \in 1 .. Len(made) : made'[i] = made[i]
        /\ \A i \in 1 .. Len(made') : i \notin 1 .. Len(made) => made'[i] # "connect"
    <3>1. made' \in Seq(CallNames)
      BY <2>1, <2>2, Grows
    <3> QED
      BY <2>1, <2>2, <3>1, Grows, HandledIs, LenProperties
  <2>4. \A i \in DOMAIN handled : made'[handled[i]] = made[handled[i]]
    BY <2>3, HandledIs
  <2>5. \A i \in DOMAIN made' : made'[i] = "connect" => i \in DOMAIN made /\ made[i] = "connect"
    BY <2>3
  <2>6. \A i, j \in DOMAIN made' : made'[i] = "connect" /\ made'[j] = "connect" => i = j
    BY <2>5 DEF ConnectedOnce
  <2>7. (\E i \in DOMAIN made' : made'[i] = "connect") =>
           \E i \in DOMAIN events' : events'[i].name = "onOpen" /\ events'[i].seen > 0
    BY <2>1, <2>5 DEF ConnectedOnce
  <2>8. (\A i \in DOMAIN handled' : made'[handled'[i]] # "connect") =>
            thread' = "none" /\ world' \in {"none", "disconnected"}
    BY <2>1, <2>4 DEF ConnectedOnce
  <2>9. /\ \A i, j \in DOMAIN events' :
             events'[i].name = "onOpen" /\ events'[j].name = "onOpen" => i = j
        /\ world' = "none" => \A i \in DOMAIN events' : events'[i].name # "onOpen"
    BY <2>1 DEF ConnectedOnce
  <2> QED
    BY <2>6, <2>7, <2>8, <2>9 DEF ConnectedOnce
<1>10. ASSUME UNCHANGED <<events, world, thread, handled, made>> PROVE ConnectedOnce'
  BY <1>10 DEF ConnectedOnce
<1>11. ASSUME CallBreaks \/ Reload \/ Leave \/ UNCHANGED vars PROVE ConnectedOnce'
  BY <1>10, <1>11 DEF CallBreaks, Reload, Leave, vars, worldVars
<1> QED
  BY <1>1, <1>5, <1>6, <1>7, <1>8, <1>9, <1>11 DEF Next

-----------------------------------------------------------------------------
(* The page knows the status of its world.                                 *)

LEMMA KnowsMore ==
    ASSUME NEW s \in Seq(Events), NEW t \in Seq(Events), Len(t) = Len(s) + 1,
           \A i \in 1 .. Len(s) : t[i] = s[i],
           NEW b, NEW n \in Int, -1 <= n, n <= Len(s)
    PROVE  /\ Says(t[Len(s) + 1]) => Knows(StatusAfter("none", t[Len(s) + 1]), b, t, n)
           /\ ~Says(t[Len(s) + 1]) => \A st : Knows(st, b, s, n) => Knows(st, b, t, n)
<1>1. Len(s) \in Nat
  BY LenProperties
<1> SUFFICES ASSUME n >= 0
             PROVE  /\ Says(t[Len(s) + 1]) =>
                         Told(StatusAfter("none", t[Len(s) + 1]), b, t, n + 1, Len(s) + 1)
                    /\ ~Says(t[Len(s) + 1]) => \A st : Told(st, b, s, n + 1, Len(s)) =>
                                                       Told(st, b, t, n + 1, Len(s) + 1)
  BY Zenon DEF Knows
<1> DEFINE last == Len(s) + 1
<1>2. /\ last \in n + 1 .. last /\ (last + 1 .. last) = {}
      /\ \A i \in n + 1 .. last : i \in n + 1 .. Len(s) \/ i = last
      /\ \A i \in n + 1 .. Len(s) : /\ i \in n + 1 .. last
                                    /\ \A j \in i + 1 .. last : j \in i + 1 .. Len(s) \/ j = last
                                    /\ i \in 1 .. Len(s)
                                    /\ \A j \in i + 1 .. Len(s) : j \in 1 .. Len(s)
  BY <1>1
<1>3. \A i \in n + 1 .. Len(s) : t[i] = s[i] /\ \A j \in i + 1 .. Len(s) : t[j] = s[j]
  BY <1>2
<1> HIDE DEF last
<1>4. Says(t[last]) => Told(StatusAfter("none", t[last]), b, t, n + 1, last)
  BY <1>2, Zenon DEF Told
<1>5. ASSUME ~Says(t[last]), NEW st, Told(st, b, s, n + 1, Len(s))
      PROVE  Told(st, b, t, n + 1, last)
  <2>1. CASE st = b /\ \A i \in n + 1 .. Len(s) : ~Says(s[i])
    <3>1. \A i \in n + 1 .. last : ~Says(t[i])
      BY <1>2, <1>3, <1>5, <2>1, Zenon
    <3> QED
      BY <2>1, <3>1, Zenon DEF Told
  <2>2. CASE \E i \in n + 1 .. Len(s) : /\ Says(s[i]) /\ st = StatusAfter("none", s[i])
                                        /\ \A j \in i + 1 .. Len(s) : ~Says(s[j])
    <3>1. PICK i \in n + 1 .. Len(s) : /\ Says(s[i]) /\ st = StatusAfter("none", s[i])
                                       /\ \A j \in i + 1 .. Len(s) : ~Says(s[j])
      BY <2>2
    <3>2. Says(t[i]) /\ st = StatusAfter("none", t[i])
      BY <1>3, <3>1, Zenon
    <3>3. \A j \in i + 1 .. last : ~Says(t[j])
      BY <1>2, <1>3, <1>5, <3>1, Zenon
    <3> QED
      BY <1>2, <3>2, <3>3, Zenon DEF Told
  <2> QED
    BY <1>5, <2>1, <2>2, Zenon DEF Told
<1> QED
  BY <1>4, <1>5, Zenon DEF last

\* An event that is added tells of the status, or is an onSystemMessage.
LEMMA AddedIsKnown ==
    ASSUME Types, NEW name \in Names, Adds(name), UNCHANGED <<count, belief>>
    PROVE  /\ name # "onSystemMessage" =>
                Knows(StatusAfter("none", [name |-> name, seen |-> 0]), belief', events', count')
           /\ name = "onSystemMessage" =>
                \A st : WillKnow(st) => Knows(st, belief', events', count')
<1>1. /\ events \in Seq(Events) /\ count \in Int /\ -1 <= count /\ count <= Len(events)
  BY DEF Types
<1>2. PICK t : t = events'
  OBVIOUS
<1>3. /\ t \in Seq(Events) /\ Len(t) = Len(events) + 1
      /\ \A i \in 1 .. Len(events) : t[i] = events[i]
      /\ t[Len(events) + 1] = [name |-> name, seen |-> 0]
  BY <1>2 DEF Adds
<1>4. Says([name |-> name, seen |-> 0]) <=> name # "onSystemMessage"
  BY DEF Says
<1>5. /\ Says(t[Len(events) + 1]) =>
            Knows(StatusAfter("none", t[Len(events) + 1]), belief, t, count)
      /\ ~Says(t[Len(events) + 1]) =>
            \A st : Knows(st, belief, events, count) => Knows(st, belief, t, count)
  BY <1>1, <1>3, KnowsMore
<1> QED
  BY <1>2, <1>3, <1>4, <1>5, Zenon DEF WillKnow

\* Being dumped changes nothing an event says.
LEMMA DumpedSays ==
    ASSUME Types
    PROVE  \A st : WillKnow(st) => Knows(st, belief, Dumped, count)
<1>1. Len(Dumped) = Len(events) /\ Len(events) \in Nat /\ count \in Int
  BY DumpedIs DEF Types
<1>2. \A i \in 1 .. Len(events) : /\ Says(Dumped[i]) <=> Says(events[i])
                                  /\ StatusAfter("none", Dumped[i]) = StatusAfter("none", events[i])
  BY DumpedIs DEF Says, StatusAfter
<1> SUFFICES ASSUME NEW st, count >= 0, Told(st, belief, events, count + 1, Len(events))
             PROVE  Told(st, belief, Dumped, count + 1, Len(events))
  BY <1>1, Zenon DEF WillKnow, Knows
<1>3. \A i \in count + 1 .. Len(events) : i \in 1 .. Len(events)
                                         /\ \A j \in i + 1 .. Len(events) : j \in 1 .. Len(events)
  BY <1>1
<1> QED
  BY <1>2, <1>3, Zenon DEF Told

\* What a page would know after the events it has not seen is its belief when it has seen them.
LEMMA StatusIs ==
    ASSUME Types, count >= 0, NEW st, WillKnow(st)
    PROVE  Status = st
<1>1. /\ count \in Int /\ Len(events) \in Nat /\ Len(News) = Len(events) - count
      /\ News \in Seq(Events) /\ belief \in Statuses
      /\ \A i \in 1 .. Len(News) : count + i \in 1 .. Len(events) /\ News[i] = Dumped[count + i]
  BY DumpedIs, NewsIs DEF Types
<1>2. Told(Status, belief, News, 1, Len(News))
  <2>1. Status = FoldLeft(StatusAfter, belief, News)
    BY <1>1 DEF Status
  <2> QED
    BY <1>1, <2>1, StatusIsTold
<1>3. Told(st, belief, Dumped, count + 1, Len(events))
  <2>1. Knows(st, belief, Dumped, count) /\ Len(Dumped) = Len(events)
    BY DumpedSays, DumpedIs
  <2> QED
    BY <2>1, Zenon DEF Knows
<1>4. /\ \A i \in 1 .. Len(News) : count + i \in count + 1 .. Len(events)
      /\ \A i \in 1 .. Len(News), k \in Int : k \in (count + i) + 1 .. Len(events) =>
            k - count \in i + 1 .. Len(News) /\ count + (k - count) = k
      /\ \A k \in Int : k \in count + 1 .. Len(events) =>
            k - count \in 1 .. Len(News) /\ count + (k - count) = k
      /\ \A k \in count + 1 .. Len(events) : k \in Int
      /\ \A i \in 1 .. Len(News) : \A k \in (count + i) + 1 .. Len(events) : k \in Int
      /\ \A i \in 1 .. Len(News) : \A j \in i + 1 .. Len(News) : j \in 1 .. Len(News)
  BY <1>1
<1>5. \A k \in count + 1 .. Len(events) : Dumped[k] = News[k - count]
  BY <1>1, <1>4
<1>6. Told(Status, belief, Dumped, count + 1, Len(events))
  <2>1. CASE Status = belief /\ \A i \in 1 .. Len(News) : ~Says(News[i])
    <3>1. \A k \in count + 1 .. Len(events) : ~Says(Dumped[k])
      BY <1>4, <1>5, <2>1
    <3> QED
      BY <2>1, <3>1, Zenon DEF Told
  <2>2. CASE \E i \in 1 .. Len(News) : /\ Says(News[i]) /\ Status = StatusAfter("none", News[i])
                                       /\ \A j \in i + 1 .. Len(News) : ~Says(News[j])
    <3>1. PICK i \in 1 .. Len(News) : /\ Says(News[i]) /\ Status = StatusAfter("none", News[i])
                                      /\ \A j \in i + 1 .. Len(News) : ~Says(News[j])
      BY <2>2
    <3>2. /\ Dumped[count + i] = News[i] /\ count + i \in count + 1 .. Len(events)
      BY <1>1, <1>4
    <3>3. ASSUME NEW k \in (count + i) + 1 .. Len(events) PROVE ~Says(Dumped[k])
      <4>1. k - count \in i + 1 .. Len(News) /\ k \in count + 1 .. Len(events)
        BY <1>1, <1>4
      <4> QED
        BY <1>5, <3>1, <4>1
    <3> QED
      BY <3>1, <3>2, <3>3, Zenon DEF Told
  <2> QED
    BY <1>2, <2>1, <2>2, Zenon DEF Told
<1> QED
  BY <1>1, <1>3, <1>6, ToldOnce

LEMMA StatusNext ==
    ASSUME Types, QueueInv, ConnectedOnce, StatusKnown, [Next]_vars
    PROVE  StatusKnown'
<1>1. /\ thread \in {"none", "resolve", "tries", "failed", "up"}
      /\ thread \in {"resolve", "tries", "failed"} => world = "connecting"
      /\ ~raced =>
           /\ thread = "up" => world = "connected"
           /\ thread = "failed" => WillKnow("disconnected")
           /\ thread \in {"none", "resolve", "tries"} => WillKnow(world)
  BY DEF StatusKnown
<1> DEFINE K(st) == Knows(st, belief', events', count')
<1>2. ASSUME NEW name \in Names, Adds(name), UNCHANGED <<count, belief>>
      PROVE  /\ name \in {"onOpen", "onConnectFail", "onDisconnect"} => K("disconnected")
             /\ name = "onConnecting" => K("connecting")
             /\ name = "onConnect" => K("connected")
             /\ name = "onSystemMessage" => \A st : WillKnow(st) => K(st)
  <2>1. /\ name \in {"onOpen", "onConnectFail", "onDisconnect"} =>
              StatusAfter("none", [name |-> name, seen |-> 0]) = "disconnected"
        /\ name = "onConnecting" =>
              StatusAfter("none", [name |-> name, seen |-> 0]) = "connecting"
        /\ name = "onConnect" => StatusAfter("none", [name |-> name, seen |-> 0]) = "connected"
    BY DEF StatusAfter
  <2> QED
    BY <1>2, <2>1, AddedIsKnown
<1> HIDE DEF K
<1>3. ASSUME /\ thread' \in {"none", "resolve", "tries", "failed", "up"}
             /\ thread' \in {"resolve", "tries", "failed"} => world' = "connecting"
             /\ ~raced' => /\ thread' = "up" => world' = "connected"
                           /\ thread' = "failed" => K("disconnected")
                           /\ thread' \in {"none", "resolve", "tries"} => K(world')
      PROVE  StatusKnown'
  BY <1>3 DEF StatusKnown, WillKnow, K
<1>4. {"onOpen", "onConnecting", "onConnect", "onConnectFail", "onDisconnect", "onSystemMessage"}
        = Names
  BY DEF Names
<1>5. \A name \in Names : Queue(<<name>>) => Adds(name)
  BY QueueAdds
<1>6. ASSUME events' = events, UNCHANGED <<count, belief>> PROVE \A st : WillKnow(st) => K(st)
  BY <1>6 DEF WillKnow, K
<1>7. ASSUME NEW id \in DOMAIN made, Handle(id) PROVE StatusKnown'
  <2>1. UNCHANGED <<count, belief, raced>> /\ Does(made[id])
    BY <1>7 DEF Handle
  <2>2. ASSUME made[id] = "connect" PROVE world \notin {"connecting", "connected"}
    <3>1. \A i \in DOMAIN handled : handled[i] # id
      <4>1. CASE id = calls.ajax /\ ~answered
        <5>1. id # 0 /\ id \in Nat /\ \A i \in DOMAIN handled : handled[i] \in Nat
          BY HandledIs
        <5>2. \A i \in DOMAIN handled : handled[i] < id
          BY <4>1, <5>1 DEF QueueInv, BeforeAjax
        <5> QED
          BY <5>1, <5>2
      <4>2. CASE id \in orphans
        BY <4>2 DEF QueueInv, BeforeAjax
      <4> QED
        BY <1>7, <4>1, <4>2 DEF Handle
    <3>2. \A i \in DOMAIN handled : made[handled[i]] # "connect"
      <4>1. \A i \in DOMAIN handled : handled[i] \in DOMAIN made
        BY HandledIs
      <4> QED
        BY <2>2, <3>1, <4>1 DEF ConnectedOnce
    <3> QED
      BY <3>2 DEF ConnectedOnce
  <2>3. CASE made[id] = "open" /\ world = "none" /\ Adds("onOpen")
             /\ world' = "disconnected" /\ thread' = thread
    <3>1. K("disconnected")
      BY <1>2, <1>4, <2>1, <2>3
    <3> QED
      BY <1>1, <1>3, <2>1, <2>3, <3>1
  <2>4. CASE made[id] = "connect" /\ world = "disconnected" /\ Adds("onConnecting")
             /\ world' = "connecting" /\ thread' = "resolve"
    <3>1. K("connecting")
      BY <1>2, <1>4, <2>1, <2>4
    <3> QED
      BY <1>1, <1>3, <2>1, <2>4, <3>1
  <2>5. CASE Adds("onSystemMessage") /\ world' = world /\ thread' = thread
    <3>1. \A st : WillKnow(st) => K(st)
      BY <1>2, <1>4, <2>1, <2>5
    <3> QED
      BY <1>1, <1>3, <2>1, <2>5, <3>1
  <2>6. CASE events' = events /\ world' = world /\ thread' = thread
    <3>1. \A st : WillKnow(st) => K(st)
      BY <1>6, <2>1, <2>6
    <3> QED
      BY <1>1, <1>3, <2>1, <2>6, <3>1
  <2> QED
    BY <2>1, <2>2, <2>3, <2>4, <2>5, <2>6, DoesOne
<1>8. ASSUME ThreadStep PROVE StatusKnown'
  <2>1. UNCHANGED <<count, belief, raced>>
    BY <1>8 DEF ThreadStep, pageVars
  <2>2. CASE thread = "resolve" /\ thread' = "tries" /\ Queue(<<"onConnecting">>) /\ world' = world
    <3>1. K("connecting")
      BY <1>2, <1>4, <1>5, <2>1, <2>2
    <3> QED
      BY <1>1, <1>3, <2>1, <2>2, <3>1
  <2>3. CASE thread \in {"resolve", "tries"} /\ thread' = "failed" /\ Queue(<<"onConnectFail">>)
             /\ world' = world
    <3>1. K("disconnected")
      BY <1>2, <1>4, <1>5, <2>1, <2>3
    <3> QED
      BY <1>1, <1>3, <2>1, <2>3, <3>1
  <2>4. CASE thread = "tries" /\ thread' = "up" /\ world' = "connected"
    BY <1>3, <2>4
  <2>5. CASE thread = "failed" /\ thread' = "none" /\ world' = "disconnected" /\ events' = events
    <3>1. \A st : WillKnow(st) => K(st)
      BY <1>6, <2>1, <2>5
    <3> QED
      BY <1>1, <1>3, <2>1, <2>5, <3>1
  <2>6. CASE thread = "up" /\ thread' = "none" /\ world' = world /\ Queue(<<"onConnect">>)
    <3>1. K("connected")
      BY <1>2, <1>4, <1>5, <2>1, <2>6
    <3> QED
      BY <1>1, <1>3, <2>1, <2>6, <3>1
  <2> QED
    BY <1>8, <2>2, <2>3, <2>4, <2>5, <2>6 DEF ThreadStep
<1>9. ASSUME NetRead PROVE StatusKnown'
  <2>1. /\ UNCHANGED <<count, belief, thread>> /\ world = "connected" /\ world' = "disconnected"
        /\ Queue(<<"onDisconnect">>) /\ raced' = (raced \/ thread = "up")
    BY <1>9 DEF NetRead, pageVars
  <2>2. K("disconnected")
    BY <1>2, <1>4, <1>5, <2>1
  <2>3. thread \in {"none", "up"}
    BY <1>1, <2>1
  <2> QED
    BY <1>3, <2>1, <2>2, <2>3
<1>10. ASSUME Update PROVE StatusKnown'
  <2>1. /\ events' = Dumped /\ count' = Len(events) /\ belief' = Status
        /\ raced' = (raced \/ (count < 0 /\ thread = "failed"))
        /\ UNCHANGED <<world, thread>>
    BY <1>10 DEF Update
  <2>2. K(Status)
    <3>1. Len(Dumped) = Len(events) /\ Len(events) \in Nat
      BY DumpedIs
    <3>2. (Len(events) + 1 .. Len(events)) = {}
      BY <3>1
    <3> QED
      BY <2>1, <3>1, <3>2 DEF K, Knows, Told
  <2>3. CASE count < 0
    <3>1. Status = world
      BY <2>3 DEF Status
    <3> QED
      BY <1>1, <1>3, <2>1, <2>2, <2>3, <3>1
  <2>4. CASE count >= 0
    <3>1. \A st : WillKnow(st) => K(st)
      BY <2>2, <2>4, StatusIs
    <3>2. ~(count < 0)
      BY <2>4 DEF Types
    <3> QED
      BY <1>1, <1>3, <2>1, <3>1, <3>2
  <2> QED
    BY <2>3, <2>4 DEF Types
<1>11. ASSUME UpdateBreaks PROVE StatusKnown'
  <2>1. events' = Dumped /\ UNCHANGED <<count, belief, world, thread, raced>>
    BY <1>11 DEF UpdateBreaks
  <2>2. \A st : WillKnow(st) => K(st)
    BY <2>1, DumpedSays DEF K
  <2> QED
    BY <1>1, <1>3, <2>1, <2>2
<1>12. ASSUME Reload PROVE StatusKnown'
  <2>1. count' = -1 /\ UNCHANGED <<world, thread, raced>>
    BY <1>12 DEF Reload, worldVars
  <2>2. \A st : K(st)
    BY <2>1 DEF K, Knows
  <2> QED
    BY <1>1, <1>3, <2>1, <2>2
<1>13. ASSUME Complete \/ CallBreaks \/ Leave \/ UNCHANGED vars PROVE StatusKnown'
  <2>1. UNCHANGED <<count, belief, events, world, thread, raced>>
    BY <1>13 DEF Complete, CallBreaks, Leave, worldVars, vars, pageVars
  <2>2. \A st : WillKnow(st) => K(st)
    BY <1>6, <2>1
  <2> QED
    BY <1>1, <1>3, <2>1, <2>2
<1> QED
  BY <1>7, <1>8, <1>9, <1>10, <1>11, <1>12, <1>13 DEF Next

-----------------------------------------------------------------------------
(* Theorems.                                                               *)

ClientInv == Types /\ QueueInv /\ ConnectedOnce /\ StatusKnown

LEMMA ClientInvHolds == Spec => []ClientInv
<1>1. Init => ClientInv
  <2> SUFFICES ASSUME Init PROVE ClientInv
    OBVIOUS
  <2>1. /\ at = "loading" /\ count = -1 /\ belief = "none" /\ calls = NoCalls /\ answered = FALSE
        /\ orphans = {} /\ events = <<>> /\ world = "none" /\ thread = "none"
        /\ made = <<>> /\ handled = <<>>
    BY DEF Init
  <2>2. /\ \A A : <<>> \in Seq(A)
        /\ Len(<<>>) = 0 /\ DOMAIN <<>> = {} /\ 1 .. 0 = {}
    BY EmptySeq
  <2>3. Types
    <3>1. count \in Int /\ count <= Len(events) /\ -1 <= count
      <4>1. count = -1 /\ Len(events) = 0
        BY <2>1, <2>2
      <4> QED
        BY <4>1
    <3>2. /\ events \in Seq(Events) /\ made \in Seq(CallNames) /\ handled \in Seq(1 .. Len(made))
          /\ orphans \in SUBSET (1 .. Len(made))
      BY <2>1, <2>2
    <3>3. /\ at \in {"loading", "loaded", "leaving", "left"} /\ at \notin {"loaded", "leaving"}
          /\ belief \in Statuses /\ world \in Statuses
          /\ answered \in BOOLEAN
      BY <2>1 DEF Statuses
    <3> QED
      BY <3>1, <3>2, <3>3 DEF Types
  <2>4. Orderly(NoCalls, 0)
    BY <2>2 DEF Orderly, NoCalls, Queues
  <2>5. QueueInv
    BY <2>1, <2>2, <2>4 DEF QueueInv, BeforeAjax, CallsInOrder, NoCalls
  <2>6. ConnectedOnce
    BY <2>1, <2>2 DEF ConnectedOnce
  <2>7. StatusKnown
    BY <2>1 DEF StatusKnown, WillKnow, Knows
  <2> QED
    BY <2>3, <2>5, <2>6, <2>7 DEF ClientInv
<1>2. ClientInv /\ [Next]_vars => ClientInv'
  <2> SUFFICES ASSUME ClientInv, [Next]_vars PROVE ClientInv'
    OBVIOUS
  <2>1. Types /\ QueueInv /\ ConnectedOnce /\ StatusKnown
    BY DEF ClientInv
  <2>2. calls \in Queues /\ calls.ajax <= Len(made)
    BY <2>1 DEF QueueInv, Orderly
  <2> QED
    BY <2>1, <2>2, TypesNext, QueueNext, ConnectedNext, StatusNext DEF ClientInv
<1> QED
  BY <1>1, <1>2, PTL DEF Spec

\* The server handles the calls of a page in the order the page made them, each once, however
\* often connections break and pages are loaded; only a call whose connection broke may come
\* after later ones (muclient.js:99-117).
THEOREM CallsAreInOrder == Spec => []CallsInOrder
<1>1. ClientInv => CallsInOrder
  BY DEF ClientInv, QueueInv
<1> QED
  BY <1>1, ClientInvHolds, PTL

\* A page that has been told all there is knows the status of its world, but for the two races
\* of net.c between a status and its event (net.c:92-96, 170-172).
THEOREM StatusIsKnown == Spec => []PageKnowsStatus
<1>1. ClientInv => PageKnowsStatus
  <2> SUFFICES ASSUME ClientInv, at = "loaded", count = Len(events), thread = "none", ~raced
               PROVE  belief = world
    BY DEF PageKnowsStatus
  <2>1. /\ count \in Int /\ count >= 0 /\ WillKnow(world)
    BY DEF ClientInv, Types, StatusKnown
  <2>2. Told(world, belief, events, count + 1, Len(events))
    BY <2>1, Zenon DEF WillKnow, Knows
  <2>3. (count + 1 .. Len(events)) = {}
    BY <2>1
  <2> QED
    BY <2>2, <2>3 DEF Told
<1> QED
  BY <1>1, ClientInvHolds, PTL
=============================================================================
