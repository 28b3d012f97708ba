--------------------------- MODULE TextPath_proofs ---------------------------
(***************************************************************************)
(* Proofs about TextPath: what reaches the MUD, the log and the browser.   *)
(*                                                                         *)
(* Folds run through it: remove_markup, ansi2html, raw_read, net_send and  *)
(* llog are loops over a text, and FoldLeft is a recursion over sets of    *)
(* positions.  The lemmas of the first part show once that it is an        *)
(* iteration from the first element to the last; for every loop there is a *)
(* lemma ...Steps with its first value, its type and what one element more *)
(* makes of it, and induction is AllSequences.                             *)
(***************************************************************************)
EXTENDS TextPath, SequenceTheorems, WellFoundedInduction, TLAPS

-----------------------------------------------------------------------------
(* Induction, over sets of numbers and of sequences.                       *)

\* A set of numbers with 0, and below m with n + 1 for each n, has m.
LEMMA UpTo ==
    ASSUME NEW m \in Nat, NEW T \in SUBSET Nat, 0 \in T, \A n \in T : n < m => n + 1 \in T
    PROVE  m \in T
<1> SUFFICES ASSUME m \notin T PROVE FALSE
  OBVIOUS
<1> DEFINE U == {n \in Nat : n <= m /\ n \notin T}
<1>1. PICK x \in U : \A y \in U : <<y, x>> \notin OpToRel(<, Nat)
  <2>1. U \subseteq Nat /\ m \in U
    OBVIOUS
  <2> HIDE DEF U
  <2>2. U # {}
    BY <2>1
  <2> QED
    BY <2>1, <2>2, NatLessThanWellFounded, WFMin, Zenon
<1>2. \A y \in U : ~(y < x)
  BY <1>1, Zenon DEF OpToRel
<1>3. x \in Nat /\ x <= m /\ x \notin T
  OBVIOUS
<1>4. x # 0 /\ x - 1 \in Nat /\ x - 1 < x /\ x - 1 < m
  BY <1>3
<1>5. x - 1 \in T
  <2> SUFFICES ASSUME x - 1 \notin T PROVE FALSE
    OBVIOUS
  <2>1. x - 1 <= m
    BY <1>3, <1>4
  <2>2. x - 1 \in U
    BY <1>4, <2>1, Zenon
  <2> QED
    BY <1>2, <1>4, <2>2, Zenon
<1>6. (x - 1) + 1 \in T
  BY <1>4, <1>5
<1> QED
  BY <1>3, <1>6

\* A set of sequences with the empty one, and with each also what one more element makes of
\* it, has them all.
LEMMA AllSequences ==
    ASSUME NEW S, NEW T \in SUBSET Seq(S), << >> \in T,
           \A s \in T : \A x \in S : Append(s, x) \in T
    PROVE  T = Seq(S)
<1> DEFINE N == {n \in Nat : \A s \in Seq(S) : Len(s) = n => s \in T}
<1>1. 0 \in N
  <2>1. \A s \in Seq(S) : Len(s) = 0 => s = << >>
    BY EmptySeq
  <2> QED
    BY <2>1
<1>2. ASSUME NEW n \in N PROVE n + 1 \in N
  <2>1. ASSUME NEW s \in Seq(S), Len(s) = n + 1 PROVE s \in T
    <3>1. s # << >>
      BY <2>1, EmptySeq
    <3>2. PICK t \in Seq(S), x \in S : s = Append(t, x)
      BY <3>1, SequenceEmptyOrAppend
    <3>3. Len(t) = n
      BY <2>1, <3>2, AppendProperties, LenProperties
    <3> QED
      BY <3>2, <3>3
  <2> QED
    BY <2>1
<1>3. N \in SUBSET Nat
  OBVIOUS
<1> HIDE DEF N
<1>4. ASSUME NEW s \in Seq(S) PROVE s \in T
  <2>1. Len(s) \in Nat
    BY LenProperties
  <2>2. Len(s) \in N
    BY <1>1, <1>2, <1>3, <2>1, UpTo
  <2> QED
    BY <2>2 DEF N
<1> QED
  BY <1>4
\* A set of positions that is not empty has a first one.
LEMMA MinIsIn ==
    ASSUME NEW S \in SUBSET Nat, S # {}
    PROVE  Min(S) \in S /\ \A y \in S : Min(S) <= y
<1>1. PICK x \in S : \A y \in S : <<y, x>> \notin OpToRel(<, Nat)
  BY NatLessThanWellFounded, WFMin, Zenon
<1>2. \A y \in S : ~(y < x)
  BY <1>1, Zenon DEF OpToRel
<1>3. \A y \in S : x <= y
  BY <1>2
<1> QED
  BY <1>3 DEF Min

\* A set of positions in a sequence that is not empty has a last one.
LEMMA MaxIsIn ==
    ASSUME NEW n \in Nat, NEW S \in SUBSET (1 .. n), S # {}
    PROVE  Max(S) \in S /\ \A y \in S : y <= Max(S)
<1> DEFINE T == {i \in 0 .. n : n - i \in S}
<1>1. T \in SUBSET Nat /\ T # {}
  <2>1. T \in SUBSET Nat
    OBVIOUS
  <2>2. PICK x \in S : TRUE
    OBVIOUS
  <2>3. n - x \in T
    <3>1. x \in 1 .. n /\ n - (n - x) = x
      OBVIOUS
    <3> QED
      BY <3>1
  <2> HIDE DEF T
  <2> QED
    BY <2>1, <2>3
<1>2. Min(T) \in T /\ \A y \in T : Min(T) <= y
  BY <1>1, MinIsIn
<1>3. \A y \in S : y <= n - Min(T)
  <2>1. ASSUME NEW y \in S PROVE y <= n - Min(T)
    <3>1. n - y \in T
      OBVIOUS
    <3> HIDE DEF T
    <3>2. Min(T) <= n - y
      BY <1>2, <3>1
    <3>3. Min(T) \in Nat
      BY <1>1, <1>2
    <3>4. y \in 1 .. n
      OBVIOUS
    <3> QED
      BY <3>2, <3>3, <3>4
  <2> QED
    BY <2>1
<1>4. n - Min(T) \in S
  BY <1>2
<1> HIDE DEF T
<1> QED
  BY <1>3, <1>4 DEF Max

-----------------------------------------------------------------------------
(* Folds.                                                                  *)

\* A set of the first n + 1 numbers that has n + 1 has it for its maximum.
LEMMA LastIsMax ==
    ASSUME NEW n \in Nat, NEW t \in SUBSET (1 .. n + 1), n + 1 \in t
    PROVE  Max(t) = n + 1
<1>1. \A y \in t : y \in Int /\ n + 1 >= y
  OBVIOUS
<1>2. \A x \in t : (\A y \in t : x >= y) => x = n + 1
  <2> TAKE x \in t
  <2> HAVE \A y \in t : x >= y
  <2>1. x >= n + 1 /\ n + 1 >= x /\ x \in Int
    BY <1>1
  <2> QED
    BY <2>1
<1> QED
  BY <1>1, <1>2, Zenon DEF Max

\* What a fold computes with F from q over s, for the sets t of positions up to n.
IsFold(g, F, q, s, n) ==
    \A t \in SUBSET (1 .. n) :
        g[t] = IF t = {} THEN q ELSE F[<<g[t \ {Max(t)}], s[Max(t)]>>]

\* There is such a function.
LEMMA FoldIsThere ==
    ASSUME NEW A, NEW B, NEW F \in [A \X B -> A], NEW q \in A, NEW s \in Seq(B)
    PROVE  \E g \in [SUBSET (1 .. Len(s)) -> A] : IsFold(g, F, q, s, Len(s))
<1> DEFINE T == {n \in Nat : \E g \in [SUBSET (1 .. n) -> A] : IsFold(g, F, q, s, n)}
<1>1. 0 \in T
  <2> DEFINE g == [t \in SUBSET (1 .. 0) |-> q]
  <2>1. 1 .. 0 = {}
    OBVIOUS
  <2>2. g \in [SUBSET (1 .. 0) -> A] /\ IsFold(g, F, q, s, 0)
    BY <2>1 DEF IsFold
  <2> QED
    BY <2>2
<1>2. ASSUME NEW n \in T, n < Len(s) PROVE n + 1 \in T
  <2>1. n \in Nat /\ n + 1 \in Nat
    OBVIOUS
  <2>2. PICK g \in [SUBSET (1 .. n) -> A] : IsFold(g, F, q, s, n)
    OBVIOUS
  <2> DEFINE h == [t \in SUBSET (1 .. n + 1) |->
                     IF n + 1 \in t THEN F[<<g[t \ {n + 1}], s[n + 1]>>] ELSE g[t]]
  <2>3. s[n + 1] \in B
    BY <1>2, <2>1, ElementOfSeq, LenProperties
  <2>4. \A t \in SUBSET (1 .. n + 1) : t \ {n + 1} \in SUBSET (1 .. n)
    BY <2>1
  <2>5. h \in [SUBSET (1 .. n + 1) -> A]
    BY <2>2, <2>3, <2>4
  <2>6. ASSUME NEW t \in SUBSET (1 .. n + 1), t # {}
        PROVE  h[t] = F[<<h[t \ {Max(t)}], s[Max(t)]>>]
    <3>1. CASE n + 1 \in t
      <4>1. Max(t) = n + 1
        BY <2>1, <3>1, LastIsMax
      <4>2. h[t] = F[<<g[t \ {n + 1}], s[n + 1]>>]
        BY <3>1
      <4>3. h[t \ {n + 1}] = g[t \ {n + 1}]
        BY <2>4
      <4> QED
        BY <4>1, <4>2, <4>3
    <3>2. CASE n + 1 \notin t
      <4>1. t \in SUBSET (1 .. n) /\ t \ {Max(t)} \in SUBSET (1 .. n + 1)
            /\ n + 1 \notin t \ {Max(t)}
        BY <2>4, <3>2
      <4>2. h[t] = g[t] /\ h[t \ {Max(t)}] = g[t \ {Max(t)}]
        BY <3>2, <4>1
      <4>3. g[t] = F[<<g[t \ {Max(t)}], s[Max(t)]>>]
        BY <2>2, <2>6, <4>1 DEF IsFold
      <4> QED
        BY <4>2, <4>3
    <3> QED
      BY <3>1, <3>2
  <2>7. h[{}] = q
    <3>1. g[{}] = q
      BY <2>2 DEF IsFold
    <3> QED
      BY <3>1
  <2> HIDE DEF h
  <2>8. IsFold(h, F, q, s, n + 1)
    BY <2>6, <2>7 DEF IsFold
  <2> QED
    BY <2>1, <2>5, <2>8
<1>3. Len(s) \in Nat /\ T \in SUBSET Nat
  BY LenProperties
<1> HIDE DEF T
<1>4. Len(s) \in T
  BY <1>1, <1>2, <1>3, UpTo
<1> QED
  BY <1>4 DEF T


\* F makes one element of A of another and an element of B.
IsStep(F, A, B) == F \in [A \X B -> A]

\* A fold from the first element to the last, of a function F: h[i] is what i elements make.
IsFoldUpTo(h, F, q, s) ==
    h = [i \in 0 .. Len(s) |-> IF i = 0 THEN q ELSE F[<<h[i - 1], s[i]>>]]
Fold(F, q, s) == (CHOOSE h : IsFoldUpTo(h, F, q, s))[Len(s)]

\* h folds the first m elements of s.
Folds(h, F, q, s, m) ==
    /\ h[0] = q
    /\ \A i \in 1 .. m : h[i] = F[<<h[i - 1], s[i]>>]

\* Such a function folds every element.
LEMMA UpToFolds ==
    ASSUME NEW h, NEW F, NEW q, NEW s, Len(s) \in Nat, IsFoldUpTo(h, F, q, s)
    PROVE  Folds(h, F, q, s, Len(s))
<1> DEFINE n == Len(s)
<1>0. n \in Nat
  OBVIOUS
<1>1. h = [i \in 0 .. n |-> IF i = 0 THEN q ELSE F[<<h[i - 1], s[i]>>]]
  BY DEF IsFoldUpTo
<1> HIDE DEF n
<1>2. 0 \in 0 .. n /\ \A i \in 1 .. n : i \in 0 .. n /\ i # 0
  BY <1>0
<1>3. h[0] = q /\ \A i \in 1 .. n : h[i] = F[<<h[i - 1], s[i]>>]
  BY <1>1, <1>2, Zenon
<1> QED
  BY <1>3 DEF Folds, n

\* There is such a function.
LEMMA FoldUpToIsThere ==
    ASSUME NEW A, NEW B, NEW F, IsStep(F, A, B), NEW q \in A, NEW s \in Seq(B)
    PROVE  \E h \in [0 .. Len(s) -> A] : IsFoldUpTo(h, F, q, s)
<1>1. PICK g \in [SUBSET (1 .. Len(s)) -> A] : IsFold(g, F, q, s, Len(s))
  BY FoldIsThere DEF IsStep
<1> DEFINE n == Len(s)
           h == [i \in 0 .. n |-> g[1 .. i]]
<1>0. n \in Nat
  BY LenProperties
<1>2. g \in [SUBSET (1 .. n) -> A]
      /\ \A t \in SUBSET (1 .. n) : g[t] = IF t = {} THEN q ELSE F[<<g[t \ {Max(t)}], s[Max(t)]>>]
  BY <1>1 DEF IsFold
<1> HIDE DEF n
<1>3. \A i \in 0 .. n : (1 .. i) \in SUBSET (1 .. n)
  BY <1>0
<1>4. h \in [0 .. n -> A]
  BY <1>2, <1>3
<1>5. ASSUME NEW i \in 0 .. n
      PROVE  g[1 .. i] = IF i = 0 THEN q ELSE F[<<g[1 .. i - 1], s[i]>>]
  <2>1. CASE i = 0
    <3>1. 1 .. i = {}
      BY <2>1
    <3> QED
      BY <1>2, <1>3, <2>1, <3>1
  <2>2. CASE i # 0
    <3>1. i \in Nat /\ i - 1 \in Nat /\ (i - 1) + 1 = i
      BY <1>0, <2>2
    <3>2. i \in 1 .. i /\ (1 .. i) \in SUBSET (1 .. (i - 1) + 1)
      BY <3>1
    <3>3. Max(1 .. i) = (i - 1) + 1
      BY <3>1, <3>2, LastIsMax
    <3>4. (1 .. i) \ {i} = 1 .. (i - 1)
      BY <3>1
    <3>5. g[1 .. i] = F[<<g[(1 .. i) \ {Max(1 .. i)}], s[Max(1 .. i)]>>]
      BY <1>2, <1>3, <3>2
    <3> QED
      BY <2>2, <3>1, <3>3, <3>4, <3>5
  <2> QED
    BY <2>1, <2>2
<1>6. \A i \in 0 .. n : i # 0 => i - 1 \in 0 .. n
  BY <1>0
<1>7. h = [i \in 0 .. n |-> IF i = 0 THEN q ELSE F[<<h[i - 1], s[i]>>]]
  BY <1>5, <1>6
<1> QED
  BY <1>4, <1>7 DEF IsFoldUpTo, n

\* All that fold agree.
LEMMA FoldIsOne ==
    ASSUME NEW q, NEW F, NEW s, NEW m \in Nat, NEW h, NEW g,
           Folds(h, F, q, s, m), Folds(g, F, q, s, m)
    PROVE  h[m] = g[m]
<1> DEFINE T == {n \in Nat : n <= m => h[n] = g[n]}
<1>1. 0 \in T
  BY DEF Folds
<1>2. ASSUME NEW n \in T, n < m PROVE n + 1 \in T
  <2>1. n \in Nat /\ n <= m /\ n + 1 \in 1 .. m /\ (n + 1) - 1 = n
    BY <1>2
  <2>2. h[n] = g[n]
    BY <2>1
  <2>3. h[n + 1] = F[<<h[(n + 1) - 1], s[n + 1]>>] /\ g[n + 1] = F[<<g[(n + 1) - 1], s[n + 1]>>]
    BY <2>1 DEF Folds
  <2>4. h[n + 1] = g[n + 1]
    BY <2>1, <2>2, <2>3
  <2> QED
    BY <2>1, <2>4
<1>3. T \in SUBSET Nat
  OBVIOUS
<1>4. m <= m
  OBVIOUS
<1> HIDE DEF T
<1>5. m \in T
  BY <1>1, <1>2, <1>3, UpTo
<1> QED
  BY <1>4, <1>5 DEF T

\* What Fold is, without CHOOSE.
LEMMA FoldIs ==
    ASSUME NEW A, NEW B, NEW F, IsStep(F, A, B), NEW q \in A, NEW s \in Seq(B)
    PROVE  \E h \in [0 .. Len(s) -> A] :
              Folds(h, F, q, s, Len(s)) /\ Fold(F, q, s) = h[Len(s)] /\ h[Len(s)] \in A
<1>1. PICK h \in [0 .. Len(s) -> A] : IsFoldUpTo(h, F, q, s)
  BY FoldUpToIsThere
<1> DEFINE g == CHOOSE g : IsFoldUpTo(g, F, q, s)
<1>2. IsFoldUpTo(g, F, q, s)
  BY <1>1
<1>3. Fold(F, q, s) = g[Len(s)]
  BY DEF Fold
<1> HIDE DEF g
<1>4. Len(s) \in Nat
  BY LenProperties
<1>5. Folds(h, F, q, s, Len(s)) /\ Folds(g, F, q, s, Len(s))
  BY <1>1, <1>2, <1>4, UpToFolds
<1>6. g[Len(s)] = h[Len(s)]
  BY <1>4, <1>5, FoldIsOne
<1>7. h[Len(s)] \in A
  BY <1>1, <1>4
<1> QED
  BY <1>3, <1>5, <1>6, <1>7

\* What a fold of nothing and of one more element is.
LEMMA FoldSteps ==
    ASSUME NEW A, NEW B, NEW F, IsStep(F, A, B), NEW q \in A
    PROVE  /\ Fold(F, q, << >>) = q
           /\ \A s \in Seq(B) : Fold(F, q, s) \in A
           /\ \A s \in Seq(B), x \in B : Fold(F, q, Append(s, x)) = F[<<Fold(F, q, s), x>>]
<1>1. Fold(F, q, << >>) = q
  <2>1. << >> \in Seq(B) /\ Len(<< >>) = 0
    BY EmptySeq
  <2>2. PICK h \in [0 .. Len(<< >>) -> A] :
           Folds(h, F, q, << >>, Len(<< >>)) /\ Fold(F, q, << >>) = h[Len(<< >>)]
           /\ h[Len(<< >>)] \in A
    BY <2>1, FoldIs, Zenon
  <2> QED
    BY <2>1, <2>2 DEF Folds
<1>2. ASSUME NEW s \in Seq(B) PROVE Fold(F, q, s) \in A
  <2>1. PICK h \in [0 .. Len(s) -> A] :
           Folds(h, F, q, s, Len(s)) /\ Fold(F, q, s) = h[Len(s)] /\ h[Len(s)] \in A
    BY FoldIs, Zenon
  <2> QED
    BY <2>1
<1>3. ASSUME NEW s \in Seq(B), NEW x \in B
      PROVE  Fold(F, q, Append(s, x)) = F[<<Fold(F, q, s), x>>]
  <2> DEFINE t == Append(s, x)
             n == Len(s)
  <2>1. t \in Seq(B) /\ Len(t) = n + 1 /\ t[n + 1] = x /\ n \in Nat
        /\ \A i \in 1 .. n : t[i] = s[i]
    BY AppendProperties, LenProperties
  <2>2. PICK h \in [0 .. n -> A] : Folds(h, F, q, s, n) /\ Fold(F, q, s) = h[n] /\ h[n] \in A
    BY FoldIs, Zenon
  <2> HIDE DEF t
  <2>3. PICK g \in [0 .. Len(t) -> A] :
           Folds(g, F, q, t, Len(t)) /\ Fold(F, q, t) = g[Len(t)] /\ g[Len(t)] \in A
    BY <2>1, FoldIs, Zenon
  <2> HIDE DEF n
  <2>4. Folds(g, F, q, s, n)
    <3>1. \A i \in 1 .. n : i \in 1 .. n + 1
      BY <2>1
    <3> QED
      BY <2>1, <2>3, <3>1 DEF Folds
  <2>5. g[n] = h[n]
    <3>1. n \in Nat /\ Folds(h, F, q, s, n) /\ Folds(g, F, q, s, n)
      BY <2>1, <2>2, <2>4
    <3> QED
      BY ONLY <3>1, FoldIsOne
  <2>6. n + 1 \in 1 .. n + 1 /\ (n + 1) - 1 = n
    BY <2>1
  <2>7. g[n + 1] = F[<<g[(n + 1) - 1], t[n + 1]>>]
    BY <2>1, <2>3, <2>6 DEF Folds
  <2> QED
    BY <2>1, <2>2, <2>3, <2>5, <2>6, <2>7 DEF t
<1> QED
  BY <1>1, <1>2, <1>3

\* iter is what FoldLeft makes of every set of positions: of those in A as F does.
Iterates(iter, A, F, q, s, n) ==
    /\ iter[{}] = q
    /\ \A t \in SUBSET (1 .. n) :
          t # {} /\ iter[t \ {Max(t)}] \in A => iter[t] = F[<<iter[t \ {Max(t)}], s[Max(t)]>>]

\* FoldLeft comes to the same.
LEMMA FoldLeftIs ==
    ASSUME NEW A, NEW B, NEW F, IsStep(F, A, B), NEW q \in A, NEW s \in Seq(B), NEW iter,
           Iterates(iter, A, F, q, s, Len(s))
    PROVE  iter[DOMAIN s] = Fold(F, q, s)
<1>1. PICK h \in [0 .. Len(s) -> A] :
         Folds(h, F, q, s, Len(s)) /\ Fold(F, q, s) = h[Len(s)] /\ h[Len(s)] \in A
  BY FoldIs, Zenon
<1> DEFINE m == Len(s)
<1>2. m \in Nat /\ DOMAIN s = 1 .. m
  BY LenProperties
<1>3. h \in [0 .. m -> A] /\ Folds(h, F, q, s, m) /\ Fold(F, q, s) = h[m]
      /\ Iterates(iter, A, F, q, s, m)
  BY <1>1
<1> HIDE DEF m
<1> DEFINE T == {n \in Nat : n <= m => iter[1 .. n] = h[n]}
<1>4. 0 \in T
  <2>1. 1 .. 0 = {}
    OBVIOUS
  <2> QED
    BY <1>3, <2>1 DEF Folds, Iterates
<1>5. ASSUME NEW n \in T, n < m PROVE n + 1 \in T
  <2>1. n \in Nat /\ n <= m /\ n \in 0 .. m /\ n + 1 \in 1 .. m /\ (n + 1) - 1 = n
    BY <1>2, <1>5
  <2>2. iter[1 .. n] = h[n]
    BY <2>1
  <2> HIDE DEF T
  <2>3. n + 1 \in 1 .. n + 1 /\ (1 .. n + 1) \in SUBSET (1 .. n + 1)
    BY <2>1
  <2>4. Max(1 .. n + 1) = n + 1
    BY <2>1, <2>3, LastIsMax
  <2>5. (1 .. n + 1) \ {n + 1} = 1 .. n
    BY <2>1
  <2>6. 1 .. n + 1 # {} /\ (1 .. n + 1) \in SUBSET (1 .. m)
    <3>1. m \in Nat
      BY <1>2
    <3> QED
      BY <2>1, <2>3, <3>1
  <2>7. h[n] \in A
    BY <1>3, <2>1
  <2>8. iter[1 .. n + 1] = F[<<h[n], s[n + 1]>>]
    BY <1>3, <2>2, <2>4, <2>5, <2>6, <2>7 DEF Iterates
  <2>9. h[n + 1] = F[<<h[(n + 1) - 1], s[n + 1]>>]
    BY <1>3, <2>1 DEF Folds
  <2>10. iter[1 .. n + 1] = h[n + 1]
    BY <2>1, <2>8, <2>9
  <2> QED
    BY <2>1, <2>10 DEF T
<1>6. T \in SUBSET Nat
  OBVIOUS
<1> HIDE DEF T
<1>7. m \in T /\ m <= m
  BY <1>2, <1>4, <1>5, <1>6, UpTo
<1>8. iter[1 .. m] = h[m]
  BY <1>2, <1>7 DEF T
<1> QED
  BY <1>2, <1>3, <1>8

\* Where a fold is on its way.
LEMMA LastPlace ==
    ASSUME NEW B, NEW s \in Seq(B)
    PROVE  /\ Len(s) \in Nat /\ DOMAIN s = 1 .. Len(s)
           /\ \A t \in SUBSET (1 .. Len(s)) :
                 t # {} => t \ {Max(t)} \in SUBSET (1 .. Len(s)) /\ s[Max(t)] \in B
<1>1. Len(s) \in Nat /\ DOMAIN s = 1 .. Len(s)
  BY LenProperties
<1>2. ASSUME NEW t \in SUBSET (1 .. Len(s)), t # {} PROVE s[Max(t)] \in B
  <2>1. Max(t) \in 1 .. Len(s)
    BY <1>1, <1>2, MaxIsIn
  <2> QED
    BY <2>1, ElementOfSeq
<1> QED
  BY <1>1, <1>2

\* What a fold makes of nothing and of one more.
FoldsOn(F, q, A, B) ==
    /\ <<>> \in Seq(B) /\ Fold(F, q, <<>>) = q
    /\ \A s \in Seq(B) : Fold(F, q, s) \in A
    /\ \A s \in Seq(B), e \in B :
          Append(s, e) \in Seq(B) /\ Fold(F, q, Append(s, e)) = F[<<Fold(F, q, s), e>>]

LEMMA FoldMore ==
    ASSUME NEW A, NEW B, NEW F, IsStep(F, A, B), NEW q \in A
    PROVE  FoldsOn(F, q, A, B)
BY FoldSteps, EmptySeq, AppendProperties DEF FoldsOn

-----------------------------------------------------------------------------
(* Sending.                                                                *)

\* What net_send writes for a text that does not start with a line's end or an IAC: however
\* often the buffer is written on the way, out and buff are together what was read of the text.
LEMMA NetSendIsWhole ==
    ASSUME NEW S, "CR" \in S, "LF" \in S, NEW text \in Seq(S), text[1] \notin Stoppers
    PROVE  NetSend(text) = text \o <<"CR", "LF">>
<1> DEFINE Put(st, c) ==
             LET more == [st EXCEPT !.buff = @ \o Buffered(text[1], c)]
             IN  IF Len(more.buff) >= SendLen \/ (c = "LF" /\ text[1] \in Stoppers)
                 THEN Flush(more) ELSE more
           A == [buff : Seq(S), out : Seq(S)]
           q == [buff |-> <<>>, out |-> <<>>]
           F == [p \in A \X S |-> Put(p[1], p[2])]
           end == FoldLeft(Put, q, text)
<1>1. NetSend(text) = Flush([end EXCEPT !.buff = @ \o <<"CR", "LF">>]).out
  BY Zenon DEF NetSend
<1>2. ASSUME NEW st \in A, NEW c \in S
      PROVE  Put(st, c) \in A /\ Put(st, c).out \o Put(st, c).buff = Append(st.out \o st.buff, c)
  <2> DEFINE more == [buff |-> Append(st.buff, c), out |-> st.out]
  <2>1. st.buff \in Seq(S) /\ st.out \in Seq(S) /\ st = [buff |-> st.buff, out |-> st.out]
    OBVIOUS
  <2>2. Buffered(text[1], c) = <<c>>
    BY DEF Buffered
  <2>3. Append(st.buff, c) \in Seq(S) /\ Append(st.buff, c) = st.buff \o <<c>>
    BY <2>1, AppendProperties, AppendIsConcat
  <2>4. [st EXCEPT !.buff = @ \o Buffered(text[1], c)] = more
    <3>1. st.buff \o Buffered(text[1], c) = Append(st.buff, c)
      BY <2>2, <2>3, Zenon
    <3>2. \A b : [st EXCEPT !.buff = b] = [buff |-> b, out |-> st.out]
      BY <2>1
    <3> QED
      BY <3>1, <3>2
  <2>5. more \in A
    BY <2>1, <2>3
  <2>6. Put(st, c) = more \/ Put(st, c) = Flush(more)
    BY <2>4, Zenon
  <2>7. st.out \o Append(st.buff, c) \in Seq(S)
    BY <2>1, <2>3, ConcatProperties
  <2>8. Flush(more) = [buff |-> <<>>, out |-> st.out \o Append(st.buff, c)]
    BY DEF Flush
  <2>9. (st.out \o Append(st.buff, c)) \o <<>> = st.out \o Append(st.buff, c)
    BY <2>7, ConcatEmptySeq
  <2>10. st.out \o Append(st.buff, c) = Append(st.out \o st.buff, c)
    <3>1. <<c>> \in Seq(S)
      OBVIOUS
    <3>2. st.out \o (st.buff \o <<c>>) = (st.out \o st.buff) \o <<c>>
      BY <2>1, <3>1, ConcatAssociative
    <3>3. st.out \o st.buff \in Seq(S)
      BY <2>1, ConcatProperties
    <3> QED
      BY <2>3, <3>2, <3>3, AppendIsConcat
  <2>11. Flush(more) \in A /\ Flush(more).out \o Flush(more).buff = Append(st.out \o st.buff, c)
    <3>1. <<>> \in Seq(S)
      BY EmptySeq
    <3> HIDE DEF more
    <3> QED
      BY <2>7, <2>8, <2>9, <2>10, <3>1
  <2>12. more.out \o more.buff = Append(st.out \o st.buff, c)
    BY <2>10
  <2> HIDE DEF Put, more, A
  <2> QED
    BY <2>5, <2>6, <2>11, <2>12
<1> HIDE DEF Put
<1>3. q \in A
  BY EmptySeq
<1> HIDE DEF A, q
<1>4. IsStep(F, A, S)
  BY <1>2 DEF IsStep
<1>5. \A st \in A, c \in S : F[<<st, c>>] = Put(st, c)
  OBVIOUS
<1> HIDE DEF F
<1>6. end = Fold(F, q, text)
  <2> DEFINE Iter(g) == g = [t \in SUBSET DOMAIN text |->
                               IF t = {} THEN q ELSE Put(g[t \ {Max(t)}], text[Max(t)])]
             iter == CHOOSE g : Iter(g)
  <2>1. end = iter[DOMAIN text]
    BY DEF FoldLeft, MapThenFoldSet
  <2> HIDE DEF end
  <2>2. Len(text) \in Nat /\ DOMAIN text = 1 .. Len(text)
    BY LenProperties
  <2>3. PICK g \in [SUBSET (1 .. Len(text)) -> A] : IsFold(g, F, q, text, Len(text))
    BY <1>3, <1>4, FoldIsThere DEF IsStep
  <2>4. ASSUME NEW t \in SUBSET (1 .. Len(text)), t # {}
        PROVE  t \ {Max(t)} \in SUBSET (1 .. Len(text)) /\ text[Max(t)] \in S
    <3>1. Max(t) \in 1 .. Len(text)
      BY <2>2, <2>4, MaxIsIn
    <3> QED
      BY <3>1, ElementOfSeq
  <2>5. Iter(g)
    BY <1>5, <2>2, <2>3, <2>4 DEF IsFold
  <2>6. Iter(iter)
    BY <2>5
  <2> HIDE DEF iter
  <2>7. Iterates(iter, A, F, q, text, Len(text))
    <3>1. iter[{}] = q
      BY <2>6
    <3>2. ASSUME NEW t \in SUBSET (1 .. Len(text)), t # {}, iter[t \ {Max(t)}] \in A
          PROVE  iter[t] = F[<<iter[t \ {Max(t)}], text[Max(t)]>>]
      <4>1. iter[t] = Put(iter[t \ {Max(t)}], text[Max(t)])
        BY <2>2, <2>6, <3>2
      <4> HIDE DEF Iter
      <4> QED
        BY <1>5, <2>4, <3>2, <4>1
    <3> HIDE DEF Iter
    <3> QED
      BY <3>1, <3>2 DEF Iterates
  <2> QED
    BY <1>3, <1>4, <2>1, <2>7, FoldLeftIs
<1> DEFINE Whole(s) == Fold(F, q, s).out \o Fold(F, q, s).buff = s
           T == {s \in Seq(S) : Whole(s)}
<1>7. /\ Fold(F, q, <<>>) = q
      /\ \A s \in Seq(S) : Fold(F, q, s) \in A
      /\ \A s \in Seq(S), c \in S : Fold(F, q, Append(s, c)) = F[<<Fold(F, q, s), c>>]
  BY <1>3, <1>4, FoldSteps
<1>8. <<>> \in T
  <2>1. <<>> \in Seq(S) /\ <<>> \o <<>> = <<>>
    BY EmptySeq, ConcatEmptySeq
  <2>2. q.out = <<>> /\ q.buff = <<>>
    BY DEF q
  <2> QED
    BY <1>7, <2>1, <2>2
<1>9. ASSUME NEW s \in T, NEW c \in S PROVE Append(s, c) \in T
  <2> DEFINE st == Fold(F, q, s)
  <2>1. s \in Seq(S) /\ st \in A /\ st.out \o st.buff = s
    BY <1>7
  <2>2. Fold(F, q, Append(s, c)) = Put(st, c)
    BY <1>5, <1>7, <2>1
  <2> HIDE DEF st
  <2>3. Put(st, c).out \o Put(st, c).buff = Append(s, c)
    BY <1>2, <2>1
  <2> QED
    BY <2>1, <2>2, <2>3, AppendProperties
<1>10. T \in SUBSET Seq(S)
  OBVIOUS
<1> HIDE DEF T
<1>11. T = Seq(S)
  BY <1>8, <1>9, <1>10, AllSequences
<1>12. end \in A /\ end.out \o end.buff = text
  BY <1>6, <1>7, <1>11 DEF T
<1> DEFINE crlf == <<"CR", "LF">>
<1> HIDE DEF end
<1>13. NetSend(text) = end.out \o (end.buff \o crlf)
  BY <1>1, <1>12 DEF Flush, A
<1>14. end.out \in Seq(S) /\ end.buff \in Seq(S) /\ crlf \in Seq(S)
  BY <1>12 DEF A
<1> HIDE DEF crlf
<1> DEFINE out == end.out
           buff == end.buff
<1>15. out \in Seq(S) /\ buff \in Seq(S) /\ crlf \in Seq(S)
  BY <1>14
<1> HIDE DEF out, buff
<1>16. (out \o buff) \o crlf = out \o (buff \o crlf)
  BY <1>15, ConcatAssociative
<1> QED
  BY <1>12, <1>13, <1>16 DEF crlf, out, buff

\* What the user sends arrives whole, as one line, however small the buffer and however long
\* the text (net_send, net.c): a text that starts with a line's end or an IAC is excepted.
THEOREM TextIsSentWhole == Spec => []SentWhole
<1>1. Init => SentWhole
  BY DEF Init, SentWhole
<1>2. SentWhole /\ [Next]_vars => SentWhole'
  <2> SUFFICES ASSUME SentWhole, [Next]_vars PROVE SentWhole'
    OBVIOUS
  <2>1. ASSUME NEW text \in Typed, WorldSend(text) PROVE SentWhole'
    <3> DEFINE S == Characters \cup {"CR", "LF"}
    <3>1. text \in Seq(S)
      <4>1. text \in Seq(Characters) /\ Characters \subseteq S
        BY TextPathAssumption
      <4> HIDE DEF S
      <4> QED
        BY <4>1, SeqMonotonic
    <3>2. "CR" \in S /\ "LF" \in S
      OBVIOUS
    <3> HIDE DEF S
    <3>3. text[1] \notin Stoppers => NetSend(text) = text \o <<"CR", "LF">>
      BY <3>1, <3>2, NetSendIsWhole
    <3>4. sent' = NetSend(text) /\ typed' = text
      BY <2>1 DEF WorldSend
    <3> QED
      BY <3>3, <3>4, Zenon DEF SentWhole
  <2>2. CASE UNCHANGED <<sent, typed>>
    BY <2>2 DEF SentWhole
  <2>3. CASE Say
    BY <2>2, <2>3 DEF Say, historyVars
  <2>4. CASE Arrive
    BY <2>2, <2>4 DEF Arrive, historyVars
  <2>5. CASE NetRead
    BY <2>2, <2>5, Zenon DEF NetRead
  <2>6. CASE WorldConnect
    BY <2>2, <2>6 DEF WorldConnect
  <2>7. CASE WorldDisconnect
    BY <2>2, <2>7 DEF WorldDisconnect, historyVars
  <2>8. CASE Midnight
    BY <2>2, <2>8 DEF Midnight, historyVars
  <2>9. ASSUME NEW text \in Echoes, NEW opens \in Opens, WorldEcho(text, opens) PROVE SentWhole'
    BY <2>2, <2>9 DEF WorldEcho, historyVars
  <2>10. ASSUME NEW opens \in Opens, WorldOpen(opens) PROVE SentWhole'
    BY <2>2, <2>10 DEF WorldOpen
  <2>11. ASSUME NEW opens \in Opens, WorldClose(opens) PROVE SentWhole'
    BY <2>2, <2>11 DEF WorldClose, historyVars
  <2>12. CASE UNCHANGED vars
    BY <2>2, <2>12 DEF vars, historyVars
  <2> QED
    BY <2>1, <2>3, <2>4, <2>5, <2>6, <2>7, <2>8, <2>9, <2>10, <2>11, <2>12 DEF Next
<1> QED
  BY <1>1, <1>2, PTL DEF Spec

-----------------------------------------------------------------------------
(* The log.                                                                *)

\* What a line of the log is made of, and what is in its files.
Letters == Characters \cup {"IAC", Mojibake, " ", "<", ">", "&", "'", "t", "x",
                            "-- WORLD OPENED --", "-- WORLD CLOSED --", "-- LOG STARTED --",
                            "-- LOG ENDED --"}
Lines == Seq(Letters)
Logs == [logday : Days, logout : Days \cup {NONE}, disk : [Days -> Seq(Lines \cup Marks)]]

\* Files are written in the order of their days.
Filed(l, day) ==
    /\ l \in Logs /\ l.logday <= day /\ l.logout \in {NONE, l.logday}
    /\ \A d \in Days : d > l.logday => l.disk[d] = <<>>

\* The file of a day ends with the mark of a rollover.
EndsMarked(l, d) == l.disk[d] # <<>> /\ l.disk[d][Len(l.disk[d])] = Closing

\* The file before that of day d, if only it was closed by a rollover.
AfterMark(l, d) ==
    \E e \in Days : /\ e < d /\ EndsMarked(l, e)
                    /\ \A k \in Days : e < k /\ k < d => l.disk[k] = <<>>

\* Marks are where they belong.
MarksFit(l) ==
    \A d \in Days : \A i \in 1 .. Len(l.disk[d]) :
        /\ l.disk[d][i] = Closing => d < l.logday /\ i = Len(l.disk[d])
        /\ l.disk[d][i] = Opening0 => i = 1 /\ AfterMark(l, d)

\* What is in a file apart from marks, and what ought to be.
Unmarked(s) == FoldLeft(LAMBDA r, line : IF line \in Marks THEN r ELSE Append(r, line), <<>>, s)
Due(h, d) == FoldLeft(LAMBDA r, e : IF e[1] = d THEN Append(r, e[2]) ELSE r, <<>>, h)
Kept(l, h) == \A d \in Days : Unmarked(l.disk[d]) = Due(h, d)

\* All of it; in a year's time only: the same day of the next year is no rollover.
LogInv(l, h, day) ==
    /\ day \in Days /\ Filed(l, day) /\ MarksFit(l)
    /\ h \in Seq(Days \X Lines) /\ (MaxDay < YearLen => Kept(l, h))

\* What Unmarked makes of nothing and of one more line.
LEMMA UnmarkedSteps ==
    /\ Unmarked(<<>>) = <<>>
    /\ \A s \in Seq(Lines \cup Marks) : Unmarked(s) \in Seq(Lines)
    /\ \A s \in Seq(Lines \cup Marks), e \in Lines \cup Marks : Unmarked(Append(s, e))
           = IF e \in Marks THEN Unmarked(s) ELSE Append(Unmarked(s), e)
<1> DEFINE Op(r, line) == IF line \in Marks THEN r ELSE Append(r, line)
           F == [p \in (Seq(Lines)) \X (Lines \cup Marks) |-> Op(p[1], p[2])]
           q == <<>>
<1>1. ASSUME NEW r \in Seq(Lines), NEW e \in Lines \cup Marks PROVE Op(r, e) \in Seq(Lines)
  BY AppendProperties
<1>2. q \in Seq(Lines)
  BY EmptySeq
<1> HIDE DEF Op, q
<1>3. IsStep(F, Seq(Lines), Lines \cup Marks) /\ \A r \in Seq(Lines), e \in Lines \cup Marks : F[<<r, e>>] = Op(r, e)
  BY <1>1 DEF IsStep
<1> HIDE DEF F
<1>4. ASSUME NEW s \in Seq(Lines \cup Marks) PROVE Unmarked(s) = Fold(F, q, s)
  <2> DEFINE Iter(g) == g = [t \in SUBSET DOMAIN s |->
                               IF t = {} THEN q ELSE Op(g[t \ {Max(t)}], s[Max(t)])]
             iter == CHOOSE g : Iter(g)
  <2>1. Unmarked(s) = iter[DOMAIN s]
    BY Zenon DEF Unmarked, FoldLeft, MapThenFoldSet, Op, q
  <2>2. PICK g \in [SUBSET (1 .. Len(s)) -> Seq(Lines)] : IsFold(g, F, q, s, Len(s))
    BY <1>2, <1>3, FoldIsThere DEF IsStep
  <2>3. Iter(g)
    BY <1>3, <2>2, LastPlace DEF IsFold
  <2>4. Iter(iter)
    BY <2>3
  <2> HIDE DEF iter
  <2>5. /\ iter[{}] = q
        /\ \A t \in SUBSET (1 .. Len(s)) : t # {} => iter[t] = Op(iter[t \ {Max(t)}], s[Max(t)])
    BY <2>4, LastPlace
  <2> HIDE DEF Iter
  <2>6. Iterates(iter, Seq(Lines), F, q, s, Len(s))
    BY <1>3, <2>5, LastPlace DEF Iterates
  <2> QED
    BY <1>2, <1>3, <2>1, <2>6, FoldLeftIs
<1>5. FoldsOn(F, q, Seq(Lines), Lines \cup Marks)
  BY <1>2, <1>3, FoldMore
<1>6. ASSUME NEW s \in Seq(Lines \cup Marks), NEW e \in Lines \cup Marks
      PROVE  Unmarked(Append(s, e)) = Op(Unmarked(s), e)
  BY <1>3, <1>4, <1>5 DEF FoldsOn
<1>7. Unmarked(<<>>) = q /\ \A s \in Seq(Lines \cup Marks) : Unmarked(s) \in Seq(Lines)
  BY <1>4, <1>5 DEF FoldsOn
<1> QED
  BY <1>6, <1>7, Zenon DEF Op, q

\* As UnmarkedSteps, for Due.
LEMMA DueSteps ==
    ASSUME NEW d
    PROVE  /\ Due(<<>>, d) = <<>>
           /\ \A s \in Seq(Days \X Lines) : Due(s, d) \in Seq(Lines)
           /\ \A s \in Seq(Days \X Lines), e \in Days \X Lines : Due(Append(s, e), d)
                     = IF e[1] = d THEN Append(Due(s, d), e[2]) ELSE Due(s, d)
<1> DEFINE Op(r, e) == IF e[1] = d THEN Append(r, e[2]) ELSE r
           F == [p \in (Seq(Lines)) \X (Days \X Lines) |-> Op(p[1], p[2])]
           q == <<>>
<1>1. ASSUME NEW r \in Seq(Lines), NEW e \in Days \X Lines PROVE Op(r, e) \in Seq(Lines)
  <2>1. e[2] \in Lines
    OBVIOUS
  <2> QED
    BY <2>1, AppendProperties
<1>2. q \in Seq(Lines)
  BY EmptySeq
<1> HIDE DEF Op, q
<1>3. IsStep(F, Seq(Lines), Days \X Lines) /\ \A r \in Seq(Lines), e \in Days \X Lines : F[<<r, e>>] = Op(r, e)
  BY <1>1 DEF IsStep
<1> HIDE DEF F
<1>4. ASSUME NEW s \in Seq(Days \X Lines) PROVE Due(s, d) = Fold(F, q, s)
  <2> DEFINE Iter(g) == g = [t \in SUBSET DOMAIN s |->
                               IF t = {} THEN q ELSE Op(g[t \ {Max(t)}], s[Max(t)])]
             iter == CHOOSE g : Iter(g)
  <2>1. Due(s, d) = iter[DOMAIN s]
    BY Zenon DEF Due, FoldLeft, MapThenFoldSet, Op, q
  <2>2. PICK g \in [SUBSET (1 .. Len(s)) -> Seq(Lines)] : IsFold(g, F, q, s, Len(s))
    BY <1>2, <1>3, FoldIsThere DEF IsStep
  <2>3. Iter(g)
    BY <1>3, <2>2, LastPlace DEF IsFold
  <2>4. Iter(iter)
    BY <2>3
  <2> HIDE DEF iter
  <2>5. /\ iter[{}] = q
        /\ \A t \in SUBSET (1 .. Len(s)) : t # {} => iter[t] = Op(iter[t \ {Max(t)}], s[Max(t)])
    BY <2>4, LastPlace
  <2> HIDE DEF Iter
  <2>6. Iterates(iter, Seq(Lines), F, q, s, Len(s))
    BY <1>3, <2>5, LastPlace DEF Iterates
  <2> QED
    BY <1>2, <1>3, <2>1, <2>6, FoldLeftIs
<1>5. FoldsOn(F, q, Seq(Lines), Days \X Lines)
  BY <1>2, <1>3, FoldMore
<1>6. ASSUME NEW s \in Seq(Days \X Lines), NEW e \in Days \X Lines
      PROVE  Due(Append(s, e), d) = Op(Due(s, d), e)
  <2>1. Fold(F, q, s) \in Seq(Lines) /\ Append(s, e) \in Seq(Days \X Lines)
        /\ Fold(F, q, Append(s, e)) = F[<<Fold(F, q, s), e>>]
    BY <1>5, Zenon DEF FoldsOn
  <2>2. Due(s, d) = Fold(F, q, s) /\ Due(Append(s, e), d) = Fold(F, q, Append(s, e))
    BY <1>4, <2>1
  <2> QED
    BY <1>3, <2>1, <2>2
<1>7. Due(<<>>, d) = q /\ \A s \in Seq(Days \X Lines) : Due(s, d) \in Seq(Lines)
  BY <1>4, <1>5 DEF FoldsOn
<1> QED
  BY <1>6, <1>7, Zenon DEF Op, q

\* Marks are none of the lines.
LEMMA MarksAreNoLines == Lines \cap Marks = {} /\ Closing # Opening0
<1>1. \A m \in Marks : \E c : m = <<c>> /\ c \notin Letters
  <2>1. ASSUME NEW c, <<c>> \in Marks,
               c = "23:59:59 -- LOG ROLLOVER --" \/ c = "00:00:00 -- LOG ROLLOVER --"
        PROVE  c \notin Letters
    BY <2>1, Zenon DEF Letters, Characters, Mojibake
  <2>2. <<"23:59:59 -- LOG ROLLOVER --">> \in Marks /\ <<"00:00:00 -- LOG ROLLOVER --">> \in Marks
    BY Zenon DEF Marks, Closing, Opening0
  <2>3. (\E c : Closing = <<c>> /\ c \notin Letters) /\ (\E c : Opening0 = <<c>> /\ c \notin Letters)
    BY <2>1, <2>2, Zenon DEF Closing, Opening0
  <2> QED
    BY <2>3 DEF Marks
<1>2. ASSUME NEW line \in Lines, line \in Marks PROVE FALSE
  <2>1. PICK c : line = <<c>> /\ c \notin Letters
    BY <1>1, <1>2
  <2>2. line \in Seq(Letters)
    BY DEF Lines
  <2>3. 1 \in 1 .. Len(line) /\ line[1] = c
    BY <2>1
  <2> QED
    BY <2>1, <2>2, <2>3, ElementOfSeq
<1>3. Closing # Opening0
  <2>1. "23:59:59 -- LOG ROLLOVER --" # "00:00:00 -- LOG ROLLOVER --"
    BY Zenon
  <2>2. \A c, d : <<c>> = <<d>> => c = d
    OBVIOUS
  <2> QED
    BY <2>1, <2>2, Zenon DEF Closing, Opening0
<1> QED
  BY <1>2, <1>3

\* A line or a mark more in the file that is open.
LEMMA WriteIs ==
    ASSUME NEW l \in Logs, NEW d \in Days, NEW x \in Lines \cup Marks
    PROVE  /\ Write(l, d, x) \in Logs
           /\ Write(l, d, x).logday = l.logday /\ Write(l, d, x).logout = l.logout
           /\ Write(l, d, x).disk[d] = Append(l.disk[d], x)
           /\ \A k \in Days : k # d => Write(l, d, x).disk[k] = l.disk[k]
           /\ \A k \in Days : l.disk[k] \in Seq(Lines \cup Marks) /\ Len(l.disk[k]) \in Nat
<1>1. l.logday \in Days /\ l.logout \in Days \cup {NONE}
      /\ l.disk \in [Days -> Seq(Lines \cup Marks)]
  BY DEF Logs
<1>2. l.disk[d] \in Seq(Lines \cup Marks)
  BY <1>1
<1>3. Append(l.disk[d], x) \in Seq(Lines \cup Marks)
  BY <1>2, AppendProperties
<1> DEFINE disk == [l.disk EXCEPT ![d] = Append(l.disk[d], x)]
<1>4. disk \in [Days -> Seq(Lines \cup Marks)] /\ disk[d] = Append(l.disk[d], x)
      /\ \A k \in Days : k # d => disk[k] = l.disk[k]
  BY <1>1, <1>3
<1>5. Write(l, d, x) = [l EXCEPT !.disk = disk]
  BY <1>1 DEF Write, Logs
<1> HIDE DEF disk
<1>6. /\ [l EXCEPT !.disk = disk] \in Logs /\ [l EXCEPT !.disk = disk].disk = disk
      /\ [l EXCEPT !.disk = disk].logday = l.logday
      /\ [l EXCEPT !.disk = disk].logout = l.logout
  BY <1>1, <1>4 DEF Logs
<1>7. \A k \in Days : l.disk[k] \in Seq(Lines \cup Marks) /\ Len(l.disk[k]) \in Nat
  BY <1>1, LenProperties
<1> QED
  BY <1>4, <1>5, <1>6, <1>7

\* A line that is written is kept, a mark does not matter.
LEMMA WriteKept ==
    ASSUME NEW l \in Logs, NEW h \in Seq(Days \X Lines), Kept(l, h),
           NEW d \in Days, NEW x \in Lines \cup Marks
    PROVE  IF x \in Marks THEN Kept(Write(l, d, x), h)
           ELSE Kept(Write(l, d, x), Append(h, <<d, x>>))
<1> DEFINE w == Write(l, d, x)
<1>1. /\ w.disk[d] = Append(l.disk[d], x)
      /\ \A k \in Days : k # d => w.disk[k] = l.disk[k]
      /\ \A k \in Days : l.disk[k] \in Seq(Lines \cup Marks)
  BY WriteIs
<1> HIDE DEF w
<1>2. \A k \in Days : Unmarked(l.disk[k]) = Due(h, k)
  BY DEF Kept
<1>3. Unmarked(w.disk[d]) = IF x \in Marks THEN Unmarked(l.disk[d])
                            ELSE Append(Unmarked(l.disk[d]), x)
  BY <1>1, UnmarkedSteps
<1>4. CASE x \in Marks
  <2>1. \A k \in Days : Unmarked(w.disk[k]) = Due(h, k)
    BY <1>1, <1>2, <1>3, <1>4
  <2> QED
    BY <1>4, <2>1 DEF Kept, w
<1>5. CASE x \notin Marks
  <2> DEFINE e == <<d, x>>
  <2>1. e \in Days \X Lines /\ e[1] = d /\ e[2] = x
    BY <1>5
  <2> HIDE DEF e
  <2>2. ASSUME NEW k \in Days
        PROVE  Due(Append(h, e), k) = IF d = k THEN Append(Due(h, k), x) ELSE Due(h, k)
    <3>1. h \in Seq(Days \X Lines)
      BY <1>1
    <3>2. Due(Append(h, e), k) = IF e[1] = k THEN Append(Due(h, k), e[2]) ELSE Due(h, k)
      BY <2>1, <3>1, DueSteps, Zenon
    <3> QED
      BY <2>1, <3>2, Zenon
  <2>3. \A k \in Days : Unmarked(w.disk[k]) = Due(Append(h, e), k)
    BY <1>1, <1>2, <1>3, <1>5, <2>2
  <2> QED
    BY <1>5, <2>3 DEF Kept, w, e
<1> QED
  BY <1>4, <1>5

\* What holds of the files while a line is on its way to them.
Files(l, day) == day \in Days /\ Filed(l, day) /\ MarksFit(l)

\* Its parts, with the types that arithmetic needs.
LEMMA FilesParts ==
    ASSUME NEW l, NEW day, Files(l, day)
    PROVE  /\ l \in Logs /\ l.logday \in Days /\ l.logday \in Nat /\ l.logday <= day /\ day \in Nat
           /\ day \in Days /\ l.logout \in {NONE, l.logday}
           /\ \A k \in Days : k \in Nat /\ Len(l.disk[k]) \in Nat
                              /\ l.disk[k] \in Seq(Lines \cup Marks)
           /\ NONE \notin Days
<1>1. l \in Logs /\ day \in Days /\ l.logday <= day /\ l.logout \in {NONE, l.logday}
  BY DEF Files, Filed
<1>2. l.logday \in Days /\ \A k \in Days : l.disk[k] \in Seq(Lines \cup Marks)
  BY <1>1 DEF Logs
<1>3. \A k \in Days : k \in Nat
  BY LoggerAssumption DEF Days
<1>4. \A k \in Days : Len(l.disk[k]) \in Nat
  BY <1>2, LenProperties
<1>5. NONE \notin Days
  BY LoggerAssumption DEF Days, NONE
<1> QED
  BY <1>1, <1>2, <1>3, <1>4, <1>5

\* What is new in a file.
LEMMA Entries ==
    ASSUME NEW l \in Logs, NEW d \in Days, NEW x \in Lines \cup Marks
    PROVE  LET w == Write(l, d, x)
               n == Len(l.disk[d])
           IN  /\ n \in Nat /\ Len(w.disk[d]) = n + 1 /\ w.disk[d][n + 1] = x /\ w.disk[d] # <<>>
               /\ \A i \in 1 .. n : w.disk[d][i] = l.disk[d][i]
               /\ \A k \in Days : k # d => w.disk[k] = l.disk[k]
               /\ \A i \in 1 .. n + 1 : i = n + 1 \/ i \in 1 .. n
<1> DEFINE w == Write(l, d, x)
           n == Len(l.disk[d])
<1>1. w.disk[d] = Append(l.disk[d], x) /\ l.disk[d] \in Seq(Lines \cup Marks) /\ n \in Nat
      /\ \A k \in Days : k # d => w.disk[k] = l.disk[k]
  BY WriteIs
<1> HIDE DEF w
<1>2. /\ w.disk[d] # <<>> /\ Len(w.disk[d]) = n + 1 /\ w.disk[d][n + 1] = x
      /\ \A i \in 1 .. n : w.disk[d][i] = l.disk[d][i]
  BY <1>1, AppendProperties
<1> HIDE DEF n
<1>3. \A i \in 1 .. n + 1 : i = n + 1 \/ i \in 1 .. n
  BY <1>1
<1> QED
  BY <1>1, <1>2, <1>3 DEF w, n

\* What was closed by a rollover stays so as long as the earlier files stay.
LEMMA AfterMarkKept ==
    ASSUME NEW l, NEW w, NEW d \in Days, AfterMark(l, d),
           \A k \in Days : k < d => w.disk[k] = l.disk[k]
    PROVE  AfterMark(w, d)
<1>1. PICK e \in Days : /\ e < d /\ EndsMarked(l, e)
                        /\ \A k \in Days : e < k /\ k < d => l.disk[k] = <<>>
  BY DEF AfterMark
<1>2. EndsMarked(w, e)
  BY <1>1 DEF EndsMarked
<1>3. \A k \in Days : e < k /\ k < d => w.disk[k] = <<>>
  BY <1>1
<1> QED
  BY <1>1, <1>2, <1>3 DEF AfterMark

\* A line, or the mark of a rollover, in today's file.
LEMMA WriteFiles ==
    ASSUME NEW l, NEW day, Files(l, day), NEW x \in Lines \cup {Opening0},
           x = Opening0 => l.disk[l.logday] = <<>> /\ AfterMark(l, l.logday)
    PROVE  Files(Write(l, l.logday, x), day)
<1> DEFINE d == l.logday
           w == Write(l, d, x)
           n == Len(l.disk[d])
<1>1. /\ l \in Logs /\ d \in Days /\ d \in Nat /\ d <= day /\ day \in Days
      /\ l.logout \in {NONE, d} /\ \A k \in Days : k \in Nat
  BY FilesParts
<1>2. x \in Lines \cup Marks /\ x # Closing
  BY MarksAreNoLines DEF Marks
<1>3. w \in Logs /\ w.logday = d /\ w.logout = l.logout
  BY <1>1, <1>2, WriteIs
<1>4. /\ n \in Nat /\ Len(w.disk[d]) = n + 1 /\ w.disk[d][n + 1] = x /\ w.disk[d] # <<>>
      /\ \A i \in 1 .. n : w.disk[d][i] = l.disk[d][i]
      /\ \A k \in Days : k # d => w.disk[k] = l.disk[k]
      /\ \A i \in 1 .. n + 1 : i = n + 1 \/ i \in 1 .. n
  BY <1>1, <1>2, Entries, Zenon
<1>5. \A k \in Days : k > d => l.disk[k] = <<>>
  BY DEF Files, Filed
<1>6. \A k \in Days : \A i \in 1 .. Len(l.disk[k]) :
        /\ l.disk[k][i] = Closing => k < d /\ i = Len(l.disk[k])
        /\ l.disk[k][i] = Opening0 => i = 1 /\ AfterMark(l, k)
  BY DEF Files, MarksFit
<1>7. x = Opening0 => n = 0 /\ AfterMark(l, d)
  BY EmptySeq
<1> HIDE DEF w, n, d
<1>8. Filed(w, day)
  <2>1. \A k \in Days : k > d => k # d
    BY <1>1
  <2>2. \A k \in Days : k > d => w.disk[k] = <<>>
    BY <1>4, <1>5, <2>1
  <2> QED
    BY <1>1, <1>3, <2>2 DEF Filed
<1>9. ASSUME NEW k \in Days, k <= d, AfterMark(l, k) PROVE AfterMark(w, k)
  <2>1. \A j \in Days : j < k => j # d
    BY <1>1, <1>9
  <2>2. \A j \in Days : j < k => w.disk[j] = l.disk[j]
    BY <1>4, <2>1
  <2> QED
    BY <1>9, <2>2, AfterMarkKept
<1>10. ASSUME NEW k \in Days, NEW i \in 1 .. Len(w.disk[k])
       PROVE  /\ w.disk[k][i] = Closing => k < d /\ i = Len(w.disk[k])
              /\ w.disk[k][i] = Opening0 => i = 1 /\ AfterMark(w, k)
  <2>1. CASE k # d
    <3>1. w.disk[k] = l.disk[k]
      BY <1>4, <2>1
    <3>2. k <= d
      <4> SUFFICES ASSUME k > d PROVE FALSE
        BY <1>1
      <4>1. Len(l.disk[k]) = 0
        BY <1>5, EmptySeq
      <4> QED
        BY <3>1, <4>1
    <3> QED
      BY <1>6, <1>9, <3>1, <3>2
  <2>2. CASE k = d /\ i \in 1 .. n
    <3>1. w.disk[k][i] = l.disk[k][i] /\ i \in 1 .. Len(l.disk[k])
      BY <1>4, <2>2 DEF n
    <3>2. ~(k < d) /\ k <= d
      BY <1>1, <2>2
    <3> QED
      BY <1>6, <1>9, <3>1, <3>2
  <2>3. CASE k = d /\ i = n + 1
    <3>1. w.disk[k][i] = x
      BY <1>4, <2>3
    <3>2. w.disk[k][i] = Opening0 => i = 1 /\ AfterMark(l, k)
      BY <1>4, <1>7, <2>3, <3>1
    <3>3. k <= d
      BY <1>1, <2>3
    <3> QED
      BY <1>2, <1>9, <3>1, <3>2, <3>3
  <2> QED
    BY <1>4, <2>1, <2>2, <2>3
<1>11. MarksFit(w)
  BY <1>3, <1>10 DEF MarksFit
<1> QED
  BY <1>1, <1>8, <1>11 DEF Files, w, d

\* A rollover: the old file, if there is one, gets its mark.
LEMMA RollFiles ==
    ASSUME NEW l, NEW day, Files(l, day), l.logday # day
    PROVE  LET r == Rollover(l, day)
           IN  /\ Files(r, day) /\ r.logday = day /\ r.logout = NONE
               /\ r.disk[day] = <<>> /\ (l.logout # NONE => AfterMark(r, day))
<1> DEFINE d == l.logday
           m == IF l.logout = NONE THEN l ELSE Write(l, l.logout, Closing)
           r == [m EXCEPT !.logday = day, !.logout = NONE]
           n == Len(l.disk[d])
<1>1. /\ l \in Logs /\ d \in Days /\ d \in Nat /\ d < day /\ day \in Days /\ day \in Nat
      /\ l.logout \in {NONE, d} /\ (\A k \in Days : k \in Nat) /\ NONE \notin Days
  BY FilesParts
<1>2. Closing \in Lines \cup Marks /\ Closing # Opening0
  BY MarksAreNoLines DEF Marks
<1>3. m \in Logs
  BY <1>1, <1>2, WriteIs
<1>4. CASE l.logout = NONE
  <2>1. m = l
    BY <1>4
  <2>2. r \in Logs /\ r.logday = day /\ r.logout = NONE /\ r.disk = l.disk
    BY <1>1, <2>1 DEF Logs
  <2> HIDE DEF r, m, n, d
  <2>3. \A k \in Days : k > d => r.disk[k] = <<>>
    BY <2>2 DEF Files, Filed, d
  <2>4. Filed(r, day)
    <3>1. \A k \in Days : k > day => k > d
      BY <1>1
    <3>2. \A k \in Days : k > day => r.disk[k] = <<>>
      BY <2>3, <3>1
    <3>3. day <= day
      BY <1>1
    <3> QED
      BY <2>2, <3>2, <3>3 DEF Filed
  <2>5. ASSUME NEW k \in Days, AfterMark(l, k) PROVE AfterMark(r, k)
    BY <2>2, <2>5, AfterMarkKept
  <2>6. ASSUME NEW k \in Days, NEW i \in 1 .. Len(r.disk[k])
        PROVE  /\ r.disk[k][i] = Closing => k < day /\ i = Len(r.disk[k])
               /\ r.disk[k][i] = Opening0 => i = 1 /\ AfterMark(r, k)
    <3>1. i \in 1 .. Len(l.disk[k])
      BY <2>2
    <3>2. /\ l.disk[k][i] = Closing => k < d /\ i = Len(l.disk[k])
          /\ l.disk[k][i] = Opening0 => i = 1 /\ AfterMark(l, k)
      BY <3>1 DEF Files, MarksFit, d
    <3>3. k < d => k < day
      BY <1>1
    <3> QED
      BY <2>2, <2>5, <3>2, <3>3
  <2>7. MarksFit(r)
    BY <2>2, <2>6 DEF MarksFit
  <2>8. r.disk[day] = <<>>
    BY <1>1, <2>3
  <2>9. Files(r, day)
    BY <1>1, <2>4, <2>7 DEF Files
  <2> QED
    BY <1>4, <2>2, <2>8, <2>9 DEF r, m, Rollover
<1>5. CASE l.logout = d
  <2>1. m = Write(l, d, Closing) /\ l.logout # NONE
    BY <1>1, <1>5
  <2>2. r \in Logs /\ r.logday = day /\ r.logout = NONE /\ r.disk = m.disk
    BY <1>1, <1>3 DEF Logs
  <2> HIDE DEF m
  <2>3. /\ n \in Nat /\ Len(m.disk[d]) = n + 1 /\ m.disk[d][n + 1] = Closing /\ m.disk[d] # <<>>
        /\ \A i \in 1 .. n : m.disk[d][i] = l.disk[d][i]
        /\ \A k \in Days : k # d => m.disk[k] = l.disk[k]
        /\ \A i \in 1 .. n + 1 : i = n + 1 \/ i \in 1 .. n
    <3> DEFINE w == Write(l, d, Closing)
    <3>1. /\ n \in Nat /\ Len(w.disk[d]) = n + 1 /\ w.disk[d][n + 1] = Closing /\ w.disk[d] # <<>>
          /\ \A i \in 1 .. n : w.disk[d][i] = l.disk[d][i]
          /\ \A k \in Days : k # d => w.disk[k] = l.disk[k]
          /\ \A i \in 1 .. n + 1 : i = n + 1 \/ i \in 1 .. n
      BY <1>1, <1>2, Entries, Zenon
    <3> QED
      BY <2>1, <3>1, Zenon
  <2> HIDE DEF r, n
  <2>4. \A k \in Days : k > d => l.disk[k] = <<>>
    BY DEF Files, Filed
  <2> HIDE DEF d
  <2>5. \A k \in Days : k > d => r.disk[k] = <<>>
    <3>1. \A k \in Days : k > d => k # d
      BY <1>1
    <3> QED
      BY <2>2, <2>3, <2>4, <3>1
  <2>6. Filed(r, day)
    <3>1. \A k \in Days : k > day => k > d
      BY <1>1
    <3>2. \A k \in Days : k > day => r.disk[k] = <<>>
      BY <2>5, <3>1
    <3>3. day <= day
      BY <1>1
    <3> QED
      BY <2>2, <3>2, <3>3 DEF Filed
  <2>7. AfterMark(r, day)
    <3>1. EndsMarked(r, d)
      BY <2>2, <2>3 DEF EndsMarked
    <3>2. \A k \in Days : d < k /\ k < day => r.disk[k] = <<>>
      BY <1>1, <2>5
    <3> QED
      BY <1>1, <3>1, <3>2 DEF AfterMark
  <2>8. ASSUME NEW k \in Days, k <= d, AfterMark(l, k) PROVE AfterMark(r, k)
    <3>1. \A j \in Days : j < k => j # d
      BY <1>1, <2>8
    <3>2. \A j \in Days : j < k => r.disk[j] = l.disk[j]
      BY <2>2, <2>3, <3>1
    <3> QED
      BY <2>8, <3>2, AfterMarkKept
  <2>9. \A k \in Days : \A i \in 1 .. Len(l.disk[k]) :
          /\ l.disk[k][i] = Closing => k < d /\ i = Len(l.disk[k])
          /\ l.disk[k][i] = Opening0 => i = 1 /\ AfterMark(l, k)
    BY DEF Files, MarksFit, d
  <2>10. ASSUME NEW k \in Days, NEW i \in 1 .. Len(m.disk[k])
         PROVE  /\ m.disk[k][i] = Closing => k < day /\ i = Len(m.disk[k])
                /\ m.disk[k][i] = Opening0 => i = 1 /\ AfterMark(r, k)
    <3>1. CASE k # d
      <4>1. m.disk[k] = l.disk[k]
        BY <2>3, <3>1
      <4>2. k <= d
        <5> SUFFICES ASSUME k > d PROVE FALSE
          BY <1>1
        <5>1. Len(l.disk[k]) = 0
          BY <2>4, EmptySeq
        <5> QED
          BY <4>1, <5>1
      <4>3. k < d => k < day
        BY <1>1
      <4> QED
        BY <2>8, <2>9, <4>1, <4>2, <4>3
    <3>2. CASE k = d /\ i \in 1 .. n
      <4>1. m.disk[k][i] = l.disk[k][i] /\ i \in 1 .. Len(l.disk[k])
        BY <2>3, <3>2 DEF n
      <4>2. ~(k < d) /\ k <= d
        BY <1>1, <3>2
      <4> QED
        BY <2>8, <2>9, <4>1, <4>2
    <3>3. CASE k = d /\ i = n + 1
      <4>1. m.disk[k][i] = Closing /\ i = Len(m.disk[k]) /\ k < day
        BY <1>1, <2>3, <3>3
      <4> QED
        BY <1>2, <4>1
    <3> QED
      BY <2>3, <3>1, <3>2, <3>3
  <2>11. MarksFit(r)
    BY <2>2, <2>10 DEF MarksFit
  <2>12. r.disk[day] = <<>>
    BY <1>1, <2>5
  <2>13. Files(r, day)
    BY <1>1, <2>6, <2>11 DEF Files
  <2> QED
    BY <2>2, <2>7, <2>12, <2>13 DEF r, m, Rollover
<1> QED
  BY <1>1, <1>4, <1>5

\* A file is opened, or the logger looks at another day.
LEMMA OpenedFiles ==
    ASSUME NEW l, NEW day, Files(l, day), NEW d \in Days, l.logday <= d, d <= day,
           NEW f \in {NONE, d}
    PROVE  Files([l EXCEPT !.logday = d, !.logout = f], day)
<1> DEFINE r == [l EXCEPT !.logday = d, !.logout = f]
<1>1. /\ l \in Logs /\ l.logday \in Nat /\ d \in Nat /\ (\A k \in Days : k \in Nat)
      /\ day \in Nat /\ day \in Days
  BY FilesParts
<1>2. r \in Logs /\ r.logday = d /\ r.logout = f /\ r.disk = l.disk
  BY <1>1 DEF Logs
<1> HIDE DEF r
<1>3. Filed(r, day)
  <2>1. \A k \in Days : k > d => k > l.logday
    BY <1>1
  <2> QED
    BY <1>2, <2>1 DEF Files, Filed
<1>4. ASSUME NEW k \in Days, AfterMark(l, k) PROVE AfterMark(r, k)
  BY <1>2, <1>4, AfterMarkKept
<1>5. ASSUME NEW k \in Days, NEW i \in 1 .. Len(r.disk[k])
      PROVE  /\ r.disk[k][i] = Closing => k < d /\ i = Len(r.disk[k])
             /\ r.disk[k][i] = Opening0 => i = 1 /\ AfterMark(r, k)
  <2>1. i \in 1 .. Len(l.disk[k])
    BY <1>2
  <2>2. /\ l.disk[k][i] = Closing => k < l.logday /\ i = Len(l.disk[k])
        /\ l.disk[k][i] = Opening0 => i = 1 /\ AfterMark(l, k)
    BY <2>1 DEF Files, MarksFit
  <2>3. k < l.logday => k < d
    BY <1>1
  <2> QED
    BY <1>2, <1>4, <2>2, <2>3
<1>6. MarksFit(r)
  BY <1>2, <1>5 DEF MarksFit
<1> QED
  BY <1>1, <1>3, <1>6 DEF Files, r

\* Below a year, days are told apart by their day of the year (tm_yday in vllog).
LEMMA SameDay ==
    ASSUME MaxDay < YearLen, NEW d \in Days, NEW e \in Days, d % YearLen = e % YearLen
    PROVE  d = e
<1>1. MaxDay \in Nat /\ YearLen \in Nat /\ YearLen > 0
  BY LoggerAssumption
<1>2. d \in Nat /\ e \in Nat /\ d < YearLen /\ e < YearLen
  BY <1>1 DEF Days
<1>3. \A a \in Nat : a < YearLen => a % YearLen = a
  BY <1>1
<1> QED
  BY <1>2, <1>3

\* What was kept depends on the files alone.
LEMMA KeptIsOfDisk == ASSUME NEW l, NEW r, NEW h, Kept(l, h), r.disk = l.disk PROVE Kept(r, h)
BY DEF Kept

\* The logger on the day of the line, after a rollover if one is due.
LEMMA RolledIs ==
    ASSUME NEW l, NEW h, NEW day, LogInv(l, h, day)
    PROVE  LET r == IF Rolls(l, day) THEN Rollover(l, day) ELSE l
           IN  /\ LogInv(r, h, day) /\ (MaxDay < YearLen => r.logday = day)
               /\ Rolls(l, day) => /\ r.logday = day /\ r.logout = NONE /\ r.disk[day] = <<>>
                                   /\ l.logout # NONE => AfterMark(r, day)
<1> DEFINE r == IF Rolls(l, day) THEN Rollover(l, day) ELSE l
<1>1. Files(l, day) /\ h \in Seq(Days \X Lines) /\ (MaxDay < YearLen => Kept(l, h))
  BY DEF LogInv, Files
<1>2. l \in Logs /\ l.logday \in Days /\ day \in Days /\ l.logout \in {NONE, l.logday}
  BY <1>1, FilesParts
<1>3. CASE ~Rolls(l, day)
  <2>1. MaxDay < YearLen => l.logday = day
    BY <1>2, <1>3, SameDay DEF Rolls
  <2> QED
    BY <1>3, <2>1
<1>4. CASE Rolls(l, day)
  <2>1. r = Rollover(l, day)
    BY <1>4
  <2>2. l.logday # day
    BY <1>4 DEF Rolls
  <2>3. /\ Files(r, day) /\ r.logday = day /\ r.logout = NONE
        /\ r.disk[day] = <<>> /\ (l.logout # NONE => AfterMark(r, day))
    <3> DEFINE x == Rollover(l, day)
    <3>1. /\ Files(x, day) /\ x.logday = day /\ x.logout = NONE
          /\ x.disk[day] = <<>> /\ (l.logout # NONE => AfterMark(x, day))
      BY <1>1, <2>2, RollFiles, Zenon
    <3> QED
      BY <2>1, <3>1, Zenon
  <2>4. ASSUME MaxDay < YearLen PROVE Kept(r, h)
    <3> DEFINE m == IF l.logout = NONE THEN l ELSE Write(l, l.logout, Closing)
    <3>1. Kept(l, h)
      BY <1>1, <2>4
    <3>2. Closing \in Marks
      BY DEF Marks
    <3>3. m \in Logs /\ Kept(m, h)
      <4>1. CASE l.logout = NONE
        BY <1>2, <3>1, <4>1
      <4>2. CASE l.logout # NONE
        <5>1. m = Write(l, l.logday, Closing)
          BY <1>2, <4>2
        <5>2. Write(l, l.logday, Closing) \in Logs
          BY <1>2, <3>2, WriteIs
        <5>3. Kept(Write(l, l.logday, Closing), h)
          BY <1>1, <1>2, <3>1, <3>2, WriteKept
        <5> QED
          BY <5>1, <5>2, <5>3
      <4> QED
        BY <4>1, <4>2
    <3>4. r = [m EXCEPT !.logday = day, !.logout = NONE]
      BY <2>1 DEF Rollover
    <3> HIDE DEF m, r
    <3>5. r.disk = m.disk
      BY <3>3, <3>4 DEF Logs
    <3> QED
      BY <3>3, <3>5, KeptIsOfDisk
  <2> HIDE DEF r
  <2> QED
    BY <1>1, <1>4, <2>3, <2>4 DEF LogInv, Files, r
<1> QED
  BY <1>3, <1>4

\* The logger with its file open.
LEMMA OpenFileKeeps ==
    ASSUME NEW l, NEW h, NEW day, LogInv(l, h, day), NEW mark \in BOOLEAN,
           mark => l.disk[l.logday] = <<>> /\ AfterMark(l, l.logday)
    PROVE  LET r == OpenFile(l, mark)
           IN  LogInv(r, h, day) /\ r.logday = l.logday /\ r.logout = l.logday
<1> DEFINE o == [l EXCEPT !.logout = l.logday]
           r == OpenFile(l, mark)
<1>1. Files(l, day) /\ h \in Seq(Days \X Lines) /\ (MaxDay < YearLen => Kept(l, h))
  BY DEF LogInv, Files
<1>2. l \in Logs /\ l.logday \in Days /\ l.logday <= day /\ l.logday \in Nat
  BY <1>1, FilesParts
<1>3. o = [l EXCEPT !.logday = l.logday, !.logout = l.logday]
  BY <1>2 DEF Logs
<1>4. Files(o, day)
  <2>1. l.logday <= l.logday /\ l.logday \in {NONE, l.logday}
    BY <1>2
  <2>2. Files([l EXCEPT !.logday = l.logday, !.logout = l.logday], day)
    BY <1>1, <1>2, <2>1, OpenedFiles, Zenon
  <2> QED
    BY <1>3, <2>2, Zenon
<1>5. o \in Logs /\ o.logday = l.logday /\ o.logout = l.logday /\ o.disk = l.disk
  BY <1>2 DEF Logs
<1>6. r = IF mark THEN Write(o, l.logday, Opening0) ELSE o
  BY Zenon DEF OpenFile
<1> HIDE DEF o, r
<1>7. MaxDay < YearLen => Kept(o, h)
  BY <1>1, <1>5, KeptIsOfDisk
<1>8. CASE ~mark
  BY <1>1, <1>4, <1>5, <1>6, <1>7, <1>8 DEF LogInv, Files, r
<1>9. CASE mark
  <2>1. o.disk[o.logday] = <<>> /\ AfterMark(o, o.logday)
    BY <1>2, <1>5, <1>9, AfterMarkKept
  <2>2. r = Write(o, o.logday, Opening0)
    BY <1>5, <1>6, <1>9
  <2>3. Files(r, day)
    BY <1>4, <2>1, <2>2, WriteFiles
  <2>4. Opening0 \in Marks
    BY DEF Marks
  <2>5. r.logday = l.logday /\ r.logout = l.logday
    BY <1>2, <1>5, <2>2, <2>4, WriteIs
  <2>6. MaxDay < YearLen => Kept(r, h)
    BY <1>1, <1>2, <1>5, <1>7, <2>2, <2>4, WriteKept
  <2> QED
    BY <1>1, <2>3, <2>5, <2>6 DEF LogInv, Files, r
<1> QED
  BY <1>8, <1>9

\* vllog: the files stay as they have to be, and the line is where it belongs.
LEMMA VllogKeeps ==
    ASSUME NEW l, NEW h, NEW day, LogInv(l, h, day), NEW line \in Lines, NEW opens \in BOOLEAN
    PROVE  LogInv(Vllog(l, day, line, opens),
                  IF HasFile(l, day, opens) THEN Append(h, <<day, line>>) ELSE h, day)
<1> DEFINE rolls == Rolls(l, day)
           r == IF rolls THEN Rollover(l, day) ELSE l
           mark == rolls /\ l.logout # NONE
           ready == IF r.logout # NONE \/ ~opens THEN r ELSE OpenFile(r, mark)
           w == IF ready.logout = NONE THEN ready ELSE Write(ready, ready.logout, line)
<1>1. Vllog(l, day, line, opens) = w
  BY Zenon DEF Vllog
<1>2. /\ LogInv(r, h, day) /\ (MaxDay < YearLen => r.logday = day)
      /\ rolls => /\ r.logday = day /\ r.logout = NONE /\ r.disk[day] = <<>>
                  /\ l.logout # NONE => AfterMark(r, day)
  BY RolledIs, Zenon
<1>3. ~rolls => r = l
  OBVIOUS
<1>4. HasFile(l, day, opens) <=> (l.logout # NONE /\ ~rolls) \/ opens
  BY DEF HasFile
<1>5. mark <=> rolls /\ l.logout # NONE
  OBVIOUS
<1>6. mark \in BOOLEAN
  OBVIOUS
<1> HIDE DEF rolls, r, mark
<1>7. Files(r, day) /\ r.logday \in Days /\ NONE \notin Days
  <2>1. Files(r, day)
    BY <1>2 DEF LogInv, Files
  <2> QED
    BY <2>1, FilesParts
<1>8. /\ LogInv(ready, h, day) /\ ready.logday = r.logday
      /\ ready.logout # NONE <=> r.logout # NONE \/ opens
  <2>1. CASE r.logout # NONE \/ ~opens
    <3>1. ready = r
      BY <2>1
    <3> QED
      BY <1>2, <2>1, <3>1
  <2>2. CASE ~(r.logout # NONE \/ ~opens)
    <3>1. ready = OpenFile(r, mark)
      BY <2>2
    <3>2. mark => r.disk[r.logday] = <<>> /\ AfterMark(r, r.logday)
      BY <1>2, <1>5
    <3>3. LogInv(OpenFile(r, mark), h, day) /\ OpenFile(r, mark).logday = r.logday
          /\ OpenFile(r, mark).logout = r.logday
      BY <1>2, <1>6, <3>2, OpenFileKeeps, Zenon
    <3> QED
      BY <1>7, <2>2, <3>1, <3>3
  <2> QED
    BY <2>1, <2>2
<1>9. HasFile(l, day, opens) <=> ready.logout # NONE
  BY <1>2, <1>3, <1>4, <1>8
<1> HIDE DEF ready
<1>10. Files(ready, day) /\ h \in Seq(Days \X Lines) /\ (MaxDay < YearLen => Kept(ready, h))
  BY <1>8 DEF LogInv, Files
<1>11. ready \in Logs /\ ready.logout \in {NONE, ready.logday} /\ ready.logday \in Days
       /\ day \in Days
  BY <1>10, FilesParts
<1>12. CASE ready.logout = NONE
  BY <1>1, <1>8, <1>9, <1>12
<1>13. CASE ready.logout # NONE
  <2>1. w = Write(ready, ready.logday, line)
    BY <1>11, <1>13
  <2> HIDE DEF w
  <2>2. line # Opening0
    BY MarksAreNoLines DEF Marks
  <2>3. Files(w, day)
    BY <1>10, <2>1, <2>2, WriteFiles
  <2>4. ASSUME MaxDay < YearLen PROVE Kept(w, Append(h, <<day, line>>))
    <3>1. ready.logday = day /\ Kept(ready, h)
      BY <1>2, <1>8, <1>10, <2>4
    <3>2. line \notin Marks
      BY MarksAreNoLines
    <3>3. Kept(Write(ready, day, line), Append(h, <<day, line>>))
      BY <1>10, <1>11, <3>1, <3>2, WriteKept
    <3> QED
      BY <2>1, <3>1, <3>3
  <2>5. Append(h, <<day, line>>) \in Seq(Days \X Lines)
    BY <1>10, <1>11, AppendProperties
  <2> QED
    BY <1>1, <1>9, <1>13, <2>3, <2>4, <2>5 DEF LogInv, Files
<1> QED
  BY <1>12, <1>13

-----------------------------------------------------------------------------
(* Text: what remove_markup leaves of what ansi2html and json_escape made. *)

\* What becomes of a character on its way through HTML and JSON.
LEMMA PlainTextIs ==
    /\ \A c \in Letters \cup Entities : PlainText(c) \in Letters
    /\ \A c \in Letters : Entity(c) \in Letters \cup Entities /\ PlainText(Entity(c)) = c
    /\ \A c \in Letters : JsonEscape(c) \in Letters \cup Entities
                             /\ PlainText(JsonEscape(c)) = Escaped(c)
    /\ \A c \in Letters : Escaped(c) \in Letters
    /\ "&nbsp;" \in Entities /\ PlainText("&nbsp;") = " " /\ PlainText(" ") = " "
<1>1. \A c \in Letters : PlainText(c) = c
  BY Zenon DEF PlainText, Letters, Characters, Entities, Mojibake
<1>2. \A c \in Entities : PlainText(c) \in Letters
  BY Zenon DEF PlainText, Entities, Letters
<1>3. ASSUME NEW c \in Letters
      PROVE  Entity(c) \in Letters \cup Entities /\ PlainText(Entity(c)) = c
  <2>1. CASE c \notin {"<", ">", "&", "'"}
    BY <1>1, <2>1, Zenon DEF Entity
  <2>2. CASE c = "<"
    BY <2>2, Zenon DEF Entity, PlainText, Entities
  <2>3. CASE c = ">"
    BY <2>3, Zenon DEF Entity, PlainText, Entities
  <2>4. CASE c = "&"
    BY <2>4, Zenon DEF Entity, PlainText, Entities
  <2>5. CASE c = "'"
    BY <2>5, Zenon DEF Entity, PlainText, Entities
  <2> QED
    BY <2>1, <2>2, <2>3, <2>4, <2>5, Zenon
<1>4. ASSUME NEW c \in Letters
      PROVE  /\ JsonEscape(c) \in Letters \cup Entities
             /\ PlainText(JsonEscape(c)) = Escaped(c) /\ Escaped(c) \in Letters
  <2>1. CASE c \notin {"TAB", "'", High}
    BY <1>1, <2>1, Zenon DEF JsonEscape, Escaped
  <2>2. CASE c = "TAB"
    BY <2>2, Zenon DEF JsonEscape, PlainText, Entities, Escaped, Letters, High
  <2>3. CASE c = "'"
    BY <2>3, Zenon DEF JsonEscape, PlainText, Entities, Escaped, Letters, High
  <2>4. CASE c = High
    BY <2>4, Zenon DEF JsonEscape, PlainText, Entities, Escaped, Letters, High
  <2> QED
    BY <2>1, <2>2, <2>3, <2>4, Zenon
<1>5. "&nbsp;" \in Entities /\ PlainText("&nbsp;") = " " /\ PlainText(" ") = " "
  BY Zenon DEF PlainText, Entities
<1> QED
  BY <1>1, <1>2, <1>3, <1>4, <1>5, Zenon

\* HTML: pieces of text, and tags.
Texts == {"text"} \X (Letters \cup Entities)
TagNames == {"u", "em", "strong", "span"}
Openings == ({"open"} \X TagNames) \cup {<<"open", "span", "invert">>}
              \cup ({"open"} \X {"span"} \X Int \X Int)
Closings == {"close"} \X TagNames
Tags == Openings \cup Closings
Html == Seq(Texts \cup Tags)
Styles == [f : Int, b : Int, flags : SUBSET DOMAIN FlagTag]

\* What remove_markup makes of a piece of text and of a tag.
LEMMA RemoveSteps ==
    /\ RemoveMarkup(<<>>) = <<>>
    /\ \A s \in Seq(Texts \cup Tags) : RemoveMarkup(s) \in Lines
    /\ \A s \in Seq(Texts \cup Tags), e \in Texts \cup Tags : RemoveMarkup(Append(s, e))
           = IF e[1] = "text" THEN Append(RemoveMarkup(s), PlainText(e[2])) ELSE RemoveMarkup(s)
<1> DEFINE Op(s, t) == IF t[1] = "text" THEN Append(s, PlainText(t[2])) ELSE s
           F == [p \in (Lines) \X (Texts \cup Tags) |-> Op(p[1], p[2])]
           q == <<>>
<1>1. ASSUME NEW r \in Lines, NEW e \in Texts \cup Tags PROVE Op(r, e) \in Lines
  <2>1. CASE e \in Texts
    <3>1. e[2] \in Letters \cup Entities
      BY <2>1 DEF Texts
    <3>2. PlainText(e[2]) \in Letters
      BY <3>1, PlainTextIs
    <3> QED
      BY <3>2, AppendProperties DEF Lines
  <2>2. CASE e \in Tags
    <3>1. e[1] # "text"
      BY <2>2 DEF Tags, Openings, Closings
    <3> QED
      BY <3>1
  <2> QED
    BY <2>1, <2>2
<1>2. q \in Lines
  BY EmptySeq DEF Lines
<1> HIDE DEF Op, q
<1>3. IsStep(F, Lines, Texts \cup Tags) /\ \A r \in Lines, e \in Texts \cup Tags : F[<<r, e>>] = Op(r, e)
  BY <1>1 DEF IsStep
<1> HIDE DEF F
<1>4. ASSUME NEW s \in Seq(Texts \cup Tags) PROVE RemoveMarkup(s) = Fold(F, q, s)
  <2> DEFINE Iter(g) == g = [t \in SUBSET DOMAIN s |->
                               IF t = {} THEN q ELSE Op(g[t \ {Max(t)}], s[Max(t)])]
             iter == CHOOSE g : Iter(g)
  <2>1. RemoveMarkup(s) = iter[DOMAIN s]
    BY Zenon DEF RemoveMarkup, FoldLeft, MapThenFoldSet, Op, q
  <2>2. PICK g \in [SUBSET (1 .. Len(s)) -> Lines] : IsFold(g, F, q, s, Len(s))
    BY <1>2, <1>3, FoldIsThere DEF IsStep
  <2>3. Iter(g)
    BY <1>3, <2>2, LastPlace DEF IsFold
  <2>4. Iter(iter)
    BY <2>3
  <2> HIDE DEF iter
  <2>5. /\ iter[{}] = q
        /\ \A t \in SUBSET (1 .. Len(s)) : t # {} => iter[t] = Op(iter[t \ {Max(t)}], s[Max(t)])
    BY <2>4, LastPlace
  <2> HIDE DEF Iter
  <2>6. Iterates(iter, Lines, F, q, s, Len(s))
    BY <1>3, <2>5, LastPlace DEF Iterates
  <2> QED
    BY <1>2, <1>3, <2>1, <2>6, FoldLeftIs
<1>5. FoldsOn(F, q, Lines, Texts \cup Tags)
  BY <1>2, <1>3, FoldMore
<1>6. ASSUME NEW s \in Seq(Texts \cup Tags), NEW e \in Texts \cup Tags
      PROVE  RemoveMarkup(Append(s, e)) = Op(RemoveMarkup(s), e)
  BY <1>3, <1>4, <1>5 DEF FoldsOn
<1>7. RemoveMarkup(<<>>) = q /\ \A s \in Seq(Texts \cup Tags) : RemoveMarkup(s) \in Lines
  BY <1>4, <1>5 DEF FoldsOn
<1> QED
  BY <1>6, <1>7, Zenon DEF Op, q

\* The flags of a style among some, in their order.
FlagsOf(md, flags) ==
    FoldLeft(LAMBDA s, flag : IF flag \in md.flags THEN Append(s, flag) ELSE s, <<>>, flags)

\* The flags in order, on the way.
LEMMA FlagSteps ==
    ASSUME NEW md \in Styles
    PROVE  /\ FlagsOf(md, <<>>) = <<>>
           /\ \A s \in Seq(DOMAIN FlagTag) : FlagsOf(md, s) \in Seq(DOMAIN FlagTag)
           /\ \A s \in Seq(DOMAIN FlagTag), e \in DOMAIN FlagTag : FlagsOf(md, Append(s, e))
                     = IF e \in md.flags THEN Append(FlagsOf(md, s), e) ELSE FlagsOf(md, s)
<1> DEFINE Op(s, flag) == IF flag \in md.flags THEN Append(s, flag) ELSE s
           F == [p \in (Seq(DOMAIN FlagTag)) \X (DOMAIN FlagTag) |-> Op(p[1], p[2])]
           q == <<>>
<1>1. ASSUME NEW r \in Seq(DOMAIN FlagTag), NEW e \in DOMAIN FlagTag PROVE Op(r, e) \in Seq(DOMAIN FlagTag)
  BY AppendProperties
<1>2. q \in Seq(DOMAIN FlagTag)
  BY EmptySeq
<1> HIDE DEF Op, q
<1>3. IsStep(F, Seq(DOMAIN FlagTag), DOMAIN FlagTag) /\ \A r \in Seq(DOMAIN FlagTag), e \in DOMAIN FlagTag : F[<<r, e>>] = Op(r, e)
  BY <1>1 DEF IsStep
<1> HIDE DEF F
<1>4. ASSUME NEW s \in Seq(DOMAIN FlagTag) PROVE FlagsOf(md, s) = Fold(F, q, s)
  <2> DEFINE Iter(g) == g = [t \in SUBSET DOMAIN s |->
                               IF t = {} THEN q ELSE Op(g[t \ {Max(t)}], s[Max(t)])]
             iter == CHOOSE g : Iter(g)
  <2>1. FlagsOf(md, s) = iter[DOMAIN s]
    BY Zenon DEF FlagsOf, FoldLeft, MapThenFoldSet, Op, q
  <2>2. PICK g \in [SUBSET (1 .. Len(s)) -> Seq(DOMAIN FlagTag)] : IsFold(g, F, q, s, Len(s))
    BY <1>2, <1>3, FoldIsThere DEF IsStep
  <2>3. Iter(g)
    BY <1>3, <2>2, LastPlace DEF IsFold
  <2>4. Iter(iter)
    BY <2>3
  <2> HIDE DEF iter
  <2>5. /\ iter[{}] = q
        /\ \A t \in SUBSET (1 .. Len(s)) : t # {} => iter[t] = Op(iter[t \ {Max(t)}], s[Max(t)])
    BY <2>4, LastPlace
  <2> HIDE DEF Iter
  <2>6. Iterates(iter, Seq(DOMAIN FlagTag), F, q, s, Len(s))
    BY <1>3, <2>5, LastPlace DEF Iterates
  <2> QED
    BY <1>2, <1>3, <2>1, <2>6, FoldLeftIs
<1>5. FoldsOn(F, q, Seq(DOMAIN FlagTag), DOMAIN FlagTag)
  BY <1>2, <1>3, FoldMore
<1>6. ASSUME NEW s \in Seq(DOMAIN FlagTag), NEW e \in DOMAIN FlagTag
      PROVE  FlagsOf(md, Append(s, e)) = Op(FlagsOf(md, s), e)
  BY <1>3, <1>4, <1>5 DEF FoldsOn
<1>7. FlagsOf(md, <<>>) = q /\ \A s \in Seq(DOMAIN FlagTag) : FlagsOf(md, s) \in Seq(DOMAIN FlagTag)
  BY <1>4, <1>5 DEF FoldsOn
<1> QED
  BY <1>6, <1>7, Zenon DEF Op, q

\* The codes of an escape sequence, on the way.
LEMMA SetCodeSteps ==
    ASSUME NEW md \in Styles
    PROVE  /\ FoldLeft(SetCode, md, <<>>) = md
           /\ \A s \in Seq(Int) : FoldLeft(SetCode, md, s) \in Styles
           /\ \A s \in Seq(Int), e \in Int : FoldLeft(SetCode, md, Append(s, e))
                     = SetCode(FoldLeft(SetCode, md, s), e)
<1> DEFINE Op(m, code) == SetCode(m, code)
           F == [p \in (Styles) \X (Int) |-> Op(p[1], p[2])]
           q == md
<1>1. ASSUME NEW r \in Styles, NEW e \in Int PROVE Op(r, e) \in Styles
  BY DEF SetCode, Styles, Plain, FlagTag
<1>2. q \in Styles
  OBVIOUS
<1> HIDE DEF Op, q
<1>3. IsStep(F, Styles, Int) /\ \A r \in Styles, e \in Int : F[<<r, e>>] = Op(r, e)
  BY <1>1 DEF IsStep
<1> HIDE DEF F
<1>4. ASSUME NEW s \in Seq(Int) PROVE FoldLeft(SetCode, md, s) = Fold(F, q, s)
  <2> DEFINE Iter(g) == g = [t \in SUBSET DOMAIN s |->
                               IF t = {} THEN q ELSE Op(g[t \ {Max(t)}], s[Max(t)])]
             iter == CHOOSE g : Iter(g)
  <2>1. FoldLeft(SetCode, md, s) = iter[DOMAIN s]
    BY Zenon DEF FoldLeft, MapThenFoldSet, Op, q
  <2>2. PICK g \in [SUBSET (1 .. Len(s)) -> Styles] : IsFold(g, F, q, s, Len(s))
    BY <1>2, <1>3, FoldIsThere DEF IsStep
  <2>3. Iter(g)
    BY <1>3, <2>2, LastPlace DEF IsFold
  <2>4. Iter(iter)
    BY <2>3
  <2> HIDE DEF iter
  <2>5. /\ iter[{}] = q
        /\ \A t \in SUBSET (1 .. Len(s)) : t # {} => iter[t] = Op(iter[t \ {Max(t)}], s[Max(t)])
    BY <2>4, LastPlace
  <2> HIDE DEF Iter
  <2>6. Iterates(iter, Styles, F, q, s, Len(s))
    BY <1>3, <2>5, LastPlace DEF Iterates
  <2> QED
    BY <1>2, <1>3, <2>1, <2>6, FoldLeftIs
<1>5. FoldsOn(F, q, Styles, Int)
  BY <1>2, <1>3, FoldMore
<1>6. ASSUME NEW s \in Seq(Int), NEW e \in Int
      PROVE  FoldLeft(SetCode, md, Append(s, e)) = Op(FoldLeft(SetCode, md, s), e)
  BY <1>3, <1>4, <1>5 DEF FoldsOn
<1>7. FoldLeft(SetCode, md, <<>>) = q /\ \A s \in Seq(Int) : FoldLeft(SetCode, md, s) \in Styles
  BY <1>4, <1>5 DEF FoldsOn
<1> QED
  BY <1>6, <1>7, Zenon DEF Op, q

\* Escape sequences leave a style.
LEMMA SetCodesIs == \A md \in Styles : \A esc \in Escapes : SetCodes(md, esc) \in Styles
<1>1. \A esc \in Escapes : CodesOf[esc] \in Seq(Int)
  <2>1. <<31>> \in Seq(Int) /\ <<1>> \in Seq(Int) /\ <<0>> \in Seq(Int) /\ <<99>> \in Seq(Int)
        /\ <<4, 7, 44>> \in Seq(Int)
    OBVIOUS
  <2>2. <<0, 31>> \in Seq(Int) /\ <<5, Colour256(38, 208)>> \in Seq(Int)
    BY DEF Colour256
  <2> DEFINE Known == {<<31>>, <<1>>, <<0>>, <<99>>, <<4, 7, 44>>, <<0, 31>>,
                       <<5, Colour256(38, 208)>>}
  <2>3. Known \subseteq Seq(Int)
    BY <2>1, <2>2
  <2>4. \A esc \in Escapes : CodesOf[esc] \in Known
    <3> DEFINE d == Colour256(38, 208)
    <3> HIDE DEF d
    <3> QED
      BY DEF Escapes, CodesOf
  <2> HIDE DEF Known
  <2> QED
    BY <2>3, <2>4
<1> QED
  BY <1>1, SetCodeSteps DEF SetCodes

\* An element more in the second of two sequences, and one before all of it.
LEMMA OneMore ==
    ASSUME NEW S, NEW s \in Seq(S), NEW u \in Seq(S), NEW x \in S
    PROVE  s \o Append(u, x) = Append(s \o u, x)
<1>1. <<x>> \in Seq(S)
  OBVIOUS
<1>2. (s \o u) \o <<x>> = s \o (u \o <<x>>)
  <2> DEFINE w == <<x>>
  <2> HIDE DEF w
  <2>1. w \in Seq(S)
    BY <1>1 DEF w
  <2>2. (s \o u) \o w = s \o (u \o w)
    BY <2>1, ConcatAssociative
  <2> QED
    BY <2>2 DEF w
<1>3. s \o u \in Seq(S)
  BY ConcatProperties
<1>4. Append(u, x) = u \o <<x>> /\ Append(s \o u, x) = (s \o u) \o <<x>>
  BY <1>3, AppendIsConcat
<1> QED
  BY <1>2, <1>4

\* HTML is put together of HTML and tags, of which remove_markup leaves nothing.
LEMMA RemoveTags ==
    ASSUME NEW s \in Html, NEW u \in Seq(Tags)
    PROVE  s \o u \in Html /\ RemoveMarkup(s \o u) = RemoveMarkup(s)
<1> DEFINE T == {v \in Seq(Tags) : s \o v \in Html /\ RemoveMarkup(s \o v) = RemoveMarkup(s)}
<1>1. << >> \in T
  BY EmptySeq, ConcatEmptySeq DEF Html
<1>2. ASSUME NEW v \in T, NEW x \in Tags PROVE Append(v, x) \in T
  <2>1. v \in Seq(Tags) /\ s \o v \in Html /\ RemoveMarkup(s \o v) = RemoveMarkup(s)
    OBVIOUS
  <2>2. Append(v, x) \in Seq(Tags) /\ s \o Append(v, x) = Append(s \o v, x)
    <3> DEFINE U == Texts \cup Tags
    <3>1. s \in Seq(U) /\ x \in U
      BY DEF Html
    <3>2. v \in Seq(U)
      BY <2>1, SeqMonotonic
    <3>3. Append(v, x) \in Seq(Tags)
      BY <2>1, AppendProperties
    <3> HIDE DEF U
    <3>4. s \o Append(v, x) = Append(s \o v, x)
      BY <3>1, <3>2, OneMore
    <3> QED
      BY <3>3, <3>4
  <2>3. Append(s \o v, x) \in Html
    BY <2>1, AppendProperties DEF Html
  <2>4. RemoveMarkup(Append(s \o v, x)) = RemoveMarkup(s \o v)
    <3>1. x[1] # "text"
      BY DEF Tags, Openings, Closings
    <3>2. s \o v \in Seq(Texts \cup Tags) /\ x \in Texts \cup Tags
      BY <2>1 DEF Html
    <3> QED
      BY <3>1, <3>2, RemoveSteps
  <2> QED
    BY <2>1, <2>2, <2>3, <2>4
<1>3. T \in SUBSET Seq(Tags)
  OBVIOUS
<1> HIDE DEF T
<1>4. T = Seq(Tags)
  BY <1>1, <1>2, <1>3, AllSequences
<1> QED
  BY <1>4 DEF T

\* The flags of a style are flags.
LEMMA FlagsInOrderIs == \A md \in Styles : FlagsInOrder(md) \in Seq(DOMAIN FlagTag)
<1> TAKE md \in Styles
<1>1. FlagsInOrder(md) = FlagsOf(md, FlagOrder)
  BY Zenon DEF FlagsInOrder, FlagsOf
<1>2. FlagOrder \in Seq(DOMAIN FlagTag)
  BY DEF FlagOrder, FlagTag
<1> QED
  BY <1>1, <1>2, FlagSteps

\* Short sequences put together.
LEMMA Prefixed ==
    ASSUME NEW a, NEW b, NEW c
    PROVE  <<a>> \o <<b>> = <<a, b>> /\ <<a>> \o <<b, c>> = <<a, b, c>>
<1> DEFINE S == {a, b, c}
<1>1. a \in S /\ b \in S /\ c \in S
  OBVIOUS
<1> HIDE DEF S
<1>2. <<a>> \in Seq(S) /\ <<b>> \in Seq(S) /\ <<c>> \in Seq(S) /\ <<a, b>> \in Seq(S)
  BY <1>1
<1>3. ASSUME NEW x \in Seq(S), NEW y \in Seq(S), NEW z \in Seq(S)
      PROVE  (x \o y) \o z = x \o (y \o z)
  BY ConcatAssociative
<1>4. (<<a>> \o <<b>>) \o <<c>> = <<a>> \o (<<b>> \o <<c>>)
  <2> DEFINE x == <<a>>
             y == <<b>>
             z == <<c>>
  <2>1. x \in Seq(S) /\ y \in Seq(S) /\ z \in Seq(S)
    BY <1>2
  <2> HIDE DEF x, y, z
  <2>2. (x \o y) \o z = x \o (y \o z)
    BY <1>3, <2>1
  <2> QED
    BY <2>2 DEF x, y, z
<1>5. \A x \in Seq(S) : \A y \in S : Append(x, y) = x \o <<y>>
  BY AppendIsConcat
<1>6. /\ <<a>> \o <<b>> = Append(<<a>>, b) /\ <<b>> \o <<c>> = Append(<<b>>, c)
      /\ <<a, b>> \o <<c>> = Append(<<a, b>>, c)
  BY <1>1, <1>2, <1>5, Zenon
<1>7. Append(<<a>>, b) = <<a, b>> /\ Append(<<b>>, c) = <<b, c>> /\ Append(<<a, b>>, c) = <<a, b, c>>
  <2>1. ASSUME NEW x, NEW y PROVE Append(<<x>>, y) = <<x, y>>
    <3> DEFINE U == {x, y}
               s == Append(<<x>>, y)
               t == <<x, y>>
    <3>1. s \in Seq(U) /\ Len(s) = 2 /\ s[1] = x /\ s[2] = y
      OBVIOUS
    <3>2. t \in Seq(U) /\ Len(t) = 2 /\ t[1] = x /\ t[2] = y
      OBVIOUS
    <3> HIDE DEF s, t
    <3>3. \A i \in 1 .. 2 : s[i] = t[i]
      BY <3>1, <3>2
    <3>4. s = t
      BY <3>1, <3>2, <3>3, SeqEqual
    <3> QED
      BY <3>4 DEF s, t
  <2> DEFINE U == {a, b, c}
             s == Append(<<a, b>>, c)
             t == <<a, b, c>>
  <2>2. s \in Seq(U) /\ Len(s) = 3 /\ s[1] = a /\ s[2] = b /\ s[3] = c
    OBVIOUS
  <2>3. t \in Seq(U) /\ Len(t) = 3 /\ t[1] = a /\ t[2] = b /\ t[3] = c
    OBVIOUS
  <2> HIDE DEF s, t
  <2>4. \A i \in 1 .. 3 : s[i] = t[i]
    BY <2>2, <2>3
  <2>5. s = t
    BY <2>2, <2>3, <2>4, SeqEqual
  <2> QED
    BY <2>1, <2>5 DEF s, t
<1> QED
  BY <1>4, <1>6, <1>7, Zenon

\* Spans are opened and closed by tags.
LEMMA FlagTags ==
    ASSUME NEW s \in Seq(DOMAIN FlagTag)
    PROVE  OpenTags(s) \in Seq(Openings) /\ CloseTags(s) \in Seq(Closings)
<1>1. \A flag \in DOMAIN FlagTag : <<"open">> \o FlagTag[flag] \in Openings
                                   /\ <<"close", FlagTag[flag][1]>> \in Closings
  <2> SUFFICES ASSUME NEW flag \in DOMAIN FlagTag
               PROVE  <<"open">> \o FlagTag[flag] \in Openings
                      /\ <<"close", FlagTag[flag][1]>> \in Closings
    OBVIOUS
  <2>1. FlagTag[flag] \in {<<"u">>, <<"em">>, <<"strong">>, <<"span", "invert">>}
    BY DEF FlagTag
  <2>2. \A a, b, c : <<a>> \o <<b>> = <<a, b>> /\ <<a>> \o <<b, c>> = <<a, b, c>>
    BY Prefixed
  <2>3. <<"open">> \o FlagTag[flag]
          \in {<<"open", "u">>, <<"open", "em">>, <<"open", "strong">>, <<"open", "span", "invert">>}
    BY <2>1, <2>2, Zenon
  <2>4. {<<"open", "u">>, <<"open", "em">>, <<"open", "strong">>, <<"open", "span", "invert">>}
          \subseteq Openings
    BY DEF Openings, TagNames
  <2>5. FlagTag[flag][1] \in TagNames
    BY <2>1 DEF TagNames
  <2>6. <<"close", FlagTag[flag][1]>> \in Closings
    BY <2>5 DEF Closings
  <2> QED
    BY <2>3, <2>4, <2>6, Zenon
<1>2. Len(s) \in Nat /\ DOMAIN s = 1 .. Len(s) /\ \A i \in 1 .. Len(s) : s[i] \in DOMAIN FlagTag
  BY LenProperties, ElementOfSeq
<1>3. \A i \in DOMAIN s : /\ <<"open">> \o FlagTag[s[i]] \in Openings
                          /\ <<"close", FlagTag[s[i]][1]>> \in Closings
  BY <1>1, <1>2, Zenon
<1>4. OpenTags(s) \in Seq(Openings)
  <2> DEFINE G(i) == <<"open">> \o FlagTag[s[i]]
  <2>1. OpenTags(s) = [i \in DOMAIN s |-> G(i)]
    BY Zenon DEF OpenTags
  <2>2. \A i \in DOMAIN s : G(i) \in Openings
    BY <1>3, Zenon
  <2> HIDE DEF G
  <2> QED
    BY <1>2, <2>1, <2>2
<1>5. CloseTags(s) \in Seq(Closings)
  BY <1>2, <1>3 DEF CloseTags
<1> QED
  BY <1>4, <1>5

\* A row of flags the other way round is one, too.
LEMMA ReverseIs == \A s \in Seq(DOMAIN FlagTag) : Reverse(s) \in Seq(DOMAIN FlagTag)
BY DEF Reverse

\* The spans of a style are opening and closing tags only.
LEMMA SpansAreTags ==
    ASSUME NEW md \in Styles
    PROVE  /\ StartSpan(md) \in Seq(Openings) /\ EndSpan(md) \in Seq(Closings)
           /\ StartSpan(md) \in Seq(Tags) /\ EndSpan(md) \in Seq(Tags)
<1> DEFINE flags == FlagsInOrder(md)
           colour == IF Coloured(md) THEN << <<"open", "span", md.b, md.f>> >> ELSE <<>>
<1>1. flags \in Seq(DOMAIN FlagTag) /\ Reverse(flags) \in Seq(DOMAIN FlagTag)
  BY FlagsInOrderIs, ReverseIs
<1>2. StartSpan(md) = OpenTags(flags) \o colour
      /\ EndSpan(md) = CloseColour(md) \o CloseTags(Reverse(flags))
  BY Zenon DEF StartSpan, EndSpan
<1>3. md.b \in Int /\ md.f \in Int
  BY DEF Styles
<1>4. colour \in Seq(Openings)
  <2>1. <<"open", "span", md.b, md.f>> \in Openings
    BY <1>3 DEF Openings
  <2> QED
    BY <2>1
<1>5. CloseColour(md) \in Seq(Closings)
  <2>1. <<"close", "span">> \in Closings
    BY DEF Closings, TagNames
  <2> QED
    BY <2>1 DEF CloseColour
<1> HIDE DEF flags, colour
<1>6. OpenTags(flags) \in Seq(Openings) /\ CloseTags(Reverse(flags)) \in Seq(Closings)
  BY <1>1, FlagTags
<1>7. StartSpan(md) \in Seq(Openings) /\ EndSpan(md) \in Seq(Closings)
  BY <1>2, <1>4, <1>5, <1>6, ConcatProperties
<1>8. Openings \subseteq Tags /\ Closings \subseteq Tags
  BY DEF Tags
<1> QED
  BY <1>7, <1>8, SeqMonotonic

\* The last element, and the rest.
LEMMA FrontLastOfAppend ==
    ASSUME NEW S, NEW t \in Seq(S), NEW x \in S
    PROVE  Last(Append(t, x)) = x /\ Front(Append(t, x)) = t
<1> DEFINE s == Append(t, x)
           n == Len(t)
<1>1. n \in Nat /\ Len(s) = n + 1 /\ s[n + 1] = x /\ (\A i \in 1 .. n : s[i] = t[i])
      /\ t = [i \in 1 .. n |-> t[i]]
  OBVIOUS
<1> HIDE DEF s, n
<1>2. Last(s) = x
  BY <1>1 DEF Last
<1>3. Front(s) = [i \in 1 .. n |-> t[i]]
  BY <1>1 DEF Front
<1> QED
  BY <1>1, <1>2, <1>3 DEF s

\* A blank is a blank before and after it was kept from being lost.
LEMMA FixBlankIs ==
    ASSUME NEW s \in Html
    PROVE  FixBlank(s) \in Html /\ RemoveMarkup(FixBlank(s)) = RemoveMarkup(s)
<1> DEFINE blank == <<"text", " ">>
           nbsp == <<"text", "&nbsp;">>
<1>1. FixBlank(s) = IF s # <<>> /\ Last(s) = blank THEN Append(Front(s), nbsp) ELSE s
  BY Zenon DEF FixBlank
<1>2. /\ blank \in Texts \cup Tags /\ nbsp \in Texts \cup Tags
      /\ PlainText(blank[2]) = PlainText(nbsp[2]) /\ blank[1] = "text" /\ nbsp[1] = "text"
  <2>1. ASSUME NEW a, NEW b, a \in Letters, b \in Entities
        PROVE  /\ <<"text", a>> \in Texts \cup Tags /\ <<"text", b>> \in Texts \cup Tags
               /\ <<"text", a>>[1] = "text" /\ <<"text", b>>[1] = "text"
               /\ <<"text", a>>[2] = a /\ <<"text", b>>[2] = b
    BY <2>1 DEF Texts
  <2>2. " " \in Letters
    BY Zenon DEF Letters
  <2> QED
    BY <2>1, <2>2, PlainTextIs, Zenon
<1> HIDE DEF blank, nbsp
<1>3. CASE s # <<>> /\ Last(s) = blank
  <2>1. PICK t \in Seq(Texts \cup Tags), x \in Texts \cup Tags : s = Append(t, x)
    BY <1>3, SequenceEmptyOrAppend DEF Html
  <2>2. Last(s) = x /\ Front(s) = t
    BY <2>1, FrontLastOfAppend
  <2>3. RemoveMarkup(s) = Append(RemoveMarkup(t), PlainText(x[2]))
    BY <1>2, <1>3, <2>1, <2>2, RemoveSteps
  <2>4. RemoveMarkup(Append(t, nbsp)) = Append(RemoveMarkup(t), PlainText(nbsp[2]))
    BY <1>2, <2>1, RemoveSteps
  <2>5. Append(t, nbsp) \in Html
    BY <1>2, <2>1, AppendProperties DEF Html
  <2> QED
    BY <1>1, <1>2, <1>3, <2>2, <2>3, <2>4, <2>5
<1> QED
  BY <1>1, <1>3

\* A line on its way through ansi2html.
Halfway == [html : Html, md : Styles, donbsp : BOOLEAN, inspan : BOOLEAN, afterEsc : BOOLEAN]

\* Two elements more are one and another one.
LEMMA TwoMore ==
    ASSUME NEW S, NEW s \in Seq(S), NEW a \in S, NEW b \in S
    PROVE  s \o <<a, b>> = Append(Append(s, a), b)
<1>2. <<a>> \in Seq(S) /\ <<b>> \in Seq(S)
  OBVIOUS
<1>3. (s \o <<a>>) \o <<b>> = s \o (<<a>> \o <<b>>)
  BY <1>2, ConcatAssociative
<1>4. <<a>> \o <<b>> = <<a, b>>
  BY Prefixed
<1>5. Append(s, a) = s \o <<a>> /\ Append(s, a) \in Seq(S)
  BY AppendIsConcat, AppendProperties
<1>6. Append(Append(s, a), b) = Append(s, a) \o <<b>>
  BY <1>5, AppendIsConcat
<1> QED
  BY <1>3, <1>4, <1>5, <1>6, Zenon

\* Spans closed and opened on the way leave the text alone.
LEMMA CloseTextIs ==
    ASSUME NEW st \in Halfway
    PROVE  /\ CloseText(st) \in Halfway /\ CloseText(st).md = st.md
           /\ RemoveMarkup(CloseText(st).html) = RemoveMarkup(st.html)
<1> DEFINE h == FixBlank(st.html) \o EndSpan(st.md)
<1>1. st.html \in Html /\ st.md \in Styles
  BY DEF Halfway
<1>2. h \in Html /\ RemoveMarkup(h) = RemoveMarkup(st.html)
  BY <1>1, FixBlankIs, SpansAreTags, RemoveTags
<1>3. CloseText(st) = IF st.inspan THEN [st EXCEPT !.html = h, !.donbsp = TRUE, !.inspan = FALSE]
                      ELSE st
  BY Zenon DEF CloseText
<1> HIDE DEF h
<1> QED
  BY <1>2, <1>3 DEF Halfway

\* The same for the span that the first character after an escape opens.
LEMMA OpenTextIs ==
    ASSUME NEW st \in Halfway
    PROVE  /\ OpenText(st) \in Halfway /\ OpenText(st).md = st.md
           /\ RemoveMarkup(OpenText(st).html) = RemoveMarkup(st.html)
<1> DEFINE h == FixBlank(st.html) \o StartSpan(st.md)
           in == StartSpan(st.md) # <<>>
<1>1. st.html \in Html /\ st.md \in Styles
  BY DEF Halfway
<1>2. h \in Html /\ RemoveMarkup(h) = RemoveMarkup(st.html)
  BY <1>1, FixBlankIs, SpansAreTags, RemoveTags
<1>3. OpenText(st) = IF st.afterEsc
                     THEN [st EXCEPT !.html = h, !.donbsp = TRUE, !.inspan = in, !.afterEsc = FALSE]
                     ELSE st
  BY Zenon DEF OpenText
<1>4. in \in BOOLEAN
  OBVIOUS
<1> HIDE DEF h, in
<1> QED
  BY <1>2, <1>3, <1>4 DEF Halfway

\* A piece of text more.
LEMMA TextMore ==
    ASSUME NEW s \in Html, NEW c \in Letters \cup Entities
    PROVE  /\ <<"text", c>> \in Texts \cup Tags /\ Append(s, <<"text", c>>) \in Html
           /\ RemoveMarkup(Append(s, <<"text", c>>)) = Append(RemoveMarkup(s), PlainText(c))
<1>1. <<"text", c>> \in Texts \cup Tags /\ <<"text", c>>[1] = "text" /\ <<"text", c>>[2] = c
  BY DEF Texts
<1> DEFINE t == <<"text", c>>
<1>2. t \in Texts \cup Tags /\ t[1] = "text" /\ t[2] = c
  BY <1>1
<1> HIDE DEF t
<1>3. Append(s, t) \in Html /\ RemoveMarkup(Append(s, t)) = Append(RemoveMarkup(s), PlainText(c))
  BY <1>2, RemoveSteps, AppendProperties DEF Html
<1> QED
  BY <1>1, <1>3, Zenon DEF t

\* A character more in HTML is that character more in plain text.
LEMMA PutCharIs ==
    ASSUME NEW st \in Halfway, NEW c \in Letters, c \notin Escapes
    PROVE  /\ PutChar(st, c) \in Halfway
           /\ RemoveMarkup(PutChar(st, c).html) = Seen(RemoveMarkup(st.html), c)
<1> DEFINE blank == " "
           nbsp == "&nbsp;"
           s == st.html
<1>1. blank \in Letters /\ nbsp \in Entities /\ PlainText(nbsp) = blank /\ PlainText(blank) = blank
  BY PlainTextIs, Zenon DEF Letters
<1>2. s \in Html
  BY DEF Halfway
<1>3. CASE c = "TAB"
  <2> DEFINE a == <<"text", nbsp>>
             b == <<"text", blank>>
             h == s \o <<a, b>>
  <2>1. PutChar(st, c) = [st EXCEPT !.html = h, !.donbsp = TRUE]
    <3>1. "TAB" # " "
      BY Zenon
    <3> QED
      BY <1>3, <3>1, Zenon DEF PutChar
  <2>2. Seen(RemoveMarkup(s), c) = RemoveMarkup(s) \o <<blank, blank>>
    BY <1>3, Zenon DEF Seen
  <2> HIDE DEF blank, nbsp, s
  <2>3. /\ a \in Texts \cup Tags /\ b \in Texts \cup Tags /\ Append(s, a) \in Html
        /\ RemoveMarkup(Append(s, a)) = Append(RemoveMarkup(s), blank)
    BY <1>1, <1>2, TextMore
  <2>4. Append(Append(s, a), b) \in Html
        /\ RemoveMarkup(Append(Append(s, a), b)) = Append(RemoveMarkup(Append(s, a)), blank)
    BY <1>1, <2>3, TextMore
  <2>5. h = Append(Append(s, a), b)
    <3> HIDE DEF a, b
    <3> QED
      BY <1>2, <2>3, TwoMore DEF Html
  <2>6. RemoveMarkup(s) \o <<blank, blank>> = Append(Append(RemoveMarkup(s), blank), blank)
    <3>1. RemoveMarkup(s) \in Seq(Letters)
      BY <1>2, RemoveSteps DEF Lines, Html
    <3> QED
      BY <1>1, <3>1, TwoMore
  <2>7. h \in Html /\ RemoveMarkup(h) = RemoveMarkup(s) \o <<blank, blank>>
    BY <2>3, <2>4, <2>5, <2>6, Zenon
  <2> HIDE DEF h
  <2>8. [st EXCEPT !.html = h, !.donbsp = TRUE] \in Halfway
        /\ [st EXCEPT !.html = h, !.donbsp = TRUE].html = h
    BY <2>7 DEF Halfway
  <2> QED
    BY <2>1, <2>2, <2>7, <2>8, Zenon DEF s
<1>4. ASSUME NEW e \in Letters \cup Entities, PlainText(e) = c, NEW d \in BOOLEAN, c # "TAB",
             PutChar(st, c) = [st EXCEPT !.html = Append(s, <<"text", e>>), !.donbsp = d]
      PROVE  PutChar(st, c) \in Halfway
             /\ RemoveMarkup(PutChar(st, c).html) = Seen(RemoveMarkup(st.html), c)
  <2> DEFINE h == Append(s, <<"text", e>>)
  <2>1. h \in Html /\ RemoveMarkup(h) = Append(RemoveMarkup(s), c)
    BY <1>2, <1>4, TextMore
  <2>2. Seen(RemoveMarkup(s), c) = Append(RemoveMarkup(s), c)
    BY <1>4, Zenon DEF Seen
  <2>3. PutChar(st, c) = [st EXCEPT !.html = h, !.donbsp = d]
    BY <1>4
  <2> HIDE DEF h
  <2>4. PutChar(st, c) \in Halfway /\ PutChar(st, c).html = h
    BY <1>4, <2>1, <2>3 DEF Halfway
  <2> QED
    BY <2>1, <2>2, <2>4
<1>5. CASE c = blank
  <2>1. c # "TAB"
    BY <1>5, Zenon
  <2> DEFINE e == IF st.donbsp THEN nbsp ELSE blank
             d == NextDonbsp(st.donbsp)
  <2>2. PutChar(st, c) = [st EXCEPT !.html = Append(@, <<"text", e>>), !.donbsp = NextDonbsp(@)]
    BY <1>5, <2>1, Zenon DEF PutChar
  <2> HIDE DEF blank, nbsp
  <2>3. e \in Letters \cup Entities /\ PlainText(e) = c
    BY <1>1, <1>5
  <2>4. d \in BOOLEAN
    BY DEF NextDonbsp
  <2> HIDE DEF e
  <2>5. [st EXCEPT !.html = Append(@, <<"text", e>>), !.donbsp = NextDonbsp(@)]
          = [st EXCEPT !.html = Append(s, <<"text", e>>), !.donbsp = d]
    BY DEF Halfway
  <2> HIDE DEF d
  <2> QED
    BY <1>4, <2>1, <2>2, <2>3, <2>4, <2>5
<1>6. CASE c # blank /\ c # "TAB"
  <2> DEFINE e == Entity(c)
             d == st.donbsp
  <2>1. PutChar(st, c) = [st EXCEPT !.html = Append(@, <<"text", e>>)]
    BY <1>6, Zenon DEF PutChar
  <2>2. e \in Letters \cup Entities /\ PlainText(e) = c
    BY PlainTextIs, Zenon
  <2>3. d \in BOOLEAN
    BY DEF Halfway
  <2> HIDE DEF e
  <2>4. [st EXCEPT !.html = Append(@, <<"text", e>>)]
          = [st EXCEPT !.html = Append(s, <<"text", e>>), !.donbsp = d]
    BY DEF Halfway
  <2> HIDE DEF d
  <2> QED
    BY <1>4, <1>6, <2>1, <2>2, <2>3, <2>4
<1> QED
  BY <1>3, <1>5, <1>6

\* A character more on its way to HTML, and on a terminal.
LEMMA PutTokenIs ==
    ASSUME NEW st \in Halfway, NEW c \in Letters
    PROVE  /\ PutToken(st, c) \in Halfway
           /\ RemoveMarkup(PutToken(st, c).html) = Seen(RemoveMarkup(st.html), c)
<1>1. CASE c \in Escapes
  <2> DEFINE closed == CloseText(st)
             md == SetCodes(closed.md, c)
  <2>1. PutToken(st, c) = [closed EXCEPT !.md = SetCodes(@, c), !.afterEsc = TRUE]
    BY <1>1, Zenon DEF PutToken
  <2>2. closed \in Halfway /\ RemoveMarkup(closed.html) = RemoveMarkup(st.html)
    BY CloseTextIs
  <2> HIDE DEF closed
  <2>3. closed.md \in Styles
    BY <2>2 DEF Halfway
  <2>4. md \in Styles
    BY <1>1, <2>3, SetCodesIs
  <2>5. [closed EXCEPT !.md = SetCodes(@, c), !.afterEsc = TRUE]
          = [closed EXCEPT !.md = md, !.afterEsc = TRUE]
    BY <2>2 DEF Halfway
  <2> HIDE DEF md
  <2> DEFINE p == PutToken(st, c)
  <2>6. p \in Halfway /\ p.html = closed.html
    <3>1. p = [closed EXCEPT !.md = md, !.afterEsc = TRUE]
      BY <2>1, <2>5, Zenon
    <3> HIDE DEF p
    <3> QED
      BY <2>2, <2>4, <3>1 DEF Halfway
  <2>7. Seen(RemoveMarkup(st.html), c) = RemoveMarkup(st.html)
    BY <1>1, Zenon DEF Seen
  <2> QED
    BY <2>2, <2>6, <2>7
<1>2. CASE c \notin Escapes
  <2>1. PutToken(st, c) = PutChar(OpenText(st), c)
    BY <1>2, Zenon DEF PutToken
  <2> DEFINE open == OpenText(st)
  <2>2. open \in Halfway /\ RemoveMarkup(open.html) = RemoveMarkup(st.html)
    BY OpenTextIs
  <2> HIDE DEF open
  <2>3. PutChar(open, c) \in Halfway
        /\ RemoveMarkup(PutChar(open, c).html) = Seen(RemoveMarkup(open.html), c)
    BY <1>2, <2>2, PutCharIs
  <2> QED
    BY <2>1, <2>2, <2>3 DEF open
<1> QED
  BY <1>1, <1>2

\* A line on its way to HTML.
LEMMA PutTokenSteps ==
    ASSUME NEW st0 \in Halfway
    PROVE  /\ FoldLeft(PutToken, st0, <<>>) = st0
           /\ \A s \in Seq(Letters) : FoldLeft(PutToken, st0, s) \in Halfway
           /\ \A s \in Seq(Letters), e \in Letters : FoldLeft(PutToken, st0, Append(s, e))
                     = PutToken(FoldLeft(PutToken, st0, s), e)
<1> DEFINE Op(st, c) == PutToken(st, c)
           F == [p \in (Halfway) \X (Letters) |-> Op(p[1], p[2])]
           q == st0
<1>1. ASSUME NEW r \in Halfway, NEW e \in Letters PROVE Op(r, e) \in Halfway
  BY PutTokenIs
<1>2. q \in Halfway
  OBVIOUS
<1> HIDE DEF Op, q
<1>3. IsStep(F, Halfway, Letters) /\ \A r \in Halfway, e \in Letters : F[<<r, e>>] = Op(r, e)
  BY <1>1 DEF IsStep
<1> HIDE DEF F
<1>4. ASSUME NEW s \in Seq(Letters) PROVE FoldLeft(PutToken, st0, s) = Fold(F, q, s)
  <2> DEFINE Iter(g) == g = [t \in SUBSET DOMAIN s |->
                               IF t = {} THEN q ELSE Op(g[t \ {Max(t)}], s[Max(t)])]
             iter == CHOOSE g : Iter(g)
  <2>1. FoldLeft(PutToken, st0, s) = iter[DOMAIN s]
    BY Zenon DEF FoldLeft, MapThenFoldSet, Op, q
  <2>2. PICK g \in [SUBSET (1 .. Len(s)) -> Halfway] : IsFold(g, F, q, s, Len(s))
    BY <1>2, <1>3, FoldIsThere DEF IsStep
  <2>3. Iter(g)
    BY <1>3, <2>2, LastPlace DEF IsFold
  <2>4. Iter(iter)
    BY <2>3
  <2> HIDE DEF iter
  <2>5. /\ iter[{}] = q
        /\ \A t \in SUBSET (1 .. Len(s)) : t # {} => iter[t] = Op(iter[t \ {Max(t)}], s[Max(t)])
    BY <2>4, LastPlace
  <2> HIDE DEF Iter
  <2>6. Iterates(iter, Halfway, F, q, s, Len(s))
    BY <1>3, <2>5, LastPlace DEF Iterates
  <2> QED
    BY <1>2, <1>3, <2>1, <2>6, FoldLeftIs
<1>5. FoldsOn(F, q, Halfway, Letters)
  BY <1>2, <1>3, FoldMore
<1>6. ASSUME NEW s \in Seq(Letters), NEW e \in Letters
      PROVE  FoldLeft(PutToken, st0, Append(s, e)) = Op(FoldLeft(PutToken, st0, s), e)
  BY <1>3, <1>4, <1>5 DEF FoldsOn
<1>7. FoldLeft(PutToken, st0, <<>>) = q /\ \A s \in Seq(Letters) : FoldLeft(PutToken, st0, s) \in Halfway
  BY <1>4, <1>5 DEF FoldsOn
<1> QED
  BY <1>6, <1>7, Zenon DEF Op, q

\* A line on a terminal.
LEMMA SeenSteps ==
    /\ FoldLeft(Seen, <<>>, <<>>) = <<>>
    /\ \A s \in Seq(Letters) : FoldLeft(Seen, <<>>, s) \in Lines
    /\ \A s \in Seq(Letters), e \in Letters : FoldLeft(Seen, <<>>, Append(s, e))
           = Seen(FoldLeft(Seen, <<>>, s), e)
<1> DEFINE Op(r, e) == Seen(r, e)
           F == [p \in (Lines) \X (Letters) |-> Op(p[1], p[2])]
           q == <<>>
<1>1. ASSUME NEW r \in Lines, NEW e \in Letters PROVE Op(r, e) \in Lines
  <2> DEFINE blank == " "
  <2>1. blank \in Letters /\ Seen(r, e) \in {r, r \o <<blank, blank>>, Append(r, e)}
    BY Zenon DEF Letters, Seen
  <2> HIDE DEF blank
  <2>2. r \in Seq(Letters) /\ <<blank, blank>> \in Seq(Letters)
    BY <2>1 DEF Lines
  <2>3. r \o <<blank, blank>> \in Seq(Letters) /\ Append(r, e) \in Seq(Letters)
    BY <2>2, ConcatProperties, AppendProperties
  <2> QED
    BY <2>1, <2>2, <2>3 DEF Lines
<1>2. q \in Lines
  BY EmptySeq DEF Lines
<1> HIDE DEF Op, q
<1>3. IsStep(F, Lines, Letters) /\ \A r \in Lines, e \in Letters : F[<<r, e>>] = Op(r, e)
  BY <1>1 DEF IsStep
<1> HIDE DEF F
<1>4. ASSUME NEW s \in Seq(Letters) PROVE FoldLeft(Seen, <<>>, s) = Fold(F, q, s)
  <2> DEFINE Iter(g) == g = [t \in SUBSET DOMAIN s |->
                               IF t = {} THEN q ELSE Op(g[t \ {Max(t)}], s[Max(t)])]
             iter == CHOOSE g : Iter(g)
  <2>1. FoldLeft(Seen, <<>>, s) = iter[DOMAIN s]
    BY Zenon DEF FoldLeft, MapThenFoldSet, Op, q
  <2>2. PICK g \in [SUBSET (1 .. Len(s)) -> Lines] : IsFold(g, F, q, s, Len(s))
    BY <1>2, <1>3, FoldIsThere DEF IsStep
  <2>3. Iter(g)
    BY <1>3, <2>2, LastPlace DEF IsFold
  <2>4. Iter(iter)
    BY <2>3
  <2> HIDE DEF iter
  <2>5. /\ iter[{}] = q
        /\ \A t \in SUBSET (1 .. Len(s)) : t # {} => iter[t] = Op(iter[t \ {Max(t)}], s[Max(t)])
    BY <2>4, LastPlace
  <2> HIDE DEF Iter
  <2>6. Iterates(iter, Lines, F, q, s, Len(s))
    BY <1>3, <2>5, LastPlace DEF Iterates
  <2> QED
    BY <1>2, <1>3, <2>1, <2>6, FoldLeftIs
<1>5. FoldsOn(F, q, Lines, Letters)
  BY <1>2, <1>3, FoldMore
<1>6. ASSUME NEW s \in Seq(Letters), NEW e \in Letters
      PROVE  FoldLeft(Seen, <<>>, Append(s, e)) = Op(FoldLeft(Seen, <<>>, s), e)
  BY <1>3, <1>4, <1>5 DEF FoldsOn
<1>7. FoldLeft(Seen, <<>>, <<>>) = q /\ \A s \in Seq(Letters) : FoldLeft(Seen, <<>>, s) \in Lines
  BY <1>4, <1>5 DEF FoldsOn
<1> QED
  BY <1>6, <1>7, Zenon DEF Op, q

\* What ansi2html makes of a line is what a terminal would show, apart from tags.
LEMMA Ansi2HtmlIs ==
    ASSUME NEW md \in Styles, NEW line \in Lines
    PROVE  /\ Ansi2Html(md, line).html \in Html /\ Ansi2Html(md, line).md \in Styles
           /\ RemoveMarkup(Ansi2Html(md, line).html) = FoldLeft(Seen, <<>>, line)
<1> DEFINE in == StartSpan(md) # <<>>
           st0 == [html |-> StartSpan(md), md |-> md, donbsp |-> TRUE, inspan |-> in,
                   afterEsc |-> FALSE]
           Put(s) == FoldLeft(PutToken, st0, s)
           Screen(s) == FoldLeft(Seen, <<>>, s)
<1>1. Ansi2Html(md, line) = IF line = <<>> THEN Put(line) ELSE CloseText(Put(line))
  BY Zenon DEF Ansi2Html
<1>2. StartSpan(md) \in Html /\ RemoveMarkup(StartSpan(md)) = <<>>
  <2>1. StartSpan(md) \in Seq(Tags)
    BY SpansAreTags
  <2>2. <<>> \in Html /\ RemoveMarkup(<<>>) = <<>>
    BY EmptySeq, RemoveSteps DEF Html
  <2>3. <<>> \o StartSpan(md) = StartSpan(md)
    BY <2>1, ConcatEmptySeq
  <2> QED
    BY <2>1, <2>2, <2>3, RemoveTags
<1>3. in \in BOOLEAN
  OBVIOUS
<1> HIDE DEF in
<1>4. st0 \in Halfway /\ RemoveMarkup(st0.html) = <<>>
  BY <1>2, <1>3 DEF Halfway
<1> HIDE DEF st0
<1>5. /\ Put(<<>>) = st0
      /\ \A s \in Seq(Letters) : Put(s) \in Halfway
      /\ \A s \in Seq(Letters), e \in Letters : Put(Append(s, e)) = PutToken(Put(s), e)
  BY <1>4, PutTokenSteps
<1>6. /\ Screen(<<>>) = <<>>
      /\ \A s \in Seq(Letters), e \in Letters : Screen(Append(s, e)) = Seen(Screen(s), e)
  BY SeenSteps
<1> HIDE DEF Put, Screen
<1> DEFINE T == {s \in Seq(Letters) : RemoveMarkup(Put(s).html) = Screen(s)}
<1>7. <<>> \in T
  BY <1>4, <1>5, <1>6, EmptySeq
<1>8. ASSUME NEW s \in T, NEW e \in Letters PROVE Append(s, e) \in T
  <2>1. s \in Seq(Letters) /\ RemoveMarkup(Put(s).html) = Screen(s)
    OBVIOUS
  <2>2. RemoveMarkup(PutToken(Put(s), e).html) = Seen(Screen(s), e)
    BY <1>5, <2>1, PutTokenIs
  <2>3. Append(s, e) \in Seq(Letters)
    BY <2>1, AppendProperties
  <2> QED
    BY <1>5, <1>6, <2>1, <2>2, <2>3
<1>9. T \in SUBSET Seq(Letters)
  OBVIOUS
<1> HIDE DEF T
<1>10. T = Seq(Letters)
  BY <1>7, <1>8, <1>9, AllSequences
<1>11. line \in Seq(Letters) /\ RemoveMarkup(Put(line).html) = Screen(line)
  BY <1>10 DEF T, Lines
<1>12. Put(line) \in Halfway
  BY <1>5, <1>11
<1>13. CloseText(Put(line)) \in Halfway
       /\ RemoveMarkup(CloseText(Put(line)).html) = RemoveMarkup(Put(line).html)
  BY <1>12, CloseTextIs
<1> QED
  BY <1>1, <1>11, <1>12, <1>13 DEF Halfway, Screen

\* A line in another charset is a line.
LEMMA ConvertCharsetIs == \A cs : \A line \in Lines : ConvertCharset(cs, line) \in Lines
<1> SUFFICES ASSUME NEW cs, NEW line \in Lines PROVE ConvertCharset(cs, line) \in Lines
  OBVIOUS
<1> DEFINE n == Len(line)
           I == {i \in 1 .. n : line[i] = High}
<1>1. /\ line \in Seq(Letters) /\ n \in Nat /\ DOMAIN line = 1 .. n
      /\ \A i \in 1 .. n : line[i] \in Letters
  BY LenProperties, ElementOfSeq DEF Lines
<1>2. CASE Legible(cs, line)
  BY <1>2, Zenon DEF ConvertCharset
<1>3. CASE ~Legible(cs, line) /\ cs \in Charsets
  <2> DEFINE k == SelectInSeq(line, LAMBDA t : t = High)
  <2>1. ConvertCharset(cs, line) = SubSeq(line, 1, k - 1)
    BY <1>3, Zenon DEF ConvertCharset
  <2>2. I # {}
    BY <1>1, <1>3 DEF Legible
  <2>3. k = Min(I)
    BY <2>2 DEF SelectInSeq
  <2> HIDE DEF k
  <2>4. I \in SUBSET Nat /\ I \subseteq 1 .. n
    BY <1>1
  <2> HIDE DEF I, n
  <2>5. k \in Nat /\ k \in 1 .. n
    BY <2>2, <2>3, <2>4, MinIsIn
  <2>6. k - 1 \in Nat /\ k - 1 <= n
    BY <1>1, <2>5
  <2>7. SubSeq(line, 1, k - 1) = [i \in 1 .. k - 1 |-> line[i]]
    BY <2>6
  <2>8. [i \in 1 .. k - 1 |-> line[i]] \in Seq(Letters)
    BY <1>1, <2>6
  <2> QED
    BY <2>1, <2>7, <2>8 DEF Lines
<1>4. CASE ~Legible(cs, line) /\ cs \notin Charsets
  <2> DEFINE G(i) == IF line[i] = High THEN Mojibake ELSE line[i]
  <2>1. ConvertCharset(cs, line) = [i \in DOMAIN line |-> G(i)]
    BY <1>4, Zenon DEF ConvertCharset
  <2>2. Mojibake \in Letters
    BY Zenon DEF Letters
  <2>3. \A i \in 1 .. n : G(i) \in Letters
    BY <1>1, <2>2
  <2> HIDE DEF G
  <2> QED
    BY <1>1, <2>1, <2>3 DEF Lines
<1> QED
  BY <1>2, <1>3, <1>4

\* What convert_to_json makes of a line, the log makes a terminal's text of again.
LEMMA ConvertToJsonIs ==
    ASSUME NEW md \in Styles, NEW cs, NEW line \in Lines
    PROVE  /\ ConvertToJson(md, cs, line).html \in Html /\ ConvertToJson(md, cs, line).md \in Styles
           /\ RemoveMarkup(ConvertToJson(md, cs, line).html) = TerminalText(cs, line)
           /\ TerminalText(cs, line) \in Lines
<1> DEFINE c == ConvertCharset(cs, line)
<1>1. ConvertToJson(md, cs, line) = Ansi2Html(md, c) /\ TerminalText(cs, line) = FoldLeft(Seen, <<>>, c)
  BY Zenon DEF ConvertToJson, TerminalText
<1>2. c \in Lines
  BY ConvertCharsetIs
<1> HIDE DEF c
<1>3. /\ Ansi2Html(md, c).html \in Html /\ Ansi2Html(md, c).md \in Styles
      /\ RemoveMarkup(Ansi2Html(md, c).html) = FoldLeft(Seen, <<>>, c)
  BY <1>2, Ansi2HtmlIs
<1>4. FoldLeft(Seen, <<>>, c) \in Lines
  BY <1>2, SeenSteps DEF Lines
<1> QED
  BY <1>1, <1>3, <1>4, Zenon

\* One more element of a sequence that is mapped.
LEMMA MapAppend ==
    ASSUME NEW S, NEW s \in Seq(S), NEW c \in S, NEW f
    PROVE  [i \in DOMAIN Append(s, c) |-> f[Append(s, c)[i]]]
             = Append([i \in DOMAIN s |-> f[s[i]]], f[c])
<1> DEFINE t == Append(s, c)
           n == Len(s)
           u == [i \in DOMAIN s |-> f[s[i]]]
           v == [i \in DOMAIN t |-> f[t[i]]]
<1>1. n \in Nat /\ DOMAIN s = 1 .. n /\ DOMAIN t = 1 .. n + 1 /\ t[n + 1] = c
      /\ \A i \in 1 .. n : t[i] = s[i]
  OBVIOUS
<1>2. Len(u) = n /\ Append(u, f[c]) = [i \in 1 .. n + 1 |-> IF i = n + 1 THEN f[c] ELSE u[i]]
  OBVIOUS
<1> HIDE DEF t, n
<1>3. \A i \in 1 .. n + 1 : v[i] = IF i = n + 1 THEN f[c] ELSE u[i]
  BY <1>1
<1>4. DOMAIN v = 1 .. n + 1
  BY <1>1
<1> QED
  BY <1>1, <1>2, <1>3, <1>4 DEF t

\* What world_echo makes of a text, and what the log makes of it again.
EchoHtml(text) == [i \in DOMAIN text |-> <<"text", JsonEscape(text[i])>>]
\* json_escape of a text, and the log's text of it, character by character.
LEMMA EchoHtmlIs ==
    ASSUME NEW text \in Lines
    PROVE  /\ EchoHtml(text) \in Html /\ RemoveMarkup(EchoHtml(text)) \in Lines
           /\ RemoveMarkup(EchoHtml(text)) = [i \in DOMAIN text |-> Escaped(text[i])]
<1> DEFINE Plainly(s) == [i \in DOMAIN s |-> Escaped(s[i])]
           T == {s \in Seq(Letters) : EchoHtml(s) \in Html /\ RemoveMarkup(EchoHtml(s)) = Plainly(s)}
<1>1. <<>> \in T
  <2>1. EchoHtml(<<>>) = <<>> /\ Plainly(<<>>) = <<>>
    BY DEF EchoHtml
  <2> QED
    BY <2>1, RemoveSteps, EmptySeq DEF Html
<1>2. ASSUME NEW s \in T, NEW c \in Letters PROVE Append(s, c) \in T
  <2>1. s \in Seq(Letters) /\ EchoHtml(s) \in Html /\ RemoveMarkup(EchoHtml(s)) = Plainly(s)
    OBVIOUS
  <2>2. Append(s, c) \in Seq(Letters)
    BY <2>1, AppendProperties
  <2>3. ASSUME NEW f
        PROVE  [i \in DOMAIN Append(s, c) |-> f[Append(s, c)[i]]]
                 = Append([i \in DOMAIN s |-> f[s[i]]], f[c])
    BY <2>1, MapAppend
  <2> DEFINE f == [d \in Letters |-> <<"text", JsonEscape(d)>>]
             g == [d \in Letters |-> Escaped(d)]
  <2>4. ASSUME NEW r \in Seq(Letters)
        PROVE  EchoHtml(r) = [i \in DOMAIN r |-> f[r[i]]] /\ Plainly(r) = [i \in DOMAIN r |-> g[r[i]]]
    <3>1. \A i \in DOMAIN r : r[i] \in Letters
      BY LenProperties, ElementOfSeq
    <3>2. \A i \in DOMAIN r : f[r[i]] = <<"text", JsonEscape(r[i])>> /\ g[r[i]] = Escaped(r[i])
      BY <3>1
    <3> HIDE DEF f, g
    <3> QED
      BY <3>2 DEF EchoHtml
  <2>5. f[c] = <<"text", JsonEscape(c)>> /\ g[c] = Escaped(c)
    OBVIOUS
  <2> HIDE DEF f, g, Plainly
  <2>6. EchoHtml(Append(s, c)) = Append(EchoHtml(s), <<"text", JsonEscape(c)>>)
    BY <2>1, <2>2, <2>3, <2>4, <2>5
  <2>7. Plainly(Append(s, c)) = Append(Plainly(s), Escaped(c))
    BY <2>1, <2>2, <2>3, <2>4, <2>5
  <2>8. JsonEscape(c) \in Letters \cup Entities /\ PlainText(JsonEscape(c)) = Escaped(c)
    BY PlainTextIs, Zenon
  <2>9. EchoHtml(Append(s, c)) \in Html
        /\ RemoveMarkup(EchoHtml(Append(s, c))) = Append(Plainly(s), Escaped(c))
    BY <2>1, <2>6, <2>8, TextMore
  <2> QED
    BY <2>2, <2>7, <2>9
<1>3. T \in SUBSET Seq(Letters)
  OBVIOUS
<1> HIDE DEF T
<1>4. T = Seq(Letters)
  BY <1>1, <1>2, <1>3, AllSequences
<1>5. EchoHtml(text) \in Html /\ RemoveMarkup(EchoHtml(text)) = Plainly(text)
  BY <1>4 DEF T, Lines
<1>6. RemoveMarkup(EchoHtml(text)) \in Lines
  BY <1>5, RemoveSteps DEF Html
<1> QED
  BY <1>5, <1>6

-----------------------------------------------------------------------------
(* What raw_read makes of the bytes.                                       *)

\* The types of raw_read: the states of its parser, why it stops, names and answers.
Modes == {"text", "iac", "DO", "WILL", "SB", "skip", "ttype", "mssp", "mssp2", "charset", "name",
          "named"}
Ends == {"", "full", "prompt"}
Names == Letters \cup {"", "ISO-8859-1", Junk}
Replies == {"WILL CHARSET", "WONT LINEMODE", "WILL TTYPE", "WILL NAWS", "SB NAWS",
            "SB CHARSET REQUEST", "DO EOR", "DO MSSP", "DO NAWS", "DO CHARSET", "SB TTYPE Banana"}
ReadLines == [text : Lines, charset : Names]
Readings == [mode : Modes, need : Int, buff : Lines, tried : BOOLEAN, name : Names,
             charset : Names, lines : Seq(ReadLines), prompt : BOOLEAN, replies : Seq(Replies),
             used : Nat, end : Ends]

\* Replies are known, and more of them are, too.
LEMMA RepliesAreKnown ==
    /\ \A b : IacDo(b) \in Seq(Replies) /\ IacWill(b) \in Seq(Replies)
    /\ <<>> \in Seq(Replies)
    /\ "WILL CHARSET" \in Replies /\ <<"SB TTYPE Banana">> \in Seq(Replies)
<1> DEFINE R == Replies
<1>1. /\ "WILL CHARSET" \in R /\ "WONT LINEMODE" \in R /\ "WILL TTYPE" \in R /\ "WILL NAWS" \in R
      /\ "SB NAWS" \in R /\ "SB CHARSET REQUEST" \in R /\ "DO EOR" \in R /\ "DO MSSP" \in R
      /\ "DO NAWS" \in R /\ "DO CHARSET" \in R /\ "SB TTYPE Banana" \in R
  BY Zenon DEF Replies
<1> HIDE DEF R
<1>2. (\A x \in R : <<x>> \in Seq(R)) /\ (\A x, y \in R : <<x, y>> \in Seq(R)) /\ <<>> \in Seq(R)
  OBVIOUS
<1>3. ASSUME NEW b PROVE IacDo(b) \in Seq(R)
  BY <1>1, <1>2, Zenon DEF IacDo
<1>4. ASSUME NEW b PROVE IacWill(b) \in Seq(R)
  BY <1>1, <1>2, Zenon DEF IacWill
<1> QED
  BY <1>1, <1>2, <1>3, <1>4, Zenon DEF R

\* The types of its fields.
LEMMA ReadingFields ==
    ASSUME NEW rd \in Readings
    PROVE  /\ rd.mode \in Modes /\ rd.need \in Int /\ rd.buff \in Lines /\ rd.tried \in BOOLEAN
           /\ rd.name \in Names /\ rd.charset \in Names /\ rd.lines \in Seq(ReadLines)
           /\ rd.prompt \in BOOLEAN /\ rd.replies \in Seq(Replies) /\ rd.used \in Nat
           /\ rd.end \in Ends
BY DEF Readings

\* Whatever is to be skipped.
LEMMA SkipIs ==
    ASSUME NEW rd \in Readings, NEW m \in Modes, NEW n \in Int
    PROVE  [rd EXCEPT !.mode = m, !.need = n] \in Readings /\ [rd EXCEPT !.mode = m] \in Readings
BY DEF Readings

\* An answer more keeps the types.
LEMMA ReplyIs ==
    ASSUME NEW rd \in Readings, NEW answers \in Seq(Replies)
    PROVE  Reply(rd, answers) \in Readings
<1>1. rd.replies \in Seq(Replies)
  BY ReadingFields
<1> DEFINE s == rd.replies \o answers
<1>2. s \in Seq(Replies)
  BY <1>1, ConcatProperties
<1>3. "text" \in Modes
  BY DEF Modes
<1>4. Reply(rd, answers) = [rd EXCEPT !.replies = @ \o answers, !.mode = "text"]
  BY DEF Reply
<1>5. [rd EXCEPT !.replies = @ \o answers, !.mode = "text"] = [rd EXCEPT !.replies = s, !.mode = "text"]
  BY DEF Readings
<1> HIDE DEF s
<1>6. [rd EXCEPT !.replies = s, !.mode = "text"] \in Readings
  BY <1>2, <1>3 DEF Readings
<1> QED
  BY <1>4, <1>5, <1>6, Zenon

\* A byte in the text does so, too.
LEMMA OnTextIs ==
    ASSUME NEW rd \in Readings, NEW b \in Letters
    PROVE  OnText(rd, b) \in Readings
<1>1. /\ rd.buff \in Lines /\ rd.charset \in Names /\ rd.lines \in Seq(ReadLines)
  BY ReadingFields
<1>2. CASE b = "LF"
  <2> DEFINE e == IF Len(rd.lines) + 1 >= MAX_LINES THEN "full" ELSE ""
             l == [text |-> rd.buff, charset |-> rd.charset]
             none == <<>>
             s == Append(rd.lines, l)
  <2>1. e \in Ends
    BY Zenon DEF Ends
  <2>2. OnText(rd, b) = [rd EXCEPT !.lines = Append(@, l), !.buff = none, !.end = e]
    <3>1. "LF" # "CR" /\ "LF" # "IAC"
      BY Zenon
    <3> QED
      BY <1>2, <3>1, Zenon DEF OnText, EndLine
  <2>3. none \in Lines
    BY EmptySeq DEF Lines
  <2>4. s \in Seq(ReadLines)
    <3>1. l \in ReadLines
      BY <1>1 DEF ReadLines
    <3> HIDE DEF l
    <3> QED
      BY <1>1, <3>1, AppendProperties
  <2> HIDE DEF e, l, none
  <2>5. [rd EXCEPT !.lines = Append(@, l), !.buff = none, !.end = e]
          = [rd EXCEPT !.lines = s, !.buff = none, !.end = e]
    BY DEF Readings
  <2> HIDE DEF s
  <2>6. [rd EXCEPT !.lines = s, !.buff = none, !.end = e] \in Readings
    BY <2>1, <2>3, <2>4 DEF Readings
  <2> QED
    BY <2>2, <2>5, <2>6, Zenon
<1>3. CASE b = "CR"
  BY <1>3 DEF OnText
<1>4. CASE b = "IAC"
  BY <1>4 DEF Readings, OnText, Modes
<1>5. CASE b \notin {"CR", "LF", "IAC"}
  <2>1. OnText(rd, b) = [rd EXCEPT !.buff = Append(@, b)]
    BY <1>5 DEF OnText
  <2>2. Append(rd.buff, b) \in Lines
    BY <1>1, AppendProperties DEF Lines
  <2>3. [rd EXCEPT !.buff = Append(@, b)] = [rd EXCEPT !.buff = Append(rd.buff, b)]
    BY DEF Readings
  <2> QED
    BY <2>1, <2>2, <2>3 DEF Readings
<1> QED
  BY <1>2, <1>3, <1>4, <1>5

\* A byte after IAC does so, too.
LEMMA OnIacIs ==
    ASSUME NEW rd \in Readings, NEW b \in Letters
    PROVE  OnIac(rd, b) \in Readings
<1>1. rd.buff \in Lines /\ rd.replies \in Seq(Replies)
  BY ReadingFields
<1>2. CASE b = "IAC"
  <2>1. OnIac(rd, b) = [rd EXCEPT !.mode = "text", !.buff = Append(@, "IAC")]
    BY <1>2 DEF OnIac, EscapedIAC
  <2>2. Append(rd.buff, "IAC") \in Lines /\ "text" \in Modes
    <3>1. "IAC" \in Letters
      BY Zenon DEF Letters
    <3> QED
      BY <1>1, <3>1, AppendProperties DEF Lines, Modes
  <2>3. [rd EXCEPT !.mode = "text", !.buff = Append(@, "IAC")]
          = [rd EXCEPT !.mode = "text", !.buff = Append(rd.buff, "IAC")]
    BY DEF Readings
  <2> QED
    BY <2>1, <2>2, <2>3 DEF Readings
<1>3. CASE b # "IAC"
  <2> DEFINE g == Greet(rd)
  <2>1. g \in Readings
    <3> DEFINE hello == "WILL CHARSET"
               s == Append(rd.replies, hello)
    <3>1. hello \in Replies
      BY RepliesAreKnown, Zenon
    <3>2. g = IF rd.tried THEN rd ELSE [rd EXCEPT !.tried = TRUE, !.replies = Append(@, hello)]
      BY Zenon DEF Greet
    <3> HIDE DEF hello, g
    <3>3. s \in Seq(Replies)
      BY <1>1, <3>1, AppendProperties
    <3>4. [rd EXCEPT !.tried = TRUE, !.replies = Append(@, hello)]
            = [rd EXCEPT !.tried = TRUE, !.replies = s]
      BY DEF Readings
    <3> HIDE DEF s
    <3> QED
      BY <3>2, <3>3, <3>4 DEF Readings
  <2>2. OnIac(rd, b) \in {[g EXCEPT !.mode = b], [g EXCEPT !.mode = "skip", !.need = 1],
                          [g EXCEPT !.mode = "text", !.prompt = TRUE, !.end = "prompt"],
                          [g EXCEPT !.mode = "text"]}
        /\ (OnIac(rd, b) = [g EXCEPT !.mode = b] => b \in {"DO", "WILL", "SB"}
            \/ OnIac(rd, b) \in {[g EXCEPT !.mode = "skip", !.need = 1],
                          [g EXCEPT !.mode = "text", !.prompt = TRUE, !.end = "prompt"],
                          [g EXCEPT !.mode = "text"]})
    <3> HIDE DEF g
    <3>1. OnIac(rd, b) =
             CASE b \in {"DO", "WILL", "SB"} -> [g EXCEPT !.mode = b]
               [] b \in {"DONT", "WONT"}     -> [g EXCEPT !.mode = "skip", !.need = 1]
               [] b \in {"EOR", "GA"}        -> [g EXCEPT !.mode = "text", !.prompt = TRUE,
                                                          !.end = "prompt"]
               [] OTHER                      -> [g EXCEPT !.mode = "text"]
      BY <1>3, Zenon DEF OnIac, g
    <3> QED
      BY <3>1, Zenon
  <2> HIDE DEF g
  <2>3. {"DO", "WILL", "SB", "skip", "text"} \subseteq Modes
    BY DEF Modes
  <2>4. "prompt" \in Ends
    BY Zenon DEF Ends
  <2>5. [g EXCEPT !.mode = "skip", !.need = 1] \in Readings /\ [g EXCEPT !.mode = "text"] \in Readings
    <3>1. "skip" \in Modes /\ "text" \in Modes /\ 1 \in Int
      BY <2>3
    <3> QED
      BY <2>1, <3>1, SkipIs, Zenon
  <2>6. [g EXCEPT !.mode = "text", !.prompt = TRUE, !.end = "prompt"] \in Readings
    BY <2>1, <2>3, <2>4 DEF Readings
  <2>7. b \in {"DO", "WILL", "SB"} => [g EXCEPT !.mode = b] \in Readings
    BY <2>1, <2>3 DEF Readings
  <2> QED
    BY <2>2, <2>5, <2>6, <2>7, Zenon
<1> QED
  BY <1>2, <1>3

\* A byte of a subnegotiation does so, too.
LEMMA OnRestIs ==
    ASSUME NEW rd \in Readings, NEW b \in Letters, NEW junk \in BOOLEAN
    PROVE  /\ OnSb(rd, b) \in Readings /\ OnSkip(rd) \in Readings /\ OnCharset(rd, b) \in Readings
           /\ MsspIac(rd, b) \in Readings /\ OnName(rd, b, junk) \in Readings
           /\ [rd EXCEPT !.mode = IF b = "IAC" THEN "mssp2" ELSE "mssp"] \in Readings
<1>1. {"text", "ttype", "mssp", "mssp2", "charset", "skip", "name", "named"} \subseteq Modes
  BY DEF Modes
<1>2. rd.need \in Int /\ rd.name \in Names
  BY ReadingFields
<1>3. OnSb(rd, b) \in Readings
  <2>1. [rd EXCEPT !.mode = "ttype", !.need = 3] \in Readings
    <3>1. "ttype" \in Modes /\ 3 \in Int
      BY <1>1
    <3> QED
      BY <3>1, SkipIs, Zenon
  <2>2. [rd EXCEPT !.mode = "mssp"] \in Readings /\ [rd EXCEPT !.mode = "charset"] \in Readings
        /\ [rd EXCEPT !.mode = "text"] \in Readings
    BY <1>1 DEF Readings
  <2> QED
    BY <2>1, <2>2, Zenon DEF OnSb
<1>4. OnSkip(rd) \in Readings
  <2> DEFINE a == IF rd.mode = "ttype" THEN <<"SB TTYPE Banana">> ELSE <<>>
             r == [rd EXCEPT !.need = 0]
             k == rd.need - 1
  <2>1. a \in Seq(Replies)
    BY RepliesAreKnown, Zenon
  <2> DEFINE more == rd.need > 1
  <2>2. OnSkip(rd) = IF more THEN [rd EXCEPT !.need = @ - 1] ELSE Reply(r, a)
    BY Zenon DEF OnSkip
  <2> HIDE DEF a
  <2>3. r \in Readings
    BY DEF Readings
  <2>4. [rd EXCEPT !.need = @ - 1] = [rd EXCEPT !.need = k] /\ k \in Int
    BY <1>2 DEF Readings
  <2> HIDE DEF k, r, more
  <2>5. Reply(r, a) \in Readings
    BY <2>1, <2>3, ReplyIs
  <2>6. [rd EXCEPT !.need = k] \in Readings
    BY <2>4 DEF Readings
  <2> QED
    BY <2>2, <2>4, <2>5, <2>6, Zenon
<1>5. OnCharset(rd, b) \in Readings
  <2> DEFINE none == ""
  <2>1. none \in Names
    BY Zenon DEF Names
  <2>2. OnCharset(rd, b) = IF b = "ACCEPTED" THEN [rd EXCEPT !.mode = "name", !.name = none]
                           ELSE [rd EXCEPT !.mode = "skip", !.need = 2]
    BY Zenon DEF OnCharset
  <2> HIDE DEF none
  <2>3. [rd EXCEPT !.mode = "name", !.name = none] \in Readings
    BY <1>1, <2>1 DEF Readings
  <2>4. [rd EXCEPT !.mode = "skip", !.need = 2] \in Readings
    <3>1. "skip" \in Modes /\ 2 \in Int
      BY <1>1
    <3> QED
      BY <3>1, SkipIs, Zenon
  <2> QED
    BY <2>2, <2>3, <2>4, Zenon
<1>6. MsspIac(rd, b) \in Readings /\ [rd EXCEPT !.mode = IF b = "IAC" THEN "mssp2" ELSE "mssp"] \in Readings
  BY <1>1 DEF Readings, MsspIac
<1>7. OnName(rd, b, junk) \in Readings
  <2> DEFINE cs == IF junk THEN Junk ELSE rd.name
  <2>1. cs \in Names
    BY <1>2, Zenon DEF Names
  <2>2. OnName(rd, b, junk) = IF b = "IAC" THEN [rd EXCEPT !.mode = "named"]
                              ELSE IF rd.mode = "name" THEN [rd EXCEPT !.name = b]
                              ELSE [rd EXCEPT !.mode = "text", !.charset = cs]
    BY Zenon DEF OnName
  <2>3. b \in Names
    BY Zenon DEF Names
  <2> HIDE DEF cs
  <2> QED
    BY <1>1, <2>1, <2>2, <2>3 DEF Readings
<1> QED
  BY <1>3, <1>4, <1>5, <1>6, <1>7

\* Every byte does.
LEMMA OnByteIs ==
    ASSUME NEW rd \in Readings, NEW b \in Letters, NEW junk \in BOOLEAN
    PROVE  OnByte(rd, b, junk) \in Readings
<1> DEFINE mssp == [rd EXCEPT !.mode = IF b = "IAC" THEN "mssp2" ELSE "mssp"]
           do == Reply(rd, IacDo(b))
           will == Reply(rd, IacWill(b))
<1>1. /\ OnText(rd, b) \in Readings /\ OnIac(rd, b) \in Readings /\ OnSb(rd, b) \in Readings
      /\ OnSkip(rd) \in Readings /\ OnCharset(rd, b) \in Readings /\ MsspIac(rd, b) \in Readings
      /\ OnName(rd, b, junk) \in Readings /\ mssp \in Readings
  BY OnTextIs, OnIacIs, OnRestIs
<1>2. do \in Readings /\ will \in Readings
  BY RepliesAreKnown, ReplyIs
<1>3. rd.mode \in Modes
  BY ReadingFields
<1>4. OnByte(rd, b, junk) =
        CASE rd.mode = "text"             -> OnText(rd, b)
          [] rd.mode = "iac"              -> OnIac(rd, b)
          [] rd.mode = "DO"               -> do
          [] rd.mode = "WILL"             -> will
          [] rd.mode = "SB"               -> OnSb(rd, b)
          [] rd.mode \in {"skip", "ttype"} -> OnSkip(rd)
          [] rd.mode = "mssp"             -> mssp
          [] rd.mode = "mssp2"            -> MsspIac(rd, b)
          [] rd.mode = "charset"          -> OnCharset(rd, b)
          [] rd.mode \in {"name", "named"} -> OnName(rd, b, junk)
  BY Zenon DEF OnByte
<1> HIDE DEF mssp, do, will
<1> QED
  BY <1>1, <1>2, <1>3, <1>4 DEF Modes

\* One turn of raw_read's loop.
RawStep(rd, b, junk) == IF rd.end # "" THEN rd ELSE OnByte([rd EXCEPT !.used = @ + 1], b, junk)

\* A call of raw_read, byte by byte.
LEMMA RawReadSteps ==
    ASSUME NEW rd0 \in Readings, NEW junk \in BOOLEAN
    PROVE  /\ RawRead(rd0, <<>>, junk) = rd0
           /\ \A s \in Seq(Letters) : RawRead(rd0, s, junk) \in Readings
           /\ \A s \in Seq(Letters), e \in Letters : RawRead(rd0, Append(s, e), junk)
                     = RawStep(RawRead(rd0, s, junk), e, junk)
<1> DEFINE Op(rd, b) == IF rd.end # "" THEN rd ELSE OnByte([rd EXCEPT !.used = @ + 1], b, junk)
           F == [p \in (Readings) \X (Letters) |-> Op(p[1], p[2])]
           q == rd0
<1>1. ASSUME NEW r \in Readings, NEW e \in Letters PROVE Op(r, e) \in Readings
  <2> DEFINE none == ""
             u == [r EXCEPT !.used = @ + 1]
  <2>1. Op(r, e) = IF r.end # none THEN r ELSE OnByte(u, e, junk)
    BY Zenon
  <2> HIDE DEF none
  <2>2. r.used \in Nat
    BY ReadingFields
  <2>3. u = [r EXCEPT !.used = r.used + 1] /\ r.used + 1 \in Nat
    BY <2>2 DEF Readings
  <2> HIDE DEF u
  <2>4. u \in Readings
    BY <2>3 DEF Readings
  <2>5. OnByte(u, e, junk) \in Readings
    BY <2>4, OnByteIs
  <2> HIDE DEF Op
  <2> QED
    BY <2>1, <2>5
<1>2. q \in Readings
  OBVIOUS
<1> HIDE DEF Op, q
<1>3. IsStep(F, Readings, Letters) /\ \A r \in Readings, e \in Letters : F[<<r, e>>] = Op(r, e)
  BY <1>1 DEF IsStep
<1> HIDE DEF F
<1>4. ASSUME NEW s \in Seq(Letters) PROVE RawRead(rd0, s, junk) = Fold(F, q, s)
  <2> DEFINE Iter(g) == g = [t \in SUBSET DOMAIN s |->
                               IF t = {} THEN q ELSE Op(g[t \ {Max(t)}], s[Max(t)])]
             iter == CHOOSE g : Iter(g)
  <2>1. RawRead(rd0, s, junk) = iter[DOMAIN s]
    BY Zenon DEF RawRead, FoldLeft, MapThenFoldSet, Op, q
  <2>2. PICK g \in [SUBSET (1 .. Len(s)) -> Readings] : IsFold(g, F, q, s, Len(s))
    BY <1>2, <1>3, FoldIsThere DEF IsStep
  <2>3. Iter(g)
    BY <1>3, <2>2, LastPlace DEF IsFold
  <2>4. Iter(iter)
    BY <2>3
  <2> HIDE DEF iter
  <2>5. /\ iter[{}] = q
        /\ \A t \in SUBSET (1 .. Len(s)) : t # {} => iter[t] = Op(iter[t \ {Max(t)}], s[Max(t)])
    BY <2>4, LastPlace
  <2> HIDE DEF Iter
  <2>6. Iterates(iter, Readings, F, q, s, Len(s))
    BY <1>3, <2>5, LastPlace DEF Iterates
  <2> QED
    BY <1>2, <1>3, <2>1, <2>6, FoldLeftIs
<1>5. FoldsOn(F, q, Readings, Letters)
  BY <1>2, <1>3, FoldMore
<1>6. ASSUME NEW s \in Seq(Letters), NEW e \in Letters
      PROVE  RawRead(rd0, Append(s, e), junk) = Op(RawRead(rd0, s, junk), e)
  BY <1>3, <1>4, <1>5 DEF FoldsOn
<1>7. RawRead(rd0, <<>>, junk) = q /\ \A s \in Seq(Letters) : RawRead(rd0, s, junk) \in Readings
  BY <1>4, <1>5 DEF FoldsOn
<1> QED
  BY <1>6, <1>7, Zenon DEF Op, q, RawStep

-----------------------------------------------------------------------------
(* What net_read makes of the lines, and what goes to the log.             *)

\* HTML that is made of lines, and of what is echoed.
Made == {ConvertToJson(md, cs, line).html : md \in Styles, cs \in Names, line \in Lines}
          \cup {EchoHtml(text) : text \in Lines}
\* What is in it.
LEMMA IsMade ==
    /\ \A md \in Styles, cs \in Names, line \in Lines : ConvertToJson(md, cs, line).html \in Made
    /\ \A text \in Lines : EchoHtml(text) \in Made
BY DEF Made

\* The types of what net_read makes of the lines it has read.
LineEvents == [kind : {"line"}, html : Made, charset : Names]
Converted == [mdata : Styles, events : Seq(LineEvents)]

\* A line becomes one event, after those before it.
LEMMA ConvertIs ==
    ASSUME NEW st \in Converted, NEW line \in ReadLines
    PROVE  LET conv == ConvertToJson(st.mdata, line.charset, line.text)
               e == [kind |-> "line", html |-> conv.html, charset |-> line.charset]
           IN  /\ Convert(st, line) \in Converted /\ e \in LineEvents
               /\ Convert(st, line).events = Append(st.events, e)
<1> DEFINE conv == ConvertToJson(st.mdata, line.charset, line.text)
           e == [kind |-> "line", html |-> conv.html, charset |-> line.charset]
           es == Append(st.events, e)
<1>1. st.mdata \in Styles /\ line.text \in Lines /\ line.charset \in Names /\ st.events \in Seq(LineEvents)
  BY DEF Converted, ReadLines
<1>2. conv.html \in Made /\ conv.md \in Styles
  <2>1. conv.html \in Made
    BY <1>1, IsMade, Zenon
  <2> QED
    BY <1>1, <2>1, ConvertToJsonIs
<1>3. Convert(st, line) = [mdata |-> conv.md, events |-> Append(st.events, e)]
  BY Zenon DEF Convert
<1> HIDE DEF conv
<1>4. e \in LineEvents
  BY <1>1, <1>2 DEF LineEvents
<1> HIDE DEF e
<1>5. es \in Seq(LineEvents)
  BY <1>1, <1>4, AppendProperties
<1> HIDE DEF es
<1>6. Convert(st, line) = [mdata |-> conv.md, events |-> es]
  BY <1>3, Zenon DEF es
<1>7. Convert(st, line) \in Converted /\ Convert(st, line).events = es
  BY <1>2, <1>5, <1>6 DEF Converted
<1> QED
  BY <1>4, <1>7, Zenon DEF es, e, conv

\* Line after line becomes an event.
LEMMA ConvertSteps ==
    ASSUME NEW st0 \in Converted
    PROVE  /\ FoldLeft(Convert, st0, <<>>) = st0
           /\ \A s \in Seq(ReadLines) : FoldLeft(Convert, st0, s) \in Converted
           /\ \A s \in Seq(ReadLines), e \in ReadLines : FoldLeft(Convert, st0, Append(s, e))
                     = Convert(FoldLeft(Convert, st0, s), e)
<1> DEFINE Op(st, line) == Convert(st, line)
           F == [p \in (Converted) \X (ReadLines) |-> Op(p[1], p[2])]
           q == st0
<1>1. ASSUME NEW r \in Converted, NEW e \in ReadLines PROVE Op(r, e) \in Converted
  BY ConvertIs
<1>2. q \in Converted
  OBVIOUS
<1> HIDE DEF Op, q
<1>3. IsStep(F, Converted, ReadLines) /\ \A r \in Converted, e \in ReadLines : F[<<r, e>>] = Op(r, e)
  BY <1>1 DEF IsStep
<1> HIDE DEF F
<1>4. ASSUME NEW s \in Seq(ReadLines) PROVE FoldLeft(Convert, st0, s) = Fold(F, q, s)
  <2> DEFINE Iter(g) == g = [t \in SUBSET DOMAIN s |->
                               IF t = {} THEN q ELSE Op(g[t \ {Max(t)}], s[Max(t)])]
             iter == CHOOSE g : Iter(g)
  <2>1. FoldLeft(Convert, st0, s) = iter[DOMAIN s]
    BY Zenon DEF FoldLeft, MapThenFoldSet, Op, q
  <2>2. PICK g \in [SUBSET (1 .. Len(s)) -> Converted] : IsFold(g, F, q, s, Len(s))
    BY <1>2, <1>3, FoldIsThere DEF IsStep
  <2>3. Iter(g)
    BY <1>3, <2>2, LastPlace DEF IsFold
  <2>4. Iter(iter)
    BY <2>3
  <2> HIDE DEF iter
  <2>5. /\ iter[{}] = q
        /\ \A t \in SUBSET (1 .. Len(s)) : t # {} => iter[t] = Op(iter[t \ {Max(t)}], s[Max(t)])
    BY <2>4, LastPlace
  <2> HIDE DEF Iter
  <2>6. Iterates(iter, Converted, F, q, s, Len(s))
    BY <1>3, <2>5, LastPlace DEF Iterates
  <2> QED
    BY <1>2, <1>3, <2>1, <2>6, FoldLeftIs
<1>5. FoldsOn(F, q, Converted, ReadLines)
  BY <1>2, <1>3, FoldMore
<1>6. ASSUME NEW s \in Seq(ReadLines), NEW e \in ReadLines
      PROVE  FoldLeft(Convert, st0, Append(s, e)) = Op(FoldLeft(Convert, st0, s), e)
  BY <1>3, <1>4, <1>5 DEF FoldsOn
<1>7. FoldLeft(Convert, st0, <<>>) = q /\ \A s \in Seq(ReadLines) : FoldLeft(Convert, st0, s) \in Converted
  BY <1>4, <1>5 DEF FoldsOn
<1> QED
  BY <1>6, <1>7, Zenon DEF Op, q

\* Every line becomes one event, in the style that the lines before it left.
Converting(md, s) == FoldLeft(Convert, [mdata |-> md, events |-> <<>>], s)
\* An event says what a line says, in some style.
IsOfLine(e, line) ==
    \E md \in Styles : e.html = ConvertToJson(md, line.charset, line.text).html

\* Every line has become its event.
LEMMA ConvertingIs ==
    ASSUME NEW md \in Styles, NEW s \in Seq(ReadLines)
    PROVE  /\ Converting(md, s) \in Converted /\ Len(Converting(md, s).events) = Len(s)
           /\ \A i \in 1 .. Len(s) : IsOfLine(Converting(md, s).events[i], s[i])
<1> DEFINE st0 == [mdata |-> md, events |-> <<>>]
           F(r) == FoldLeft(Convert, st0, r)
           T == {r \in Seq(ReadLines) : Len(F(r).events) = Len(r)
                                        /\ \A i \in 1 .. Len(r) : IsOfLine(F(r).events[i], r[i])}
<1>1. st0 \in Converted /\ st0.events = <<>>
  BY EmptySeq DEF Converted
<1> HIDE DEF st0
<1>2. /\ F(<<>>) = st0
      /\ \A r \in Seq(ReadLines) : F(r) \in Converted
      /\ \A r \in Seq(ReadLines), e \in ReadLines : F(Append(r, e)) = Convert(F(r), e)
  BY <1>1, ConvertSteps
<1> HIDE DEF F
<1>3. <<>> \in T
  <2>1. 1 .. Len(<<>>) = {} /\ Len(<<>>) = 0
    OBVIOUS
  <2> QED
    BY <1>1, <1>2, <2>1, EmptySeq
<1>4. ASSUME NEW r \in T, NEW x \in ReadLines PROVE Append(r, x) \in T
  <2> DEFINE conv == ConvertToJson(F(r).mdata, x.charset, x.text)
             e == [kind |-> "line", html |-> conv.html, charset |-> x.charset]
             n == Len(r)
             t == Append(r, x)
             es == F(r).events
             fs == F(t).events
  <2>1. r \in Seq(ReadLines) /\ F(r) \in Converted /\ Len(F(r).events) = n
        /\ \A i \in 1 .. n : IsOfLine(F(r).events[i], r[i])
    BY <1>2
  <2>2. Convert(F(r), x).events = Append(F(r).events, e) /\ e \in LineEvents
    BY <2>1, ConvertIs, Zenon
  <2>3. F(t) = Convert(F(r), x)
    BY <1>2, <2>1
  <2>4. e.html = conv.html /\ F(r).mdata \in Styles
    BY <2>1 DEF Converted
  <2>5. IsOfLine(e, x)
    BY <2>4, Zenon DEF IsOfLine
  <2> HIDE DEF e
  <2>6. n \in Nat /\ t \in Seq(ReadLines) /\ Len(t) = n + 1 /\ t[n + 1] = x
        /\ \A i \in 1 .. n : t[i] = r[i]
    BY <2>1
  <2>7. es \in Seq(LineEvents) /\ Len(es) = n /\ fs = Append(es, e)
    BY <2>1, <2>2, <2>3 DEF Converted
  <2> HIDE DEF es, fs, t, n
  <2>8. Len(fs) = n + 1 /\ fs[n + 1] = e /\ \A i \in 1 .. n : fs[i] = es[i]
    BY <2>2, <2>6, <2>7
  <2>9. \A i \in 1 .. n : IsOfLine(es[i], r[i])
    BY <2>1 DEF es
  <2>10. \A i \in 1 .. n : IsOfLine(fs[i], t[i])
    BY <2>6, <2>8, <2>9
  <2>11. IsOfLine(fs[n + 1], t[n + 1])
    BY <2>5, <2>6, <2>8
  <2>12. \A i \in 1 .. n + 1 : i = n + 1 \/ i \in 1 .. n
    BY <2>6
  <2>13. Len(fs) = Len(t) /\ \A i \in 1 .. Len(t) : IsOfLine(fs[i], t[i])
    BY <2>6, <2>8, <2>10, <2>11, <2>12
  <2> QED
    BY <2>6, <2>13 DEF fs, t
<1>5. T \in SUBSET Seq(ReadLines)
  OBVIOUS
<1> HIDE DEF T
<1>6. T = Seq(ReadLines)
  BY <1>3, <1>4, <1>5, AllSequences
<1>7. F(s) \in Converted /\ Len(F(s).events) = Len(s)
      /\ \A i \in 1 .. Len(s) : IsOfLine(F(s).events[i], s[i])
  BY <1>2, <1>6 DEF T
<1> QED
  BY <1>7, Zenon DEF Converting, F, st0

\* The log of event and history go together.
Twice == {<<a, a>> : a \in Lines}
\* The logger and its history, on the way through the lines of one read.
LogStates(day) == {st \in [lg : Logs, h : Seq(Days \X Lines)] : LogInv(st.lg, st.h, day)}
Logging(st, line, opens) ==
    [lg |-> Vllog(st.lg, today, line[1], opens),
     h |-> IF HasFile(st.lg, today, opens) THEN Append(st.h, <<today, line[2]>>) ELSE st.h]

\* A line more in the log keeps its invariant.
LEMMA LoggingIs ==
    ASSUME NEW st \in LogStates(today), NEW line \in Twice, NEW opens \in BOOLEAN
    PROVE  Logging(st, line, opens) \in LogStates(today)
<1> DEFINE day == today
           a == line[1]
           l == st.lg
           h == st.h
           nl == Vllog(l, day, a, opens)
           nh == IF HasFile(l, day, opens) THEN Append(h, <<day, a>>) ELSE h
<1>1. a \in Lines /\ line = <<a, a>> /\ line[2] = a
  BY DEF Twice
<1>2. LogInv(l, h, day)
  BY DEF LogStates
<1>3. Logging(st, line, opens) = [lg |-> nl, h |-> nh]
  BY <1>1, Zenon DEF Logging
<1> HIDE DEF a, l, h, day
<1>4. LogInv(nl, nh, day)
  BY <1>1, <1>2, VllogKeeps, Zenon
<1> HIDE DEF nl, nh
<1>5. nl \in Logs /\ nh \in Seq(Days \X Lines)
  BY <1>4 DEF LogInv, Filed
<1> QED
  BY <1>3, <1>4, <1>5 DEF LogStates, day

\* The lines of a read, one after the other.
Logged(st0, lines, opens) == FoldLeft(LAMBDA st, line : Logging(st, line, opens), st0, lines)

\* Line after line goes to the log.
LEMMA LogAllSteps ==
    ASSUME NEW st0 \in LogStates(today), NEW opens \in BOOLEAN
    PROVE  /\ Logged(st0, <<>>, opens) = st0
           /\ \A s \in Seq(Twice) : Logged(st0, s, opens) \in LogStates(today)
           /\ \A s \in Seq(Twice), e \in Twice : Logged(st0, Append(s, e), opens)
                     = Logging(Logged(st0, s, opens), e, opens)
<1> DEFINE Op(st, line) == Logging(st, line, opens)
           F == [p \in (LogStates(today)) \X (Twice) |-> Op(p[1], p[2])]
           q == st0
<1>1. ASSUME NEW r \in LogStates(today), NEW e \in Twice PROVE Op(r, e) \in LogStates(today)
  BY LoggingIs
<1>2. q \in LogStates(today)
  OBVIOUS
<1> HIDE DEF Op, q
<1>3. IsStep(F, LogStates(today), Twice) /\ \A r \in LogStates(today), e \in Twice : F[<<r, e>>] = Op(r, e)
  BY <1>1 DEF IsStep
<1> HIDE DEF F
<1>4. ASSUME NEW s \in Seq(Twice) PROVE Logged(st0, s, opens) = Fold(F, q, s)
  <2> DEFINE Iter(g) == g = [t \in SUBSET DOMAIN s |->
                               IF t = {} THEN q ELSE Op(g[t \ {Max(t)}], s[Max(t)])]
             iter == CHOOSE g : Iter(g)
  <2>1. Logged(st0, s, opens) = iter[DOMAIN s]
    BY Zenon DEF Logged, FoldLeft, MapThenFoldSet, Op, q
  <2>2. PICK g \in [SUBSET (1 .. Len(s)) -> LogStates(today)] : IsFold(g, F, q, s, Len(s))
    BY <1>2, <1>3, FoldIsThere DEF IsStep
  <2>3. Iter(g)
    BY <1>3, <2>2, LastPlace DEF IsFold
  <2>4. Iter(iter)
    BY <2>3
  <2> HIDE DEF iter
  <2>5. /\ iter[{}] = q
        /\ \A t \in SUBSET (1 .. Len(s)) : t # {} => iter[t] = Op(iter[t \ {Max(t)}], s[Max(t)])
    BY <2>4, LastPlace
  <2> HIDE DEF Iter
  <2>6. Iterates(iter, LogStates(today), F, q, s, Len(s))
    BY <1>3, <2>5, LastPlace DEF Iterates
  <2> QED
    BY <1>2, <1>3, <2>1, <2>6, FoldLeftIs
<1>5. FoldsOn(F, q, LogStates(today), Twice)
  BY <1>2, <1>3, FoldMore
<1>6. ASSUME NEW s \in Seq(Twice), NEW e \in Twice
      PROVE  Logged(st0, Append(s, e), opens) = Op(Logged(st0, s, opens), e)
  BY <1>3, <1>4, <1>5 DEF FoldsOn
<1>7. Logged(st0, <<>>, opens) = q /\ \A s \in Seq(Twice) : Logged(st0, s, opens) \in LogStates(today)
  BY <1>4, <1>5 DEF FoldsOn
<1> QED
  BY <1>6, <1>7, Zenon DEF Op, q

\* However many lines: the log is kept.
LEMMA LogAllKeeps ==
    ASSUME NEW l, NEW h, LogInv(l, h, today), NEW lines \in Seq(Twice), NEW opens \in BOOLEAN
    PROVE  LogInv(LogAll(l, h, lines, opens).lg, LogAll(l, h, lines, opens).h, today)
<1> DEFINE st0 == [lg |-> l, h |-> h]
<1>1. LogAll(l, h, lines, opens) = Logged(st0, lines, opens)
  BY Zenon DEF LogAll, Logged, Logging
<1>2. st0 \in LogStates(today)
  BY DEF LogStates, LogInv, Filed
<1> HIDE DEF st0
<1>3. Logged(st0, lines, opens) \in LogStates(today)
  BY <1>2, LogAllSteps
<1> QED
  BY <1>1, <1>3 DEF LogStates

-----------------------------------------------------------------------------
(* The inductive invariant, and every action.                              *)

\* The types of a world, when it is open, and of its events.
OpenWorlds == [buff : Lines, tried : BOOLEAN, charset : Names, mdata : Styles]
Worlds == {NoWorld} \cup OpenWorlds
Events == [kind : {"line", "prompt", "echo"}, html : Made, charset : Names \cup {"UTF-8"}]

\* The inductive invariant: types, where events say what lines said, and that of the log.
TextInv ==
    /\ todo \in Seq(Seq(Bytes)) /\ coming \in Seq(Bytes) /\ wire \in Seq(Bytes)
    /\ world \in Worlds /\ (link # "none" => world \in OpenWorlds)
    /\ events \in Seq(Events)
    /\ LogInv(lg, logged, today)

\* A day more.
LEMMA DayMore ==
    ASSUME NEW l, NEW h, NEW day, LogInv(l, h, day), day < MaxDay
    PROVE  LogInv(l, h, day + 1)
<1>1. Files(l, day) /\ h \in Seq(Days \X Lines) /\ (MaxDay < YearLen => Kept(l, h))
      /\ Filed(l, day) /\ MarksFit(l)
  BY DEF LogInv, Files
<1>2. l.logday \in Nat /\ l.logday <= day /\ day \in Nat
  BY <1>1, FilesParts
<1>3. day + 1 \in Days /\ l.logday <= day + 1
  BY <1>2, LoggerAssumption DEF Days
<1>4. Filed(l, day + 1)
  BY <1>1, <1>3 DEF Filed
<1> QED
  BY <1>1, <1>3, <1>4 DEF LogInv

\* The logger of a world that is opened, and of one that is closed.
LEMMA ReopenedKeeps ==
    ASSUME NEW l, NEW h, NEW day, LogInv(l, h, day), NEW d \in {l.logday, day}
    PROVE  LogInv([l EXCEPT !.logday = d, !.logout = NONE], h, day)
<1> DEFINE r == [l EXCEPT !.logday = d, !.logout = NONE]
<1>1. Files(l, day) /\ h \in Seq(Days \X Lines) /\ (MaxDay < YearLen => Kept(l, h))
  BY DEF LogInv, Files
<1>2. l \in Logs /\ l.logday \in Days /\ day \in Days /\ l.logday <= day /\ l.logday \in Nat
      /\ day \in Nat
  BY <1>1, FilesParts
<1>3. d \in Days /\ l.logday <= d /\ d <= day /\ NONE \in {NONE, d}
  BY <1>2
<1>4. Files(r, day)
  BY <1>1, <1>3, OpenedFiles
<1>5. r.disk = l.disk
  BY <1>2 DEF Logs
<1> HIDE DEF r
<1>6. MaxDay < YearLen => Kept(r, h)
  BY <1>1, <1>5, KeptIsOfDisk
<1>7. LogInv(r, h, day)
  BY <1>1, <1>2, <1>4, <1>6 DEF LogInv, Files
<1> QED
  BY <1>7 DEF r

\* llog of a world that is freed.
LEMMA ClosedKeeps ==
    ASSUME NEW l, NEW h, NEW day, LogInv(l, h, day)
    PROVE  LogInv([l EXCEPT !.logout = NONE], h, day)
<1>1. l \in Logs
  BY DEF LogInv, Filed
<1>2. [l EXCEPT !.logout = NONE] = [l EXCEPT !.logday = l.logday, !.logout = NONE]
  BY <1>1 DEF Logs
<1>3. LogInv([l EXCEPT !.logday = l.logday, !.logout = NONE], h, day)
  BY ReopenedKeeps
<1> QED
  BY <1>2, <1>3

\* What worlds and loggers write of themselves are lines.
LEMMA NotesAreLines ==
    /\ <<"-- WORLD OPENED --">> \in Lines /\ <<"-- WORLD CLOSED --">> \in Lines
    /\ LogStarted \in Lines /\ LogEnded \in Lines
<1>1. \A c \in Letters : <<c>> \in Seq(Letters)
  OBVIOUS
<1> QED
  BY <1>1, Zenon DEF Letters, Lines, LogStarted, LogEnded

\* A world that is not open, and one that was just opened.
LEMMA NewWorlds == NoWorld \notin OpenWorlds /\ NewWorld \in OpenWorlds
<1> DEFINE none == NoCharset
           latin == "ISO-8859-1"
<1>1. none \notin Names /\ latin \in Names
  <2>1. none \notin Characters
    BY Zenon DEF Characters
  <2>2. none \notin Letters
    BY <2>1, Zenon DEF NoCharset, Letters, Mojibake
  <2> QED
    BY <2>2, Zenon DEF NoCharset, Names, Junk
<1> HIDE DEF none, latin
<1>2. Plain \in Styles
  BY DEF Plain, Styles
<1>3. <<>> \in Lines
  BY EmptySeq DEF Lines
<1>4. NoWorld = [buff |-> <<>>, tried |-> FALSE, charset |-> none, mdata |-> Plain]
      /\ NewWorld = [NoWorld EXCEPT !.charset = latin]
  BY Zenon DEF NoWorld, NewWorld, none, latin
<1> QED
  BY <1>1, <1>2, <1>3, <1>4 DEF OpenWorlds

\* fopen succeeds or fails.
LEMMA OpensIs == Opens \subseteq BOOLEAN
BY DEF Opens

\* Nothing was said and nothing is in the files.
LEMMA TextInit == Init => TextInv
<1> SUFFICES ASSUME Init PROVE TextInv
  OBVIOUS
<1>1. todo \in Seq(Seq(Bytes))
  BY TextPathAssumption DEF Init
<1>2. coming \in Seq(Bytes) /\ wire \in Seq(Bytes) /\ events \in Seq(Events)
  BY EmptySeq DEF Init
<1>3. world \in Worlds /\ link = "none"
  BY DEF Init, Worlds
<1>4. LogInv(lg, logged, today)
  <2>1. 0 \in Days /\ \A d \in Days : d \in Nat
    BY LoggerAssumption DEF Days
  <2>2. NoLog \in Logs /\ NoLog.logday = 0 /\ NoLog.logout = NONE /\ \A d \in Days : NoLog.disk[d] = <<>>
    BY <2>1, EmptySeq DEF NoLog, Logs
  <2>3. Filed(NoLog, 0)
    BY <2>1, <2>2 DEF Filed
  <2>4. MarksFit(NoLog)
    <3>1. \A d \in Days : 1 .. Len(NoLog.disk[d]) = {}
      BY <2>2
    <3> QED
      BY <3>1 DEF MarksFit
  <2>5. Kept(NoLog, <<>>)
    BY <2>2, UnmarkedSteps, DueSteps DEF Kept
  <2>6. lg = NoLog /\ logged = <<>> /\ today = 0
    BY DEF Init
  <2>7. <<>> \in Seq(Days \X Lines)
    BY EmptySeq
  <2> QED
    BY <2>1, <2>3, <2>4, <2>5, <2>6, <2>7 DEF LogInv
<1> QED
  BY <1>1, <1>2, <1>3, <1>4 DEF TextInv

\* The MUD speaks, and its bytes arrive.
LEMMA SayKeeps == TextInv /\ Say => TextInv'
<1> SUFFICES ASSUME TextInv, Say PROVE TextInv'
  OBVIOUS
<1>1. todo \in Seq(Seq(Bytes)) /\ todo # <<>> /\ wire \in Seq(Bytes) /\ coming \in Seq(Bytes)
  BY DEF TextInv, Say
<1>2. Head(todo) \in Seq(Bytes) /\ Tail(todo) \in Seq(Seq(Bytes))
  BY <1>1, HeadTailProperties
<1>3. wire \o Head(todo) \in Seq(Bytes)
  BY <1>1, <1>2, ConcatProperties
<1>4. todo' = Tail(todo)
      /\ wire' \in {wire, wire \o Head(todo)} /\ coming' \in {coming, Head(todo)}
  BY Zenon DEF Say
<1>5. UNCHANGED <<world, events, lg, logged, today>> /\ link = "up"
  BY DEF Say, historyVars
<1> QED
  BY <1>1, <1>2, <1>3, <1>4, <1>5 DEF TextInv

\* Bytes that arrive are bytes that were said.
LEMMA ArriveKeeps == TextInv /\ Arrive => TextInv'
<1> SUFFICES ASSUME TextInv, Arrive PROVE TextInv'
  OBVIOUS
<1>1. wire \in Seq(Bytes) /\ coming \in Seq(Bytes)
  BY DEF TextInv
<1>2. PICK n \in DOMAIN coming : /\ wire' = wire \o SubSeq(coming, 1, n)
                                 /\ coming' = SubSeq(coming, n + 1, Len(coming))
  BY Zenon DEF Arrive
<1>3. Len(coming) \in Nat /\ n \in 1 .. Len(coming) /\ \A i \in 1 .. Len(coming) : coming[i] \in Bytes
  BY <1>1, LenProperties, ElementOfSeq
<1>4. SubSeq(coming, 1, n) \in Seq(Bytes) /\ SubSeq(coming, n + 1, Len(coming)) \in Seq(Bytes)
  <2>1. (\A i \in 1 .. n : coming[i] \in Bytes) /\ (\A i \in n + 1 .. Len(coming) : coming[i] \in Bytes)
        /\ n \in Int /\ n + 1 \in Int /\ Len(coming) \in Int /\ 1 \in Int
    BY <1>3
  <2> QED
    BY <2>1, SubSeqProperties
<1>5. wire' \in Seq(Bytes) /\ coming' \in Seq(Bytes)
  BY <1>1, <1>2, <1>4, ConcatProperties
<1>6. UNCHANGED <<todo, world, link, events, lg, logged, today>>
  BY DEF Arrive, historyVars
<1> QED
  BY <1>5, <1>6 DEF TextInv

\* The handlers of the user.
LEMMA ConnectKeeps == TextInv /\ WorldConnect => TextInv'
<1> SUFFICES ASSUME TextInv, WorldConnect PROVE TextInv'
  OBVIOUS
<1>1. world' \in OpenWorlds
  BY DEF WorldConnect, Connected, TextInv, Worlds, OpenWorlds
<1>2. UNCHANGED <<todo, coming, wire, events, lg, logged, today>>
  BY DEF WorldConnect
<1> QED
  BY <1>1, <1>2 DEF TextInv, Worlds

\* What is on its way is lost; the world, its events and the log stay.
LEMMA DisconnectKeeps == TextInv /\ WorldDisconnect => TextInv'
<1> SUFFICES ASSUME TextInv, WorldDisconnect PROVE TextInv'
  OBVIOUS
<1>1. coming' = <<>> /\ wire' = <<>> /\ link' = "none"
      /\ UNCHANGED <<todo, world, events, lg, logged, today>>
  BY DEF WorldDisconnect, historyVars
<1> QED
  BY <1>1, EmptySeq DEF TextInv

\* Midnight passes before anything is logged.
LEMMA MidnightKeeps == TextInv /\ Midnight => TextInv'
<1> SUFFICES ASSUME TextInv, Midnight PROVE TextInv'
  OBVIOUS
<1>1. today < MaxDay /\ today' = today + 1
      /\ UNCHANGED <<todo, coming, wire, world, link, events, lg, logged>>
  BY DEF Midnight, streamVars
<1>2. LogInv(lg, logged, today + 1)
  BY <1>1, DayMore DEF TextInv
<1>3. LogInv(lg, logged, today)'
  BY <1>1, <1>2
<1> QED
  BY <1>1, <1>3 DEF TextInv

\* What users type can be in a line.
LEMMA CharactersAreLetters == Seq(Characters) \subseteq Lines
<1>1. Characters \subseteq Letters
  BY DEF Letters
<1> QED
  BY <1>1, SeqMonotonic DEF Lines

\* One line.
LEMMA LogOneKeeps ==
    ASSUME NEW l, NEW h, LogInv(l, h, today), NEW line \in Lines, NEW opens \in BOOLEAN
    PROVE  LET log == LogAll(l, h, << <<line, line>> >>, opens)
           IN  LogInv(log.lg, log.h, today)
<1>1. << <<line, line>> >> \in Seq(Twice)
  <2>1. <<line, line>> \in Twice
    BY DEF Twice
  <2> QED
    BY <2>1
<1> QED
  BY <1>1, LogAllKeeps

\* An echo is an event, and a line of the log.
LEMMA EchoKeeps ==
    ASSUME TextInv, NEW text \in Echoes, NEW opens \in Opens, WorldEcho(text, opens)
    PROVE  TextInv'
<1> DEFINE html == EchoHtml(text)
           plain == [i \in DOMAIN text |-> Escaped(text[i])]
           log == LogAll(lg, logged, << <<RemoveMarkup(html), plain>> >>, opens)
           e == [kind |-> "echo", html |-> html, charset |-> "UTF-8"]
<1>1. text \in Lines /\ opens \in BOOLEAN
  BY CharactersAreLetters, TextPathAssumption, OpensIs
<1>2. html \in Made /\ RemoveMarkup(html) = plain /\ plain \in Lines
  BY <1>1, EchoHtmlIs, IsMade
<1>3. /\ events' = Append(events, e) /\ lg' = log.lg /\ logged' = log.h
      /\ UNCHANGED <<todo, coming, wire, world, link, today>>
  BY Zenon DEF WorldEcho, EchoHtml, streamVars
<1>4. LogInv(lg, logged, today) /\ events \in Seq(Events)
  BY DEF TextInv
<1> HIDE DEF html, plain
<1>5. LogInv(log.lg, log.h, today)
  BY <1>1, <1>2, <1>4, LogOneKeeps, Zenon
<1> HIDE DEF log
<1>6. e \in Events
  BY <1>2 DEF Events
<1> HIDE DEF e
<1>7. events' \in Seq(Events)
  BY <1>3, <1>4, <1>6, AppendProperties
<1>8. LogInv(lg, logged, today)'
  BY <1>3, <1>5
<1> QED
  BY <1>3, <1>7, <1>8 DEF TextInv

\* A world that is opened starts with a fresh style and writes a note to the log.
LEMMA OpenKeeps ==
    ASSUME TextInv, NEW opens \in Opens, WorldOpen(opens)
    PROVE  TextInv'
<1> DEFINE day == today
           line == <<"-- WORLD OPENED --">>
           r == [lg EXCEPT !.logday = day, !.logout = NONE]
           started == Vllog(r, day, LogStarted, opens)
           noted == IF opens THEN Append(logged, <<day, LogStarted>>) ELSE logged
           log == LogAll(started, noted, << <<line, line>> >>, opens)
<1>1. opens \in BOOLEAN /\ line \in Lines /\ LogStarted \in Lines
  BY NotesAreLines, OpensIs, Zenon
<1>2. /\ world' = NewWorld /\ lg' = log.lg /\ logged' = log.h /\ events' = <<>>
      /\ UNCHANGED <<todo, coming, wire, today>>
  BY Zenon DEF WorldOpen, streamVars, LoggerNew
<1>3. LogInv(lg, logged, day) /\ lg \in Logs
  BY DEF TextInv, LogInv, Filed
<1> HIDE DEF line
<1>4. LogInv(r, logged, day)
  BY <1>3, ReopenedKeeps
<1>5. HasFile(r, day, opens) = opens
  <2>1. r.logout = NONE
    BY <1>3 DEF Logs
  <2> HIDE DEF r
  <2> QED
    BY <1>1, <2>1, Zenon DEF HasFile
<1> HIDE DEF r, day
<1>6. LogInv(started, noted, day)
  <2>1. LogInv(started, IF HasFile(r, day, opens) THEN Append(logged, <<day, LogStarted>>) ELSE logged, day)
    BY <1>1, <1>4, VllogKeeps, Zenon
  <2> HIDE DEF started
  <2> QED
    BY <1>5, <2>1
<1> HIDE DEF started, noted
<1>7. LogInv(log.lg, log.h, day)
  BY <1>1, <1>6, LogOneKeeps, Zenon DEF day
<1> HIDE DEF log
<1>8. LogInv(lg, logged, today)'
  BY <1>2, <1>7 DEF day
<1>9. world' \in OpenWorlds /\ events' \in Seq(Events)
  BY <1>2, NewWorlds, EmptySeq
<1> QED
  BY <1>2, <1>8, <1>9 DEF TextInv, Worlds

\* A world that is closed writes a note, and its logger another.
LEMMA CloseKeeps ==
    ASSUME TextInv, NEW opens \in Opens, WorldClose(opens)
    PROVE  TextInv'
<1> DEFINE day == today
           line == <<"-- WORLD CLOSED --">>
           log == LogAll(lg, logged, << <<line, line>> >>, opens)
           free == HasFile(log.lg, day, opens)
           l == Vllog(log.lg, day, LogEnded, opens)
           h == IF free THEN Append(log.h, <<day, LogEnded>>) ELSE log.h
           r == [l EXCEPT !.logout = NONE]
<1>1. opens \in BOOLEAN /\ line \in Lines /\ LogEnded \in Lines
  BY NotesAreLines, OpensIs, Zenon
<1>2. /\ world' = NoWorld /\ lg' = r /\ logged' = h /\ coming' = <<>> /\ wire' = <<>>
      /\ link' = "none" /\ UNCHANGED <<todo, events, today>>
  BY Zenon DEF WorldClose, LoggerFree
<1>3. LogInv(lg, logged, today)
  BY DEF TextInv
<1> HIDE DEF line
<1>4. LogInv(log.lg, log.h, today)
  BY <1>1, <1>3, LogOneKeeps, Zenon
<1> HIDE DEF log, day
<1>5. LogInv(l, h, day)
  BY <1>1, <1>4, VllogKeeps, Zenon DEF day
<1> HIDE DEF l, h
<1>6. LogInv(r, h, day)
  BY <1>5, ClosedKeeps
<1> HIDE DEF r
<1>7. LogInv(lg, logged, today)'
  BY <1>2, <1>6 DEF day
<1>8. world' \in Worlds /\ coming' \in Seq(Bytes) /\ wire' \in Seq(Bytes)
  BY <1>2, EmptySeq DEF Worlds
<1> QED
  BY <1>2, <1>7, <1>8 DEF TextInv

\* net_read.
LEMMA StartReadingIs == \A w \in OpenWorlds : StartReading(w.buff, w.tried, w.charset) \in Readings
<1> SUFFICES ASSUME NEW w \in OpenWorlds PROVE StartReading(w.buff, w.tried, w.charset) \in Readings
  OBVIOUS
<1> DEFINE none == ""
<1>1. none \in Names /\ none \in Ends
  BY Zenon DEF Names, Ends
<1>2. StartReading(w.buff, w.tried, w.charset) =
         [mode |-> "text", need |-> 0, buff |-> w.buff, tried |-> w.tried, name |-> none,
          charset |-> w.charset, lines |-> <<>>, prompt |-> FALSE, replies |-> <<>>,
          used |-> 0, end |-> none]
  BY Zenon DEF StartReading
<1> HIDE DEF none
<1>3. w.buff \in Lines /\ w.tried \in BOOLEAN /\ w.charset \in Names
  BY DEF OpenWorlds
<1>4. <<>> \in Seq(ReadLines) /\ <<>> \in Seq(Replies) /\ "text" \in Modes
  BY EmptySeq DEF Modes
<1> QED
  BY <1>1, <1>2, <1>3, <1>4 DEF Readings

\* What the MUD sends is bytes, with those of IAC among them.
LEMMA BytesAreLetters == \A s \in Seq(Bytes) : BytesOf(s) \in Seq(Letters)
<1> SUFFICES ASSUME NEW s \in Seq(Bytes) PROVE BytesOf(s) \in Seq(Letters)
  OBVIOUS
<1>1. DOMAIN s = 1 .. Len(s) /\ Len(s) \in Nat /\ \A i \in 1 .. Len(s) : s[i] \in Bytes
  BY LenProperties, ElementOfSeq
<1>2. \A i \in 1 .. Len(s) : s[i].b \in Letters
  BY <1>1 DEF Bytes, Letters
<1> QED
  BY <1>1, <1>2 DEF BytesOf

\* The whole of net_read: read, convert, log.
LEMMA NetReadKeeps == TextInv /\ NetRead => TextInv'
<1> SUFFICES ASSUME TextInv, NetRead PROVE TextInv'
  OBVIOUS
<1> DEFINE rd(junk) == RawRead(StartReading(world.buff, world.tried, world.charset), BytesOf(wire), junk)
           lines(junk) == Converting(world.mdata, rd(junk).lines)
           prompt(junk) == ConvertToJson(lines(junk).mdata, rd(junk).charset, rd(junk).buff)
           both(junk) == [i \in DOMAIN rd(junk).lines |->
                            <<LogLine(lines(junk).events[i]),
                              TerminalText(rd(junk).lines[i].charset, rd(junk).lines[i].text)>>]
           log(junk, opens) == LogAll(lg, logged, both(junk), opens)
           asked1(junk) == IF rd(junk).prompt
                           THEN << [kind |-> "prompt", html |-> prompt(junk).html,
                                    charset |-> rd(junk).charset] >>
                           ELSE <<>>
<1>1. PICK junk \in BOOLEAN, opens \in Opens :
         /\ world' = [buff |-> rd(junk).buff, tried |-> rd(junk).tried, charset |-> rd(junk).charset,
                      mdata |-> IF rd(junk).prompt THEN prompt(junk).md ELSE lines(junk).mdata]
         /\ wire' = SubSeq(wire, rd(junk).used + 1, Len(wire))
         /\ events' = events \o lines(junk).events \o asked1(junk)
         /\ lg' = log(junk, opens).lg /\ logged' = log(junk, opens).h
  BY Zenon DEF NetRead, Converting
<1> DEFINE r == rd(junk)
           c == lines(junk)
           p == prompt(junk)
           q == asked1(junk)
           b == both(junk)
<1>2. /\ world' = [buff |-> r.buff, tried |-> r.tried, charset |-> r.charset,
                   mdata |-> IF r.prompt THEN p.md ELSE c.mdata]
      /\ wire' = SubSeq(wire, r.used + 1, Len(wire))
      /\ events' = events \o c.events \o q
      /\ lg' = LogAll(lg, logged, b, opens).lg /\ logged' = LogAll(lg, logged, b, opens).h
  BY <1>1, Zenon
<1>3. c = Converting(world.mdata, r.lines) /\ p = ConvertToJson(c.mdata, r.charset, r.buff)
      /\ q = (IF r.prompt THEN << [kind |-> "prompt", html |-> p.html, charset |-> r.charset] >>
              ELSE <<>>)
      /\ b = [i \in DOMAIN r.lines |-> <<LogLine(c.events[i]),
                                         TerminalText(r.lines[i].charset, r.lines[i].text)>>]
  BY Zenon
<1>4. /\ wire \in Seq(Bytes) /\ world \in OpenWorlds /\ events \in Seq(Events)
      /\ opens \in BOOLEAN /\ LogInv(lg, logged, today)
  <2>1. link # "none"
    BY Zenon DEF NetRead, CanRead
  <2> QED
    BY <2>1, OpensIs DEF TextInv
<1>5. r \in Readings
  <2>1. StartReading(world.buff, world.tried, world.charset) \in Readings
    BY <1>4, StartReadingIs, Zenon
  <2>2. BytesOf(wire) \in Seq(Letters)
    BY <1>4, BytesAreLetters, Zenon
  <2> QED
    BY <2>1, <2>2, RawReadSteps, Zenon
<1> HIDE DEF r, c, p, q, b, rd, lines, prompt, both, log, asked1
<1>6. /\ r.lines \in Seq(ReadLines) /\ r.buff \in Lines /\ r.charset \in Names /\ r.used \in Nat
      /\ r.prompt \in BOOLEAN /\ r.tried \in BOOLEAN /\ world.mdata \in Styles
  BY <1>4, <1>5, ReadingFields DEF OpenWorlds
<1>7. /\ c \in Converted /\ Len(c.events) = Len(r.lines)
      /\ \A i \in 1 .. Len(r.lines) : IsOfLine(c.events[i], r.lines[i])
  BY <1>3, <1>6, ConvertingIs, Zenon
<1>8. c.mdata \in Styles /\ c.events \in Seq(LineEvents)
  BY <1>7 DEF Converted
<1>9. p.html \in Made /\ p.md \in Styles
  BY <1>3, <1>6, <1>8, IsMade, ConvertToJsonIs
<1>10. world' \in OpenWorlds
  BY <1>2, <1>6, <1>8, <1>9 DEF OpenWorlds
<1>11. wire' \in Seq(Bytes)
  <2>1. Len(wire) \in Nat /\ \A i \in 1 .. Len(wire) : wire[i] \in Bytes
    BY <1>4, LenProperties, ElementOfSeq
  <2>2. r.used + 1 \in Int /\ Len(wire) \in Int /\ \A i \in r.used + 1 .. Len(wire) : wire[i] \in Bytes
    BY <1>6, <2>1
  <2> QED
    BY <1>2, <2>2, SubSeqProperties
<1>12. events' \in Seq(Events)
  <2>1. LineEvents \subseteq Events
    BY DEF LineEvents, Events
  <2>2. c.events \in Seq(Events)
    BY <1>8, <2>1, SeqMonotonic
  <2>3. q \in Seq(Events)
    <3> DEFINE e == [kind |-> "prompt", html |-> p.html, charset |-> r.charset]
    <3>1. e \in Events
      BY <1>6, <1>9 DEF Events
    <3> HIDE DEF e
    <3>2. <<e>> \in Seq(Events) /\ <<>> \in Seq(Events)
      BY <3>1
    <3>3. q = IF r.prompt THEN <<e>> ELSE <<>>
      BY <1>3, Zenon DEF e
    <3> QED
      BY <3>2, <3>3
  <2> QED
    BY <1>2, <1>4, <2>2, <2>3, ConcatProperties
<1>13. b \in Seq(Twice)
  <2>1. ASSUME NEW i \in 1 .. Len(r.lines)
        PROVE  <<LogLine(c.events[i]), TerminalText(r.lines[i].charset, r.lines[i].text)>> \in Twice
    <3>1. r.lines[i] \in ReadLines
      BY <1>6, ElementOfSeq
    <3>2. r.lines[i].text \in Lines
      BY <3>1 DEF ReadLines
    <3>3. PICK md \in Styles :
             c.events[i].html = ConvertToJson(md, r.lines[i].charset, r.lines[i].text).html
      BY <1>7, <2>1, Zenon DEF IsOfLine
    <3>4. LogLine(c.events[i]) = TerminalText(r.lines[i].charset, r.lines[i].text)
          /\ TerminalText(r.lines[i].charset, r.lines[i].text) \in Lines
      <4> DEFINE cs == r.lines[i].charset
                 t == r.lines[i].text
      <4>1. t \in Lines
        BY <3>2
      <4> HIDE DEF cs, t
      <4>2. RemoveMarkup(ConvertToJson(md, cs, t).html) = TerminalText(cs, t)
            /\ TerminalText(cs, t) \in Lines
        BY <4>1, ConvertToJsonIs
      <4> QED
        BY <3>3, <4>2, Zenon DEF LogLine, cs, t
    <3> QED
      BY <3>4 DEF Twice
  <2>2. Len(r.lines) \in Nat /\ DOMAIN r.lines = 1 .. Len(r.lines)
    BY <1>6, LenProperties
  <2> QED
    BY <1>3, <2>1, <2>2
<1>14. LogInv(lg, logged, today)'
  <2>1. LogInv(LogAll(lg, logged, b, opens).lg, LogAll(lg, logged, b, opens).h, today)
    BY <1>4, <1>13, LogAllKeeps, Zenon
  <2>2. today' = today
    BY Zenon DEF NetRead
  <2> QED
    BY <1>2, <2>1, <2>2
<1>15. UNCHANGED <<todo, coming>>
  BY Zenon DEF NetRead
<1> QED
  BY <1>4, <1>10, <1>11, <1>12, <1>14, <1>15 DEF TextInv, Worlds

\* Every step keeps the invariant.
LEMMA TextStep == TextInv /\ [Next]_vars => TextInv'
<1> SUFFICES ASSUME TextInv, [Next]_vars PROVE TextInv'
  OBVIOUS
<1>1. ASSUME NEW text \in Typed, WorldSend(text) PROVE TextInv'
  <2>1. UNCHANGED <<todo, coming, wire, world, link, events, lg, logged, today>>
    BY <1>1 DEF WorldSend, streamVars
  <2> QED
    BY <2>1 DEF TextInv
<1>2. CASE UNCHANGED vars
  <2>1. UNCHANGED <<todo, coming, wire, world, link, events, lg, logged, today>>
    BY <1>2 DEF vars, streamVars
  <2> QED
    BY <2>1 DEF TextInv
<1> QED
  BY <1>1, <1>2, SayKeeps, ArriveKeeps, NetReadKeeps, ConnectKeeps, DisconnectKeeps, MidnightKeeps,
     EchoKeeps, OpenKeeps, CloseKeeps DEF Next

-----------------------------------------------------------------------------
(* The files one after the other.                                          *)

\* Files as one, and the first n days.
Flat(l, days) == FoldLeft(LAMBDA s, d : s \o l.disk[d], <<>>, days)
FirstDays(n) == [d \in 1 .. n |-> d - 1]

\* A file more.
LEMMA FlatSteps ==
    ASSUME NEW l \in Logs
    PROVE  /\ Flat(l, <<>>) = <<>>
           /\ \A s \in Seq(Days) : Flat(l, s) \in Seq(Lines \cup Marks)
           /\ \A s \in Seq(Days), e \in Days : Flat(l, Append(s, e))
                     = Flat(l, s) \o l.disk[e]
<1> DEFINE Op(s, d) == s \o l.disk[d]
           F == [p \in (Seq(Lines \cup Marks)) \X (Days) |-> Op(p[1], p[2])]
           q == <<>>
<1>1. ASSUME NEW r \in Seq(Lines \cup Marks), NEW e \in Days PROVE Op(r, e) \in Seq(Lines \cup Marks)
  <2>1. l.disk[e] \in Seq(Lines \cup Marks)
    BY DEF Logs
  <2> QED
    BY <2>1, ConcatProperties
<1>2. q \in Seq(Lines \cup Marks)
  BY EmptySeq
<1> HIDE DEF Op, q
<1>3. IsStep(F, Seq(Lines \cup Marks), Days) /\ \A r \in Seq(Lines \cup Marks), e \in Days : F[<<r, e>>] = Op(r, e)
  BY <1>1 DEF IsStep
<1> HIDE DEF F
<1>4. ASSUME NEW s \in Seq(Days) PROVE Flat(l, s) = Fold(F, q, s)
  <2> DEFINE Iter(g) == g = [t \in SUBSET DOMAIN s |->
                               IF t = {} THEN q ELSE Op(g[t \ {Max(t)}], s[Max(t)])]
             iter == CHOOSE g : Iter(g)
  <2>1. Flat(l, s) = iter[DOMAIN s]
    BY Zenon DEF Flat, FoldLeft, MapThenFoldSet, Op, q
  <2>2. PICK g \in [SUBSET (1 .. Len(s)) -> Seq(Lines \cup Marks)] : IsFold(g, F, q, s, Len(s))
    BY <1>2, <1>3, FoldIsThere DEF IsStep
  <2>3. Iter(g)
    BY <1>3, <2>2, LastPlace DEF IsFold
  <2>4. Iter(iter)
    BY <2>3
  <2> HIDE DEF iter
  <2>5. /\ iter[{}] = q
        /\ \A t \in SUBSET (1 .. Len(s)) : t # {} => iter[t] = Op(iter[t \ {Max(t)}], s[Max(t)])
    BY <2>4, LastPlace
  <2> HIDE DEF Iter
  <2>6. Iterates(iter, Seq(Lines \cup Marks), F, q, s, Len(s))
    BY <1>3, <2>5, LastPlace DEF Iterates
  <2> QED
    BY <1>2, <1>3, <2>1, <2>6, FoldLeftIs
<1>5. FoldsOn(F, q, Seq(Lines \cup Marks), Days)
  BY <1>2, <1>3, FoldMore
<1>6. ASSUME NEW s \in Seq(Days), NEW e \in Days
      PROVE  Flat(l, Append(s, e)) = Op(Flat(l, s), e)
  BY <1>3, <1>4, <1>5 DEF FoldsOn
<1>7. Flat(l, <<>>) = q /\ \A s \in Seq(Days) : Flat(l, s) \in Seq(Lines \cup Marks)
  BY <1>4, <1>5 DEF FoldsOn
<1> QED
  BY <1>6, <1>7, Zenon DEF Op, q

\* The first files: every opening mark follows a closing one, and what they end with.
EndsWith(l, s, n) ==
    \E e \in Days : /\ e < n /\ l.disk[e] # <<>> /\ s[Len(s)] = l.disk[e][Len(l.disk[e])]
                    /\ \A k \in Days : e < k /\ k < n => l.disk[k] = <<>>
MarksFollow(l, n) ==
    LET s == Flat(l, FirstDays(n))
    IN  /\ \A i \in 1 .. Len(s) : s[i] = Opening0 => i > 1 /\ s[i - 1] = Closing
        /\ s # <<>> => EndsWith(l, s, n)
        /\ s = <<>> => \A k \in Days : k < n => l.disk[k] = <<>>

\* One day after the other.
LEMMA FirstDaysAre ==
    ASSUME NEW n \in Nat, n <= MaxDay + 1
    PROVE  FirstDays(n) \in Seq(Days) /\ (n <= MaxDay => FirstDays(n + 1) = Append(FirstDays(n), n) /\ n \in Days)
<1>1. MaxDay \in Nat
  BY LoggerAssumption
<1>2. \A d \in 1 .. n : d - 1 \in Days
  BY <1>1 DEF Days
<1>3. FirstDays(n) \in Seq(Days)
  BY <1>2 DEF FirstDays
<1>4. ASSUME n <= MaxDay PROVE FirstDays(n + 1) = Append(FirstDays(n), n) /\ n \in Days
  <2> DEFINE f == FirstDays(n)
             g == FirstDays(n + 1)
  <2>0. f \in Seq(Days)
    BY <1>3
  <2>1. n \in Days
    BY <1>1, <1>4 DEF Days
  <2>2. Len(f) = n /\ DOMAIN f = 1 .. n /\ \A d \in 1 .. n : f[d] = d - 1
    BY DEF FirstDays
  <2>3. DOMAIN g = 1 .. n + 1 /\ (\A d \in 1 .. n + 1 : g[d] = d - 1) /\ g = [d \in 1 .. n + 1 |-> g[d]]
    BY DEF FirstDays
  <2> HIDE DEF f, g
  <2> DEFINE h == Append(f, n)
  <2>4. h \in Seq(Days) /\ Len(h) = n + 1 /\ \A i \in 1 .. n + 1 : h[i] = IF i = n + 1 THEN n ELSE f[i]
    BY <2>0, <2>1, <2>2
  <2>5. g \in Seq(Days) /\ Len(g) = n + 1
    <3>1. \A d \in 1 .. n + 1 : d - 1 \in Days
      BY <1>1, <1>4 DEF Days
    <3> QED
      BY <2>3, <3>1
  <2> HIDE DEF h
  <2>6. g = h
    <3>1. \A i \in 1 .. Len(g) : g[i] = h[i]
      BY <2>2, <2>3, <2>4, <2>5
    <3> QED
      BY <2>4, <2>5, <3>1, SeqEqual
  <2> QED
    BY <2>1, <2>6 DEF f, g, h
<1> QED
  BY <1>3, <1>4

\* A file more behind those.
LEMMA FileMore ==
    ASSUME NEW l \in Logs, MarksFit(l), NEW n \in Days, MarksFollow(l, n)
    PROVE  MarksFollow(l, n + 1)
<1> DEFINE s == Flat(l, FirstDays(n))
           f == l.disk[n]
           t == Flat(l, FirstDays(n + 1))
           m == Len(s)
           k == Len(f)
<1>1. n \in Nat /\ n <= MaxDay /\ n <= MaxDay + 1 /\ MaxDay \in Nat /\ \A d \in Days : d \in Nat
  BY LoggerAssumption DEF Days
<1>2. t = s \o f /\ s \in Seq(Lines \cup Marks) /\ f \in Seq(Lines \cup Marks)
  <2>1. FirstDays(n) \in Seq(Days) /\ FirstDays(n + 1) = Append(FirstDays(n), n)
    BY <1>1, FirstDaysAre
  <2>2. f \in Seq(Lines \cup Marks)
    BY DEF Logs
  <2> QED
    BY <2>1, <2>2, FlatSteps
<1>3. /\ \A i \in 1 .. m : s[i] = Opening0 => i > 1 /\ s[i - 1] = Closing
      /\ s # <<>> => EndsWith(l, s, n)
      /\ s = <<>> => \A d \in Days : d < n => l.disk[d] = <<>>
  BY Zenon DEF MarksFollow
<1>4. \A i \in 1 .. k : f[i] = Opening0 => i = 1 /\ AfterMark(l, n)
  BY DEF MarksFit
<1>5. /\ m \in Nat /\ k \in Nat /\ Len(t) = m + k
      /\ \A i \in 1 .. m : t[i] = s[i]
      /\ \A i \in m + 1 .. m + k : t[i] = f[i - m] /\ i - m \in 1 .. k
      /\ s = <<>> <=> m = 0
      /\ f = <<>> <=> k = 0
  BY <1>2, EmptySeq, LenProperties
<1> HIDE DEF s, t
<1>6. ASSUME AfterMark(l, n) PROVE m >= 1 /\ s[m] = Closing
  <2>1. PICK e \in Days : /\ e < n /\ EndsMarked(l, e)
                          /\ \A d \in Days : e < d /\ d < n => l.disk[d] = <<>>
    BY <1>6 DEF AfterMark
  <2>2. l.disk[e] # <<>> /\ l.disk[e][Len(l.disk[e])] = Closing
    BY <2>1 DEF EndsMarked
  <2>3. s # <<>> /\ m >= 1
    BY <1>3, <1>5, <2>1, <2>2
  <2>4. PICK c \in Days : /\ c < n /\ l.disk[c] # <<>> /\ s[m] = l.disk[c][Len(l.disk[c])]
                          /\ \A d \in Days : c < d /\ d < n => l.disk[d] = <<>>
    BY <1>3, <2>3 DEF EndsWith
  <2>5. c = e
    <3>1. ~(c < e) /\ ~(e < c)
      BY <2>1, <2>2, <2>4
    <3> QED
      BY <1>1, <3>1
  <2> QED
    BY <2>2, <2>3, <2>4, <2>5
<1> HIDE DEF f, m, k
<1>7. ASSUME NEW i \in 1 .. Len(t), t[i] = Opening0 PROVE i > 1 /\ t[i - 1] = Closing
  <2>1. CASE i \in 1 .. m
    <3>1. s[i] = Opening0
      BY <1>5, <1>7, <2>1
    <3>2. i > 1 /\ s[i - 1] = Closing
      BY <1>3, <2>1, <3>1
    <3>3. i - 1 \in 1 .. m
      BY <1>5, <2>1, <3>2
    <3> QED
      BY <1>5, <3>2, <3>3
  <2>2. CASE i \in m + 1 .. m + k
    <3>1. f[i - m] = Opening0 /\ i - m \in 1 .. k
      BY <1>5, <1>7, <2>2
    <3>2. i - m = 1 /\ AfterMark(l, n)
      BY <1>4, <3>1
    <3>3. m >= 1 /\ s[m] = Closing
      BY <1>6, <3>2
    <3>4. i - 1 = m /\ i > 1 /\ m \in 1 .. m
      BY <1>5, <2>2, <3>2, <3>3
    <3> QED
      BY <1>5, <3>3, <3>4
  <2>3. i \in 1 .. m \/ i \in m + 1 .. m + k
    BY <1>5
  <2> QED
    BY <2>1, <2>2, <2>3
<1>8. t # <<>> => EndsWith(l, t, n + 1)
  <2>1. CASE k = 0
    <3>1. f = <<>> /\ t = s
      <4>1. f = <<>>
        BY <1>5, <2>1
      <4> QED
        BY <1>2, <4>1, ConcatEmptySeq
    <3> SUFFICES ASSUME s # <<>> PROVE EndsWith(l, s, n + 1)
      BY <3>1
    <3>2. PICK c \in Days : /\ c < n /\ l.disk[c] # <<>> /\ s[Len(s)] = l.disk[c][Len(l.disk[c])]
                            /\ \A d \in Days : c < d /\ d < n => l.disk[d] = <<>>
      BY <1>3 DEF EndsWith
    <3>3. c < n + 1 /\ \A d \in Days : c < d /\ d < n + 1 => l.disk[d] = <<>>
      <4>1. \A d \in Days : d < n + 1 => d < n \/ d = n
        BY <1>1
      <4>2. l.disk[n] = <<>>
        BY <3>1 DEF f
      <4>3. c < n + 1
        BY <1>1, <3>2
      <4> QED
        BY <3>2, <4>1, <4>2, <4>3
    <3> QED
      BY <3>2, <3>3, Zenon DEF EndsWith
  <2>2. CASE k # 0
    <3>1. k \in 1 .. k /\ m + k \in m + 1 .. m + k /\ (m + k) - m = k
      BY <1>5, <2>2
    <3>2. t[Len(t)] = f[k] /\ f # <<>>
      BY <1>5, <2>2, <3>1
    <3>3. n < n + 1 /\ \A d \in Days : ~(n < d /\ d < n + 1)
      BY <1>1
    <3>4. l.disk[n] # <<>> /\ t[Len(t)] = l.disk[n][Len(l.disk[n])]
      BY <3>2 DEF f, k
    <3> QED
      BY <3>3, <3>4 DEF EndsWith
  <2> QED
    BY <2>1, <2>2
<1>9. t = <<>> => \A d \in Days : d < n + 1 => l.disk[d] = <<>>
  <2> SUFFICES ASSUME t = <<>> PROVE \A d \in Days : d < n + 1 => l.disk[d] = <<>>
    OBVIOUS
  <2>1. Len(t) = 0
    OBVIOUS
  <2>2. s = <<>> /\ l.disk[n] = <<>>
    <3>1. m = 0 /\ k = 0
      BY <1>5, <2>1
    <3> QED
      BY <1>5, <3>1 DEF f
  <2>3. \A d \in Days : d < n + 1 => d < n \/ d = n
    BY <1>1
  <2> QED
    BY <1>3, <2>2, <2>3
<1> QED
  BY <1>7, <1>8, <1>9, Zenon DEF MarksFollow, t

\* All files.
LEMMA MarksFollowAll ==
    ASSUME NEW l \in Logs, MarksFit(l)
    PROVE  MarksFollow(l, MaxDay + 1)
<1> DEFINE T == {n \in Nat : n <= MaxDay + 1 => MarksFollow(l, n)}
<1>1. MaxDay \in Nat /\ MaxDay + 1 \in Nat /\ \A d \in Days : d \in Nat
  BY LoggerAssumption DEF Days
<1>2. 0 \in T
  <2>1. FirstDays(0) = <<>> /\ 1 .. 0 = {}
    BY DEF FirstDays
  <2>2. Flat(l, FirstDays(0)) = <<>>
    BY <2>1, FlatSteps
  <2>3. \A k \in Days : ~(k < 0)
    BY <1>1
  <2>4. 1 .. Len(<<>>) = {}
    OBVIOUS
  <2>5. MarksFollow(l, 0)
    BY <2>2, <2>3, <2>4 DEF MarksFollow
  <2> QED
    BY <2>5
<1>3. ASSUME NEW n \in T, n < MaxDay + 1 PROVE n + 1 \in T
  <2>1. n \in Nat /\ n <= MaxDay + 1 /\ n \in Days
    BY <1>1, <1>3 DEF Days
  <2>2. MarksFollow(l, n)
    BY <2>1
  <2>3. MarksFollow(l, n + 1)
    BY <2>1, <2>2, FileMore
  <2> QED
    BY <2>1, <2>3
<1>4. T \in SUBSET Nat
  OBVIOUS
<1> HIDE DEF T
<1>5. MaxDay + 1 \in T
  BY <1>1, <1>2, <1>3, <1>4, UpTo
<1> QED
  BY <1>1, <1>5 DEF T

\* A log that goes over midnight says so at the end of one file and at the start of the next,
\* and nothing is written after the end (vllog, logger.c), whatever is said, echoed, opened,
\* closed or fails to open.
THEOREM RolloversAreMarked == Spec => []RolloverMarked
<1>1. TextInv => RolloverMarked
  <2> SUFFICES ASSUME TextInv PROVE RolloverMarked
    OBVIOUS
  <2>1. lg \in Logs /\ MarksFit(lg)
    BY DEF TextInv, LogInv, Filed
  <2> DEFINE flat == Flat(lg, FirstDays(MaxDay + 1))
  <2>2. \A i \in 1 .. Len(flat) : flat[i] = Opening0 => i > 1 /\ flat[i - 1] = Closing
    BY <2>1, MarksFollowAll, Zenon DEF MarksFollow
  <2>3. flat = FoldLeft(LAMBDA s, d : s \o lg.disk[d], <<>>, [d \in 1 .. MaxDay + 1 |-> d - 1])
    BY Zenon DEF Flat, FirstDays
  <2>4. flat \in Seq(Lines \cup Marks)
    <3>1. MaxDay + 1 \in Nat /\ MaxDay + 1 <= MaxDay + 1
      BY LoggerAssumption
    <3>2. FirstDays(MaxDay + 1) \in Seq(Days)
      BY <3>1, FirstDaysAre
    <3> QED
      BY <2>1, <3>2, FlatSteps
  <2> HIDE DEF flat
  <2>5. DOMAIN flat = 1 .. Len(flat)
    BY <2>4, LenProperties
  <2>6. \A d \in Days : \A i \in DOMAIN lg.disk[d] : lg.disk[d][i] = Closing => i = Len(lg.disk[d])
    <3>1. \A d \in Days : lg.disk[d] \in Seq(Lines \cup Marks)
      BY <2>1 DEF Logs
    <3>2. \A d \in Days : DOMAIN lg.disk[d] = 1 .. Len(lg.disk[d])
      BY <3>1, LenProperties
    <3> QED
      BY <2>1, <3>2 DEF MarksFit
  <2> QED
    BY <2>2, <2>3, <2>5, <2>6, Zenon DEF RolloverMarked
<1> QED
  BY <1>1, TextInit, TextStep, PTL DEF Spec

\* Within a year the files of the log, without their rollover marks, hold what was said or
\* echoed on their day, in order and without markup (convert_to_json, remove_markup, vllog).
THEOREM LogHoldsWhatWasSaid == ASSUME MaxDay < YearLen PROVE Spec => []LogIsWhatWasSaid
<1>1. TextInv => LogIsWhatWasSaid
  <2> SUFFICES ASSUME TextInv PROVE LogIsWhatWasSaid
    OBVIOUS
  <2>1. Kept(lg, logged)
    BY DEF TextInv, LogInv
  <2> QED
    BY <2>1, Zenon DEF LogIsWhatWasSaid, Kept, Unmarked, Due
<1> QED
  BY <1>1, TextInit, TextStep, PTL DEF Spec

-----------------------------------------------------------------------------
(* Tags in a browser.                                                      *)

\* A tag that is open, and a browser on the way.
InForce == {Tail(t) : t \in Openings}
Pages == [tags : Seq(InForce), shown : Seq(Letters \X Styles), fits : BOOLEAN, blank : BOOLEAN]

\* What follows the first element of short sequences.
LEMMA TailIs ==
    ASSUME NEW a, NEW b, NEW c, NEW d
    PROVE  /\ Tail(<<a, b>>) = <<b>> /\ Tail(<<a, b, c>>) = <<b, c>>
           /\ Tail(<<a, b, c, d>>) = <<b, c, d>>
<1> DEFINE S == {a, b, c, d}
<1>1. ASSUME NEW s \in Seq(S), NEW t \in Seq(S), s # <<>>, Len(t) = Len(s) - 1,
             \A i \in 1 .. Len(t) : t[i] = s[i + 1]
      PROVE  Tail(s) = t
  <2>1. Tail(s) \in Seq(S) /\ Len(Tail(s)) = Len(s) - 1 /\ \A i \in 1 .. Len(Tail(s)) : Tail(s)[i] = s[i + 1]
    BY <1>1, HeadTailProperties
  <2> QED
    BY <1>1, <2>1, SeqEqual
<1>2. Tail(<<a, b>>) = <<b>>
  BY <1>1
<1>3. Tail(<<a, b, c>>) = <<b, c>>
  BY <1>1
<1>4. Tail(<<a, b, c, d>>) = <<b, c, d>>
  BY <1>1
<1> QED
  BY <1>2, <1>3, <1>4

\* An open tag with three parts is a colour.
LEMMA InForceIs ==
    \A t \in InForce : Len(t) = 3 => t[2] \in Int /\ t[3] \in Int
<1> SUFFICES ASSUME NEW o \in Openings, Len(Tail(o)) = 3
             PROVE  Tail(o)[2] \in Int /\ Tail(o)[3] \in Int
  BY DEF InForce
<1> DEFINE u == Tail(o)
<1>0. Len(u) = 3
  OBVIOUS
<1>1. CASE o \in {"open"} \X TagNames
  <2>1. PICK a, b : o = <<a, b>>
    BY <1>1
  <2>2. u = <<b>>
    BY <2>1, TailIs
  <2> HIDE DEF u
  <2>3. Len(u) = 1
    BY <2>2
  <2>4. FALSE
    BY <1>0, <2>3
  <2> QED
    BY <2>4
<1>2. CASE o = <<"open", "span", "invert">>
  <2>1. u = <<"span", "invert">>
    BY <1>2, TailIs
  <2> HIDE DEF u
  <2>2. Len(u) = 2
    BY <2>1
  <2>3. FALSE
    BY <1>0, <2>2
  <2> QED
    BY <2>3
<1>3. CASE o \in {"open"} \X {"span"} \X Int \X Int
  <2>1. PICK a \in {"open"}, b \in {"span"}, c \in Int, d \in Int : o = <<a, b, c, d>>
    BY <1>3
  <2>2. u = <<b, c, d>>
    BY <2>1, TailIs
  <2> HIDE DEF u
  <2>3. u[2] \in Int /\ u[3] \in Int
    BY <2>1, <2>2
  <2> QED
    BY <2>3 DEF u
<1> QED
  BY <1>1, <1>2, <1>3 DEF Openings

\* What is open makes a style.
LEMMA StyleOfIs == \A tags \in Seq(InForce) : StyleOf(tags) \in Styles
<1> SUFFICES ASSUME NEW tags \in Seq(InForce) PROVE StyleOf(tags) \in Styles
  OBVIOUS
<1> DEFINE colours == {i \in DOMAIN tags : Len(tags[i]) = 3}
           f == IF colours = {} THEN 0 ELSE tags[Max(colours)][3]
           b == IF colours = {} THEN 0 ELSE tags[Max(colours)][2]
           flags == {flag \in DOMAIN FlagTag : \E i \in DOMAIN tags : tags[i] = FlagTag[flag]}
<1>1. StyleOf(tags) = [f |-> f, b |-> b, flags |-> flags]
  BY Zenon DEF StyleOf
<1>2. f \in Int /\ b \in Int
  <2>1. Len(tags) \in Nat /\ DOMAIN tags = 1 .. Len(tags)
    BY LenProperties
  <2>2. CASE colours # {}
    <3>1. Max(colours) \in colours
      BY <2>1, <2>2, MaxIsIn
    <3> DEFINE m == Max(colours)
    <3>2. m \in 1 .. Len(tags) /\ Len(tags[m]) = 3
      BY <2>1, <3>1
    <3> HIDE DEF m, colours
    <3>3. tags[m] \in InForce
      BY <3>2, ElementOfSeq
    <3> QED
      BY <2>2, <3>2, <3>3, InForceIs DEF m
  <2>3. CASE colours = {}
    BY <2>3
  <2> QED
    BY <2>2, <2>3
<1>3. flags \in SUBSET DOMAIN FlagTag
  OBVIOUS
<1> HIDE DEF f, b, flags
<1> QED
  BY <1>1, <1>2, <1>3 DEF Styles

\* A tag or a piece of text more in a browser.
LEMMA RenderIs ==
    ASSUME NEW st \in Pages
    PROVE  /\ \A t \in Openings : Render(st, t) = [st EXCEPT !.tags = Append(@, Tail(t))]
           /\ \A t \in Closings : Render(st, t) = IF st.tags # <<>> /\ Last(st.tags)[1] = t[2]
                                                  THEN [st EXCEPT !.tags = Front(@)]
                                                  ELSE [st EXCEPT !.fits = FALSE]
           /\ \A t \in Texts : /\ Render(st, t).tags = st.tags /\ Render(st, t).fits = st.fits
                               /\ Render(st, t) \in Pages
<1>1. ASSUME NEW t \in Openings PROVE Render(st, t) = [st EXCEPT !.tags = Append(@, Tail(t))]
  <2>1. t[1] = "open"
    BY DEF Openings
  <2>2. "open" # "close"
    BY Zenon
  <2> QED
    BY <2>1, <2>2, Zenon DEF Render
<1>2. ASSUME NEW t \in Closings
      PROVE  Render(st, t) = IF st.tags # <<>> /\ Last(st.tags)[1] = t[2]
                             THEN [st EXCEPT !.tags = Front(@)] ELSE [st EXCEPT !.fits = FALSE]
  <2>1. t[1] = "close"
    BY DEF Closings
  <2>2. "open" # "close"
    BY Zenon
  <2> QED
    BY <2>1, <2>2, Zenon DEF Render
<1>3. ASSUME NEW t \in Texts
      PROVE  Render(st, t).tags = st.tags /\ Render(st, t).fits = st.fits /\ Render(st, t) \in Pages
  <2> DEFINE e == <<PlainText(t[2]), StyleOf(st.tags)>>
             blank == (t[2] = " ")
             s == Append(st.shown, e)
  <2>1. t[1] = "text" /\ t[2] \in Letters \cup Entities
    BY DEF Texts
  <2>2. Render(st, t) \in {st, [st EXCEPT !.shown = Append(@, e), !.blank = blank]}
    <3>1. "text" # "open" /\ "text" # "close"
      BY Zenon
    <3>2. Render(st, t) = IF t[2] = " " /\ st.blank THEN st
                          ELSE [st EXCEPT !.shown = Append(@, e), !.blank = blank]
      BY <2>1, <3>1, Zenon DEF Render
    <3> HIDE DEF e, blank
    <3> QED
      BY <3>2, Zenon
  <2>3. e \in Letters \X Styles
    <3>1. PlainText(t[2]) \in Letters
      BY <2>1, PlainTextIs, Zenon
    <3>2. StyleOf(st.tags) \in Styles
      BY StyleOfIs DEF Pages
    <3> QED
      BY <3>1, <3>2
  <2>4. blank \in BOOLEAN
    BY Zenon
  <2> HIDE DEF e, blank
  <2>5. s \in Seq(Letters \X Styles)
    BY <2>3, AppendProperties DEF Pages
  <2>6. [st EXCEPT !.shown = Append(@, e), !.blank = blank] = [st EXCEPT !.shown = s, !.blank = blank]
    BY DEF Pages
  <2> HIDE DEF s
  <2> QED
    BY <2>2, <2>4, <2>5, <2>6 DEF Pages
<1> QED
  BY <1>1, <1>2, <1>3

\* A browser before any HTML.
NoPage == [tags |-> <<>>, shown |-> <<>>, fits |-> TRUE, blank |-> TRUE]

\* What a browser makes of HTML, step by step.
LEMMA BrowserSteps ==
    /\ Browser(<<>>) = NoPage
    /\ \A s \in Seq(Texts \cup Tags) : Browser(s) \in Pages
    /\ \A s \in Seq(Texts \cup Tags), e \in Texts \cup Tags : Browser(Append(s, e))
           = Render(Browser(s), e)
<1> DEFINE Op(st, t) == Render(st, t)
           F == [p \in (Pages) \X (Texts \cup Tags) |-> Op(p[1], p[2])]
           q == NoPage
<1>1. ASSUME NEW r \in Pages, NEW e \in Texts \cup Tags PROVE Op(r, e) \in Pages
  <2>1. CASE e \in Texts
    BY <2>1, RenderIs
  <2>2. CASE e \in Openings
    <3>1. Render(r, e) = [r EXCEPT !.tags = Append(@, Tail(e))]
      BY <2>2, RenderIs
    <3>2. Tail(e) \in InForce
      BY <2>2 DEF InForce
    <3> DEFINE s == Append(r.tags, Tail(e))
    <3>3. s \in Seq(InForce)
      BY <3>2, AppendProperties DEF Pages
    <3>4. [r EXCEPT !.tags = Append(@, Tail(e))] = [r EXCEPT !.tags = s]
      BY DEF Pages
    <3> HIDE DEF s
    <3> QED
      BY <3>1, <3>3, <3>4 DEF Pages
  <2>3. CASE e \in Closings
    <3> DEFINE s == Front(r.tags)
    <3>1. Render(r, e) \in {[r EXCEPT !.tags = s], [r EXCEPT !.fits = FALSE]}
          /\ (r.tags = <<>> => Render(r, e) = [r EXCEPT !.fits = FALSE])
      <4>1. Render(r, e) = IF r.tags # <<>> /\ Last(r.tags)[1] = e[2]
                           THEN [r EXCEPT !.tags = Front(@)] ELSE [r EXCEPT !.fits = FALSE]
        BY <2>3, RenderIs
      <4>2. [r EXCEPT !.tags = Front(@)] = [r EXCEPT !.tags = s]
        BY DEF Pages
      <4> HIDE DEF s
      <4> QED
        BY <4>1, <4>2, Zenon
    <3>2. r.tags # <<>> => s \in Seq(InForce)
      <4> SUFFICES ASSUME r.tags # <<>> PROVE s \in Seq(InForce)
        OBVIOUS
      <4>1. PICK u \in Seq(InForce), x \in InForce : r.tags = Append(u, x)
        BY SequenceEmptyOrAppend DEF Pages
      <4> QED
        BY <4>1, FrontLastOfAppend
    <3> HIDE DEF s
    <3> QED
      BY <3>1, <3>2 DEF Pages
  <2> QED
    BY <2>1, <2>2, <2>3 DEF Tags
<1>2. q \in Pages
  BY EmptySeq DEF Pages, NoPage
<1> HIDE DEF Op, q
<1>3. IsStep(F, Pages, Texts \cup Tags) /\ \A r \in Pages, e \in Texts \cup Tags : F[<<r, e>>] = Op(r, e)
  BY <1>1 DEF IsStep
<1> HIDE DEF F
<1>4. ASSUME NEW s \in Seq(Texts \cup Tags) PROVE Browser(s) = Fold(F, q, s)
  <2> DEFINE Iter(g) == g = [t \in SUBSET DOMAIN s |->
                               IF t = {} THEN q ELSE Op(g[t \ {Max(t)}], s[Max(t)])]
             iter == CHOOSE g : Iter(g)
  <2>1. Browser(s) = iter[DOMAIN s]
    BY Zenon DEF Browser, FoldLeft, NoPage, MapThenFoldSet, Op, q
  <2>2. PICK g \in [SUBSET (1 .. Len(s)) -> Pages] : IsFold(g, F, q, s, Len(s))
    BY <1>2, <1>3, FoldIsThere DEF IsStep
  <2>3. Iter(g)
    BY <1>3, <2>2, LastPlace DEF IsFold
  <2>4. Iter(iter)
    BY <2>3
  <2> HIDE DEF iter
  <2>5. /\ iter[{}] = q
        /\ \A t \in SUBSET (1 .. Len(s)) : t # {} => iter[t] = Op(iter[t \ {Max(t)}], s[Max(t)])
    BY <2>4, LastPlace
  <2> HIDE DEF Iter
  <2>6. Iterates(iter, Pages, F, q, s, Len(s))
    BY <1>3, <2>5, LastPlace DEF Iterates
  <2> QED
    BY <1>2, <1>3, <2>1, <2>6, FoldLeftIs
<1>5. FoldsOn(F, q, Pages, Texts \cup Tags)
  BY <1>2, <1>3, FoldMore
<1>6. ASSUME NEW s \in Seq(Texts \cup Tags), NEW e \in Texts \cup Tags
      PROVE  Browser(Append(s, e)) = Op(Browser(s), e)
  BY <1>3, <1>4, <1>5 DEF FoldsOn
<1>7. Browser(<<>>) = q /\ \A s \in Seq(Texts \cup Tags) : Browser(s) \in Pages
  BY <1>4, <1>5 DEF FoldsOn
<1> QED
  BY <1>6, <1>7, Zenon DEF Op, q

\* The tags that a row of opening tags, and of flags, puts in force.
Tails(u) == [i \in DOMAIN u |-> Tail(u[i])]
StackOf(f) == [i \in DOMAIN f |-> FlagTag[f[i]]]

\* An element that starts the second sequence may as well end the first.
LEMMA OneBefore ==
    ASSUME NEW S, NEW s \in Seq(S), NEW u \in Seq(S), NEW x \in S
    PROVE  s \o (<<x>> \o u) = Append(s, x) \o u
<1>1. <<x>> \in Seq(S)
  OBVIOUS
<1>2. (s \o <<x>>) \o u = s \o (<<x>> \o u)
  BY <1>1, ConcatAssociative
<1>3. Append(s, x) = s \o <<x>>
  BY AppendIsConcat
<1> QED
  BY <1>2, <1>3

\* A tag more, and its type.
LEMMA TailsSteps ==
    ASSUME NEW u \in Seq(Openings), NEW x \in Openings
    PROVE  /\ Tails(<<>>) = <<>> /\ Tails(u) \in Seq(InForce)
           /\ Tails(Append(u, x)) = Append(Tails(u), Tail(x)) /\ Tail(x) \in InForce
<1> DEFINE f == [t \in Openings |-> Tail(t)]
<1>1. ASSUME NEW v \in Seq(Openings) PROVE Tails(v) = [i \in DOMAIN v |-> f[v[i]]] /\ Tails(v) \in Seq(InForce)
  <2>1. Len(v) \in Nat /\ DOMAIN v = 1 .. Len(v) /\ \A i \in 1 .. Len(v) : v[i] \in Openings
    BY LenProperties, ElementOfSeq
  <2>2. \A i \in DOMAIN v : f[v[i]] = Tail(v[i]) /\ Tail(v[i]) \in InForce
    BY <2>1 DEF InForce
  <2> HIDE DEF f
  <2> DEFINE G(i) == Tail(v[i])
  <2>3. Tails(v) = [i \in DOMAIN v |-> G(i)]
    BY Zenon DEF Tails
  <2>4. \A i \in DOMAIN v : f[v[i]] = G(i) /\ G(i) \in InForce
    BY <2>2, Zenon
  <2> HIDE DEF G
  <2> QED
    BY <2>1, <2>3, <2>4
<1>2. f[x] = Tail(x) /\ Tail(x) \in InForce
  BY DEF InForce
<1> HIDE DEF f
<1>3. [i \in DOMAIN Append(u, x) |-> f[Append(u, x)[i]]] = Append([i \in DOMAIN u |-> f[u[i]]], f[x])
  BY MapAppend
<1>4. Append(u, x) \in Seq(Openings)
  BY AppendProperties
<1>5. Tails(Append(u, x)) = Append(Tails(u), f[x])
  <2>1. Tails(u) = [i \in DOMAIN u |-> f[u[i]]]
        /\ Tails(Append(u, x)) = [i \in DOMAIN Append(u, x) |-> f[Append(u, x)[i]]]
    BY <1>1, <1>4
  <2> QED
    BY <1>3, <2>1, Zenon
<1>6. Tails(<<>>) = <<>>
  BY DEF Tails
<1>7. Tails(u) \in Seq(InForce)
  BY <1>1
<1> QED
  BY <1>2, <1>5, <1>6, <1>7, Zenon

\* The same for a row of flags, whose opening tags put just these in force.
LEMMA StackSteps ==
    ASSUME NEW f \in Seq(DOMAIN FlagTag), NEW x \in DOMAIN FlagTag
    PROVE  /\ StackOf(<<>>) = <<>> /\ Tails(OpenTags(f)) = StackOf(f)
           /\ StackOf(f) \in Seq(InForce) /\ FlagTag[x] \in InForce
           /\ StackOf(Append(f, x)) = Append(StackOf(f), FlagTag[x])
<1>1. StackOf(<<>>) = <<>>
  BY DEF StackOf
<1>2. StackOf(Append(f, x)) = Append(StackOf(f), FlagTag[x])
  <2> DEFINE g == FlagTag
  <2> HIDE DEF g
  <2>1. [i \in DOMAIN Append(f, x) |-> g[Append(f, x)[i]]] = Append([i \in DOMAIN f |-> g[f[i]]], g[x])
    BY MapAppend
  <2> QED
    BY <2>1, Zenon DEF StackOf, g
<1>3. ASSUME NEW flag \in DOMAIN FlagTag
      PROVE  Tail(<<"open">> \o FlagTag[flag]) = FlagTag[flag] /\ FlagTag[flag] \in InForce
  <2>1. FlagTag[flag] \in {<<"u">>, <<"em">>, <<"strong">>, <<"span", "invert">>}
    BY DEF FlagTag
  <2>2. \A a, b, c : <<a>> \o <<b>> = <<a, b>> /\ <<a>> \o <<b, c>> = <<a, b, c>>
    BY Prefixed
  <2>3. \A a, b, c : Tail(<<a, b>>) = <<b>> /\ Tail(<<a, b, c>>) = <<b, c>>
    BY TailIs
  <2>4. Tail(<<"open">> \o FlagTag[flag]) = FlagTag[flag]
    <3>1. (\E a : FlagTag[flag] = <<a>>) \/ (\E a, b : FlagTag[flag] = <<a, b>>)
      BY <2>1
    <3>2. CASE \E a : FlagTag[flag] = <<a>>
      <4>1. PICK a : FlagTag[flag] = <<a>>
        BY <3>2
      <4>2. <<"open">> \o <<a>> = <<"open", a>> /\ Tail(<<"open", a>>) = <<a>>
        BY <2>2, <2>3
      <4> QED
        BY <4>1, <4>2
    <3>3. CASE \E a, b : FlagTag[flag] = <<a, b>>
      <4>1. PICK a, b : FlagTag[flag] = <<a, b>>
        BY <3>3
      <4>2. <<"open">> \o <<a, b>> = <<"open", a, b>> /\ Tail(<<"open", a, b>>) = <<a, b>>
        BY <2>2, <2>3
      <4> QED
        BY <4>1, <4>2
    <3> QED
      BY <3>1, <3>2, <3>3
  <2>5. <<"open">> \o FlagTag[flag] \in Openings
    <3>1. <<"open">> \o FlagTag[flag]
            \in {<<"open", "u">>, <<"open", "em">>, <<"open", "strong">>, <<"open", "span", "invert">>}
      BY <2>1, <2>2, Zenon
    <3>2. {<<"open", "u">>, <<"open", "em">>, <<"open", "strong">>, <<"open", "span", "invert">>}
            \subseteq Openings
      BY DEF Openings, TagNames
    <3> QED
      BY <3>1, <3>2, Zenon
  <2>6. \A t \in Openings : Tail(t) \in InForce
    BY DEF InForce
  <2> QED
    BY <2>4, <2>5, <2>6, Zenon
<1>4. Len(f) \in Nat /\ DOMAIN f = 1 .. Len(f) /\ \A i \in 1 .. Len(f) : f[i] \in DOMAIN FlagTag
  BY LenProperties, ElementOfSeq
<1>5. StackOf(f) \in Seq(InForce)
  <2>1. \A i \in DOMAIN f : FlagTag[f[i]] \in InForce
    BY <1>3, <1>4, Zenon
  <2> QED
    BY <1>4, <2>1 DEF StackOf
<1>6. Tails(OpenTags(f)) = StackOf(f)
  <2> DEFINE G(i) == <<"open">> \o FlagTag[f[i]]
             o == OpenTags(f)
  <2>1. o = [i \in DOMAIN f |-> G(i)]
    BY Zenon DEF OpenTags
  <2>2. \A i \in DOMAIN f : Tail(G(i)) = FlagTag[f[i]]
    BY <1>3, <1>4, Zenon
  <2> HIDE DEF G, o
  <2>3. DOMAIN o = DOMAIN f /\ \A i \in DOMAIN f : Tail(o[i]) = FlagTag[f[i]]
    BY <2>1, <2>2
  <2> DEFINE H(i) == Tail(o[i])
  <2>4. Tails(o) = [i \in DOMAIN o |-> H(i)]
    BY Zenon DEF Tails
  <2>5. \A i \in DOMAIN f : H(i) = FlagTag[f[i]]
    BY <2>3, Zenon
  <2> HIDE DEF H
  <2>6. Tails(o) = StackOf(f)
    BY <2>3, <2>4, <2>5 DEF StackOf
  <2> QED
    BY <2>6 DEF o
<1> QED
  BY <1>1, <1>2, <1>3, <1>5, <1>6

\* Opening tags.
LEMMA OpensBrowse ==
    ASSUME NEW s \in Html, NEW u \in Seq(Openings)
    PROVE  /\ s \o u \in Html /\ Browser(s \o u).tags = Browser(s).tags \o Tails(u)
           /\ Browser(s \o u).fits = Browser(s).fits /\ Browser(s \o u).shown = Browser(s).shown
<1> DEFINE B(h) == Browser(h)
           T == {v \in Seq(Openings) : /\ s \o v \in Html /\ B(s \o v).tags = B(s).tags \o Tails(v)
                                       /\ B(s \o v).fits = B(s).fits /\ B(s \o v).shown = B(s).shown}
<1>1. /\ \A h \in Html : B(h) \in Pages
      /\ \A h \in Html, t \in Texts \cup Tags : B(Append(h, t)) = Render(B(h), t)
  BY BrowserSteps DEF Html
<1>2. Openings \subseteq Texts \cup Tags
  BY DEF Tags
<1> HIDE DEF B
<1>3. <<>> \in T
  <2>1. s \o <<>> = s /\ B(s).tags \in Seq(InForce)
    BY <1>1, ConcatEmptySeq DEF Html, Pages
  <2>2. Tails(<<>>) = <<>>
    BY DEF Tails
  <2>3. B(s).tags \o <<>> = B(s).tags
    BY <2>1, ConcatEmptySeq
  <2> QED
    BY <2>1, <2>2, <2>3, EmptySeq
<1>4. ASSUME NEW v \in T, NEW x \in Openings PROVE Append(v, x) \in T
  <2>1. /\ v \in Seq(Openings) /\ s \o v \in Html /\ B(s \o v).tags = B(s).tags \o Tails(v)
        /\ B(s \o v).fits = B(s).fits /\ B(s \o v).shown = B(s).shown
    OBVIOUS
  <2>2. s \o Append(v, x) = Append(s \o v, x)
    <3>1. v \in Seq(Texts \cup Tags) /\ x \in Texts \cup Tags
      BY <1>2, <2>1, SeqMonotonic
    <3> QED
      BY <3>1, OneMore DEF Html
  <2>3. Append(s \o v, x) \in Html
    BY <1>2, <2>1, AppendProperties DEF Html
  <2>4. Tails(Append(v, x)) = Append(Tails(v), Tail(x)) /\ Tails(v) \in Seq(InForce) /\ Tail(x) \in InForce
    BY <2>1, TailsSteps
  <2> DEFINE b == B(s \o v)
             c == B(Append(s \o v, x))
             e == Tail(x)
  <2>5. b \in Pages /\ c = [b EXCEPT !.tags = Append(@, e)]
    <3>1. b \in Pages /\ c = Render(b, x)
      BY <1>1, <1>2, <2>1
    <3> HIDE DEF b, c
    <3>2. Render(b, x) = [b EXCEPT !.tags = Append(@, Tail(x))]
      BY <3>1, RenderIs
    <3> QED
      BY <3>1, <3>2, Zenon
  <2> HIDE DEF b, c, e
  <2>6. c.tags = Append(b.tags, e) /\ c.fits = b.fits /\ c.shown = b.shown
    BY <2>5 DEF Pages
  <2>7. B(s).tags \in Seq(InForce)
    BY <1>1 DEF Pages
  <2>8. B(s).tags \o Append(Tails(v), e) = Append(B(s).tags \o Tails(v), e)
    <3> DEFINE p == B(s).tags
               w == Tails(v)
    <3>1. e \in InForce /\ p \in Seq(InForce) /\ w \in Seq(InForce)
      BY <2>4, <2>7 DEF e
    <3> HIDE DEF p, w
    <3>2. p \o Append(w, e) = Append(p \o w, e)
      BY <3>1, OneMore
    <3> QED
      BY <3>2, Zenon DEF p, w
  <2>9. Append(v, x) \in Seq(Openings)
    BY <2>1, AppendProperties
  <2>10. c.tags = B(s).tags \o Tails(Append(v, x))
    BY <2>1, <2>4, <2>6, <2>8, Zenon DEF b, e
  <2> QED
    BY <2>1, <2>2, <2>3, <2>6, <2>9, <2>10 DEF b, c
<1>5. T \in SUBSET Seq(Openings)
  OBVIOUS
<1> HIDE DEF T
<1>6. T = Seq(Openings)
  BY <1>3, <1>4, <1>5, AllSequences
<1> QED
  BY <1>6 DEF T, B

\* The tag that was opened last is closed.
LEMMA CloseBrowses ==
    ASSUME NEW s \in Html, NEW u \in Seq(InForce), NEW e \in InForce, NEW x \in Closings,
           Browser(s).tags = Append(u, e), x[2] = e[1]
    PROVE  /\ Append(s, x) \in Html
           /\ Browser(Append(s, x)).tags = u /\ Browser(Append(s, x)).fits = Browser(s).fits
<1> DEFINE b == Browser(s)
           c == Browser(Append(s, x))
<1>1. x \in Texts \cup Tags
  BY DEF Tags
<1>2. b \in Pages /\ c = Render(b, x) /\ Append(s, x) \in Html
  BY <1>1, BrowserSteps, AppendProperties DEF Html
<1>3. b.tags = Append(u, e)
  OBVIOUS
<1> HIDE DEF b, c
<1>4. b.tags # <<>> /\ Last(b.tags) = e /\ Front(b.tags) = u
  BY <1>3, FrontLastOfAppend
<1>5. c = [b EXCEPT !.tags = Front(@)]
  <2>1. Render(b, x) = IF b.tags # <<>> /\ Last(b.tags)[1] = x[2]
                       THEN [b EXCEPT !.tags = Front(@)] ELSE [b EXCEPT !.fits = FALSE]
    BY <1>2, RenderIs
  <2> QED
    BY <1>2, <1>4, <2>1, Zenon
<1>6. [b EXCEPT !.tags = Front(@)] = [b EXCEPT !.tags = u]
  BY <1>2, <1>4 DEF Pages
<1>7. c.tags = u /\ c.fits = b.fits
  BY <1>2, <1>5, <1>6 DEF Pages
<1> QED
  BY <1>2, <1>7 DEF b, c

\* The tags of a row of flags, closed the other way round.
Closers(f) == CloseTags(Reverse(f))

\* A flag more is closed before the others.
LEMMA ClosersSteps ==
    ASSUME NEW f \in Seq(DOMAIN FlagTag), NEW x \in DOMAIN FlagTag
    PROVE  /\ Closers(<<>>) = <<>> /\ Closers(f) \in Seq(Closings)
           /\ <<"close", FlagTag[x][1]>> \in Closings
           /\ Closers(Append(f, x)) = << <<"close", FlagTag[x][1]>> >> \o Closers(f)
<1> DEFINE C == [y \in DOMAIN FlagTag |-> <<"close", FlagTag[y][1]>>]
           t == Append(f, x)
           n == Len(f)
<1>1. \A s \in Seq(DOMAIN FlagTag) : Closers(s) \in Seq(Closings)
  BY ReverseIs, FlagTags DEF Closers
<1>2. ASSUME NEW s \in Seq(DOMAIN FlagTag)
      PROVE  /\ Len(Closers(s)) = Len(s)
             /\ \A i \in 1 .. Len(s) : Closers(s)[i] = C[s[(Len(s) - i) + 1]]
  <2> DEFINE m == Len(s)
             r == Reverse(s)
  <2>1. m \in Nat /\ \A i \in 1 .. m : s[i] \in DOMAIN FlagTag
    BY LenProperties, ElementOfSeq
  <2>2. r = [i \in 1 .. m |-> s[(m - i) + 1]]
    BY Zenon DEF Reverse
  <2>3. \A i \in 1 .. m : (m - i) + 1 \in 1 .. m
    BY <2>1
  <2>4. DOMAIN r = 1 .. m /\ \A i \in 1 .. m : r[i] = s[(m - i) + 1] /\ r[i] \in DOMAIN FlagTag
    BY <2>1, <2>2, <2>3
  <2>5. \A y \in DOMAIN FlagTag : C[y] = <<"close", FlagTag[y][1]>>
    OBVIOUS
  <2> HIDE DEF C
  <2> DEFINE G(i) == <<"close", FlagTag[r[i]][1]>>
  <2>6. Closers(s) = [i \in DOMAIN r |-> G(i)]
    BY Zenon DEF Closers, CloseTags
  <2>7. \A i \in 1 .. m : G(i) = C[s[(m - i) + 1]]
    BY <2>4, <2>5, Zenon
  <2> HIDE DEF G, m, r
  <2>8. DOMAIN Closers(s) = 1 .. m /\ \A i \in 1 .. m : Closers(s)[i] = C[s[(m - i) + 1]]
    BY <2>4, <2>6, <2>7
  <2>9. Len(Closers(s)) = m
    BY <1>1, <2>1, <2>8, LenProperties
  <2> QED
    BY <2>8, <2>9 DEF m
<1>3. /\ n \in Nat /\ t \in Seq(DOMAIN FlagTag) /\ Len(t) = n + 1 /\ t[n + 1] = x
      /\ \A i \in 1 .. n : t[i] = f[i]
  BY LenProperties, AppendProperties
<1>4. C[x] = <<"close", FlagTag[x][1]>>
  OBVIOUS
<1>5. C[x] \in Closings
  <2>1. FlagTag[x] \in {<<"u">>, <<"em">>, <<"strong">>, <<"span", "invert">>}
    BY DEF FlagTag
  <2>2. FlagTag[x][1] \in TagNames
    BY <2>1 DEF TagNames
  <2> QED
    BY <1>4, <2>2 DEF Closings
<1>0. n = Len(f)
  OBVIOUS
<1> HIDE DEF C, t, n
<1> DEFINE l == Closers(t)
           g == Closers(f)
           c == C[x]
           r == <<c>> \o g
<1>6. /\ l \in Seq(Closings) /\ g \in Seq(Closings) /\ Len(l) = n + 1 /\ Len(g) = n
      /\ \A i \in 1 .. n + 1 : l[i] = C[t[(n + 1 - i) + 1]]
      /\ \A i \in 1 .. n : g[i] = C[f[(n - i) + 1]]
  <2>1. l \in Seq(Closings) /\ g \in Seq(Closings)
    BY <1>1, <1>3
  <2>2. Len(l) = Len(t) /\ \A i \in 1 .. Len(t) : l[i] = C[t[(Len(t) - i) + 1]]
    BY <1>2, <1>3, Zenon
  <2>3. Len(g) = Len(f) /\ \A i \in 1 .. Len(f) : g[i] = C[f[(Len(f) - i) + 1]]
    BY <1>2, Zenon
  <2> HIDE DEF l, g
  <2> QED
    BY <1>0, <1>3, <2>1, <2>2, <2>3
<1>7. c \in Closings
  BY <1>5
<1> HIDE DEF l, g, c
<1>8. <<c>> \in Seq(Closings) /\ Len(<<c>>) = 1 /\ <<c>>[1] = c
  BY <1>7
<1>9. r \in Seq(Closings) /\ Len(r) = n + 1 /\ r[1] = c /\ \A i \in 2 .. n + 1 : r[i] = g[i - 1]
  BY <1>3, <1>6, <1>8, ConcatProperties
<1>10. l[1] = c
  <2>1. 1 \in 1 .. n + 1 /\ (n + 1 - 1) + 1 = n + 1
    BY <1>3
  <2> QED
    BY <1>3, <1>6, <2>1 DEF c
<1>11. ASSUME NEW i \in 2 .. n + 1 PROVE l[i] = r[i]
  <2>1. /\ i \in 1 .. n + 1 /\ i - 1 \in 1 .. n /\ (n + 1 - i) + 1 = (n - (i - 1)) + 1
        /\ (n - (i - 1)) + 1 \in 1 .. n
    BY <1>3
  <2>2. l[i] = C[f[(n - (i - 1)) + 1]]
    <3>1. l[i] = C[t[(n + 1 - i) + 1]]
      BY <1>6, <2>1
    <3>2. t[(n - (i - 1)) + 1] = f[(n - (i - 1)) + 1]
      BY <1>3, <2>1
    <3> QED
      BY <2>1, <3>1, <3>2
  <2> QED
    BY <1>6, <1>9, <2>1, <2>2
<1> HIDE DEF r
<1>12. \A i \in 1 .. n + 1 : l[i] = r[i]
  <2>1. \A i \in 1 .. n + 1 : i = 1 \/ i \in 2 .. n + 1
    BY <1>3
  <2>2. l[1] = r[1]
    BY <1>9, <1>10
  <2> QED
    BY <1>11, <2>1, <2>2, Zenon
<1>13. l = r
  BY <1>6, <1>9, <1>12, SeqEqual
<1>14. Closers(<<>>) = <<>>
  <2>1. <<>> \in Seq(DOMAIN FlagTag) /\ Len(<<>>) = 0
    OBVIOUS
  <2> QED
    BY <1>1, <1>2, <2>1, EmptySeq
<1> QED
  BY <1>4, <1>6, <1>7, <1>13, <1>14 DEF l, g, r, t, c

\* They close exactly what the row opened, the last flag first.
LEMMA ClosesBrowse ==
    ASSUME NEW s \in Html, NEW f \in Seq(DOMAIN FlagTag), Browser(s).tags = StackOf(f)
    PROVE  /\ s \o Closers(f) \in Html
           /\ Browser(s \o Closers(f)).tags = <<>> /\ Browser(s \o Closers(f)).fits = Browser(s).fits
<1> DEFINE B(h) == Browser(h)
           Closed(h, v) == /\ h \o v \in Html
                           /\ B(h \o v).tags = <<>> /\ B(h \o v).fits = B(h).fits
           T == {g \in Seq(DOMAIN FlagTag) :
                    \A h \in Html : B(h).tags = StackOf(g) => Closed(h, Closers(g))}
<1>1. <<>> \in T
  <2>1. ASSUME NEW h \in Html, B(h).tags = StackOf(<<>>) PROVE Closed(h, <<>>)
    <3>1. h \o <<>> = h
      BY ConcatEmptySeq DEF Html
    <3>2. StackOf(<<>>) = <<>>
      BY DEF StackOf
    <3> QED
      BY <2>1, <3>1, <3>2, Zenon
  <2>2. Closers(<<>>) = <<>>
    <3>1. <<>> \in Seq(DOMAIN FlagTag) /\ "flash" \in DOMAIN FlagTag
      BY DEF FlagTag
    <3> QED
      BY <3>1, ClosersSteps
  <2> QED
    BY <2>1, <2>2, EmptySeq
<1>2. ASSUME NEW g \in T, NEW x \in DOMAIN FlagTag PROVE Append(g, x) \in T
  <2>1. g \in Seq(DOMAIN FlagTag) /\ \A h \in Html : B(h).tags = StackOf(g) => Closed(h, Closers(g))
    OBVIOUS
  <2> DEFINE c == <<"close", FlagTag[x][1]>>
  <2>2. /\ Closers(g) \in Seq(Closings) /\ c \in Closings
        /\ Closers(Append(g, x)) = <<c>> \o Closers(g)
    BY <2>1, ClosersSteps
  <2>3. /\ StackOf(g) \in Seq(InForce) /\ FlagTag[x] \in InForce
        /\ StackOf(Append(g, x)) = Append(StackOf(g), FlagTag[x])
    BY <2>1, StackSteps
  <2>4. c[2] = FlagTag[x][1]
    OBVIOUS
  <2> HIDE DEF c
  <2>5. ASSUME NEW h \in Html, B(h).tags = StackOf(Append(g, x))
        PROVE  Closed(h, Closers(Append(g, x)))
    <3>1. Browser(h).tags = Append(StackOf(g), FlagTag[x])
      BY <2>3, <2>5
    <3>2. Append(h, c) \in Html /\ B(Append(h, c)).tags = StackOf(g) /\ B(Append(h, c)).fits = B(h).fits
      BY <2>2, <2>3, <2>4, <3>1, CloseBrowses
    <3>3. Closed(Append(h, c), Closers(g))
      BY <2>1, <3>2
    <3>4. h \o (<<c>> \o Closers(g)) = Append(h, c) \o Closers(g)
      <4>1. Closings \subseteq Texts \cup Tags
        BY DEF Tags
      <4>2. Closers(g) \in Seq(Texts \cup Tags) /\ c \in Texts \cup Tags
        BY <2>2, <4>1, SeqMonotonic
      <4>3. h \in Seq(Texts \cup Tags)
        BY DEF Html
      <4> DEFINE w == Closers(g)
                 U == Texts \cup Tags
      <4> HIDE DEF w, U
      <4>4. h \in Seq(U) /\ w \in Seq(U) /\ c \in U
        BY <4>2, <4>3 DEF w, U
      <4>5. h \o (<<c>> \o w) = Append(h, c) \o w
        BY <4>4, OneBefore
      <4> QED
        BY <4>5 DEF w
    <3> HIDE DEF B
    <3> QED
      BY <2>2, <3>2, <3>3, <3>4
  <2>6. Append(g, x) \in Seq(DOMAIN FlagTag)
    BY <2>1, AppendProperties
  <2> HIDE DEF B, Closed
  <2> QED
    BY <2>5, <2>6
<1>3. T \in SUBSET Seq(DOMAIN FlagTag)
  OBVIOUS
<1> HIDE DEF T
<1>4. T = Seq(DOMAIN FlagTag)
  BY <1>1, <1>2, <1>3, AllSequences
<1>5. Closed(s, Closers(f))
  <2> HIDE DEF Closed
  <2> QED
    BY <1>4 DEF T
<1> QED
  BY <1>5

\* end_span closes what start_span opened.
LEMMA EndSpanBrowses ==
    ASSUME NEW s \in Html, NEW md \in Styles, Browser(s).tags = Tails(StartSpan(md))
    PROVE  /\ s \o EndSpan(md) \in Html
           /\ Browser(s \o EndSpan(md)).tags = <<>>
           /\ Browser(s \o EndSpan(md)).fits = Browser(s).fits
<1> DEFINE flags == FlagsInOrder(md)
           o == <<"open", "span", md.b, md.f>>
           c == <<"close", "span">>
           e == <<"span", md.b, md.f>>
<1>1. flags \in Seq(DOMAIN FlagTag)
  BY FlagsInOrderIs
<1>2. /\ StartSpan(md) = OpenTags(flags) \o (IF Coloured(md) THEN <<o>> ELSE <<>>)
      /\ EndSpan(md) = (IF Coloured(md) THEN <<c>> ELSE <<>>) \o Closers(flags)
  BY Zenon DEF StartSpan, EndSpan, CloseColour, Closers
<1>3. /\ o \in Openings /\ c \in Closings /\ Tail(o) = e /\ e \in InForce /\ c[2] = e[1]
  <2>1. md.b \in Int /\ md.f \in Int
    BY DEF Styles
  <2>2. o \in Openings
    BY <2>1 DEF Openings
  <2>3. Tail(o) = e
    BY TailIs
  <2>4. c \in Closings
    BY DEF Closings, TagNames
  <2>5. c[2] = e[1]
    OBVIOUS
  <2> HIDE DEF o, c, e
  <2> QED
    BY <2>2, <2>3, <2>4, <2>5 DEF InForce
<1> HIDE DEF flags, o, c, e
<1>4. OpenTags(flags) \in Seq(Openings) /\ Tails(OpenTags(flags)) = StackOf(flags)
      /\ StackOf(flags) \in Seq(InForce)
  <2>1. "flash" \in DOMAIN FlagTag
    BY DEF FlagTag
  <2> QED
    BY <1>1, <2>1, FlagTags, StackSteps
<1>5. Closers(flags) \in Seq(Closings)
  BY <1>1, FlagTags, ReverseIs DEF Closers
<1>6. CASE ~Coloured(md)
  <2>1. StartSpan(md) = OpenTags(flags) /\ EndSpan(md) = Closers(flags)
    BY <1>2, <1>4, <1>5, <1>6, ConcatEmptySeq
  <2>2. Browser(s).tags = StackOf(flags)
    BY <1>4, <2>1
  <2> QED
    BY <1>1, <2>1, <2>2, ClosesBrowse
<1>7. CASE Coloured(md)
  <2>1. StartSpan(md) = Append(OpenTags(flags), o)
    BY <1>2, <1>3, <1>4, <1>7, AppendIsConcat
  <2>2. Tails(StartSpan(md)) = Append(StackOf(flags), e)
    BY <1>3, <1>4, <2>1, TailsSteps
  <2>3. Browser(s).tags = Append(StackOf(flags), e)
    BY <2>2
  <2>4. /\ Append(s, c) \in Html /\ Browser(Append(s, c)).tags = StackOf(flags)
        /\ Browser(Append(s, c)).fits = Browser(s).fits
    BY <1>3, <1>4, <2>3, CloseBrowses
  <2>5. s \o EndSpan(md) = Append(s, c) \o Closers(flags)
    <3>1. EndSpan(md) = <<c>> \o Closers(flags)
      BY <1>2, <1>7
    <3>2. Closings \subseteq Texts \cup Tags
      BY DEF Tags
    <3>3. Closers(flags) \in Seq(Texts \cup Tags) /\ c \in Texts \cup Tags
      BY <1>3, <1>5, <3>2, SeqMonotonic
    <3> QED
      BY <3>1, <3>3, OneBefore DEF Html
  <2> DEFINE h == Append(s, c)
  <2>6. h \in Html /\ Browser(h).tags = StackOf(flags)
    BY <2>4
  <2>7. /\ h \o Closers(flags) \in Html /\ Browser(h \o Closers(flags)).tags = <<>>
        /\ Browser(h \o Closers(flags)).fits = Browser(h).fits
    <3> HIDE DEF h
    <3> QED
      BY <1>1, <2>6, ClosesBrowse
  <2> QED
    BY <2>4, <2>5, <2>7
<1> QED
  BY <1>6, <1>7

\* A piece of text more is in no tag of its own.
LEMMA TextBrowses ==
    ASSUME NEW s \in Html, NEW t \in Texts
    PROVE  /\ Append(s, t) \in Html /\ Browser(Append(s, t)).tags = Browser(s).tags
           /\ Browser(Append(s, t)).fits = Browser(s).fits
<1>1. t \in Texts \cup Tags /\ Append(s, t) \in Html
  BY AppendProperties DEF Html
<1>2. Browser(s) \in Pages /\ Browser(Append(s, t)) = Render(Browser(s), t)
  BY <1>1, BrowserSteps DEF Html
<1> QED
  BY <1>1, <1>2, RenderIs

\* A blank kept from being lost changes no tag.
LEMMA FixBlankBrowses ==
    ASSUME NEW s \in Html
    PROVE  /\ FixBlank(s) \in Html /\ Browser(FixBlank(s)).tags = Browser(s).tags
           /\ Browser(FixBlank(s)).fits = Browser(s).fits
<1> DEFINE blank == <<"text", " ">>
           nbsp == <<"text", "&nbsp;">>
<1>1. FixBlank(s) = IF s # <<>> /\ Last(s) = blank THEN Append(Front(s), nbsp) ELSE s
  BY Zenon DEF FixBlank
<1>2. blank \in Texts /\ nbsp \in Texts
  <2>1. ASSUME NEW a \in Letters, NEW b \in Entities
        PROVE  <<"text", a>> \in Texts /\ <<"text", b>> \in Texts
    BY DEF Texts
  <2>2. " " \in Letters /\ "&nbsp;" \in Entities
    BY Zenon DEF Letters, Entities
  <2> QED
    BY <2>1, <2>2, Zenon
<1> HIDE DEF blank, nbsp
<1>3. CASE s # <<>> /\ Last(s) = blank
  <2>1. PICK t \in Seq(Texts \cup Tags), x \in Texts \cup Tags : s = Append(t, x)
    BY <1>3, SequenceEmptyOrAppend DEF Html
  <2>2. Last(s) = x /\ Front(s) = t
    BY <2>1, FrontLastOfAppend
  <2>3. t \in Html /\ s = Append(t, blank)
    BY <1>3, <2>1, <2>2 DEF Html
  <2>4. Browser(s).tags = Browser(t).tags /\ Browser(s).fits = Browser(t).fits
    BY <1>2, <2>3, TextBrowses
  <2>5. /\ Append(t, nbsp) \in Html /\ Browser(Append(t, nbsp)).tags = Browser(t).tags
        /\ Browser(Append(t, nbsp)).fits = Browser(t).fits
    BY <1>2, <2>3, TextBrowses
  <2> QED
    BY <1>1, <1>3, <2>2, <2>4, <2>5
<1> QED
  BY <1>1, <1>3

\* The invariant of ansi2html's loop: the tags that are open are those of the span it is in.
Nested(st) ==
    /\ st \in Halfway
    /\ Browser(st.html).fits
    /\ Browser(st.html).tags = IF st.inspan THEN Tails(StartSpan(st.md)) ELSE <<>>
    /\ st.afterEsc => ~st.inspan

\* After the span is closed, no tag is open.
LEMMA NestedClosed ==
    ASSUME NEW st, Nested(st)
    PROVE  /\ Nested(CloseText(st)) /\ ~CloseText(st).inspan
           /\ Browser(CloseText(st).html).tags = <<>> /\ Browser(CloseText(st).html).fits
<1> DEFINE f == FixBlank(st.html)
           h == f \o EndSpan(st.md)
<1>1. st \in Halfway /\ st.html \in Html /\ st.md \in Styles /\ st.inspan \in BOOLEAN
  BY DEF Nested, Halfway
<1>2. CloseText(st) = IF st.inspan THEN [st EXCEPT !.html = h, !.donbsp = TRUE, !.inspan = FALSE]
                      ELSE st
  BY Zenon DEF CloseText
<1>3. CASE ~st.inspan
  BY <1>2, <1>3 DEF Nested
<1>4. CASE st.inspan
  <2>1. f \in Html /\ Browser(f).tags = Tails(StartSpan(st.md)) /\ Browser(f).fits
    BY <1>1, <1>4, FixBlankBrowses DEF Nested
  <2> HIDE DEF f
  <2>2. h \in Html /\ Browser(h).tags = <<>> /\ Browser(h).fits
    BY <1>1, <2>1, EndSpanBrowses
  <2> HIDE DEF h
  <2> DEFINE c == CloseText(st)
  <2>3. c = [st EXCEPT !.html = h, !.donbsp = TRUE, !.inspan = FALSE]
    BY <1>2, <1>4
  <2> HIDE DEF c
  <2>4. c \in Halfway /\ c.html = h /\ ~c.inspan
    BY <1>1, <2>2, <2>3 DEF Halfway
  <2> QED
    BY <2>2, <2>4 DEF Nested, c
<1> QED
  BY <1>1, <1>3, <1>4

\* A span is opened only where none is.
LEMMA NestedOpen ==
    ASSUME NEW st, Nested(st)
    PROVE  Nested(OpenText(st)) /\ ~OpenText(st).afterEsc
<1> DEFINE f == FixBlank(st.html)
           span == StartSpan(st.md)
           h == f \o span
           in == span # <<>>
<1>1. st \in Halfway /\ st.html \in Html /\ st.md \in Styles /\ st.afterEsc \in BOOLEAN
  BY DEF Nested, Halfway
<1>2. OpenText(st) = IF st.afterEsc
                     THEN [st EXCEPT !.html = h, !.donbsp = TRUE, !.inspan = in, !.afterEsc = FALSE]
                     ELSE st
  BY Zenon DEF OpenText
<1>3. CASE ~st.afterEsc
  BY <1>2, <1>3
<1>4. CASE st.afterEsc
  <2>1. f \in Html /\ Browser(f).tags = <<>> /\ Browser(f).fits
    BY <1>1, <1>4, FixBlankBrowses DEF Nested
  <2>2. span \in Seq(Openings)
    BY <1>1, SpansAreTags
  <2>3. in \in BOOLEAN
    OBVIOUS
  <2>4. ~in => Tails(span) = <<>>
    BY DEF Tails
  <2> HIDE DEF f
  <2>5. Tails(span) \in Seq(InForce)
    <3>1. <<"open", "u">> \in Openings
      BY DEF Openings, TagNames
    <3> HIDE DEF span
    <3> QED
      BY <2>2, <3>1, TailsSteps
  <2>6. h \in Html /\ Browser(h).tags = Tails(span) /\ Browser(h).fits
    <3> HIDE DEF span
    <3>1. h \in Html /\ Browser(h).tags = <<>> \o Tails(span) /\ Browser(h).fits
      BY <2>1, <2>2, OpensBrowse
    <3> QED
      BY <2>5, <3>1, ConcatEmptySeq
  <2> HIDE DEF in, h, span
  <2> DEFINE o == OpenText(st)
  <2>7. o = [st EXCEPT !.html = h, !.donbsp = TRUE, !.inspan = in, !.afterEsc = FALSE]
    BY <1>2, <1>4
  <2> HIDE DEF o
  <2>8. o \in Halfway /\ o.html = h /\ o.inspan = in /\ ~o.afterEsc /\ o.md = st.md
    BY <1>1, <2>3, <2>6, <2>7 DEF Halfway
  <2>9. Tails(StartSpan(o.md)) = Tails(span)
    BY <2>8 DEF span
  <2> QED
    BY <2>4, <2>6, <2>8, <2>9 DEF Nested, o
<1> QED
  BY <1>1, <1>3, <1>4

\* A character changes no tag.
LEMMA NestedPut ==
    ASSUME NEW st, Nested(st), ~st.afterEsc, NEW c \in Letters, c \notin Escapes
    PROVE  Nested(PutChar(st, c))
<1> DEFINE blank == " "
           nbsp == "&nbsp;"
           s == st.html
           p == PutChar(st, c)
<1>1. blank \in Letters /\ nbsp \in Entities
  BY Zenon DEF Letters, Entities
<1>2. st \in Halfway /\ s \in Html
  BY DEF Nested, Halfway
<1>3. p \in Halfway
  BY <1>2, PutCharIs
<1>4. ASSUME NEW h \in Html, Browser(h).tags = Browser(s).tags, Browser(h).fits = Browser(s).fits,
             NEW d \in BOOLEAN, p = [st EXCEPT !.html = h, !.donbsp = d]
      PROVE  Nested(p)
  <2> HIDE DEF p
  <2>1. p.html = h /\ p.inspan = st.inspan /\ p.afterEsc = st.afterEsc /\ p.md = st.md
    BY <1>2, <1>4 DEF Halfway
  <2> QED
    BY <1>3, <1>4, <2>1 DEF Nested
<1>5. ASSUME NEW e \in Letters \cup Entities PROVE <<"text", e>> \in Texts
  BY DEF Texts
<1>6. CASE c = "TAB"
  <2> DEFINE a == <<"text", nbsp>>
             b == <<"text", blank>>
             h == s \o <<a, b>>
  <2>1. PutChar(st, c) = [st EXCEPT !.html = h, !.donbsp = TRUE]
    <3>1. "TAB" # " "
      BY Zenon
    <3> QED
      BY <1>6, <3>1, Zenon DEF PutChar
  <2>2. a \in Texts /\ b \in Texts
    BY <1>1, <1>5, Zenon
  <2> HIDE DEF a, b, s
  <2>3. h = Append(Append(s, a), b)
    BY <1>2, <2>2, TwoMore DEF Html
  <2>4. /\ Append(s, a) \in Html /\ Browser(Append(s, a)).tags = Browser(s).tags
        /\ Browser(Append(s, a)).fits = Browser(s).fits
    BY <1>2, <2>2, TextBrowses
  <2>5. h \in Html /\ Browser(h).tags = Browser(s).tags /\ Browser(h).fits = Browser(s).fits
    BY <2>2, <2>3, <2>4, TextBrowses
  <2> HIDE DEF h
  <2> QED
    BY <1>4, <2>1, <2>5
<1>7. ASSUME NEW e \in Letters \cup Entities, NEW d \in BOOLEAN,
             PutChar(st, c) = [st EXCEPT !.html = Append(s, <<"text", e>>), !.donbsp = d]
      PROVE  Nested(p)
  <2> DEFINE h == Append(s, <<"text", e>>)
  <2>1. h \in Html /\ Browser(h).tags = Browser(s).tags /\ Browser(h).fits = Browser(s).fits
    BY <1>2, <1>5, TextBrowses
  <2>2. p = [st EXCEPT !.html = h, !.donbsp = d]
    BY <1>7
  <2> HIDE DEF h
  <2> QED
    BY <1>4, <2>1, <2>2
<1>8. CASE c = blank
  <2>1. c # "TAB"
    BY <1>8, Zenon
  <2> DEFINE e == IF st.donbsp THEN nbsp ELSE blank
             d == NextDonbsp(st.donbsp)
  <2>2. PutChar(st, c) = [st EXCEPT !.html = Append(@, <<"text", e>>), !.donbsp = NextDonbsp(@)]
    BY <1>8, <2>1, Zenon DEF PutChar
  <2> HIDE DEF blank, nbsp
  <2>3. e \in Letters \cup Entities
    BY <1>1
  <2>4. d \in BOOLEAN
    BY DEF NextDonbsp
  <2> HIDE DEF e
  <2>5. [st EXCEPT !.html = Append(@, <<"text", e>>), !.donbsp = NextDonbsp(@)]
          = [st EXCEPT !.html = Append(s, <<"text", e>>), !.donbsp = d]
    BY <1>2 DEF Halfway
  <2> HIDE DEF d
  <2> QED
    BY <1>7, <2>2, <2>3, <2>4, <2>5
<1>9. CASE c # blank /\ c # "TAB"
  <2> DEFINE e == Entity(c)
             d == st.donbsp
  <2>1. PutChar(st, c) = [st EXCEPT !.html = Append(@, <<"text", e>>)]
    BY <1>9, Zenon DEF PutChar
  <2>2. e \in Letters \cup Entities
    BY PlainTextIs, Zenon
  <2>3. d \in BOOLEAN
    BY <1>2 DEF Halfway
  <2> HIDE DEF e
  <2>4. [st EXCEPT !.html = Append(@, <<"text", e>>)]
          = [st EXCEPT !.html = Append(s, <<"text", e>>), !.donbsp = d]
    BY <1>2 DEF Halfway
  <2> HIDE DEF d
  <2> QED
    BY <1>7, <2>1, <2>2, <2>3, <2>4
<1> QED
  BY <1>6, <1>8, <1>9

\* Every turn of the loop keeps it.
LEMMA NestedStep ==
    ASSUME NEW st, Nested(st), NEW c \in Letters
    PROVE  Nested(PutToken(st, c))
<1>1. st \in Halfway
  BY DEF Nested
<1>2. CASE c \in Escapes
  <2> DEFINE closed == CloseText(st)
             md == SetCodes(closed.md, c)
             p == PutToken(st, c)
  <2>1. p = [closed EXCEPT !.md = SetCodes(@, c), !.afterEsc = TRUE]
    BY <1>2, Zenon DEF PutToken
  <2>2. /\ Nested(closed) /\ ~closed.inspan /\ Browser(closed.html).tags = <<>>
        /\ Browser(closed.html).fits
    BY NestedClosed
  <2>3. p \in Halfway
    BY <1>1, PutTokenIs
  <2> HIDE DEF closed, p
  <2>4. closed \in Halfway
    BY <2>2 DEF Nested
  <2>5. p = [closed EXCEPT !.md = md, !.afterEsc = TRUE]
    BY <2>1, <2>4 DEF Halfway
  <2> HIDE DEF md
  <2>6. p.html = closed.html /\ p.inspan = closed.inspan
    BY <2>4, <2>5 DEF Halfway
  <2> QED
    BY <2>2, <2>3, <2>6 DEF Nested, p
<1>3. CASE c \notin Escapes
  <2>1. PutToken(st, c) = PutChar(OpenText(st), c)
    BY <1>3, Zenon DEF PutToken
  <2> DEFINE open == OpenText(st)
  <2>2. Nested(open) /\ ~open.afterEsc
    BY NestedOpen
  <2> HIDE DEF open
  <2>3. Nested(PutChar(open, c))
    BY <1>3, <2>2, NestedPut
  <2> QED
    BY <2>1, <2>3 DEF open
<1> QED
  BY <1>2, <1>3

\* HTML in which tags are closed in the order they were opened, the other way round, and of
\* which none is open around a text at the end.
WellMade(html) ==
    /\ html \in Html
    /\ Browser(html).fits
    /\ Browser(html).tags = <<>> \/ Browser(html).shown = <<>>

\* What the loop begins with.
Started(md) == [html |-> StartSpan(md), md |-> md, donbsp |-> TRUE,
                inspan |-> (StartSpan(md) # <<>>), afterEsc |-> FALSE]

\* The loop begins with the style in force.
LEMMA NestedStart ==
    ASSUME NEW md \in Styles
    PROVE  /\ Nested(Started(md)) /\ StartSpan(md) \in Html
           /\ Browser(StartSpan(md)).fits /\ Browser(StartSpan(md)).shown = <<>>
<1> DEFINE span == StartSpan(md)
           in == span # <<>>
           st0 == Started(md)
<1>2. /\ span \in Html /\ Browser(span).tags = Tails(span) /\ Browser(span).fits
      /\ Browser(span).shown = <<>>
  <2>1. span \in Seq(Openings)
    BY SpansAreTags
  <2>2. /\ <<>> \in Html /\ Browser(<<>>).tags = <<>> /\ Browser(<<>>).fits
        /\ Browser(<<>>).shown = <<>>
    BY EmptySeq, BrowserSteps DEF Html, NoPage
  <2> HIDE DEF span
  <2>3. <<>> \o span = span
    BY <2>1, ConcatEmptySeq
  <2>4. Tails(span) \in Seq(InForce)
    <3>1. <<"open", "u">> \in Openings
      BY DEF Openings, TagNames
    <3> QED
      BY <2>1, <3>1, TailsSteps
  <2>5. <<>> \o Tails(span) = Tails(span)
    BY <2>4, ConcatEmptySeq
  <2>6. /\ <<>> \o span \in Html /\ Browser(<<>> \o span).tags = Browser(<<>>).tags \o Tails(span)
        /\ Browser(<<>> \o span).fits = Browser(<<>>).fits
        /\ Browser(<<>> \o span).shown = Browser(<<>>).shown
    BY <2>1, <2>2, OpensBrowse
  <2> QED
    BY <2>2, <2>3, <2>5, <2>6
<1>3. in \in BOOLEAN /\ (~in => Tails(span) = <<>>)
  BY DEF Tails
<1>4. /\ st0 = [html |-> span, md |-> md, donbsp |-> TRUE, inspan |-> in, afterEsc |-> FALSE]
      /\ Tails(StartSpan(st0.md)) = Tails(span)
  BY DEF Started
<1> HIDE DEF st0, in, span
<1>5. st0.html = span /\ (st0.inspan <=> in) /\ ~st0.afterEsc
  BY <1>4
<1>6. st0 \in Halfway
  BY <1>2, <1>3, <1>4 DEF Halfway
<1> QED
  BY <1>2, <1>3, <1>4, <1>5, <1>6 DEF Nested, st0, span

\* So a line ends with no tag open, and one that is empty shows nothing.
LEMMA Ansi2HtmlNests == \A md \in Styles, line \in Lines : WellMade(Ansi2Html(md, line).html)
<1> SUFFICES ASSUME NEW md \in Styles, NEW line \in Lines PROVE WellMade(Ansi2Html(md, line).html)
  OBVIOUS
<1> DEFINE span == StartSpan(md)
           st0 == Started(md)
           Put(s) == FoldLeft(PutToken, st0, s)
<1>1. Ansi2Html(md, line) = IF line = <<>> THEN Put(line) ELSE CloseText(Put(line))
  BY Zenon DEF Ansi2Html, Started
<1>2. span \in Html /\ Browser(span).fits /\ Browser(span).shown = <<>>
  BY NestedStart
<1>4. Nested(st0)
  BY NestedStart
<1>5. st0.html = span
  BY DEF Started
<1> HIDE DEF st0, span
<1>6. /\ Put(<<>>) = st0
      /\ \A s \in Seq(Letters), e \in Letters : Put(Append(s, e)) = PutToken(Put(s), e)
  BY <1>4, PutTokenSteps DEF Nested
<1> HIDE DEF Put
<1> DEFINE T == {s \in Seq(Letters) : Nested(Put(s))}
<1>7. <<>> \in T
  BY <1>4, <1>6, EmptySeq
<1>8. ASSUME NEW s \in T, NEW e \in Letters PROVE Append(s, e) \in T
  <2>1. s \in Seq(Letters) /\ Nested(Put(s))
    OBVIOUS
  <2>2. Nested(PutToken(Put(s), e)) /\ Append(s, e) \in Seq(Letters)
    BY <2>1, NestedStep, AppendProperties
  <2> QED
    BY <1>6, <2>1, <2>2
<1>9. T \in SUBSET Seq(Letters)
  OBVIOUS
<1> HIDE DEF T
<1>10. T = Seq(Letters)
  BY <1>7, <1>8, <1>9, AllSequences
<1>11. Nested(Put(line))
  BY <1>10 DEF T, Lines
<1>12. CASE line = <<>>
  <2>1. Ansi2Html(md, line).html = span
    BY <1>1, <1>5, <1>6, <1>12
  <2> QED
    BY <1>2, <2>1 DEF WellMade
<1>13. CASE line # <<>>
  <2> DEFINE c == CloseText(Put(line))
  <2>1. Nested(c) /\ Browser(c.html).tags = <<>> /\ Browser(c.html).fits
    BY <1>11, NestedClosed
  <2>2. Ansi2Html(md, line).html = c.html
    BY <1>1, <1>13
  <2> HIDE DEF c
  <2>3. c.html \in Html
    BY <2>1 DEF Nested, Halfway
  <2> QED
    BY <2>1, <2>2, <2>3 DEF WellMade
<1> QED
  BY <1>12, <1>13

\* world_echo writes text without tags.
LEMMA EchoNests == \A text \in Lines : WellMade(EchoHtml(text))
<1> SUFFICES ASSUME NEW text \in Lines PROVE WellMade(EchoHtml(text))
  OBVIOUS
<1> DEFINE T == {s \in Seq(Texts) : s \in Html /\ Browser(s).tags = <<>> /\ Browser(s).fits}
<1>1. <<>> \in T
  BY EmptySeq, BrowserSteps DEF Html, NoPage
<1>2. ASSUME NEW s \in T, NEW t \in Texts PROVE Append(s, t) \in T
  <2>1. s \in Seq(Texts) /\ s \in Html /\ Browser(s).tags = <<>> /\ Browser(s).fits
    OBVIOUS
  <2>2. Append(s, t) \in Seq(Texts)
    BY <2>1, AppendProperties
  <2> QED
    BY <2>1, <2>2, TextBrowses
<1>3. T \in SUBSET Seq(Texts)
  OBVIOUS
<1> HIDE DEF T
<1>4. T = Seq(Texts)
  BY <1>1, <1>2, <1>3, AllSequences
<1>5. EchoHtml(text) \in Seq(Texts)
  <2>1. Len(text) \in Nat /\ DOMAIN text = 1 .. Len(text) /\ \A i \in 1 .. Len(text) : text[i] \in Letters
    BY LenProperties, ElementOfSeq DEF Lines
  <2> DEFINE G(i) == <<"text", JsonEscape(text[i])>>
  <2>2. EchoHtml(text) = [i \in DOMAIN text |-> G(i)]
    BY Zenon DEF EchoHtml
  <2>3. \A i \in DOMAIN text : G(i) \in Texts
    <3>1. \A c \in Letters : JsonEscape(c) \in Letters \cup Entities
      BY PlainTextIs, Zenon
    <3>2. \A e \in Letters \cup Entities : <<"text", e>> \in Texts
      BY DEF Texts
    <3> QED
      BY <2>1, <3>1, <3>2, Zenon
  <2> HIDE DEF G
  <2> QED
    BY <2>1, <2>2, <2>3
<1> QED
  BY <1>4, <1>5 DEF T, WellMade

\* Whatever colours, flags, blanks and charsets a line has and whatever style the line before
\* it left (ansi2html), its tags are nested and none stays open around what it says.
THEOREM TagsAreNested == Spec => []WellNested
<1>1. ASSUME NEW html \in Made PROVE WellMade(html)
  <2>1. ASSUME NEW md \in Styles, NEW cs \in Names, NEW line \in Lines
        PROVE  WellMade(ConvertToJson(md, cs, line).html)
    <3>1. ConvertToJson(md, cs, line) = Ansi2Html(md, ConvertCharset(cs, line))
      BY Zenon DEF ConvertToJson
    <3>2. ConvertCharset(cs, line) \in Lines
      BY ConvertCharsetIs
    <3> QED
      BY <3>1, <3>2, Ansi2HtmlNests, Zenon
  <2>2. CASE html \in {ConvertToJson(md, cs, line).html : md \in Styles, cs \in Names, line \in Lines}
    <3>1. PICK md \in Styles, cs \in Names, line \in Lines : html = ConvertToJson(md, cs, line).html
      BY <2>2
    <3> QED
      BY <2>1, <3>1, Zenon
  <2>3. CASE html \in {EchoHtml(text) : text \in Lines}
    <3>1. PICK text \in Lines : html = EchoHtml(text)
      BY <2>3
    <3> QED
      BY <3>1, EchoNests, Zenon
  <2> QED
    BY <2>2, <2>3 DEF Made
<1>2. TextInv => WellNested
  <2> SUFFICES ASSUME TextInv PROVE WellNested
    OBVIOUS
  <2>1. \A i \in DOMAIN events : events[i].html \in Made
    <3>1. events \in Seq(Events)
      BY DEF TextInv
    <3>2. \A i \in DOMAIN events : events[i] \in Events
      BY <3>1, LenProperties, ElementOfSeq
    <3> QED
      BY <3>2 DEF Events
  <2>2. \A i \in DOMAIN events : WellMade(events[i].html)
    BY <1>1, <2>1, Zenon
  <2> QED
    BY <2>2, Zenon DEF WellNested, WellMade
<1> QED
  BY <1>2, TextInit, TextStep, PTL DEF Spec

-----------------------------------------------------------------------------
(* What the MUD says, and what raw_read makes of it.                       *)

\* The types of what is said and asked.
Places == {"text", "IAC", "DO", "DONT", "WILL", "WONT", "SB", "TTYPE", "SEND", "SEND IAC", "MSSP",
           "MSSP IAC", "CHARSET", "ACCEPTED", "ACCEPTED IAC", "REJECTED", "REJECTED IAC", "nowhere"}
Spoken == STRING
Words == Seq(Spoken)
Requested == STRING \X STRING
Asked == Seq(Requested)
Answers(q, as) == FoldLeft(LAMBDA s, ask : s \o Answer(ask), q, as)
Drafts == [lines : Seq(Words), rest : Words]
NoDraft == [lines |-> <<>>, rest |-> <<>>]
LinesOf(words) == FoldLeft(ToLines, NoDraft, words)

\* After a byte one is in some place.
LEMMA FollowIs == \A at \in Places, x \in Bytes : Follow(at, x) \in Places
<1> SUFFICES ASSUME NEW at \in Places, NEW x \in Bytes PROVE Follow(at, x) \in Places
  OBVIOUS
<1> DEFINE P == Places
<1>1. /\ "text" \in P /\ "IAC" \in P /\ "SEND" \in P /\ "SEND IAC" \in P /\ "MSSP" \in P
      /\ "MSSP IAC" \in P /\ "ACCEPTED" \in P /\ "ACCEPTED IAC" \in P /\ "REJECTED" \in P
      /\ "REJECTED IAC" \in P /\ "nowhere" \in P /\ Verbs \subseteq P
      /\ {"TTYPE", "MSSP", "CHARSET"} \subseteq P
  BY Zenon DEF Places, Verbs
<1> HIDE DEF P
<1>2. Follow(at, x) \in P
  BY <1>1, Zenon DEF Follow
<1> QED
  BY <1>2, Zenon DEF P

\* A character is the end of a line or goes on with it.
LEMMA ToLinesIs ==
    ASSUME NEW st \in Drafts, NEW c \in Spoken
    PROVE  /\ ToLines(st, c) \in Drafts
           /\ c = "LF" => ToLines(st, c) = [lines |-> Append(st.lines, st.rest), rest |-> <<>>]
           /\ c # "LF" => ToLines(st, c) = [lines |-> st.lines, rest |-> Append(st.rest, c)]
<1> DEFINE ls == Append(st.lines, st.rest)
           r == Append(st.rest, c)
<1>1. ls \in Seq(Words) /\ r \in Words /\ <<>> \in Words
  BY EmptySeq, AppendProperties DEF Drafts, Words
<1>2. CASE c = "LF"
  <2>1. ToLines(st, c) = [lines |-> ls, rest |-> <<>>]
    BY <1>2 DEF ToLines
  <2> HIDE DEF ls, r
  <2> QED
    BY <1>1, <1>2, <2>1 DEF Drafts, ls
<1>3. CASE c # "LF"
  <2>1. ToLines(st, c) = [lines |-> st.lines, rest |-> r]
    BY <1>3 DEF ToLines, Drafts
  <2> HIDE DEF ls, r
  <2> QED
    BY <1>1, <1>3, <2>1 DEF Drafts, r
<1> QED
  BY <1>2, <1>3

\* The answer to a command is none, one or two commands.
LEMMA AnswerIs == \A ask : Answer(ask) \in Seq(Replies)
<1> DEFINE R == Replies
<1>1. /\ "WILL CHARSET" \in R /\ "WONT LINEMODE" \in R /\ "WILL TTYPE" \in R /\ "WILL NAWS" \in R
      /\ "SB NAWS" \in R /\ "SB CHARSET REQUEST" \in R /\ "DO EOR" \in R /\ "DO MSSP" \in R
      /\ "DO NAWS" \in R /\ "DO CHARSET" \in R /\ "SB TTYPE Banana" \in R
  BY Zenon DEF Replies
<1> HIDE DEF R
<1>2. (\A x \in R : <<x>> \in Seq(R)) /\ (\A x, y \in R : <<x, y>> \in Seq(R)) /\ <<>> \in Seq(R)
  OBVIOUS
<1>3. ASSUME NEW ask PROVE Answer(ask) \in Seq(R)
  BY <1>1, <1>2, Zenon DEF Answer
<1> QED
  BY <1>3 DEF R

\* The place in the text, byte by byte.
LEMMA PlaceSteps ==
    ASSUME NEW at \in Places
    PROVE  /\ PlaceAfter(at, <<>>) = at
           /\ \A s \in Seq(Bytes) : PlaceAfter(at, s) \in Places
           /\ \A s \in Seq(Bytes), e \in Bytes :
                 PlaceAfter(at, Append(s, e))
                   = Follow(PlaceAfter(at, s), e)
<1> DEFINE Op(r, e) == Follow(r, e)
           F == [p \in Places \X Bytes |-> Op(p[1], p[2])]
           q == at
<1>1. ASSUME NEW r \in Places, NEW e \in Bytes PROVE Op(r, e) \in Places
  BY FollowIs
<1>2. q \in Places
  OBVIOUS
<1> HIDE DEF Op, q
<1>3. IsStep(F, Places, Bytes) /\ \A r \in Places, e \in Bytes : F[<<r, e>>] = Op(r, e)
  BY <1>1 DEF IsStep
<1> HIDE DEF F
<1>4. ASSUME NEW s \in Seq(Bytes) PROVE PlaceAfter(at, s) = Fold(F, q, s)
  <2> DEFINE Iter(g) == g = [t \in SUBSET DOMAIN s |->
                               IF t = {} THEN q ELSE Op(g[t \ {Max(t)}], s[Max(t)])]
             iter == CHOOSE g : Iter(g)
  <2>1. PlaceAfter(at, s) = iter[DOMAIN s]
    BY Zenon DEF PlaceAfter, FoldLeft, MapThenFoldSet, Op, q
  <2>2. PICK g \in [SUBSET (1 .. Len(s)) -> Places] : IsFold(g, F, q, s, Len(s))
    BY <1>2, <1>3, FoldIsThere DEF IsStep
  <2>3. Iter(g)
    BY <1>3, <2>2, LastPlace DEF IsFold
  <2>4. Iter(iter)
    BY <2>3
  <2> HIDE DEF iter
  <2>5. /\ iter[{}] = q
        /\ \A t \in SUBSET (1 .. Len(s)) : t # {} => iter[t] = Op(iter[t \ {Max(t)}], s[Max(t)])
    BY <2>4, LastPlace
  <2> HIDE DEF Iter
  <2>6. Iterates(iter, Places, F, q, s, Len(s))
    BY <1>3, <2>5, LastPlace DEF Iterates
  <2> QED
    BY <1>2, <1>3, <2>1, <2>6, FoldLeftIs
<1>5. FoldsOn(F, q, Places, Bytes)
  BY <1>2, <1>3, FoldMore
<1>6. ASSUME NEW s \in Seq(Bytes), NEW e \in Bytes
      PROVE  PlaceAfter(at, Append(s, e)) = Op(PlaceAfter(at, s), e)
  BY <1>3, <1>4, <1>5 DEF FoldsOn
<1>7. PlaceAfter(at, <<>>) = q /\ \A s \in Seq(Bytes) : PlaceAfter(at, s) \in Places
  BY <1>4, <1>5 DEF FoldsOn
<1> QED
  BY <1>6, <1>7, Zenon DEF Op, q

\* The text in the bytes, byte by byte.
LEMMA SaysSteps ==
    /\ Says(<<>>) = <<>>
    /\ \A s \in Seq(Bytes) : Says(s) \in Words
    /\ \A s \in Seq(Bytes), e \in Bytes :
          Says(Append(s, e))
            = IF e.say = Nothing THEN Says(s) ELSE Append(Says(s), e.say)
<1> DEFINE Op(r, e) == IF e.say = Nothing THEN r ELSE Append(r, e.say)
           F == [p \in Words \X Bytes |-> Op(p[1], p[2])]
           q == <<>>
<1>1. ASSUME NEW r \in Words, NEW e \in Bytes PROVE Op(r, e) \in Words
  <2>1. e.say \in Spoken
    BY DEF Bytes, Spoken
  <2>2. Append(r, e.say) \in Words
    BY <2>1, AppendProperties DEF Words
  <2> QED
    BY <2>2
<1>2. q \in Words
  BY EmptySeq DEF Words
<1> HIDE DEF Op, q
<1>3. IsStep(F, Words, Bytes) /\ \A r \in Words, e \in Bytes : F[<<r, e>>] = Op(r, e)
  BY <1>1 DEF IsStep
<1> HIDE DEF F
<1>4. ASSUME NEW s \in Seq(Bytes) PROVE Says(s) = Fold(F, q, s)
  <2> DEFINE Iter(g) == g = [t \in SUBSET DOMAIN s |->
                               IF t = {} THEN q ELSE Op(g[t \ {Max(t)}], s[Max(t)])]
             iter == CHOOSE g : Iter(g)
  <2>1. Says(s) = iter[DOMAIN s]
    BY Zenon DEF Says, FoldLeft, MapThenFoldSet, Op, q
  <2>2. PICK g \in [SUBSET (1 .. Len(s)) -> Words] : IsFold(g, F, q, s, Len(s))
    BY <1>2, <1>3, FoldIsThere DEF IsStep
  <2>3. Iter(g)
    BY <1>3, <2>2, LastPlace DEF IsFold
  <2>4. Iter(iter)
    BY <2>3
  <2> HIDE DEF iter
  <2>5. /\ iter[{}] = q
        /\ \A t \in SUBSET (1 .. Len(s)) : t # {} => iter[t] = Op(iter[t \ {Max(t)}], s[Max(t)])
    BY <2>4, LastPlace
  <2> HIDE DEF Iter
  <2>6. Iterates(iter, Words, F, q, s, Len(s))
    BY <1>3, <2>5, LastPlace DEF Iterates
  <2> QED
    BY <1>2, <1>3, <2>1, <2>6, FoldLeftIs
<1>5. FoldsOn(F, q, Words, Bytes)
  BY <1>2, <1>3, FoldMore
<1>6. ASSUME NEW s \in Seq(Bytes), NEW e \in Bytes
      PROVE  Says(Append(s, e)) = Op(Says(s), e)
  BY <1>3, <1>4, <1>5 DEF FoldsOn
<1>7. Says(<<>>) = q /\ \A s \in Seq(Bytes) : Says(s) \in Words
  BY <1>4, <1>5 DEF FoldsOn
<1> QED
  BY <1>6, <1>7, Zenon DEF Op, q

\* The commands in the bytes, byte by byte.
LEMMA AsksSteps ==
    /\ Asks(<<>>) = <<>>
    /\ \A s \in Seq(Bytes) : Asks(s) \in Asked
    /\ \A s \in Seq(Bytes), e \in Bytes :
          Asks(Append(s, e))
            = IF e.ask = NoCommand THEN Asks(s) ELSE Append(Asks(s), e.ask)
<1> DEFINE Op(r, e) == IF e.ask = NoCommand THEN r ELSE Append(r, e.ask)
           F == [p \in Asked \X Bytes |-> Op(p[1], p[2])]
           q == <<>>
<1>1. ASSUME NEW r \in Asked, NEW e \in Bytes PROVE Op(r, e) \in Asked
  <2>1. e.ask \in Requested
    BY DEF Bytes, Requested
  <2>2. Append(r, e.ask) \in Asked
    BY <2>1, AppendProperties DEF Asked
  <2> QED
    BY <2>2
<1>2. q \in Asked
  BY EmptySeq DEF Asked
<1> HIDE DEF Op, q
<1>3. IsStep(F, Asked, Bytes) /\ \A r \in Asked, e \in Bytes : F[<<r, e>>] = Op(r, e)
  BY <1>1 DEF IsStep
<1> HIDE DEF F
<1>4. ASSUME NEW s \in Seq(Bytes) PROVE Asks(s) = Fold(F, q, s)
  <2> DEFINE Iter(g) == g = [t \in SUBSET DOMAIN s |->
                               IF t = {} THEN q ELSE Op(g[t \ {Max(t)}], s[Max(t)])]
             iter == CHOOSE g : Iter(g)
  <2>1. Asks(s) = iter[DOMAIN s]
    BY Zenon DEF Asks, FoldLeft, MapThenFoldSet, Op, q
  <2>2. PICK g \in [SUBSET (1 .. Len(s)) -> Asked] : IsFold(g, F, q, s, Len(s))
    BY <1>2, <1>3, FoldIsThere DEF IsStep
  <2>3. Iter(g)
    BY <1>3, <2>2, LastPlace DEF IsFold
  <2>4. Iter(iter)
    BY <2>3
  <2> HIDE DEF iter
  <2>5. /\ iter[{}] = q
        /\ \A t \in SUBSET (1 .. Len(s)) : t # {} => iter[t] = Op(iter[t \ {Max(t)}], s[Max(t)])
    BY <2>4, LastPlace
  <2> HIDE DEF Iter
  <2>6. Iterates(iter, Asked, F, q, s, Len(s))
    BY <1>3, <2>5, LastPlace DEF Iterates
  <2> QED
    BY <1>2, <1>3, <2>1, <2>6, FoldLeftIs
<1>5. FoldsOn(F, q, Asked, Bytes)
  BY <1>2, <1>3, FoldMore
<1>6. ASSUME NEW s \in Seq(Bytes), NEW e \in Bytes
      PROVE  Asks(Append(s, e)) = Op(Asks(s), e)
  BY <1>3, <1>4, <1>5 DEF FoldsOn
<1>7. Asks(<<>>) = q /\ \A s \in Seq(Bytes) : Asks(s) \in Asked
  BY <1>4, <1>5 DEF FoldsOn
<1> QED
  BY <1>6, <1>7, Zenon DEF Op, q

\* The lines in a text, character by character.
LEMMA LinesOfSteps ==
    /\ LinesOf(<<>>) = NoDraft
    /\ \A s \in Seq(Spoken) : LinesOf(s) \in Drafts
    /\ \A s \in Seq(Spoken), e \in Spoken :
          LinesOf(Append(s, e))
            = ToLines(LinesOf(s), e)
<1> DEFINE Op(r, e) == ToLines(r, e)
           F == [p \in Drafts \X Spoken |-> Op(p[1], p[2])]
           q == NoDraft
<1>1. ASSUME NEW r \in Drafts, NEW e \in Spoken PROVE Op(r, e) \in Drafts
  BY ToLinesIs
<1>2. q \in Drafts
  BY EmptySeq DEF Drafts, NoDraft, Words
<1> HIDE DEF Op, q
<1>3. IsStep(F, Drafts, Spoken) /\ \A r \in Drafts, e \in Spoken : F[<<r, e>>] = Op(r, e)
  BY <1>1 DEF IsStep
<1> HIDE DEF F
<1>4. ASSUME NEW s \in Seq(Spoken) PROVE LinesOf(s) = Fold(F, q, s)
  <2> DEFINE Iter(g) == g = [t \in SUBSET DOMAIN s |->
                               IF t = {} THEN q ELSE Op(g[t \ {Max(t)}], s[Max(t)])]
             iter == CHOOSE g : Iter(g)
  <2>1. LinesOf(s) = iter[DOMAIN s]
    BY Zenon DEF LinesOf, FoldLeft, MapThenFoldSet, Op, q
  <2>2. PICK g \in [SUBSET (1 .. Len(s)) -> Drafts] : IsFold(g, F, q, s, Len(s))
    BY <1>2, <1>3, FoldIsThere DEF IsStep
  <2>3. Iter(g)
    BY <1>3, <2>2, LastPlace DEF IsFold
  <2>4. Iter(iter)
    BY <2>3
  <2> HIDE DEF iter
  <2>5. /\ iter[{}] = q
        /\ \A t \in SUBSET (1 .. Len(s)) : t # {} => iter[t] = Op(iter[t \ {Max(t)}], s[Max(t)])
    BY <2>4, LastPlace
  <2> HIDE DEF Iter
  <2>6. Iterates(iter, Drafts, F, q, s, Len(s))
    BY <1>3, <2>5, LastPlace DEF Iterates
  <2> QED
    BY <1>2, <1>3, <2>1, <2>6, FoldLeftIs
<1>5. FoldsOn(F, q, Drafts, Spoken)
  BY <1>2, <1>3, FoldMore
<1>6. ASSUME NEW s \in Seq(Spoken), NEW e \in Spoken
      PROVE  LinesOf(Append(s, e)) = Op(LinesOf(s), e)
  BY <1>3, <1>4, <1>5 DEF FoldsOn
<1>7. LinesOf(<<>>) = q /\ \A s \in Seq(Spoken) : LinesOf(s) \in Drafts
  BY <1>4, <1>5 DEF FoldsOn
<1> QED
  BY <1>6, <1>7, Zenon DEF Op, q

\* The answers to commands, one by one.
LEMMA AnswersSteps ==
    ASSUME NEW none \in Seq(Replies)
    PROVE  /\ Answers(none, <<>>) = none
           /\ \A s \in Seq(Requested) : Answers(none, s) \in Seq(Replies)
           /\ \A s \in Seq(Requested), e \in Requested :
                 Answers(none, Append(s, e))
                   = Answers(none, s) \o Answer(e)
<1> DEFINE Op(r, e) == r \o Answer(e)
           F == [p \in Seq(Replies) \X Requested |-> Op(p[1], p[2])]
           q == none
<1>1. ASSUME NEW r \in Seq(Replies), NEW e \in Requested PROVE Op(r, e) \in Seq(Replies)
  BY AnswerIs, ConcatProperties
<1>2. q \in Seq(Replies)
  OBVIOUS
<1> HIDE DEF Op, q
<1>3. IsStep(F, Seq(Replies), Requested) /\ \A r \in Seq(Replies), e \in Requested : F[<<r, e>>] = Op(r, e)
  BY <1>1 DEF IsStep
<1> HIDE DEF F
<1>4. ASSUME NEW s \in Seq(Requested) PROVE Answers(none, s) = Fold(F, q, s)
  <2> DEFINE Iter(g) == g = [t \in SUBSET DOMAIN s |->
                               IF t = {} THEN q ELSE Op(g[t \ {Max(t)}], s[Max(t)])]
             iter == CHOOSE g : Iter(g)
  <2>1. Answers(none, s) = iter[DOMAIN s]
    BY Zenon DEF Answers, FoldLeft, MapThenFoldSet, Op, q
  <2>2. PICK g \in [SUBSET (1 .. Len(s)) -> Seq(Replies)] : IsFold(g, F, q, s, Len(s))
    BY <1>2, <1>3, FoldIsThere DEF IsStep
  <2>3. Iter(g)
    BY <1>3, <2>2, LastPlace DEF IsFold
  <2>4. Iter(iter)
    BY <2>3
  <2> HIDE DEF iter
  <2>5. /\ iter[{}] = q
        /\ \A t \in SUBSET (1 .. Len(s)) : t # {} => iter[t] = Op(iter[t \ {Max(t)}], s[Max(t)])
    BY <2>4, LastPlace
  <2> HIDE DEF Iter
  <2>6. Iterates(iter, Seq(Replies), F, q, s, Len(s))
    BY <1>3, <2>5, LastPlace DEF Iterates
  <2> QED
    BY <1>2, <1>3, <2>1, <2>6, FoldLeftIs
<1>5. FoldsOn(F, q, Seq(Replies), Requested)
  BY <1>2, <1>3, FoldMore
<1>6. ASSUME NEW s \in Seq(Requested), NEW e \in Requested
      PROVE  Answers(none, Append(s, e)) = Op(Answers(none, s), e)
  BY <1>3, <1>4, <1>5 DEF FoldsOn
<1>7. Answers(none, <<>>) = q /\ \A s \in Seq(Requested) : Answers(none, s) \in Seq(Replies)
  BY <1>4, <1>5 DEF FoldsOn
<1> QED
  BY <1>6, <1>7, Zenon DEF Op, q

\* The types of the lines received.
Rows == [html : Made, charset : Names \cup {"UTF-8"}, prompted : BOOLEAN]
Received == [rows : Seq(Rows), prompted : BOOLEAN]
NoRows == [rows |-> <<>>, prompted |-> FALSE]
ReceivedBy(es) == FoldLeft(ToRows, NoRows, es)

\* An event adds a line, or says that there was a prompt.
LEMMA ToRowsIs ==
    ASSUME NEW st \in Received, NEW e \in Events
    PROVE  /\ ToRows(st, e) \in Received
           /\ e.kind = "line" =>
                ToRows(st, e) = [rows |-> Append(st.rows, [html |-> e.html, charset |-> e.charset,
                                                           prompted |-> st.prompted]),
                                 prompted |-> FALSE]
           /\ e.kind = "prompt" => ToRows(st, e) = [rows |-> st.rows, prompted |-> TRUE]
           /\ e.kind = "echo" => ToRows(st, e) = st
<1> DEFINE row == [html |-> e.html, charset |-> e.charset, prompted |-> st.prompted]
           rs == Append(st.rows, row)
<1>1. row \in Rows
  BY DEF Received, Events, Rows
<1>2. st.rows \in Seq(Rows)
  BY DEF Received
<1> HIDE DEF row
<1>3. rs \in Seq(Rows)
  BY <1>1, <1>2, AppendProperties
<1>4. e.kind \in {"line", "prompt", "echo"}
  BY DEF Events
<1>5. CASE e.kind = "line"
  <2>1. ToRows(st, e) = [rows |-> rs, prompted |-> FALSE]
    BY <1>5 DEF ToRows, row
  <2> HIDE DEF rs
  <2>2. ToRows(st, e) \in Received /\ e.kind # "prompt" /\ e.kind # "echo"
    BY <1>3, <1>5, <2>1 DEF Received
  <2> QED
    BY <2>1, <2>2, Zenon DEF rs, row
<1>6. CASE e.kind = "prompt"
  <2>1. ToRows(st, e) = [rows |-> st.rows, prompted |-> TRUE]
    BY <1>6 DEF ToRows, Received
  <2> QED
    BY <1>2, <1>6, <2>1 DEF Received
<1>7. CASE e.kind = "echo"
  BY <1>7 DEF ToRows
<1> QED
  BY <1>4, <1>5, <1>6, <1>7

\* The lines received, event by event.
LEMMA ReceivedSteps ==
    /\ ReceivedBy(<<>>) = NoRows
    /\ \A s \in Seq(Events) : ReceivedBy(s) \in Received
    /\ \A s \in Seq(Events), e \in Events :
          ReceivedBy(Append(s, e))
            = ToRows(ReceivedBy(s), e)
<1> DEFINE Op(r, e) == ToRows(r, e)
           F == [p \in Received \X Events |-> Op(p[1], p[2])]
           q == NoRows
<1>1. ASSUME NEW r \in Received, NEW e \in Events PROVE Op(r, e) \in Received
  BY ToRowsIs
<1>2. q \in Received
  BY EmptySeq DEF Received, NoRows
<1> HIDE DEF Op, q
<1>3. IsStep(F, Received, Events) /\ \A r \in Received, e \in Events : F[<<r, e>>] = Op(r, e)
  BY <1>1 DEF IsStep
<1> HIDE DEF F
<1>4. ASSUME NEW s \in Seq(Events) PROVE ReceivedBy(s) = Fold(F, q, s)
  <2> DEFINE Iter(g) == g = [t \in SUBSET DOMAIN s |->
                               IF t = {} THEN q ELSE Op(g[t \ {Max(t)}], s[Max(t)])]
             iter == CHOOSE g : Iter(g)
  <2>1. ReceivedBy(s) = iter[DOMAIN s]
    BY Zenon DEF ReceivedBy, FoldLeft, MapThenFoldSet, Op, q
  <2>2. PICK g \in [SUBSET (1 .. Len(s)) -> Received] : IsFold(g, F, q, s, Len(s))
    BY <1>2, <1>3, FoldIsThere DEF IsStep
  <2>3. Iter(g)
    BY <1>3, <2>2, LastPlace DEF IsFold
  <2>4. Iter(iter)
    BY <2>3
  <2> HIDE DEF iter
  <2>5. /\ iter[{}] = q
        /\ \A t \in SUBSET (1 .. Len(s)) : t # {} => iter[t] = Op(iter[t \ {Max(t)}], s[Max(t)])
    BY <2>4, LastPlace
  <2> HIDE DEF Iter
  <2>6. Iterates(iter, Received, F, q, s, Len(s))
    BY <1>3, <2>5, LastPlace DEF Iterates
  <2> QED
    BY <1>2, <1>3, <2>1, <2>6, FoldLeftIs
<1>5. FoldsOn(F, q, Received, Events)
  BY <1>2, <1>3, FoldMore
<1>6. ASSUME NEW s \in Seq(Events), NEW e \in Events
      PROVE  ReceivedBy(Append(s, e)) = Op(ReceivedBy(s), e)
  BY <1>3, <1>4, <1>5 DEF FoldsOn
<1>7. ReceivedBy(<<>>) = q /\ \A s \in Seq(Events) : ReceivedBy(s) \in Received
  BY <1>4, <1>5 DEF FoldsOn
<1> QED
  BY <1>6, <1>7, Zenon DEF Op, q

\* The place that the parser of raw_read is at, in what the MUD says.
Stands(rd, p) ==
    \/ p \in {"text", "DO", "WILL", "SB"} /\ rd.mode = p
    \/ p = "IAC" /\ rd.mode = "iac"
    \/ p \in {"DONT", "WONT"} /\ rd.mode = "skip" /\ rd.need = 1
    \/ p = "TTYPE" /\ rd.mode = "ttype" /\ rd.need = 3
    \/ p = "SEND" /\ rd.mode = "ttype" /\ rd.need = 2
    \/ p = "SEND IAC" /\ rd.mode = "ttype" /\ rd.need = 1
    \/ p = "MSSP" /\ rd.mode = "mssp"
    \/ p = "MSSP IAC" /\ rd.mode = "mssp2"
    \/ p = "CHARSET" /\ rd.mode = "charset"
    \/ p = "ACCEPTED" /\ rd.mode = "name"
    \/ p = "ACCEPTED IAC" /\ rd.mode = "named"
    \/ p = "REJECTED" /\ rd.mode = "skip" /\ rd.need = 2
    \/ p = "REJECTED IAC" /\ rd.mode = "skip" /\ rd.need = 1

\* What the byte x does to a reading u, when it leads to place p: its text is read, its
\* command answered, after a greeting if it is the first.
Greeting(u, r) == IF r.tried /\ ~u.tried THEN <<"WILL CHARSET">> ELSE <<>>
IsRead(u, x, r) ==
    /\ x.say = Nothing => r.lines = u.lines /\ r.buff = u.buff
    /\ x.say = "LF" => r.lines = Append(u.lines, [text |-> u.buff, charset |-> u.charset])
                       /\ r.buff = <<>>
    /\ x.say \notin {Nothing, "LF"} => r.lines = u.lines /\ r.buff = Append(u.buff, x.say)
IsTaken(u, x, p, r) ==
    /\ Stands(r, p) /\ r.used = u.used
    /\ p # "text" => r.end = u.end
    /\ IsRead(u, x, r)
    /\ r.tried <=> u.tried \/ x.ask # NoCommand \/ p \notin {"text", "IAC"}
    /\ r.replies = (u.replies \o Greeting(u, r)) \o Answer(x.ask)

\* What leads from text to where.
LEMMA FollowText ==
    ASSUME NEW x, Follow("text", x) # "nowhere"
    PROVE  /\ x.ask = NoCommand
           /\ x.b = "IAC" => x.say = Nothing /\ Follow("text", x) = "IAC"
           /\ x.b = "CR" => x.say = Nothing /\ Follow("text", x) = "text"
           /\ x.b \notin {"IAC", "CR"} => x.say = x.b /\ x.b # Nothing /\ Follow("text", x) = "text"
BY Zenon DEF Follow

\* What leads from an IAC to where.
LEMMA FollowIac ==
    ASSUME NEW x, Follow("IAC", x) # "nowhere"
    PROVE  /\ x.b \in Verbs => x.say = Nothing /\ x.ask = NoCommand /\ Follow("IAC", x) = x.b
           /\ x.b = "IAC" => x.say = "IAC" /\ x.ask = NoCommand /\ Follow("IAC", x) = "text"
           /\ x.b \notin Verbs /\ x.b # "IAC" =>
                /\ x.b # Nothing /\ x.say = Nothing /\ x.ask = <<x.b, Nothing>>
                /\ Follow("IAC", x) = "text"
<1>1. "IAC" \notin Verbs
  BY Zenon DEF Verbs
<1>2. Follow("IAC", x) =
        IF x.b \in Verbs THEN IF x.say = Nothing /\ x.ask = NoCommand THEN x.b ELSE "nowhere"
        ELSE IF (IF x.b = "IAC" THEN "IAC" # Nothing /\ x.say = "IAC" /\ x.ask = NoCommand
                 ELSE x.b # Nothing /\ x.say = Nothing /\ x.ask = <<x.b, Nothing>>)
             THEN "text" ELSE "nowhere"
  BY Zenon DEF Follow
<1> QED
  BY <1>1, <1>2, Zenon

\* What leads through an option or a subnegotiation.
LEMMA FollowRest ==
    ASSUME NEW x, NEW at \in Places \ {"text", "IAC"}, Follow(at, x) # "nowhere"
    PROVE  /\ x.say = Nothing
           /\ at \in {"DO", "DONT", "WILL", "WONT"} => Follow(at, x) = "text" /\ x.ask = <<at, x.b>>
           /\ at = "SB" => x.ask = NoCommand /\ Follow(at, x) = x.b /\ x.b \in {"TTYPE", "MSSP", "CHARSET"}
           /\ at = "TTYPE" => x.ask = NoCommand /\ Follow(at, x) = "SEND"
           /\ at = "SEND" => x.ask = NoCommand /\ Follow(at, x) = "SEND IAC"
           /\ at = "SEND IAC" => x.ask = <<"SB", "TTYPE">> /\ Follow(at, x) = "text"
           /\ at = "MSSP" => x.ask = NoCommand
                             /\ Follow(at, x) = (IF x.b = "IAC" THEN "MSSP IAC" ELSE "MSSP")
           /\ at = "MSSP IAC" =>
                IF x.b = "IAC" THEN x.ask = NoCommand /\ Follow(at, x) = "MSSP"
                ELSE x.ask = <<"SB", "MSSP">> /\ Follow(at, x) = "text"
           /\ at = "CHARSET" => x.ask = NoCommand
                /\ Follow(at, x) = (IF x.b = "ACCEPTED" THEN "ACCEPTED" ELSE "REJECTED")
           /\ at = "ACCEPTED" => x.ask = NoCommand
                /\ Follow(at, x) = (IF x.b = "IAC" THEN "ACCEPTED IAC" ELSE "ACCEPTED")
           /\ at = "ACCEPTED IAC" =>
                x.ask = <<"SB", "CHARSET">> /\ x.b # "IAC" /\ Follow(at, x) = "text"
           /\ at = "REJECTED" => x.ask = NoCommand /\ Follow(at, x) = "REJECTED IAC"
           /\ at = "REJECTED IAC" => x.ask = <<"SB", "CHARSET">> /\ Follow(at, x) = "text"
           /\ at # "nowhere"
<1>1. CASE at \in {"DO", "DONT", "WILL", "WONT"}
  BY <1>1, Zenon DEF Follow
<1>2. CASE at = "SB"
  BY <1>2, Zenon DEF Follow
<1>3. CASE at \in {"TTYPE", "SEND", "SEND IAC"}
  BY <1>3, Zenon DEF Follow
<1>4. CASE at \in {"MSSP", "MSSP IAC"}
  BY <1>4, Zenon DEF Follow
<1>5. CASE at \in {"CHARSET", "ACCEPTED", "ACCEPTED IAC"}
  BY <1>5, Zenon DEF Follow
<1>6. CASE at \in {"REJECTED", "REJECTED IAC"}
  BY <1>6, Zenon DEF Follow
<1>7. CASE at = "nowhere"
  BY <1>7, Zenon DEF Follow
<1> QED
  BY <1>1, <1>2, <1>3, <1>4, <1>5, <1>6, <1>7, Zenon DEF Places

\* A byte of text is read as text.
LEMMA TextTaken ==
    ASSUME NEW u \in Readings, NEW x \in Bytes, u.mode = "text", Follow("text", x) # "nowhere",
           x.ask = NoCommand, Answer(NoCommand) = <<>>
    PROVE  IsTaken(u, x, Follow("text", x), OnText(u, x.b))
<1> DEFINE r == OnText(u, x.b)
<1>1. u.replies \in Seq(Replies) /\ u.buff \in Lines /\ u.lines \in Seq(ReadLines) /\ u.tried \in BOOLEAN
  BY ReadingFields
<1>2. ASSUME r.replies = u.replies, r.tried = u.tried
      PROVE  r.replies = (u.replies \o Greeting(u, r)) \o Answer(x.ask)
  <2>1. Greeting(u, r) = <<>>
    BY <1>2 DEF Greeting
  <2>2. u.replies \o <<>> = u.replies
    BY <1>1
  <2> QED
    BY <1>2, <2>1, <2>2
<1> DEFINE b == x.b
           e == IF Len(u.lines) + 1 >= MAX_LINES THEN "full" ELSE Nothing
<1>3. CASE b = "IAC"
  <2>1. x.say = Nothing /\ Follow("text", x) = "IAC"
    BY <1>3, FollowText
  <2>2. r = [u EXCEPT !.mode = "iac"]
    BY <1>3 DEF OnText
  <2>3. /\ r.mode = "iac" /\ r.used = u.used /\ r.end = u.end /\ r.lines = u.lines /\ r.buff = u.buff
        /\ r.tried = u.tried /\ r.replies = u.replies
    BY <2>2 DEF Readings
  <2>4. Nothing # "LF"
    BY Zenon DEF Nothing
  <2> HIDE DEF r
  <2>5. Stands(r, "IAC") /\ IsRead(u, x, r)
    BY <2>1, <2>3, <2>4, Zenon DEF Stands, IsRead
  <2>6. r.tried <=> u.tried \/ x.ask # NoCommand \/ "IAC" \notin {"text", "IAC"}
    BY <2>3, Zenon
  <2> QED
    BY <1>2, <2>1, <2>3, <2>5, <2>6, Zenon DEF IsTaken, r
<1>4. CASE b = "CR"
  <2>1. x.say = Nothing /\ Follow("text", x) = "text"
    BY <1>4, FollowText
  <2>2. r = u
    BY <1>4 DEF OnText
  <2>3. Nothing # "LF"
    BY Zenon DEF Nothing
  <2> HIDE DEF r
  <2>4. Stands(r, "text") /\ IsRead(u, x, r)
    BY <2>1, <2>2, <2>3, Zenon DEF Stands, IsRead
  <2>5. r.tried <=> u.tried \/ x.ask # NoCommand \/ "text" \notin {"text", "IAC"}
    BY <2>1, <2>2, <2>3, Zenon
  <2> QED
    BY <1>2, <2>1, <2>2, <2>3, <2>4, <2>5, Zenon DEF IsTaken, r
<1>5. CASE b = "LF"
  <2>1. x.say = "LF" /\ Nothing # "LF" /\ Follow("text", x) = "text"
    BY <1>5, FollowText
  <2> DEFINE l == [text |-> u.buff, charset |-> u.charset]
             ls == Append(u.lines, l)
  <2>2. r = [u EXCEPT !.lines = Append(@, l), !.buff = <<>>, !.end = e]
    <3>1. r = EndLine(u)
      BY <1>5 DEF OnText
    <3> HIDE DEF r
    <3> QED
      BY <3>1, Zenon DEF EndLine, Nothing
  <2> HIDE DEF r, e, l
  <2>3. [u EXCEPT !.lines = Append(@, l), !.buff = <<>>, !.end = e]
          = [u EXCEPT !.lines = ls, !.buff = <<>>, !.end = e]
    BY DEF Readings
  <2> HIDE DEF ls
  <2>4. /\ r.mode = "text" /\ r.used = u.used /\ r.lines = ls /\ r.buff = <<>>
        /\ r.tried = u.tried /\ r.replies = u.replies
    BY <2>2, <2>3 DEF Readings
  <2>5. r.lines = Append(u.lines, [text |-> u.buff, charset |-> u.charset])
    BY <2>4 DEF ls, l
  <2>6. Stands(r, "text") /\ IsRead(u, x, r)
    BY <2>1, <2>4, <2>5, Zenon DEF Stands, IsRead
  <2>7. r.tried <=> u.tried \/ x.ask # NoCommand \/ "text" \notin {"text", "IAC"}
    BY <2>1, <2>4, <2>5, Zenon
  <2> QED
    BY <1>2, <2>1, <2>4, <2>5, <2>6, <2>7, Zenon DEF IsTaken, r
<1>6. CASE b \notin {"IAC", "CR", "LF"}
  <2>1. x.say = b /\ b # Nothing /\ Follow("text", x) = "text"
    BY <1>6, FollowText
  <2> DEFINE s == Append(u.buff, b)
  <2>2. r = [u EXCEPT !.buff = Append(@, b)]
    BY <1>6 DEF OnText
  <2> HIDE DEF r
  <2>3. [u EXCEPT !.buff = Append(@, b)] = [u EXCEPT !.buff = s]
    BY DEF Readings
  <2> HIDE DEF s, b
  <2>4. /\ r.mode = "text" /\ r.used = u.used /\ r.lines = u.lines /\ r.buff = s
        /\ r.tried = u.tried /\ r.replies = u.replies
    BY <2>2, <2>3 DEF Readings
  <2>5. r.buff = Append(u.buff, x.say)
    BY <2>1, <2>4 DEF s
  <2>6. x.say \notin {Nothing, "LF"}
    BY <1>6, <2>1, Zenon
  <2>7. Stands(r, "text") /\ IsRead(u, x, r)
    BY <2>1, <2>4, <2>5, <2>6, Zenon DEF Stands, IsRead
  <2>8. r.tried <=> u.tried \/ x.ask # NoCommand \/ "text" \notin {"text", "IAC"}
    BY <2>1, <2>4, <2>5, <2>6, Zenon
  <2> QED
    BY <1>2, <2>1, <2>4, <2>5, <2>6, <2>7, <2>8, Zenon DEF IsTaken, r, b
<1> QED
  BY <1>3, <1>4, <1>5, <1>6

\* What the commands are answered with.
LEMMA AnswersAre ==
    /\ Answer(NoCommand) = <<>> /\ \A b : Answer(<<b, Nothing>>) = <<>>
    /\ \A b : Answer(<<"DO", b>>) = IacDo(b)
    /\ \A b : Answer(<<"WILL", b>>) = IacWill(b)
    /\ \A b : Answer(<<"DONT", b>>) = <<>> /\ Answer(<<"WONT", b>>) = <<>>
    /\ Answer(<<"SB", "TTYPE">>) = <<"SB TTYPE Banana">>
    /\ Answer(<<"SB", "MSSP">>) = <<>> /\ Answer(<<"SB", "CHARSET">>) = <<>>
<1>1. \A a, b, c, d : <<a, b>> = <<c, d>> <=> a = c /\ b = d
  OBVIOUS
<1> DEFINE Pair(a, b) == <<a, b>>
<1>2. ASSUME NEW v, NEW b
      PROVE  Answer(Pair(v, b)) =
               CASE v = "DO" /\ b = "TTYPE"     -> <<"WILL TTYPE">>
                 [] v = "DO" /\ b = "NAWS"      -> <<"WILL NAWS", "SB NAWS">>
                 [] v = "DO" /\ b = "LINEMODE"  -> <<"WONT LINEMODE">>
                 [] v = "DO" /\ b = "CHARSET"   -> <<"SB CHARSET REQUEST">>
                 [] v = "WILL" /\ b = "NAWS"    -> <<"DO NAWS", "SB NAWS">>
                 [] v = "WILL" /\ b = "MSSP"    -> <<"DO MSSP">>
                 [] v = "WILL" /\ b = "EOR"     -> <<"DO EOR">>
                 [] v = "WILL" /\ b = "CHARSET" -> <<"DO CHARSET">>
                 [] v = "SB" /\ b = "TTYPE"     -> <<"SB TTYPE Banana">>
                 [] OTHER                       -> <<>>
  <2>1. /\ Pair(v, b) = <<"DO", "TTYPE">> <=> v = "DO" /\ b = "TTYPE"
        /\ Pair(v, b) = <<"DO", "NAWS">> <=> v = "DO" /\ b = "NAWS"
        /\ Pair(v, b) = <<"DO", "LINEMODE">> <=> v = "DO" /\ b = "LINEMODE"
        /\ Pair(v, b) = <<"DO", "CHARSET">> <=> v = "DO" /\ b = "CHARSET"
        /\ Pair(v, b) = <<"WILL", "NAWS">> <=> v = "WILL" /\ b = "NAWS"
        /\ Pair(v, b) = <<"WILL", "MSSP">> <=> v = "WILL" /\ b = "MSSP"
        /\ Pair(v, b) = <<"WILL", "EOR">> <=> v = "WILL" /\ b = "EOR"
        /\ Pair(v, b) = <<"WILL", "CHARSET">> <=> v = "WILL" /\ b = "CHARSET"
        /\ Pair(v, b) = <<"SB", "TTYPE">> <=> v = "SB" /\ b = "TTYPE"
    OBVIOUS
  <2> HIDE DEF Pair
  <2> QED
    BY <2>1, Zenon DEF Answer
<1>3. NoCommand = Pair(Nothing, Nothing)
  BY Zenon DEF NoCommand
<1>4. \A v, b : Pair(v, b) = <<v, b>>
  OBVIOUS
<1> HIDE DEF Pair
<1>5. \A b : Answer(Pair(b, Nothing)) = <<>>
  BY <1>2, Zenon DEF Nothing
<1>6. \A b : Answer(Pair("DO", b)) = IacDo(b)
  BY <1>2, Zenon DEF IacDo
<1>7. \A b : Answer(Pair("WILL", b)) = IacWill(b)
  BY <1>2, Zenon DEF IacWill
<1>8. \A b : Answer(Pair("DONT", b)) = <<>> /\ Answer(Pair("WONT", b)) = <<>>
  BY <1>2, Zenon
<1>9. /\ Answer(Pair("SB", "TTYPE")) = <<"SB TTYPE Banana">>
      /\ Answer(Pair("SB", "MSSP")) = <<>> /\ Answer(Pair("SB", "CHARSET")) = <<>>
  BY <1>2, Zenon
<1> QED
  BY <1>3, <1>4, <1>5, <1>6, <1>7, <1>8, <1>9, Zenon

\* A greeting changes nothing else.
LEMMA GreetIs ==
    ASSUME NEW u \in Readings
    PROVE  LET g == Greet(u)
           IN  /\ g \in Readings /\ g.tried = TRUE
               /\ g.replies = u.replies \o (IF ~u.tried THEN <<"WILL CHARSET">> ELSE <<>>)
               /\ g.buff = u.buff /\ g.lines = u.lines /\ g.used = u.used /\ g.end = u.end
<1> DEFINE g == Greet(u)
           hello == "WILL CHARSET"
           s == Append(u.replies, hello)
<1>1. u.replies \in Seq(Replies) /\ hello \in Replies /\ u.tried \in BOOLEAN
  BY ReadingFields, RepliesAreKnown, Zenon
<1>2. g = IF u.tried THEN u ELSE [u EXCEPT !.tried = TRUE, !.replies = Append(@, hello)]
  BY Zenon DEF Greet
<1> HIDE DEF g, hello
<1>3. s \in Seq(Replies) /\ s = u.replies \o <<hello>> /\ u.replies \o <<>> = u.replies
  BY <1>1
<1>4. [u EXCEPT !.tried = TRUE, !.replies = Append(@, hello)]
        = [u EXCEPT !.tried = TRUE, !.replies = s]
  BY DEF Readings
<1> HIDE DEF s
<1>5. CASE u.tried
  <2>1. g = u
    BY <1>2, <1>5
  <2> QED
    BY <1>1, <1>3, <1>5, <2>1, Zenon DEF g
<1>6. CASE ~u.tried
  <2>1. g = [u EXCEPT !.tried = TRUE, !.replies = s]
    BY <1>2, <1>4, <1>6
  <2>2. /\ g \in Readings /\ g.tried = TRUE /\ g.replies = s
        /\ g.buff = u.buff /\ g.lines = u.lines /\ g.used = u.used /\ g.end = u.end
    BY <1>3, <2>1 DEF Readings
  <2> QED
    BY <1>3, <1>6, <2>2, Zenon DEF g, hello
<1> QED
  BY <1>5, <1>6

\* A byte after an IAC is an IAC of the text or is greeted.
LEMMA IacTaken ==
    ASSUME NEW u \in Readings, NEW x \in Bytes, u.mode = "iac", Follow("IAC", x) # "nowhere"
    PROVE  IsTaken(u, x, Follow("IAC", x), OnIac(u, x.b))
<1> DEFINE r == OnIac(u, x.b)
           b == x.b
           g == Greet(u)
           p == Follow("IAC", x)
<1>1. u.replies \in Seq(Replies) /\ u.buff \in Lines /\ u.lines \in Seq(ReadLines) /\ u.tried \in BOOLEAN
  BY ReadingFields
<1>2. Nothing # "LF" /\ Nothing # "IAC"
  BY Zenon DEF Nothing
<1>3. CASE b = "IAC"
  <2>1. x.say = "IAC" /\ x.ask = NoCommand /\ p = "text"
    BY <1>3, FollowIac
  <2> DEFINE iac == "IAC"
             s == Append(u.buff, iac)
  <2>2. r = [u EXCEPT !.mode = "text", !.buff = Append(@, iac)]
    BY <1>3 DEF OnIac, EscapedIAC
  <2> HIDE DEF r
  <2>3. [u EXCEPT !.mode = "text", !.buff = Append(@, iac)] = [u EXCEPT !.mode = "text", !.buff = s]
    BY DEF Readings
  <2> HIDE DEF s
  <2>4. /\ r.mode = "text" /\ r.used = u.used /\ r.lines = u.lines /\ r.buff = s
        /\ r.tried = u.tried /\ r.replies = u.replies
    BY <2>2, <2>3 DEF Readings
  <2>5. Stands(r, "text") /\ IsRead(u, x, r)
    BY <1>2, <2>1, <2>4, Zenon DEF Stands, IsRead, s
  <2>6. r.tried <=> u.tried \/ x.ask # NoCommand \/ "text" \notin {"text", "IAC"}
    BY <2>1, <2>4, Zenon
  <2>7. r.replies = (u.replies \o Greeting(u, r)) \o Answer(x.ask)
    <3>1. Greeting(u, r) = <<>> /\ Answer(x.ask) = <<>>
      BY <2>1, <2>4, AnswersAre, Zenon DEF Greeting
    <3>2. u.replies \o <<>> = u.replies
      BY <1>1
    <3> QED
      BY <2>4, <3>1, <3>2, Zenon
  <2> QED
    BY <2>1, <2>4, <2>5, <2>6, <2>7, Zenon DEF IsTaken, r, p
<1>4. CASE b # "IAC"
  <2>1. /\ g \in Readings /\ g.tried = TRUE
        /\ g.replies = u.replies \o (IF ~u.tried THEN <<"WILL CHARSET">> ELSE <<>>)
        /\ g.buff = u.buff /\ g.lines = u.lines /\ g.used = u.used /\ g.end = u.end
    BY GreetIs
  <2>2. x.say = Nothing /\ p \in Verbs \cup {"text"} /\ (p \in Verbs <=> b \in Verbs)
        /\ (b \in Verbs => p = b /\ x.ask = NoCommand)
        /\ (b \notin Verbs => p = "text" /\ x.ask = <<b, Nothing>> /\ b # Nothing)
    <3>1. "text" \notin Verbs
      BY Zenon DEF Verbs
    <3> QED
      BY <1>4, <3>1, FollowIac, Zenon
  <2>3. Answer(x.ask) = <<>>
    BY <2>2, AnswersAre, Zenon
  <2>4. r = CASE b \in {"DO", "WILL", "SB"} -> [g EXCEPT !.mode = b]
              [] b \in {"DONT", "WONT"}     -> [g EXCEPT !.mode = "skip", !.need = 1]
              [] b \in {"EOR", "GA"}        -> [g EXCEPT !.mode = "text", !.prompt = TRUE,
                                                         !.end = "prompt"]
              [] OTHER                      -> [g EXCEPT !.mode = "text"]
    BY <1>4, Zenon DEF OnIac
  <2> HIDE DEF r, g, b, p
  <2>5. /\ r.used = g.used /\ r.lines = g.lines /\ r.buff = g.buff /\ r.tried = TRUE
        /\ r.replies = g.replies /\ Stands(r, p) /\ (p # "text" => r.end = g.end)
    <3>1. CASE b \in {"DO", "WILL", "SB"}
      <4>1. r = [g EXCEPT !.mode = b] /\ p = b
        BY <2>2, <2>4, <3>1 DEF Verbs
      <4>2. /\ r.used = g.used /\ r.lines = g.lines /\ r.buff = g.buff /\ r.tried = TRUE
            /\ r.replies = g.replies /\ r.mode = b /\ r.end = g.end
        BY <2>1, <4>1 DEF Readings
      <4> QED
        BY <3>1, <4>1, <4>2, Zenon DEF Stands
    <3>2. CASE b \in {"DONT", "WONT"}
      <4>1. r = [g EXCEPT !.mode = "skip", !.need = 1] /\ p = b
        BY <2>2, <2>4, <3>2 DEF Verbs
      <4>2. /\ r.used = g.used /\ r.lines = g.lines /\ r.buff = g.buff /\ r.tried = TRUE
            /\ r.replies = g.replies /\ r.mode = "skip" /\ r.need = 1 /\ r.end = g.end
        BY <2>1, <4>1 DEF Readings
      <4> QED
        BY <3>2, <4>1, <4>2, Zenon DEF Stands
    <3>3. CASE b \notin Verbs
      <4>1. r \in {[g EXCEPT !.mode = "text", !.prompt = TRUE, !.end = "prompt"],
                   [g EXCEPT !.mode = "text"]}
        BY <2>4, <3>3, Zenon DEF Verbs
      <4>2. /\ r.used = g.used /\ r.lines = g.lines /\ r.buff = g.buff /\ r.tried = TRUE
            /\ r.replies = g.replies /\ r.mode = "text"
        <5>1. CASE r = [g EXCEPT !.mode = "text", !.prompt = TRUE, !.end = "prompt"]
          BY <2>1, <5>1 DEF Readings
        <5>2. CASE r = [g EXCEPT !.mode = "text"]
          BY <2>1, <5>2 DEF Readings
        <5> QED
          BY <4>1, <5>1, <5>2
      <4>3. p = "text"
        BY <2>2, <3>3
      <4> QED
        BY <4>2, <4>3, Zenon DEF Stands
    <3> QED
      BY <3>1, <3>2, <3>3 DEF Verbs
  <2>6. IsRead(u, x, r)
    BY <1>2, <2>1, <2>2, <2>5, Zenon DEF IsRead
  <2>7. x.ask # NoCommand \/ p \notin {"text", "IAC"}
    <3>1. CASE b \in Verbs
      BY <2>2, <3>1, Zenon DEF Verbs
    <3>2. CASE b \notin Verbs
      <4>1. <<b, Nothing>> # <<Nothing, Nothing>>
        BY <2>2, <3>2
      <4> QED
        BY <2>2, <3>2, <4>1, Zenon DEF NoCommand
    <3> QED
      BY <3>1, <3>2
  <2>8. r.replies = (u.replies \o Greeting(u, r)) \o Answer(x.ask)
    <3> DEFINE hello == IF ~u.tried THEN <<"WILL CHARSET">> ELSE <<>>
    <3>1. Greeting(u, r) = hello
      BY <2>5, Zenon DEF Greeting
    <3>2. hello \in Seq(Replies)
      <4>1. "WILL CHARSET" \in Replies
        BY RepliesAreKnown
      <4>2. (\A a \in Replies : <<a>> \in Seq(Replies)) /\ <<>> \in Seq(Replies)
        OBVIOUS
      <4> QED
        BY <4>1, <4>2, Zenon
    <3> HIDE DEF hello
    <3>3. (u.replies \o hello) \o <<>> = u.replies \o hello
      BY <1>1, <3>2
    <3> QED
      BY <2>1, <2>3, <2>5, <3>1, <3>3, Zenon DEF hello
  <2> QED
    BY <2>1, <2>5, <2>6, <2>7, <2>8, Zenon DEF IsTaken, r, p, b
<1> QED
  BY <1>3, <1>4

\* A byte inside a command does not touch the text.
LEMMA RestTaken ==
    ASSUME NEW u \in Readings, NEW x \in Bytes, NEW at \in Places \ {"text", "IAC"},
           Stands(u, at), u.tried, Follow(at, x) # "nowhere", NEW junk \in BOOLEAN
    PROVE  IsTaken(u, x, Follow(at, x), OnByte(u, x.b, junk))
<1> DEFINE b == x.b
           p == Follow(at, x)
           r == OnByte(u, b, junk)
           Same(v) == /\ v.used = u.used /\ v.end = u.end /\ v.lines = u.lines /\ v.buff = u.buff
                      /\ v.tried = TRUE
           mssp == [u EXCEPT !.mode = IF b = "IAC" THEN "mssp2" ELSE "mssp"]
           cs == IF junk THEN Junk ELSE u.name
           none == ""
<1>1. u.replies \in Seq(Replies) /\ u.tried = TRUE /\ u.need \in Int
  BY ReadingFields
<1>2. x.say = Nothing
  BY FollowRest
<1>3. ASSUME Same(r), Stands(r, p), r.replies = u.replies \o Answer(x.ask),
             x.ask # NoCommand \/ p \notin {"text", "IAC"}
      PROVE  IsTaken(u, x, p, r)
  <2>1. IsRead(u, x, r)
    <3>1. Nothing # "LF"
      BY Zenon DEF Nothing
    <3> QED
      BY <1>2, <1>3, <3>1, Zenon DEF IsRead
  <2>2. r.replies = (u.replies \o Greeting(u, r)) \o Answer(x.ask)
    <3>1. Greeting(u, r) = <<>>
      BY <1>1, Zenon DEF Greeting
    <3>2. u.replies \o <<>> = u.replies
      BY <1>1
    <3> QED
      BY <1>3, <3>1, <3>2, Zenon
  <2> QED
    BY <1>1, <1>3, <2>1, <2>2, Zenon DEF IsTaken
<1>4. \A a \in Seq(Replies) : Same(Reply(u, a)) /\ Reply(u, a).mode = "text"
                             /\ Reply(u, a).replies = u.replies \o a
  <2> SUFFICES ASSUME NEW a \in Seq(Replies)
               PROVE  Same(Reply(u, a)) /\ Reply(u, a).mode = "text"
                      /\ Reply(u, a).replies = u.replies \o a
    OBVIOUS
  <2> DEFINE s == u.replies \o a
  <2>1. Reply(u, a) = [u EXCEPT !.replies = s, !.mode = "text"]
    BY DEF Reply, Readings
  <2> HIDE DEF s
  <2>2. Same(Reply(u, a)) /\ Reply(u, a).mode = "text" /\ Reply(u, a).replies = s
    BY <1>1, <2>1 DEF Readings
  <2> QED
    BY <2>2 DEF s
<1>5. \A m : Same([u EXCEPT !.mode = m]) /\ [u EXCEPT !.mode = m].mode = m
             /\ [u EXCEPT !.mode = m].replies = u.replies /\ [u EXCEPT !.mode = m].need = u.need
  BY <1>1 DEF Readings
<1>7. u.replies \o <<>> = u.replies
  BY <1>1
<1>8. Nothing # "DO" /\ Nothing # "DONT" /\ Nothing # "WILL" /\ Nothing # "WONT" /\ Nothing # "SB"
  BY Zenon DEF Nothing
<1>9. \A v, w : v # Nothing => <<v, w>> # NoCommand
  <2>1. \A v, w : <<v, w>> = <<Nothing, Nothing>> => v = Nothing
    OBVIOUS
  <2> QED
    BY <2>1, Zenon DEF NoCommand
<1> DEFINE text == "text"
<1>10. ASSUME Same(r), r.mode = "text", r.replies = u.replies \o Answer(x.ask), p = "text",
              x.ask # NoCommand
       PROVE  IsTaken(u, x, p, r)
  <2>1. Stands(r, p)
    BY <1>10, Zenon DEF Stands
  <2> HIDE DEF r, p, Same
  <2> QED
    BY <1>3, <1>10, <2>1, Zenon
<1>11. ASSUME Same(r), Stands(r, p), r.replies = u.replies, p \notin {"text", "IAC"},
              x.ask = NoCommand
       PROVE  IsTaken(u, x, p, r)
  <2>1. r.replies = u.replies \o Answer(x.ask)
    BY <1>7, <1>11, AnswersAre, Zenon
  <2> HIDE DEF r, p, Same
  <2> QED
    BY <1>3, <1>11, <2>1, Zenon
<1> HIDE DEF Same
<1>12. CASE at \in {"DO", "WILL"}
  <2>1. p = "text" /\ x.ask = <<at, b>>
    BY <1>12, FollowRest
  <2>2. u.mode = at
    BY <1>12, Zenon DEF Stands
  <2>3. r = Reply(u, Answer(x.ask))
    <3>1. CASE at = "DO"
      BY <2>1, <2>2, <3>1, AnswersAre, Zenon DEF OnByte
    <3>2. CASE at = "WILL"
      BY <2>1, <2>2, <3>2, AnswersAre, Zenon DEF OnByte
    <3> QED
      BY <1>12, <3>1, <3>2
  <2>4. Answer(x.ask) \in Seq(Replies) /\ x.ask # NoCommand
    BY <1>8, <1>9, <1>12, <2>1, AnswerIs, Zenon
  <2> HIDE DEF r, p
  <2> QED
    BY <1>4, <1>10, <2>1, <2>3, <2>4, Zenon DEF r, p
<1> DEFINE ttype == u.mode = "ttype"
           back == IF ttype THEN <<"SB TTYPE Banana">> ELSE <<>>
           z == [u EXCEPT !.need = 0]
<1>13. /\ u.mode \in {"skip", "ttype"} => r = OnSkip(u)
       /\ u.need = 1 => OnSkip(u) = Reply(z, back)
       /\ u.need \in {2, 3} => OnSkip(u) = [u EXCEPT !.need = u.need - 1]
  <2>1. u.mode \in {"skip", "ttype"} => r = OnSkip(u)
    BY Zenon DEF OnByte
  <2>2. 1 \in Int /\ ~(1 > 1) /\ 2 > 1 /\ 3 > 1
    OBVIOUS
  <2>3. u.need = 1 => OnSkip(u) = Reply(z, back)
    BY <2>2, Zenon DEF OnSkip
  <2>4. u.need \in {2, 3} => OnSkip(u) = [u EXCEPT !.need = @ - 1]
    BY <2>2, Zenon DEF OnSkip
  <2>5. [u EXCEPT !.need = @ - 1] = [u EXCEPT !.need = u.need - 1]
    BY DEF Readings
  <2> QED
    BY <2>1, <2>3, <2>4, <2>5, Zenon
<1>14. ASSUME u.need = 1, u.mode \in {"skip", "ttype"}
       PROVE  Same(r) /\ r.mode = "text" /\ r.replies = u.replies \o back
  <2>1. back \in Seq(Replies)
    BY RepliesAreKnown, Zenon
  <2>2. r = Reply(z, back)
    BY <1>13, <1>14, Zenon
  <2> HIDE DEF r, back
  <2>3. Reply(z, back) = [z EXCEPT !.replies = @ \o back, !.mode = "text"]
    BY DEF Reply
  <2> DEFINE s == u.replies \o back
  <2>4. [z EXCEPT !.replies = @ \o back, !.mode = "text"] = [u EXCEPT !.need = 0, !.replies = s, !.mode = "text"]
    BY DEF Readings
  <2> HIDE DEF s, z
  <2>5. r = [u EXCEPT !.need = 0, !.replies = s, !.mode = "text"]
    BY <2>2, <2>3, <2>4
  <2>6. Same(r) /\ r.mode = "text" /\ r.replies = s
    BY <1>1, <2>5 DEF Readings, Same
  <2> QED
    BY <2>6 DEF s
<1>15. ASSUME NEW n \in {2, 3}, u.need = n, u.mode \in {"skip", "ttype"}
       PROVE  Same(r) /\ r.mode = u.mode /\ r.need = n - 1 /\ r.replies = u.replies
  <2>1. r = [u EXCEPT !.need = n - 1]
    BY <1>13, <1>15, Zenon
  <2> HIDE DEF r
  <2> QED
    BY <1>1, <2>1 DEF Readings, Same
<1> HIDE DEF z
<1>16. CASE at \in {"DONT", "WONT", "SEND IAC", "REJECTED IAC"}
  <2>1. p = "text"
    BY <1>16, FollowRest
  <2>2. u.need = 1 /\ u.mode = (IF at = "SEND IAC" THEN "ttype" ELSE "skip")
    BY <1>16, Zenon DEF Stands
  <2>3. Answer(x.ask) = back /\ x.ask # NoCommand
    <3>1. CASE at \in {"DONT", "WONT"}
      <4>1. x.ask = <<at, b>>
        BY <3>1, FollowRest
      <4> QED
        BY <1>8, <1>9, <2>2, <3>1, <4>1, AnswersAre, Zenon
    <3>2. CASE at = "SEND IAC"
      <4>1. x.ask = <<"SB", "TTYPE">>
        BY <3>2, FollowRest
      <4> QED
        BY <1>8, <1>9, <2>2, <3>2, <4>1, AnswersAre, Zenon
    <3>3. CASE at = "REJECTED IAC"
      <4>1. x.ask = <<"SB", "CHARSET">>
        BY <3>3, FollowRest
      <4> QED
        BY <1>8, <1>9, <2>2, <3>3, <4>1, AnswersAre, Zenon
    <3> QED
      BY <1>16, <3>1, <3>2, <3>3
  <2>4. u.mode \in {"skip", "ttype"}
    BY <2>2
  <2> HIDE DEF r, p, back, ttype
  <2> QED
    BY <1>10, <1>14, <2>1, <2>2, <2>3, <2>4, Zenon DEF r, p
<1>17. CASE at \in {"TTYPE", "SEND", "REJECTED"}
  <2>1. x.ask = NoCommand /\ p = (CASE at = "TTYPE" -> "SEND" [] at = "SEND" -> "SEND IAC"
                                    [] OTHER -> "REJECTED IAC")
    BY <1>17, FollowRest, Zenon
  <2>2. u.need = (IF at = "TTYPE" THEN 3 ELSE 2) /\ u.mode = (IF at = "REJECTED" THEN "skip" ELSE "ttype")
    BY <1>17, Zenon DEF Stands
  <2>3. u.need \in {2, 3} /\ u.mode \in {"skip", "ttype"}
    BY <2>2
  <2>4. Same(r) /\ r.mode = u.mode /\ r.need = u.need - 1 /\ r.replies = u.replies
    BY <1>15, <2>3, Zenon
  <2>5. 3 - 1 = 2 /\ 2 - 1 = 1
    OBVIOUS
  <2>6. Stands(r, p)
    <3> HIDE DEF r, p
    <3>1. CASE at = "TTYPE"
      <4>1. p = "SEND" /\ r.mode = "ttype" /\ r.need = 2
        BY <2>1, <2>2, <2>4, <2>5, <3>1
      <4> QED
        BY <4>1, Zenon DEF Stands
    <3>2. CASE at = "SEND"
      <4>1. p = "SEND IAC" /\ r.mode = "ttype" /\ r.need = 1
        BY <2>1, <2>2, <2>4, <2>5, <3>2
      <4> QED
        BY <4>1, Zenon DEF Stands
    <3>3. CASE at = "REJECTED"
      <4>1. p = "REJECTED IAC" /\ r.mode = "skip" /\ r.need = 1
        BY <2>1, <2>2, <2>4, <2>5, <3>3
      <4> QED
        BY <4>1, Zenon DEF Stands
    <3> QED
      BY <1>17, <3>1, <3>2, <3>3
  <2>7. p \notin {"text", "IAC"}
    BY <1>17, <2>1, Zenon
  <2> HIDE DEF r, p
  <2> QED
    BY <1>11, <2>1, <2>4, <2>6, <2>7, Zenon DEF r, p
<1> HIDE DEF back, ttype
<1>18. CASE at = "SB"
  <2>1. x.ask = NoCommand /\ p = b /\ b \in {"TTYPE", "MSSP", "CHARSET"}
    BY <1>18, FollowRest
  <2>2. u.mode = "SB"
    BY <1>18, Zenon DEF Stands
  <2>3. r = OnSb(u, b)
    BY <2>2, Zenon DEF OnByte
  <2>4. r = (CASE b = "TTYPE" -> [u EXCEPT !.mode = "ttype", !.need = 3]
               [] b = "MSSP" -> [u EXCEPT !.mode = "mssp"]
               [] OTHER -> [u EXCEPT !.mode = "charset"])
    BY <2>1, <2>3, Zenon DEF OnSb
  <2> HIDE DEF r, p, b
  <2>5. Same(r) /\ r.replies = u.replies /\ Stands(r, p)
    <3>1. CASE b = "TTYPE"
      <4>1. r = [u EXCEPT !.mode = "ttype", !.need = 3]
        BY <2>4, <3>1, Zenon
      <4>2. Same(r) /\ r.mode = "ttype" /\ r.need = 3 /\ r.replies = u.replies
        BY <1>1, <4>1 DEF Readings, Same
      <4>3. p = "TTYPE"
        BY <2>1, <3>1
      <4>4. Stands(r, p)
        BY <4>2, <4>3, Zenon DEF Stands
      <4> QED
        BY <4>2, <4>4
    <3>2. CASE b = "MSSP"
      <4>1. r = [u EXCEPT !.mode = "mssp"]
        BY <2>4, <3>2, Zenon
      <4> QED
        BY <1>5, <2>1, <3>2, <4>1, Zenon DEF Stands
    <3>3. CASE b = "CHARSET"
      <4>1. r = [u EXCEPT !.mode = "charset"]
        BY <2>4, <3>3, Zenon
      <4> QED
        BY <1>5, <2>1, <3>3, <4>1, Zenon DEF Stands
    <3> QED
      BY <2>1, <3>1, <3>2, <3>3
  <2>6. p \notin {"text", "IAC"}
    BY <2>1, Zenon
  <2> QED
    BY <1>11, <2>1, <2>5, <2>6, Zenon DEF r, p, b
<1>19. CASE at = "MSSP"
  <2>1. x.ask = NoCommand /\ p = (IF b = "IAC" THEN "MSSP IAC" ELSE "MSSP")
    BY <1>19, FollowRest
  <2>2. u.mode = "mssp"
    BY <1>19, Zenon DEF Stands
  <2>3. r = [u EXCEPT !.mode = IF b = "IAC" THEN "mssp2" ELSE "mssp"]
    BY <2>2, Zenon DEF OnByte
  <2> HIDE DEF r, p, b
  <2>4. Same(r) /\ r.replies = u.replies /\ Stands(r, p) /\ p \notin {"text", "IAC"}
    BY <1>5, <2>1, <2>3, Zenon DEF Stands
  <2> QED
    BY <1>11, <2>1, <2>4, Zenon DEF r, p, b
<1>20. CASE at = "MSSP IAC"
  <2>1. IF b = "IAC" THEN x.ask = NoCommand /\ p = "MSSP" ELSE x.ask = <<"SB", "MSSP">> /\ p = "text"
    BY <1>20, FollowRest
  <2>2. u.mode = "mssp2"
    BY <1>20, Zenon DEF Stands
  <2>3. r = [u EXCEPT !.mode = IF b = "IAC" THEN "mssp" ELSE "text"]
    BY <2>2, Zenon DEF OnByte, MsspIac
  <2> HIDE DEF r, p, b
  <2>4. CASE b = "IAC"
    <3>1. Same(r) /\ r.replies = u.replies /\ Stands(r, p) /\ p \notin {"text", "IAC"}
      BY <1>5, <2>1, <2>3, <2>4, Zenon DEF Stands
    <3> QED
      BY <1>11, <2>1, <2>4, <3>1, Zenon DEF r, p, b
  <2>5. CASE b # "IAC"
    <3>1. Same(r) /\ r.replies = u.replies /\ r.mode = "text" /\ p = "text"
      BY <1>5, <2>1, <2>3, <2>5, Zenon
    <3>2. Answer(x.ask) = <<>> /\ x.ask # NoCommand
      BY <1>8, <1>9, <2>1, <2>5, AnswersAre, Zenon
    <3> QED
      BY <1>7, <1>10, <3>1, <3>2, Zenon DEF r, p, b
  <2> QED
    BY <2>4, <2>5
<1>21. CASE at = "CHARSET"
  <2>1. x.ask = NoCommand /\ p = (IF b = "ACCEPTED" THEN "ACCEPTED" ELSE "REJECTED")
    BY <1>21, FollowRest
  <2>2. u.mode = "charset"
    BY <1>21, Zenon DEF Stands
  <2>3. r = IF b = "ACCEPTED" THEN [u EXCEPT !.mode = "name", !.name = none]
            ELSE [u EXCEPT !.mode = "skip", !.need = 2]
    BY <2>2, Zenon DEF OnByte, OnCharset
  <2>4. \A m, n : Same([u EXCEPT !.mode = m, !.name = n]) /\ [u EXCEPT !.mode = m, !.name = n].mode = m
                  /\ [u EXCEPT !.mode = m, !.name = n].replies = u.replies
    BY <1>1 DEF Readings, Same
  <2> HIDE DEF r, p, b, none
  <2>5. Same(r) /\ r.replies = u.replies /\ Stands(r, p) /\ p \notin {"text", "IAC"}
    <3>1. CASE b = "ACCEPTED"
      <4>0. r = [u EXCEPT !.mode = "name", !.name = none]
        BY <2>3, <3>1
      <4>1. Same(r) /\ r.mode = "name" /\ r.replies = u.replies
        BY <2>4, <4>0
      <4>2. p = "ACCEPTED"
        BY <2>1, <3>1
      <4>3. Stands(r, p)
        BY <4>1, <4>2, Zenon DEF Stands
      <4> QED
        BY <4>1, <4>2, <4>3, Zenon
    <3>2. CASE b # "ACCEPTED"
      <4>0. r = [u EXCEPT !.mode = "skip", !.need = 2]
        BY <2>3, <3>2
      <4>1. Same(r) /\ r.mode = "skip" /\ r.need = 2 /\ r.replies = u.replies
        BY <1>1, <4>0 DEF Readings, Same
      <4>2. p = "REJECTED"
        BY <2>1, <3>2
      <4>3. Stands(r, p)
        BY <4>1, <4>2, Zenon DEF Stands
      <4> QED
        BY <4>1, <4>2, <4>3, Zenon
    <3> QED
      BY <3>1, <3>2
  <2> QED
    BY <1>11, <2>1, <2>5, Zenon DEF r, p, b
<1>22. CASE at = "ACCEPTED"
  <2>1. x.ask = NoCommand /\ p = (IF b = "IAC" THEN "ACCEPTED IAC" ELSE "ACCEPTED")
    BY <1>22, FollowRest
  <2>2. u.mode = "name"
    BY <1>22, Zenon DEF Stands
  <2>3. r = IF b = "IAC" THEN [u EXCEPT !.mode = "named"] ELSE [u EXCEPT !.name = b]
    BY <2>2, Zenon DEF OnByte, OnName
  <2>4. \A n : Same([u EXCEPT !.name = n]) /\ [u EXCEPT !.name = n].mode = u.mode
               /\ [u EXCEPT !.name = n].replies = u.replies
    BY <1>1 DEF Readings, Same
  <2> HIDE DEF r, p, b
  <2>5. Same(r) /\ r.replies = u.replies /\ Stands(r, p) /\ p \notin {"text", "IAC"}
    BY <1>5, <2>1, <2>2, <2>3, <2>4, Zenon DEF Stands
  <2> QED
    BY <1>11, <2>1, <2>5, Zenon DEF r, p, b
<1>23. CASE at = "ACCEPTED IAC"
  <2>1. x.ask = <<"SB", "CHARSET">> /\ p = "text" /\ b # "IAC"
    BY <1>23, FollowRest
  <2>2. u.mode = "named"
    BY <1>23, Zenon DEF Stands
  <2>3. r = [u EXCEPT !.mode = "text", !.charset = cs]
    BY <2>1, <2>2, Zenon DEF OnByte, OnName
  <2>4. \A n : Same([u EXCEPT !.mode = "text", !.charset = n])
               /\ [u EXCEPT !.mode = "text", !.charset = n].mode = "text"
               /\ [u EXCEPT !.mode = "text", !.charset = n].replies = u.replies
    BY <1>1 DEF Readings, Same
  <2> HIDE DEF r, p, b, cs
  <2>5. Same(r) /\ r.replies = u.replies /\ r.mode = "text"
    BY <2>3, <2>4, Zenon
  <2>6. Answer(x.ask) = <<>> /\ x.ask # NoCommand
    BY <1>8, <1>9, <2>1, AnswersAre, Zenon
  <2> QED
    BY <1>7, <1>10, <2>1, <2>5, <2>6, Zenon DEF r, p, b
<1>24. at # "nowhere"
  BY FollowRest
<1> QED
  BY <1>12, <1>16, <1>17, <1>18, <1>19, <1>20, <1>21, <1>22, <1>23, <1>24, Zenon DEF Places

\* One more element behind two sequences.
LEMMA ConcatAppend ==
    ASSUME NEW S, NEW s \in Seq(S), NEW t \in Seq(S), NEW x \in S
    PROVE  s \o Append(t, x) = Append(s \o t, x)
OBVIOUS

\* The texts of the lines that were read.
TextsOf(ls) == [i \in DOMAIN ls |-> ls[i].text]

\* A line more is a text more.
LEMMA TextsMore ==
    ASSUME NEW ls \in Seq(ReadLines), NEW l \in ReadLines
    PROVE  TextsOf(ls) \in Seq(Lines) /\ TextsOf(Append(ls, l)) = Append(TextsOf(ls), l.text)
<1> DEFINE f == [a \in ReadLines |-> a.text]
           m == Append(ls, l)
<1>1. /\ DOMAIN ls = 1 .. Len(ls) /\ Len(ls) \in Nat /\ \A i \in 1 .. Len(ls) : ls[i] \in ReadLines
      /\ m \in Seq(ReadLines) /\ DOMAIN m = 1 .. Len(m) /\ Len(m) \in Nat
      /\ \A i \in 1 .. Len(m) : m[i] \in ReadLines
  OBVIOUS
<1>2. \A a \in ReadLines : a.text \in Lines /\ f[a] = a.text
  BY DEF ReadLines
<1> HIDE DEF m, f
<1>3. TextsOf(ls) = [i \in DOMAIN ls |-> f[ls[i]]] /\ TextsOf(m) = [i \in DOMAIN m |-> f[m[i]]]
  BY <1>1, <1>2 DEF TextsOf
<1>4. [i \in DOMAIN m |-> f[m[i]]] = Append([i \in DOMAIN ls |-> f[ls[i]]], f[l])
  BY MapAppend DEF m
<1>5. TextsOf(ls) \in Seq(Lines)
  BY <1>1, <1>2 DEF TextsOf
<1> QED
  BY <1>2, <1>3, <1>4, <1>5 DEF m

\* What net_read has of a world w with history s0 and a0 when it has taken the bytes t: their
\* text is in the lines and the buffer, their commands are answered.
Answered(as) == Answers(IF as = <<>> THEN <<>> ELSE <<"WILL CHARSET">>, as)
ReadSoFar(s0, a0, t, rd) ==
    /\ rd.end # Nothing => PlaceAfter("text", t) = "text"
    /\ Stands(rd, PlaceAfter("text", t))
    /\ LinesOf(s0 \o Says(t)).lines = LinesOf(s0).lines \o TextsOf(rd.lines)
    /\ LinesOf(s0 \o Says(t)).rest = rd.buff
    /\ rd.tried <=> a0 \o Asks(t) # <<>> \/ PlaceAfter("text", t) \notin {"text", "IAC"}
    /\ Answered(a0) \o rd.replies
         = Answers(IF rd.tried THEN <<"WILL CHARSET">> ELSE <<>>, a0 \o Asks(t))

\* A byte more is taken.
LEMMA OneTaken ==
    ASSUME NEW rd \in Readings, NEW at \in Places, NEW x \in Bytes, Stands(rd, at),
           at \notin {"text", "IAC"} => rd.tried, rd.end = Nothing, Follow(at, x) # "nowhere",
           NEW junk \in BOOLEAN
    PROVE  IsTaken([rd EXCEPT !.used = @ + 1], x, Follow(at, x), RawStep(rd, x.b, junk))
<1> DEFINE u == [rd EXCEPT !.used = @ + 1]
<1>1. RawStep(rd, x.b, junk) = OnByte(u, x.b, junk)
  BY Zenon DEF RawStep, Nothing
<1>2. u = [rd EXCEPT !.used = rd.used + 1] /\ rd.used + 1 \in Nat
  BY ReadingFields DEF Readings
<1> HIDE DEF u
<1>3. u \in Readings /\ u.mode = rd.mode /\ u.need = rd.need /\ u.tried = rd.tried
  BY <1>2 DEF Readings
<1>4. CASE at = "text"
  <2>1. u.mode = "text"
    BY <1>3, <1>4, Zenon DEF Stands
  <2>2. OnByte(u, x.b, junk) = OnText(u, x.b)
    BY <2>1, Zenon DEF OnByte
  <2>3. x.ask = NoCommand
    BY <1>4, FollowText
  <2> QED
    BY <1>1, <1>3, <1>4, <2>1, <2>2, <2>3, TextTaken, AnswersAre DEF u
<1>5. CASE at = "IAC"
  <2>1. u.mode = "iac"
    BY <1>3, <1>5, Zenon DEF Stands
  <2>2. OnByte(u, x.b, junk) = OnIac(u, x.b)
    BY <2>1, Zenon DEF OnByte
  <2> QED
    BY <1>1, <1>3, <1>5, <2>1, <2>2, IacTaken DEF u
<1>6. CASE at \notin {"text", "IAC"}
  <2>1. Stands(u, at)
    BY <1>3, Zenon DEF Stands
  <2> QED
    BY <1>1, <1>3, <1>6, <2>1, RestTaken DEF u
<1> QED
  BY <1>4, <1>5, <1>6

\* Where a command ends, it is asked.
LEMMA CommandEnds ==
    ASSUME NEW x, NEW at \in Places \ {"text", "IAC"}, Follow(at, x) \in {"text", "IAC"}
    PROVE  x.ask # NoCommand
<1>1. \A v, w : v # Nothing => <<v, w>> # NoCommand
  <2>1. \A v, w : <<v, w>> = <<Nothing, Nothing>> => v = Nothing
    OBVIOUS
  <2> QED
    BY <2>1, Zenon DEF NoCommand
<1>2. Nothing # "DO" /\ Nothing # "DONT" /\ Nothing # "WILL" /\ Nothing # "WONT" /\ Nothing # "SB"
  BY Zenon DEF Nothing
<1>3. Follow(at, x) # "nowhere"
  OBVIOUS
<1>4. CASE at \in {"DO", "DONT", "WILL", "WONT"}
  <2>1. x.ask = <<at, x.b>>
    BY <1>3, <1>4, FollowRest
  <2> QED
    BY <1>1, <1>2, <1>4, <2>1, Zenon
<1>5. CASE at \notin {"DO", "DONT", "WILL", "WONT"}
  <2>1. x.ask \in {<<"SB", "TTYPE">>, <<"SB", "MSSP">>, <<"SB", "CHARSET">>}
    BY <1>3, <1>5, FollowRest, Zenon DEF Places
  <2> QED
    BY <1>1, <1>2, <2>1, Zenon
<1> QED
  BY <1>4, <1>5

\* So the text and the answers go on.
LEMMA ReadMore ==
    ASSUME NEW s0 \in Words, NEW a0 \in Asked, NEW t \in Seq(Bytes), NEW x \in Bytes,
           NEW rd \in Readings, ReadSoFar(s0, a0, t, rd), rd.end = Nothing, NEW junk \in BOOLEAN,
           PlaceAfter("text", Append(t, x)) # "nowhere"
    PROVE  ReadSoFar(s0, a0, Append(t, x), RawStep(rd, x.b, junk))
<1> DEFINE text == "text"
           p == PlaceAfter(text, t)
           q == PlaceAfter(text, Append(t, x))
           u == [rd EXCEPT !.used = @ + 1]
           r == RawStep(rd, x.b, junk)
           said1 == s0 \o Says(t)
           said2 == s0 \o Says(Append(t, x))
           asked1 == a0 \o Asks(t)
           asked2 == a0 \o Asks(Append(t, x))
           hello(v) == IF v THEN <<"WILL CHARSET">> ELSE <<>>
<1>1. text \in Places
  BY Zenon DEF Places
<1>2. p \in Places /\ q = Follow(p, x)
  BY <1>1, PlaceSteps
<1>3. p \notin {"text", "IAC"} => rd.tried
  BY Zenon DEF ReadSoFar
<1>4. IsTaken(u, x, q, r)
  BY <1>2, <1>3, OneTaken DEF ReadSoFar
<1>5. u.buff = rd.buff /\ u.lines = rd.lines /\ u.tried = rd.tried /\ u.replies = rd.replies
      /\ u.charset = rd.charset /\ u.end = rd.end
  BY DEF Readings
<1>6. rd.buff \in Lines /\ rd.lines \in Seq(ReadLines) /\ rd.replies \in Seq(Replies)
      /\ rd.charset \in Names /\ rd.tried \in BOOLEAN
  BY ReadingFields
<1> HIDE DEF u, r, p, q
<1>7. r.end # Nothing => q = "text"
  BY <1>4, <1>5, Zenon DEF IsTaken
<1>8. Says(t) \in Words /\ Asks(t) \in Asked
      /\ Says(Append(t, x)) = (IF x.say = Nothing THEN Says(t) ELSE Append(Says(t), x.say))
      /\ Asks(Append(t, x)) = (IF x.ask = NoCommand THEN Asks(t) ELSE Append(Asks(t), x.ask))
      /\ x.say \in Spoken /\ x.ask \in Requested
  BY SaysSteps, AsksSteps DEF Bytes, Spoken, Requested
<1>9. said1 \in Words /\ asked1 \in Asked
  BY <1>8, ConcatProperties DEF Words, Asked
<1>10. said2 = IF x.say = Nothing THEN said1 ELSE Append(said1, x.say)
  <2>1. s0 \in Seq(Spoken) /\ Says(t) \in Seq(Spoken)
    BY <1>8 DEF Words
  <2>2. s0 \o Append(Says(t), x.say) = Append(said1, x.say)
    BY <1>8, <2>1, ConcatAppend
  <2> QED
    BY <1>8, <2>2, Zenon
<1>11. asked2 = IF x.ask = NoCommand THEN asked1 ELSE Append(asked1, x.ask)
  <2>1. a0 \in Seq(Requested) /\ Asks(t) \in Seq(Requested)
    BY <1>8 DEF Asked
  <2>2. a0 \o Append(Asks(t), x.ask) = Append(asked1, x.ask)
    BY <1>8, <2>1, ConcatAppend
  <2> QED
    BY <1>8, <2>2, Zenon
<1>12. LinesOf(said1).lines = LinesOf(s0).lines \o TextsOf(rd.lines) /\ LinesOf(said1).rest = rd.buff
       /\ (rd.tried <=> asked1 # <<>> \/ p \notin {"text", "IAC"})
       /\ Answered(a0) \o rd.replies = Answers(hello(rd.tried), asked1)
  BY Zenon DEF ReadSoFar, p
<1> HIDE DEF said1, said2, asked1, asked2
<1>13. LinesOf(said2).lines = LinesOf(s0).lines \o TextsOf(r.lines) /\ LinesOf(said2).rest = r.buff
  <2>1. LinesOf(said1) \in Drafts /\ LinesOf(s0).lines \in Seq(Words)
    BY <1>9, LinesOfSteps DEF Drafts, Words
  <2>2. CASE x.say = Nothing
    BY <1>4, <1>5, <1>10, <1>12, <2>2 DEF IsTaken, IsRead
  <2>3. CASE x.say # Nothing
    <3>1. LinesOf(said2) = ToLines(LinesOf(said1), x.say)
      BY <1>8, <1>9, <1>10, <2>3, LinesOfSteps DEF Words
    <3>2. CASE x.say = "LF"
      <4> DEFINE l == [text |-> rd.buff, charset |-> rd.charset]
      <4>1. LinesOf(said2).lines = Append(LinesOf(said1).lines, rd.buff) /\ LinesOf(said2).rest = <<>>
        <5> DEFINE st == LinesOf(said1)
                   ls == Append(st.lines, st.rest)
        <5>1. st \in Drafts /\ st.rest = rd.buff
          BY <1>12, <2>1
        <5> HIDE DEF st
        <5>2. LinesOf(said2) = [lines |-> ls, rest |-> <<>>]
          BY <1>8, <3>1, <3>2, <5>1, ToLinesIs DEF st
        <5> HIDE DEF ls
        <5>3. LinesOf(said2).lines = ls /\ LinesOf(said2).rest = <<>>
          BY <5>2
        <5> QED
          BY <5>1, <5>3, Zenon DEF ls, st
      <4>2. l \in ReadLines /\ l.text = rd.buff
        BY <1>6 DEF ReadLines
      <4>3. r.lines = Append(rd.lines, l) /\ r.buff = <<>>
        BY <1>4, <1>5, <3>2 DEF IsTaken, IsRead
      <4> HIDE DEF l
      <4>4. TextsOf(rd.lines) \in Seq(Lines) /\ TextsOf(r.lines) = Append(TextsOf(rd.lines), rd.buff)
        BY <1>6, <4>2, <4>3, TextsMore
      <4> DEFINE a == LinesOf(s0).lines
                 b == TextsOf(rd.lines)
                 D == Words \cup Lines
      <4>5. a \in Seq(D) /\ b \in Seq(D) /\ rd.buff \in D
        <5>1. Seq(Words) \subseteq Seq(D) /\ Seq(Lines) \subseteq Seq(D)
          BY SeqMonotonic
        <5> QED
          BY <1>6, <2>1, <4>4, <5>1
      <4> HIDE DEF a, b, D
      <4>6. a \o Append(b, rd.buff) = Append(a \o b, rd.buff)
        BY <4>5, ConcatAppend
      <4> QED
        BY <1>12, <4>1, <4>3, <4>4, <4>6, Zenon DEF a, b
    <3>3. CASE x.say # "LF"
      <4>1. LinesOf(said2).lines = LinesOf(said1).lines
            /\ LinesOf(said2).rest = Append(LinesOf(said1).rest, x.say)
        BY <1>8, <2>1, <3>1, <3>3, ToLinesIs
      <4>2. r.lines = rd.lines /\ r.buff = Append(rd.buff, x.say)
        BY <1>4, <1>5, <2>3, <3>3, Zenon DEF IsTaken, IsRead
      <4> QED
        BY <1>12, <4>1, <4>2
    <3> QED
      BY <3>2, <3>3
  <2> QED
    BY <2>2, <2>3
<1>14. r.tried <=> rd.tried \/ x.ask # NoCommand \/ q \notin {"text", "IAC"}
  BY <1>4, <1>5, Zenon DEF IsTaken
<1>15. p \notin {"text", "IAC"} /\ q \in {"text", "IAC"} => x.ask # NoCommand
  <2> SUFFICES ASSUME p \notin {"text", "IAC"}, q \in {"text", "IAC"} PROVE x.ask # NoCommand
    OBVIOUS
  <2>1. Follow(p, x) # "nowhere" /\ Follow(p, x) \in {"text", "IAC"}
    BY <1>2 
  <2> QED
    BY <1>2, <2>1, CommandEnds
<1>16. r.tried <=> asked2 # <<>> \/ q \notin {"text", "IAC"}
  <2>1. x.ask # NoCommand => asked2 # <<>>
    BY <1>8, <1>9, <1>11 DEF Asked
  <2>2. x.ask = NoCommand => asked2 = asked1
    BY <1>11
  <2> QED
    BY <1>12, <1>14, <1>15, <2>1, <2>2, Zenon
<1>17. Answered(a0) \o r.replies = Answers(hello(r.tried), asked2)
  <2> DEFINE A == Answered(a0)
             g == Greeting(u, r)
             z == Answer(x.ask)
  <2>1. A \in Seq(Replies) /\ hello(rd.tried) \in Seq(Replies) /\ hello(r.tried) \in Seq(Replies)
        /\ g \in Seq(Replies) /\ z \in Seq(Replies)
    <3>1. <<>> \in Seq(Replies) /\ <<"WILL CHARSET">> \in Seq(Replies)
      <4>1. "WILL CHARSET" \in Replies
        BY RepliesAreKnown
      <4>2. (\A a \in Replies : <<a>> \in Seq(Replies)) /\ <<>> \in Seq(Replies)
        OBVIOUS
      <4> QED
        BY <4>1, <4>2, Zenon
    <3>2. \A v : hello(v) \in Seq(Replies)
      BY <3>1, Zenon
    <3>3. \A n \in Seq(Replies) : Answers(n, a0) \in Seq(Replies)
      BY AnswersSteps DEF Asked
    <3>4. A \in Seq(Replies)
      BY <3>1, <3>3, Zenon DEF Answered
    <3>5. g \in Seq(Replies)
      BY <3>1, Zenon DEF Greeting
    <3> QED
      BY <3>2, <3>4, <3>5, AnswerIs
  <2>2. r.replies = (rd.replies \o g) \o z
    BY <1>4, <1>5 DEF IsTaken
  <2>3. A \o rd.replies = Answers(hello(rd.tried), asked1)
    BY <1>12
  <2>4. (A \o rd.replies) \o g = Answers(hello(r.tried), asked1)
    <3>1. CASE ~rd.tried /\ r.tried
      <4>1. asked1 = <<>> /\ hello(rd.tried) = <<>> /\ g = hello(r.tried)
        BY <1>5, <1>12, <3>1, Zenon DEF Greeting
      <4>2. Answers(hello(rd.tried), <<>>) = hello(rd.tried)
            /\ Answers(hello(r.tried), <<>>) = hello(r.tried)
        BY <2>1, AnswersSteps
      <4> HIDE DEF hello, A, g
      <4>3. <<>> \o g = g
        BY <2>1
      <4> QED
        BY <2>3, <4>1, <4>2, <4>3
    <3>2. CASE rd.tried \/ ~r.tried
      <4>1. rd.tried <=> r.tried
        BY <1>14, <3>2, Zenon
      <4>2. g = <<>> /\ hello(rd.tried) = hello(r.tried)
        BY <1>5, <4>1, Zenon DEF Greeting
      <4> HIDE DEF hello, A, g
      <4>3. (A \o rd.replies) \o <<>> = A \o rd.replies
        BY <1>6, <2>1
      <4> QED
        BY <2>3, <4>2, <4>3
    <3> QED
      BY <3>1, <3>2, Zenon
  <2>5. Answers(hello(r.tried), asked2) = Answers(hello(r.tried), asked1) \o z
    <3>1. CASE x.ask = NoCommand
      <4>1. asked2 = asked1 /\ z = <<>>
        BY <1>11, <3>1, AnswersAre
      <4>2. Answers(hello(r.tried), asked1) \in Seq(Replies)
        BY <1>9, <2>1, AnswersSteps DEF Asked
      <4> HIDE DEF hello, z
      <4> QED
        BY <4>1, <4>2
    <3>2. CASE x.ask # NoCommand
      <4> HIDE DEF hello
      <4> QED
        BY <1>8, <1>9, <1>11, <2>1, <3>2, AnswersSteps DEF Asked
    <3> QED
      BY <3>1, <3>2
  <2> HIDE DEF A, g, z, hello
  <2>6. A \o ((rd.replies \o g) \o z) = ((A \o rd.replies) \o g) \o z
    <3> DEFINE R == Replies
               rs == rd.replies
    <3>0. A \in Seq(R) /\ rs \in Seq(R) /\ g \in Seq(R) /\ z \in Seq(R)
      BY <1>6, <2>1
    <3> HIDE DEF R, rs
    <3> DEFINE rg == rs \o g
    <3>3. rg \in Seq(R)
      BY <3>0
    <3> HIDE DEF rg
    <3>1. A \o (rg \o z) = (A \o rg) \o z
      <4>1. A \in Seq(R) /\ rg \in Seq(R) /\ z \in Seq(R)
        BY <3>0, <3>3
      <4>2. (A \o rg) \o z = A \o (rg \o z)
        BY ONLY <4>1, ConcatAssociative
      <4> QED
        BY <4>2
    <3>2. A \o (rs \o g) = (A \o rs) \o g
      <4>1. A \in Seq(R) /\ rs \in Seq(R) /\ g \in Seq(R)
        BY <3>0
      <4>2. (A \o rs) \o g = A \o (rs \o g)
        BY ONLY <4>1, ConcatAssociative
      <4> QED
        BY <4>2
    <3> QED
      BY <3>1, <3>2 DEF rs, rg
  <2> QED
    BY <2>2, <2>4, <2>5, <2>6 DEF A, hello
<1>18. Stands(r, q)
  BY <1>4 DEF IsTaken
<1> QED
  BY <1>7, <1>13, <1>16, <1>17, <1>18, Zenon DEF ReadSoFar, q, r, said2, asked2

\* Whatever a byte does, it is counted once, before.
LEMMA OnByteUsed ==
    ASSUME NEW rd \in Readings, NEW b, NEW junk
    PROVE  OnByte(rd, b, junk).used = rd.used
<1>1. \A a : Reply(rd, a).used = rd.used
  BY DEF Reply, Readings
<1>2. OnText(rd, b).used = rd.used
  <2>1. EndLine(rd).used = rd.used
    <3> DEFINE e == IF Len(rd.lines) + 1 >= MAX_LINES THEN "full" ELSE Nothing
               l == [text |-> rd.buff, charset |-> rd.charset]
    <3>1. EndLine(rd) = [rd EXCEPT !.lines = Append(@, l), !.buff = <<>>, !.end = e]
      BY Zenon DEF EndLine, Nothing
    <3> HIDE DEF e, l
    <3> QED
      BY <3>1 DEF Readings
  <2>2. [rd EXCEPT !.mode = "iac"].used = rd.used /\ [rd EXCEPT !.buff = Append(@, b)].used = rd.used
    BY DEF Readings
  <2> QED
    BY <2>1, <2>2, Zenon DEF OnText
<1>3. OnIac(rd, b).used = rd.used
  <2>1. EscapedIAC(rd).used = rd.used
    BY DEF EscapedIAC, Readings
  <2> DEFINE g == Greet(rd)
  <2>2. g \in Readings /\ g.used = rd.used
    BY GreetIs
  <2> HIDE DEF g
  <2>3. /\ [g EXCEPT !.mode = b].used = g.used
        /\ [g EXCEPT !.mode = "skip", !.need = 1].used = g.used
        /\ [g EXCEPT !.mode = "text", !.prompt = TRUE, !.end = "prompt"].used = g.used
        /\ [g EXCEPT !.mode = "text"].used = g.used
    BY <2>2 DEF Readings
  <2> QED
    BY <2>1, <2>2, <2>3, Zenon DEF OnIac, g
<1>4. OnSb(rd, b).used = rd.used
  BY DEF OnSb, Readings
<1>5. OnSkip(rd).used = rd.used
  <2> DEFINE back == IF rd.mode = "ttype" THEN <<"SB TTYPE Banana">> ELSE <<>>
             z == [rd EXCEPT !.need = 0]
             n == rd.need - 1
  <2>1. OnSkip(rd) \in {[rd EXCEPT !.need = @ - 1], Reply(z, back)}
    BY Zenon DEF OnSkip
  <2> HIDE DEF back
  <2>2. Reply(z, back).used = rd.used
    BY DEF Reply, Readings
  <2>3. [rd EXCEPT !.need = @ - 1] = [rd EXCEPT !.need = n]
    BY DEF Readings
  <2> HIDE DEF n
  <2>4. [rd EXCEPT !.need = n].used = rd.used
    BY DEF Readings
  <2> QED
    BY <2>1, <2>2, <2>3, <2>4, Zenon
<1>6. OnCharset(rd, b).used = rd.used
  <2> DEFINE none == ""
  <2>1. OnCharset(rd, b) = IF b = "ACCEPTED" THEN [rd EXCEPT !.mode = "name", !.name = none]
                           ELSE [rd EXCEPT !.mode = "skip", !.need = 2]
    BY Zenon DEF OnCharset
  <2> HIDE DEF none
  <2> QED
    BY <2>1 DEF Readings
<1>7. OnName(rd, b, junk).used = rd.used
  <2> DEFINE cs == IF junk THEN Junk ELSE rd.name
  <2>1. OnName(rd, b, junk) = IF b = "IAC" THEN [rd EXCEPT !.mode = "named"]
                              ELSE IF rd.mode = "name" THEN [rd EXCEPT !.name = b]
                              ELSE [rd EXCEPT !.mode = "text", !.charset = cs]
    BY Zenon DEF OnName
  <2> HIDE DEF cs
  <2> QED
    BY <2>1 DEF Readings
<1>8. MsspIac(rd, b).used = rd.used
  BY DEF MsspIac, Readings
<1>9. [rd EXCEPT !.mode = IF b = "IAC" THEN "mssp2" ELSE "mssp"].used = rd.used
  BY DEF Readings
<1>10. rd.mode \in Modes
  BY ReadingFields
<1> QED
  BY <1>1, <1>2, <1>3, <1>4, <1>5, <1>6, <1>7, <1>8, <1>9, <1>10, Zenon DEF OnByte, Modes

\* One byte more of what arrives.
LEMMA BytesMore ==
    ASSUME NEW s \in Seq(Bytes), NEW x \in Bytes
    PROVE  BytesOf(Append(s, x)) = Append(BytesOf(s), x.b) /\ BytesOf(s) \in Seq(Letters)
           /\ x.b \in Letters
<1> DEFINE f == [y \in Bytes |-> y.b]
           t == Append(s, x)
<1>1. /\ \A i \in DOMAIN s : s[i] \in Bytes
      /\ t \in Seq(Bytes) /\ \A i \in DOMAIN t : t[i] \in Bytes
  OBVIOUS
<1>2. [i \in DOMAIN t |-> f[t[i]]] = Append([i \in DOMAIN s |-> f[s[i]]], f[x])
  BY MapAppend
<1>3. \A y \in Bytes : f[y] = y.b
  OBVIOUS
<1> HIDE DEF f, t
<1>4. BytesOf(s) = [i \in DOMAIN s |-> f[s[i]]] /\ BytesOf(t) = [i \in DOMAIN t |-> f[t[i]]]
  BY <1>1, <1>3 DEF BytesOf
<1>5. x.b \in Letters
  BY DEF Bytes, Letters
<1> QED
  BY <1>2, <1>3, <1>4, <1>5, BytesAreLetters DEF t

\* A beginning of a sequence is one of what one more element makes of it, too.
LEMMA BeginningOf ==
    ASSUME NEW S, NEW s \in Seq(S), NEW x \in S
    PROVE  /\ \A n \in 0 .. Len(s) : SubSeq(Append(s, x), 1, n) = SubSeq(s, 1, n)
           /\ SubSeq(s, 1, Len(s)) = s
           /\ SubSeq(Append(s, x), 1, Len(s) + 1) = Append(s, x)
           /\ \A n \in 0 .. Len(s) : SubSeq(s, 1, n) \in Seq(S)
OBVIOUS

\* raw_read, whatever has arrived: it takes it all unless it stops before, and as far as a MUD
\* may say what it takes, it reads it.
LEMMA RawReads ==
    ASSUME NEW s0 \in Words, NEW a0 \in Asked, NEW w \in OpenWorlds, NEW junk \in BOOLEAN,
           NEW s \in Seq(Bytes)
    PROVE  LET rd == RawRead(StartReading(w.buff, w.tried, w.charset), BytesOf(s), junk)
               t == SubSeq(s, 1, rd.used)
           IN  /\ rd \in Readings /\ rd.used \in 0 .. Len(s)
               /\ rd.end = Nothing => rd.used = Len(s)
               /\ t \in Seq(Bytes)
               /\ PlaceAfter("text", t) # "nowhere" /\ LinesOf(s0).rest = w.buff
                    /\ (w.tried <=> a0 # <<>>)
                  => ReadSoFar(s0, a0, t, rd)
<1> DEFINE rd0 == StartReading(w.buff, w.tried, w.charset)
           rd(v) == RawRead(rd0, BytesOf(v), junk)
           taken(v) == SubSeq(v, 1, rd(v).used)
           begins == LinesOf(s0).rest = w.buff /\ (w.tried <=> a0 # <<>>)
           Good(v) == /\ rd(v) \in Readings /\ rd(v).used \in 0 .. Len(v)
                      /\ rd(v).end = Nothing => rd(v).used = Len(v)
                      /\ taken(v) \in Seq(Bytes)
                      /\ PlaceAfter("text", taken(v)) # "nowhere" /\ begins
                            => ReadSoFar(s0, a0, taken(v), rd(v))
           T == {v \in Seq(Bytes) : Good(v)}
<1>1. rd0 \in Readings
  BY StartReadingIs
<1>2. /\ rd0.mode = "text" /\ rd0.buff = w.buff /\ rd0.tried = w.tried /\ rd0.lines = <<>>
      /\ rd0.replies = <<>> /\ rd0.used = 0 /\ rd0.end = Nothing
  <2> DEFINE none == ""
  <2>1. rd0 = [mode |-> "text", need |-> 0, buff |-> w.buff, tried |-> w.tried, name |-> none,
               charset |-> w.charset, lines |-> <<>>, prompt |-> FALSE, replies |-> <<>>,
               used |-> 0, end |-> none] /\ Nothing = none
    BY Zenon DEF StartReading, Nothing
  <2> HIDE DEF none, rd0
  <2> QED
    BY <2>1
<1> HIDE DEF rd0
<1>3. /\ RawRead(rd0, <<>>, junk) = rd0
      /\ \A v \in Seq(Letters) : RawRead(rd0, v, junk) \in Readings
      /\ \A v \in Seq(Letters), e \in Letters :
            RawRead(rd0, Append(v, e), junk) = RawStep(RawRead(rd0, v, junk), e, junk)
  BY <1>1, RawReadSteps
<1>4. <<>> \in T
  <2>1. BytesOf(<<>>) = <<>> /\ <<>> \in Seq(Bytes) /\ Len(<<>>) = 0
    BY DEF BytesOf
  <2>2. rd(<<>>) = rd0
    BY <1>3, <2>1
  <2>3. taken(<<>>) = <<>> /\ 0 \in 0 .. 0
    BY <1>2, <2>1, <2>2
  <2>4. ASSUME begins PROVE ReadSoFar(s0, a0, <<>>, rd0)
    <3>1. "text" \in Places
      BY Zenon DEF Places
    <3>2. PlaceAfter("text", <<>>) = "text" /\ Says(<<>>) = <<>> /\ Asks(<<>>) = <<>>
      BY <3>1, PlaceSteps, SaysSteps, AsksSteps
    <3>3. s0 \o <<>> = s0 /\ a0 \o <<>> = a0
      BY DEF Words, Asked
    <3>4. Stands(rd0, "text")
      BY <1>2, Zenon DEF Stands
    <3> DEFINE ls == LinesOf(s0).lines
    <3>5. ls \o TextsOf(<<>>) = ls
      <4>1. ls \in Seq(Words)
        BY LinesOfSteps DEF Drafts, Words
      <4>2. TextsOf(<<>>) = <<>>
        BY DEF TextsOf
      <4> HIDE DEF ls
      <4> QED
        BY <4>1, <4>2
    <3> HIDE DEF ls
    <3>6. Answered(a0) \o <<>> = Answered(a0)
      <4> DEFINE hello == IF a0 = <<>> THEN <<>> ELSE <<"WILL CHARSET">>
      <4>1. hello \in Seq(Replies)
        <5>1. "WILL CHARSET" \in Replies
          BY RepliesAreKnown
        <5>2. (\A a \in Replies : <<a>> \in Seq(Replies)) /\ <<>> \in Seq(Replies)
          OBVIOUS
        <5> QED
          BY <5>1, <5>2, Zenon
      <4> HIDE DEF hello
      <4>2. Answers(hello, a0) \in Seq(Replies)
        BY <4>1, AnswersSteps DEF Asked
      <4>3. Answered(a0) \in Seq(Replies)
        BY <4>2, Zenon DEF Answered, hello
      <4> QED
        BY <4>3
    <3>7. Answered(a0) = Answers(IF rd0.tried THEN <<"WILL CHARSET">> ELSE <<>>, a0)
      BY <1>2, <2>4, Zenon DEF Answered
    <3> QED
      BY <1>2, <2>4, <3>2, <3>3, <3>4, <3>5, <3>6, <3>7, Zenon DEF ReadSoFar, ls
  <2> QED
    BY <1>1, <1>2, <2>1, <2>2, <2>3, <2>4
<1>5. ASSUME NEW v \in T, NEW x \in Bytes PROVE Append(v, x) \in T
  <2> DEFINE z == Append(v, x)
             r == rd(v)
             q == rd(z)
  <2>1. v \in Seq(Bytes) /\ Good(v) /\ z \in Seq(Bytes) /\ Len(z) = Len(v) + 1 /\ Len(v) \in Nat
    OBVIOUS
  <2>2. q = RawStep(r, x.b, junk) /\ q \in Readings /\ r \in Readings
    <3>1. BytesOf(v) \in Seq(Letters) /\ x.b \in Letters /\ BytesOf(z) = Append(BytesOf(v), x.b)
      BY <2>1, BytesMore
    <3>2. BytesOf(z) \in Seq(Letters)
      BY <2>1, BytesAreLetters
    <3> QED
      BY <1>3, <3>1, <3>2
  <2>3. r.used \in 0 .. Len(v) /\ (r.end = Nothing => r.used = Len(v))
    BY <2>1
  <2>4. CASE r.end # Nothing
    <3>1. q = r
      BY <2>2, <2>4, Zenon DEF RawStep, Nothing
    <3>2. taken(z) = taken(v)
      BY <2>1, <2>3, <3>1, BeginningOf
    <3>3. r.used \in 0 .. Len(z)
      BY <2>1, <2>3
    <3> HIDE DEF z, rd, begins, T
    <3>4. Good(z)
      BY <2>1, <2>2, <2>4, <3>1, <3>2, <3>3
    <3> QED
      BY <2>1, <3>4, Zenon DEF T, z
  <2>5. CASE r.end = Nothing
    <3> DEFINE u == [r EXCEPT !.used = @ + 1]
    <3>1. u = [r EXCEPT !.used = r.used + 1] /\ r.used + 1 \in Nat
      BY <2>2, ReadingFields DEF Readings
    <3> HIDE DEF u
    <3>2. u \in Readings /\ u.used = r.used + 1
      BY <2>2, <3>1 DEF Readings
    <3>3. q = OnByte(u, x.b, junk)
      BY <2>2, <2>5, Zenon DEF RawStep, Nothing, u
    <3>4. q.used = Len(v) + 1
      <4>1. OnByte(u, x.b, junk).used = u.used
        BY <3>2, OnByteUsed
      <4> HIDE DEF q, r
      <4> QED
        BY <2>3, <2>5, <3>2, <3>3, <4>1
    <3>5. taken(z) = z /\ taken(v) = v
      BY <2>1, <2>3, <2>5, <3>4, BeginningOf
    <3>6. ASSUME PlaceAfter("text", z) # "nowhere", begins
          PROVE  ReadSoFar(s0, a0, z, q)
      <4>1. "text" \in Places
        BY Zenon DEF Places
      <4>2. PlaceAfter("text", z) = Follow(PlaceAfter("text", v), x)
        BY <2>1, <4>1, PlaceSteps
      <4>3. Follow("nowhere", x) = "nowhere"
        BY Zenon DEF Follow
      <4>4. PlaceAfter("text", v) # "nowhere"
        BY <3>6, <4>2, <4>3
      <4>5. ReadSoFar(s0, a0, v, r)
        BY <2>1, <3>5, <3>6, <4>4
      <4> HIDE DEF r, q
      <4> QED
        BY <2>1, <2>2, <2>5, <3>6, <4>5, ReadMore
    <3>7. q.used \in 0 .. Len(z) /\ q.used = Len(z)
      BY <2>1, <3>4
    <3> HIDE DEF z, rd, begins, T
    <3>8. Good(z)
      BY <2>1, <2>2, <3>5, <3>6, <3>7
    <3> QED
      BY <2>1, <3>8, Zenon DEF T, z
  <2> QED
    BY <2>4, <2>5
<1>6. T \in SUBSET Seq(Bytes)
  OBVIOUS
<1> HIDE DEF T
<1>7. T = Seq(Bytes)
  BY <1>4, <1>5, <1>6, AllSequences
<1>8. Good(s)
  BY <1>7 DEF T
<1> QED
  BY <1>8, Zenon DEF rd0

\* The place after two pieces.
LEMMA PlaceConcat ==
    ASSUME NEW at \in Places, NEW s \in Seq(Bytes), NEW t \in Seq(Bytes)
    PROVE  PlaceAfter(at, s \o t) = PlaceAfter(PlaceAfter(at, s), t)
<1> DEFINE p == PlaceAfter(at, s)
           T == {v \in Seq(Bytes) : PlaceAfter(at, s \o v) = PlaceAfter(p, v)}
<1>1. /\ PlaceAfter(at, <<>>) = at /\ \A v \in Seq(Bytes) : PlaceAfter(at, v) \in Places
      /\ \A v \in Seq(Bytes), e \in Bytes : PlaceAfter(at, Append(v, e)) = Follow(PlaceAfter(at, v), e)
  BY PlaceSteps
<1>2. p \in Places
  BY <1>1
<1> HIDE DEF p
<1>3. /\ PlaceAfter(p, <<>>) = p
      /\ \A v \in Seq(Bytes), e \in Bytes : PlaceAfter(p, Append(v, e)) = Follow(PlaceAfter(p, v), e)
  BY <1>2, PlaceSteps
<1>4. <<>> \in T
  <2>1. s \o <<>> = s /\ <<>> \in Seq(Bytes)
    OBVIOUS
  <2> QED
    BY <1>3, <2>1 DEF p
<1>5. ASSUME NEW v \in T, NEW x \in Bytes PROVE Append(v, x) \in T
  <2>1. v \in Seq(Bytes) /\ PlaceAfter(at, s \o v) = PlaceAfter(p, v)
    OBVIOUS
  <2>2. s \o v \in Seq(Bytes) /\ s \o Append(v, x) = Append(s \o v, x) /\ Append(v, x) \in Seq(Bytes)
    BY <2>1, ConcatAppend
  <2>3. PlaceAfter(at, Append(s \o v, x)) = Follow(PlaceAfter(at, s \o v), x)
    BY <1>1, <2>2
  <2>4. PlaceAfter(p, Append(v, x)) = Follow(PlaceAfter(p, v), x)
    BY <1>3, <2>1
  <2> QED
    BY <2>1, <2>2, <2>3, <2>4
<1>6. T \in SUBSET Seq(Bytes)
  OBVIOUS
<1> HIDE DEF T
<1>7. T = Seq(Bytes)
  BY <1>4, <1>5, <1>6, AllSequences
<1> QED
  BY <1>7 DEF T, p

\* Nothing leads back from nowhere.
LEMMA Nowhere == \A t \in Seq(Bytes) : PlaceAfter("nowhere", t) = "nowhere"
<1> DEFINE no == "nowhere"
           T == {v \in Seq(Bytes) : PlaceAfter(no, v) = no}
<1>1. no \in Places /\ \A x : Follow(no, x) = no
  BY Zenon DEF Places, Follow
<1> HIDE DEF no
<1>2. /\ PlaceAfter(no, <<>>) = no
      /\ \A v \in Seq(Bytes), e \in Bytes : PlaceAfter(no, Append(v, e)) = Follow(PlaceAfter(no, v), e)
  BY <1>1, PlaceSteps
<1>3. <<>> \in T /\ \A v \in T, x \in Bytes : Append(v, x) \in T
  BY <1>1, <1>2, EmptySeq, AppendProperties
<1>4. T \in SUBSET Seq(Bytes)
  OBVIOUS
<1> HIDE DEF T
<1>5. T = Seq(Bytes)
  BY <1>3, <1>4, AllSequences
<1> QED
  BY <1>5 DEF T, no

\* The lines of a read are so many rows more.
LEMMA RowsMore ==
    ASSUME NEW es \in Seq(Events), NEW ls \in Seq(LineEvents)
    PROVE  /\ es \o ls \in Seq(Events)
           /\ Len(ReceivedBy(es \o ls).rows) = Len(ReceivedBy(es).rows) + Len(ls)
<1> DEFINE n == Len(ReceivedBy(es).rows)
           T == {v \in Seq(LineEvents) : es \o v \in Seq(Events)
                                         /\ Len(ReceivedBy(es \o v).rows) = n + Len(v)}
<1>1. \A v \in Seq(Events) : ReceivedBy(v) \in Received
  BY ReceivedSteps
<1>2. n \in Nat
  BY <1>1 DEF Received
<1> HIDE DEF n
<1>3. <<>> \in T
  <2>1. es \o <<>> = es /\ <<>> \in Seq(LineEvents) /\ Len(<<>>) = 0
    OBVIOUS
  <2> QED
    BY <1>2, <2>1 DEF n
<1>4. ASSUME NEW v \in T, NEW e \in LineEvents PROVE Append(v, e) \in T
  <2>1. v \in Seq(LineEvents) /\ es \o v \in Seq(Events) /\ Len(ReceivedBy(es \o v).rows) = n + Len(v)
    OBVIOUS
  <2>2. LineEvents \subseteq Events /\ e \in Events /\ e.kind = "line"
    BY DEF LineEvents, Events
  <2>3. v \in Seq(Events)
    BY <2>1, <2>2, SeqMonotonic
  <2>4. es \o Append(v, e) = Append(es \o v, e)
    BY <2>2, <2>3, ConcatAppend
  <2> DEFINE st == ReceivedBy(es \o v)
             row == [html |-> e.html, charset |-> e.charset, prompted |-> st.prompted]
  <2>5. ReceivedBy(Append(es \o v, e)) = ToRows(st, e) /\ st \in Received
    BY <1>1, <2>1, <2>2, ReceivedSteps
  <2>6. ToRows(st, e).rows = Append(st.rows, row) /\ st.rows \in Seq(Rows) /\ row \in Rows
    <3> HIDE DEF st
    <3>1. row \in Rows
      BY <2>2, <2>5 DEF Rows, Received, Events
    <3>2. ToRows(st, e) = [rows |-> Append(st.rows, row), prompted |-> FALSE]
      BY <2>2, <2>5, ToRowsIs
    <3> HIDE DEF row
    <3> QED
      BY <2>5, <3>1, <3>2 DEF Received
  <2> HIDE DEF row
  <2>7. Len(ReceivedBy(es \o Append(v, e)).rows) = n + Len(v) + 1
    BY <1>2, <2>1, <2>4, <2>5, <2>6
  <2>8. Append(v, e) \in Seq(LineEvents) /\ Len(Append(v, e)) = Len(v) + 1 /\ Len(v) \in Nat
        /\ Append(es \o v, e) \in Seq(Events)
    BY <2>1, <2>2
  <2> HIDE DEF st
  <2> DEFINE z == Append(v, e)
  <2>9. z \in Seq(LineEvents) /\ es \o z \in Seq(Events)
    BY <2>4, <2>8
  <2>10. Len(ReceivedBy(es \o z).rows) = n + Len(z)
    BY <1>2, <2>7, <2>8
  <2> HIDE DEF z
  <2> QED
    BY <2>9, <2>10 DEF z
<1>5. T \in SUBSET Seq(LineEvents)
  OBVIOUS
<1> HIDE DEF T
<1>6. T = Seq(LineEvents)
  BY <1>3, <1>4, <1>5, AllSequences
<1> QED
  BY <1>6 DEF T, n

\* What net_read does: raw_read, and the lines and the prompt that come of it.
Reading(junk) == RawRead(StartReading(world.buff, world.tried, world.charset), BytesOf(wire), junk)
PromptOf(r, md) ==
    IF r.prompt THEN << [kind |-> "prompt", html |-> ConvertToJson(md, r.charset, r.buff).html,
                         charset |-> r.charset] >>
    ELSE <<>>
DoesRead(r, c) ==
    /\ r \in Readings /\ c = Converting(world.mdata, r.lines)
    /\ world' = [buff |-> r.buff, tried |-> r.tried, charset |-> r.charset,
                 mdata |-> IF r.prompt THEN ConvertToJson(c.mdata, r.charset, r.buff).md
                           ELSE c.mdata]
    /\ wire' = SubSeq(wire, r.used + 1, Len(wire))
    /\ events' = (events \o c.events) \o PromptOf(r, c.mdata)
    /\ replies' = replies \o r.replies
    /\ said' = said \o Says(SubSeq(wire, 1, r.used))
    /\ asked' = asked \o Asks(SubSeq(wire, 1, r.used))
    /\ garbled' = (garbled \/ Split(r))
    /\ link' = IF SawTheEnd(r, link = "ended") THEN "none" ELSE link
    /\ UNCHANGED <<todo, coming>>

\* So it does.
LEMMA NetReadDoes ==
    ASSUME TextInv, NetRead
    PROVE  /\ world \in OpenWorlds /\ link # "none"
           /\ \E junk \in BOOLEAN : DoesRead(Reading(junk), Converting(world.mdata, Reading(junk).lines))
<1>1. link # "none"
  BY Zenon DEF NetRead, CanRead
<1>2. world \in OpenWorlds /\ BytesOf(wire) \in Seq(Letters)
  BY <1>1, BytesAreLetters DEF TextInv
<1>3. \A junk \in BOOLEAN : Reading(junk) \in Readings
  <2>1. StartReading(world.buff, world.tried, world.charset) \in Readings
    BY <1>2, StartReadingIs
  <2> QED
    BY <1>2, <2>1, RawReadSteps, Zenon DEF Reading
<1>4. PICK junk \in BOOLEAN :
         LET r == Reading(junk)
             c == Converting(world.mdata, r.lines)
         IN /\ world' = [buff |-> r.buff, tried |-> r.tried, charset |-> r.charset,
                         mdata |-> IF r.prompt THEN ConvertToJson(c.mdata, r.charset, r.buff).md
                                   ELSE c.mdata]
            /\ wire' = SubSeq(wire, r.used + 1, Len(wire))
            /\ events' = (events \o c.events) \o PromptOf(r, c.mdata)
            /\ replies' = replies \o r.replies
            /\ said' = said \o Says(SubSeq(wire, 1, r.used))
            /\ asked' = asked \o Asks(SubSeq(wire, 1, r.used))
            /\ garbled' = (garbled \/ Split(r))
            /\ link' = IF SawTheEnd(r, link = "ended") THEN "none" ELSE link
  BY Zenon DEF NetRead, Converting, Reading, PromptOf
<1>5. UNCHANGED <<todo, coming>>
  BY Zenon DEF NetRead
<1>6. DoesRead(Reading(junk), Converting(world.mdata, Reading(junk).lines))
  BY <1>3, <1>4, <1>5, Zenon DEF DoesRead
<1> QED
  BY <1>1, <1>2, <1>6

\* The inductive invariant of what is read: what has arrived and is to come is something that
\* a MUD may say, and starts between two commands; what was read of it is in the lines and in
\* the buffer, and answered.
Matching ==
    /\ PlaceAfter("text", wire \o coming) = "text"
    /\ replies = Answered(asked)
    /\ link # "none" => (world.tried <=> asked # <<>>)
    /\ world # NoWorld =>
          /\ LinesOf(said).rest = world.buff
          /\ Len(ReceivedBy(events).rows) = Len(LinesOf(said).lines)
ReadInv ==
    /\ \A i \in DOMAIN todo : PlaceAfter("text", todo[i]) = "text"
    /\ link = "none" => wire = <<>> /\ coming = <<>>
    /\ link = "ended" => coming = <<>>
    /\ said \in Words /\ asked \in Asked /\ replies \in Seq(Replies)
    /\ ~garbled => Matching

\* The places to start from.
LEMMA Starts ==
    /\ "text" \in Places /\ PlaceAfter("text", <<>>) = "text" /\ PlaceAfter("text", <<>> \o <<>>) = "text"
    /\ Answered(<<>>) = <<>> /\ LinesOf(<<>>) = NoDraft
    /\ ReceivedBy(<<>>).rows = <<>> /\ <<>> \in Words /\ <<>> \in Asked
<1>1. "text" \in Places
  BY Zenon DEF Places
<1>2. PlaceAfter("text", <<>>) = "text" /\ LinesOf(<<>>) = NoDraft /\ ReceivedBy(<<>>) = NoRows
  BY <1>1, PlaceSteps, LinesOfSteps, ReceivedSteps
<1>3. <<>> \o <<>> = <<>>
  OBVIOUS
<1>4. Answers(<<>>, <<>>) = <<>>
  <2>1. <<>> \in Seq(Replies)
    BY EmptySeq
  <2> QED
    BY <2>1, AnswersSteps
<1>5. NoRows.rows = <<>> /\ <<>> \in Words /\ <<>> \in Asked
  BY EmptySeq DEF NoRows, Words, Asked
<1> QED
  BY <1>1, <1>2, <1>3, <1>4, <1>5, Zenon DEF Answered

\* Nothing was read.
LEMMA ReadInit == Init => ReadInv
<1> SUFFICES ASSUME Init PROVE ReadInv
  OBVIOUS
<1>1. \A i \in DOMAIN todo : PlaceAfter("text", todo[i]) = "text"
  BY TextPathAssumption DEF Init
<1>2. /\ wire = <<>> /\ coming = <<>> /\ said = <<>> /\ asked = <<>> /\ replies = <<>>
      /\ link = "none" /\ world = NoWorld
  BY DEF Init
<1>3. <<>> \in Seq(Replies)
  BY EmptySeq
<1> QED
  BY <1>1, <1>2, <1>3, Starts DEF ReadInv, Matching

\* The MUD says what a MUD may say.
LEMMA SayReads == TextInv /\ ReadInv /\ Say => ReadInv'
<1> SUFFICES ASSUME TextInv, ReadInv, Say PROVE ReadInv'
  OBVIOUS
<1> DEFINE unit == Head(todo)
<1>1. todo \in Seq(Seq(Bytes)) /\ todo # <<>> /\ wire \in Seq(Bytes) /\ coming = <<>> /\ link = "up"
  BY DEF TextInv, Say
<1>2. todo' = Tail(todo)
      /\ \/ unit = Bye /\ link' = "ended" /\ UNCHANGED <<coming, wire>>
         \/ coming' = unit /\ UNCHANGED <<wire, link>>
         \/ wire' = wire \o unit /\ UNCHANGED <<coming, link>>
      /\ UNCHANGED <<world, events, replies, said, asked, garbled>>
  BY Zenon DEF Say, historyVars
<1>3. unit \in Seq(Bytes) /\ PlaceAfter("text", unit) = "text"
      /\ \A i \in DOMAIN todo' : PlaceAfter("text", todo'[i]) = "text"
  <2>1. Len(todo) \in Nat /\ Len(todo) > 0 /\ DOMAIN todo = 1 .. Len(todo) /\ unit = todo[1]
        /\ DOMAIN Tail(todo) = 1 .. Len(todo) - 1
        /\ \A i \in 1 .. Len(todo) - 1 : Tail(todo)[i] = todo[i + 1]
    BY <1>1
  <2>2. unit \in Seq(Bytes)
    BY <1>1
  <2>3. \A i \in 1 .. Len(todo) - 1 : i + 1 \in DOMAIN todo
    BY <2>1
  <2>4. \A i \in DOMAIN todo : PlaceAfter("text", todo[i]) = "text"
    BY DEF ReadInv
  <2>5. 1 \in DOMAIN todo
    BY <2>1
  <2> HIDE DEF unit
  <2> QED
    BY <1>2, <2>1, <2>2, <2>3, <2>4, <2>5
<1>4. ASSUME ~garbled PROVE PlaceAfter("text", wire' \o coming') = "text"
  <2>1. PlaceAfter("text", wire \o coming) = "text"
    BY <1>4 DEF ReadInv, Matching
  <2>2. wire \o <<>> = wire /\ wire \o unit \in Seq(Bytes) /\ (wire \o unit) \o <<>> = wire \o unit
    BY <1>1, <1>3
  <2>3. PlaceAfter("text", wire \o unit) = "text"
    BY <1>1, <1>3, <2>1, <2>2, Starts, PlaceConcat
  <2> HIDE DEF unit
  <2>4. wire' \o coming' \in {wire, wire \o unit}
    BY <1>1, <1>2, <2>2
  <2> QED
    BY <1>1, <2>1, <2>2, <2>3, <2>4
<1> HIDE DEF unit
<1>5. link' \in {"up", "ended"} /\ (link' = "ended" => coming' = <<>>)
  BY <1>1, <1>2
<1> QED
  BY <1>1, <1>2, <1>3, <1>4, <1>5 DEF ReadInv, Matching

\* A sequence cut in two is the same sequence.
LEMMA SplitInTwo ==
    ASSUME NEW S, NEW s \in Seq(S), NEW n \in 0 .. Len(s)
    PROVE  /\ SubSeq(s, 1, n) \in Seq(S) /\ SubSeq(s, n + 1, Len(s)) \in Seq(S)
           /\ SubSeq(s, 1, n) \o SubSeq(s, n + 1, Len(s)) = s
<1>1. Len(s) \in Nat /\ n \in Nat /\ n <= Len(s)
  OBVIOUS
<1>2. SubSeq(s, 1, n) \in Seq(S) /\ SubSeq(s, n + 1, Len(s)) \in Seq(S)
  <2>1. /\ \A i \in 1 .. n : s[i] \in S
        /\ \A i \in n + 1 .. Len(s) : s[i] \in S
    BY <1>1
  <2> QED
    BY <1>1, <2>1, SubSeqProperties
<1>3. SubSeq(s, 1, n) \o SubSeq(s, n + 1, Len(s)) = SubSeq(s, 1, Len(s))
  <2>1. 1 \in 1 .. Len(s) + 1 /\ n \in 1 - 1 .. Len(s) /\ Len(s) \in n .. Len(s)
    BY <1>1
  <2>2. s \in Seq(S)
    OBVIOUS
  <2> QED
    BY ONLY <2>1, <2>2, ConcatAdjacentSubSeq
<1>4. SubSeq(s, 1, Len(s)) = s
  BY SubSeqFull
<1> QED
  BY <1>2, <1>3, <1>4

\* What arrives is what was said.
LEMMA ArriveReads == TextInv /\ ReadInv /\ Arrive => ReadInv'
<1> SUFFICES ASSUME TextInv, ReadInv, Arrive PROVE ReadInv'
  OBVIOUS
<1>1. wire \in Seq(Bytes) /\ coming \in Seq(Bytes)
  BY DEF TextInv
<1>2. PICK n \in DOMAIN coming : /\ wire' = wire \o SubSeq(coming, 1, n)
                                 /\ coming' = SubSeq(coming, n + 1, Len(coming))
  BY Zenon DEF Arrive
<1>3. coming # <<>> /\ UNCHANGED <<todo, link, world, events, replies, said, asked, garbled>>
  BY DEF Arrive, historyVars
<1>4. wire' \o coming' = wire \o coming
  <2> DEFINE s == SubSeq(coming, 1, n)
             t == SubSeq(coming, n + 1, Len(coming))
  <2>1. s \in Seq(Bytes) /\ t \in Seq(Bytes) /\ s \o t = coming
    <3>1. n \in 0 .. Len(coming)
      BY <1>1
    <3> QED
      BY <1>1, <3>1, SplitInTwo
  <2> HIDE DEF s, t
  <2>2. wire \in Seq(Bytes)
    BY <1>1
  <2>3. (wire \o s) \o t = wire \o (s \o t)
    <3>1. s \in Seq(Bytes) /\ t \in Seq(Bytes)
      BY <2>1
    <3> QED
      BY ONLY <2>2, <3>1, ConcatAssociative
  <2> QED
    BY <1>2, <2>1, <2>3 DEF s, t
<1>5. link # "none" /\ link # "ended"
  BY <1>3 DEF ReadInv
<1> QED
  BY <1>3, <1>4, <1>5 DEF ReadInv, Matching

\* The handlers of the user: what is cut off goes as a whole, and a new connection or a new
\* world starts afresh.
LEMMA ConnectReads == TextInv /\ ReadInv /\ WorldConnect => ReadInv'
<1> SUFFICES ASSUME TextInv, ReadInv, WorldConnect PROVE ReadInv'
  OBVIOUS
<1>1. /\ world \in OpenWorlds /\ world' = [world EXCEPT !.tried = FALSE]
      /\ link = "none" /\ link' = "up" /\ replies' = <<>> /\ asked' = <<>>
      /\ UNCHANGED <<todo, coming, wire, events, said, garbled>>
  BY DEF WorldConnect, Connected, TextInv, Worlds
<1>2. world'.tried = FALSE /\ world'.buff = world.buff /\ world # NoWorld
  BY <1>1, NewWorlds DEF OpenWorlds
<1>3. <<>> \in Seq(Replies)
  BY EmptySeq
<1> QED
  BY <1>1, <1>2, <1>3, Starts DEF ReadInv, Matching

\* A connection that ends.
LEMMA DisconnectReads == TextInv /\ ReadInv /\ WorldDisconnect => ReadInv'
<1> SUFFICES ASSUME TextInv, ReadInv, WorldDisconnect PROVE ReadInv'
  OBVIOUS
<1>1. coming' = <<>> /\ wire' = <<>> /\ link' = "none"
      /\ UNCHANGED <<todo, world, events, replies, said, asked, garbled>>
  BY DEF WorldDisconnect, historyVars
<1> QED
  BY <1>1, Starts DEF ReadInv, Matching

\* An echo is not a line of the MUD.
LEMMA EchoReads ==
    ASSUME TextInv, ReadInv, NEW text \in Echoes, NEW opens \in Opens, WorldEcho(text, opens)
    PROVE  ReadInv'
<1> DEFINE e == [kind |-> "echo", html |-> EchoHtml(text), charset |-> "UTF-8"]
<1>1. /\ events' = Append(events, e)
      /\ UNCHANGED <<todo, coming, wire, link, world, replies, said, asked, garbled>>
  BY Zenon DEF WorldEcho, EchoHtml, streamVars, historyVars
<1>2. e \in Events /\ e.kind = "echo" /\ events \in Seq(Events)
  <2>1. EchoHtml(text) \in Made
    BY CharactersAreLetters, TextPathAssumption, IsMade
  <2> QED
    BY <2>1 DEF Events, TextInv
<1> HIDE DEF e
<1>3. ReceivedBy(Append(events, e)) = ReceivedBy(events)
  <2>1. ReceivedBy(events) \in Received /\ ReceivedBy(Append(events, e)) = ToRows(ReceivedBy(events), e)
    BY <1>2, ReceivedSteps
  <2> QED
    BY <1>2, <2>1, ToRowsIs
<1> QED
  BY <1>1, <1>3 DEF ReadInv, Matching

\* A world that is opened.
LEMMA OpenReads ==
    ASSUME TextInv, ReadInv, NEW opens \in Opens, WorldOpen(opens)
    PROVE  ReadInv'
<1>1. /\ world = NoWorld /\ world' = NewWorld /\ events' = <<>> /\ replies' = <<>>
      /\ said' = <<>> /\ asked' = <<>> /\ UNCHANGED <<todo, coming, wire, link>>
  BY Zenon DEF WorldOpen, streamVars
<1>2. link = "none" /\ wire = <<>> /\ coming = <<>>
  BY <1>1, NewWorlds DEF TextInv, ReadInv
<1>3. NewWorld.buff = <<>> /\ NoDraft.rest = <<>> /\ NoDraft.lines = <<>>
  BY DEF NewWorld, NoWorld, NoDraft
<1>4. <<>> \in Seq(Replies)
  BY EmptySeq
<1>5. Matching'
  BY <1>1, <1>2, <1>3, Starts DEF Matching
<1> QED
  BY <1>1, <1>2, <1>4, <1>5, Starts DEF ReadInv

\* A world that is closed.
LEMMA CloseReads ==
    ASSUME TextInv, ReadInv, NEW opens \in Opens, WorldClose(opens)
    PROVE  ReadInv'
<1>1. /\ world' = NoWorld /\ coming' = <<>> /\ wire' = <<>> /\ link' = "none"
      /\ UNCHANGED <<todo, replies, said, asked, garbled>>
  BY Zenon DEF WorldClose, historyVars
<1> QED
  BY <1>1, Starts DEF ReadInv, Matching

\* A prompt is no row.
LEMMA PromptsMore ==
    ASSUME NEW es \in Seq(Events), NEW r \in Readings, NEW md \in Styles
    PROVE  /\ es \o PromptOf(r, md) \in Seq(Events)
           /\ ReceivedBy(es \o PromptOf(r, md)).rows = ReceivedBy(es).rows
<1> DEFINE conv == ConvertToJson(md, r.charset, r.buff)
           prompt == "prompt"
           e == [kind |-> prompt, html |-> conv.html, charset |-> r.charset]
<1>1. conv.html \in Made /\ r.charset \in Names
  BY ReadingFields, IsMade
<1>2. prompt \in {"line", "prompt", "echo"} /\ prompt = "prompt"
  OBVIOUS
<1> HIDE DEF conv, prompt
<1>3. e \in Events /\ e.kind = "prompt"
  BY <1>1, <1>2 DEF Events
<1>4. PromptOf(r, md) = IF r.prompt THEN <<e>> ELSE <<>>
  BY Zenon DEF PromptOf, conv, prompt
<1> HIDE DEF e
<1>5. ReceivedBy(es) \in Received /\ ReceivedBy(Append(es, e)) = ToRows(ReceivedBy(es), e)
  BY <1>3, ReceivedSteps
<1>6. ToRows(ReceivedBy(es), e) = [rows |-> ReceivedBy(es).rows, prompted |-> TRUE]
  BY <1>3, <1>5, ToRowsIs
<1>7. es \o <<e>> = Append(es, e) /\ es \o <<>> = es /\ Append(es, e) \in Seq(Events)
  BY <1>3
<1>8. es \in Seq(Events) /\ ReceivedBy(Append(es, e)).rows = ReceivedBy(es).rows
  BY <1>5, <1>6
<1>9. CASE r.prompt
  BY <1>4, <1>7, <1>8, <1>9
<1>10. CASE ~r.prompt
  BY <1>4, <1>7, <1>8, <1>10
<1> QED
  BY <1>9, <1>10

\* The texts of lines are as many lines.
LEMMA TextsAre ==
    ASSUME NEW ls \in Seq(ReadLines)
    PROVE  TextsOf(ls) \in Seq(Lines) /\ Len(TextsOf(ls)) = Len(ls)
<1>1. /\ DOMAIN ls = 1 .. Len(ls) /\ Len(ls) \in Nat /\ \A i \in 1 .. Len(ls) : ls[i] \in ReadLines
  OBVIOUS
<1>2. \A l \in ReadLines : l.text \in Lines
  BY DEF ReadLines
<1> QED
  BY <1>1, <1>2 DEF TextsOf

\* What net_read takes, when it takes no half command.
LEMMA NetReadTakes ==
    ASSUME TextInv, ReadInv, NetRead, ~garbled', NEW junk \in BOOLEAN,
           DoesRead(Reading(junk), Converting(world.mdata, Reading(junk).lines))
    PROVE  LET r == Reading(junk)
               taken == SubSeq(wire, 1, r.used)
               rest == SubSeq(wire, r.used + 1, Len(wire))
           IN  /\ Matching /\ ~Split(r) /\ ~garbled
               /\ PlaceAfter(PlaceAfter("text", taken), rest \o coming) = "text"
               /\ ReadSoFar(said, asked, taken, r)
<1> DEFINE r == Reading(junk)
           taken == SubSeq(wire, 1, r.used)
           rest == SubSeq(wire, r.used + 1, Len(wire))
           p == PlaceAfter("text", taken)
<1>1. world \in OpenWorlds /\ link # "none"
  BY NetReadDoes
<1>2. wire \in Seq(Bytes) /\ coming \in Seq(Bytes) /\ said \in Words /\ asked \in Asked
  BY DEF TextInv, ReadInv
<1>3. /\ r \in Readings /\ r.used \in 0 .. Len(wire) /\ taken \in Seq(Bytes)
      /\ p # "nowhere" /\ LinesOf(said).rest = world.buff /\ (world.tried <=> asked # <<>>)
           => ReadSoFar(said, asked, taken, r)
  BY <1>1, <1>2, RawReads, Zenon DEF Reading
<1>4. ~garbled /\ ~Split(r)
  BY Zenon DEF DoesRead
<1>5. Matching
  BY <1>4 DEF ReadInv
<1> HIDE DEF r
<1>6. taken \in Seq(Bytes) /\ rest \in Seq(Bytes) /\ taken \o rest = wire
  BY <1>2, <1>3, SplitInTwo
<1> HIDE DEF taken, rest
<1>7. "text" \in Places
  BY Starts
<1>8. PlaceAfter(p, rest \o coming) = "text"
  <2>1. taken \o (rest \o coming) = wire \o coming
    <3>1. (taken \o rest) \o coming = taken \o (rest \o coming)
      <4>1. taken \in Seq(Bytes) /\ rest \in Seq(Bytes) /\ coming \in Seq(Bytes)
        BY <1>2, <1>6
      <4> QED
        BY ONLY <4>1, ConcatAssociative
    <3> QED
      BY <1>6, <3>1
  <2>2. rest \o coming \in Seq(Bytes)
    BY <1>2, <1>6
  <2>3. PlaceAfter("text", taken \o (rest \o coming)) = PlaceAfter(p, rest \o coming)
    BY <1>6, <1>7, <2>2, PlaceConcat
  <2> QED
    BY <1>5, <2>1, <2>3 DEF Matching
<1>9. p # "nowhere"
  <2>1. rest \o coming \in Seq(Bytes)
    BY <1>2, <1>6
  <2>2. "nowhere" # "text"
    OBVIOUS
  <2> QED
    BY <1>8, <2>1, <2>2, Nowhere
<1>10. ReadSoFar(said, asked, taken, r)
  <2>1. NoWorld # world
    BY <1>1, NewWorlds
  <2> QED
    BY <1>1, <1>3, <1>5, <1>9, <2>1 DEF Matching
<1> QED
  BY <1>4, <1>5, <1>8, <1>10 DEF r, taken, rest

\* So net_read reads what the MUD said.
LEMMA NetReadReads == TextInv /\ ReadInv /\ NetRead => ReadInv'
<1> SUFFICES ASSUME TextInv, ReadInv, NetRead PROVE ReadInv'
  OBVIOUS
<1>1. /\ world \in OpenWorlds /\ link # "none"
      /\ \E junk \in BOOLEAN : DoesRead(Reading(junk), Converting(world.mdata, Reading(junk).lines))
  BY NetReadDoes
<1>2. PICK junk \in BOOLEAN : DoesRead(Reading(junk), Converting(world.mdata, Reading(junk).lines))
  BY <1>1
<1> DEFINE r == Reading(junk)
           c == Converting(world.mdata, r.lines)
           taken == SubSeq(wire, 1, r.used)
           rest == SubSeq(wire, r.used + 1, Len(wire))
           p == PlaceAfter("text", taken)
<1>3. /\ wire \in Seq(Bytes) /\ coming \in Seq(Bytes) /\ events \in Seq(Events)
      /\ said \in Words /\ asked \in Asked /\ replies \in Seq(Replies)
  BY DEF TextInv, ReadInv
<1>4. /\ r \in Readings /\ r.used \in 0 .. Len(wire)
      /\ r.end = Nothing => r.used = Len(wire)
      /\ taken \in Seq(Bytes)
      /\ p # "nowhere" /\ LinesOf(said).rest = world.buff /\ (world.tried <=> asked # <<>>)
           => ReadSoFar(said, asked, taken, r)
  BY <1>1, <1>3, RawReads, Zenon DEF Reading
<1>5. /\ world'.buff = r.buff /\ world'.tried = r.tried
      /\ wire' = rest
      /\ events' = (events \o c.events) \o PromptOf(r, c.mdata)
      /\ replies' = replies \o r.replies
      /\ said' = said \o Says(taken) /\ asked' = asked \o Asks(taken)
      /\ garbled' = (garbled \/ Split(r))
      /\ link' = IF SawTheEnd(r, link = "ended") THEN "none" ELSE link
      /\ UNCHANGED <<todo, coming>>
  <2> DEFINE md == IF r.prompt THEN ConvertToJson(c.mdata, r.charset, r.buff).md ELSE c.mdata
  <2>1. world' = [buff |-> r.buff, tried |-> r.tried, charset |-> r.charset, mdata |-> md]
        /\ r.tried = r.tried
    BY <1>2, Zenon DEF DoesRead
  <2> HIDE DEF md
  <2>2. world'.buff = r.buff /\ world'.tried = r.tried
    BY <2>1
  <2> QED
    BY <1>2, <2>2, Zenon DEF DoesRead
<1>6. r.lines \in Seq(ReadLines) /\ r.replies \in Seq(Replies) /\ r.buff \in Lines /\ r.tried \in BOOLEAN
  BY <1>4, ReadingFields
<1>7. c.mdata \in Styles /\ c.events \in Seq(LineEvents) /\ Len(c.events) = Len(r.lines)
  <2>1. world.mdata \in Styles
    BY <1>1 DEF OpenWorlds
  <2> HIDE DEF r
  <2> QED
    BY <1>6, <2>1, ConvertingIs DEF Converted
<1> HIDE DEF r, c, p
<1>8. taken \in Seq(Bytes) /\ rest \in Seq(Bytes) /\ taken \o rest = wire
  BY <1>3, <1>4, SplitInTwo
<1>9. r.end = Nothing => rest = <<>>
  BY <1>3, <1>4
<1> HIDE DEF taken, rest
<1>10. said' \in Words /\ asked' \in Asked /\ replies' \in Seq(Replies)
  <2>1. Says(taken) \in Words /\ Asks(taken) \in Asked
    BY <1>8, SaysSteps, AsksSteps
  <2> QED
    BY <1>3, <1>5, <1>6, <2>1, ConcatProperties DEF Words, Asked
<1>11. (link' = "none" => wire' = <<>> /\ coming' = <<>>) /\ (link' = "ended" => coming' = <<>>)
  <2>1. SawTheEnd(r, link = "ended") => link = "ended" /\ r.end = Nothing
    BY Zenon DEF SawTheEnd, Nothing
  <2>2. link = "ended" => coming = <<>>
    BY DEF ReadInv
  <2> QED
    BY <1>1, <1>5, <1>9, <2>1, <2>2
<1>12. ASSUME ~garbled' PROVE Matching'
  <2>1. /\ Matching /\ ~Split(r) /\ ReadSoFar(said, asked, taken, r)
        /\ PlaceAfter(p, rest \o coming) = "text"
    BY <1>2, <1>12, NetReadTakes DEF r, taken, rest, p
  <2>2. p = "text"
    <3>1. CASE r.end # Nothing
      BY <2>1, <3>1 DEF ReadSoFar, p
    <3>2. CASE r.end = Nothing
      <4>1. r.mode = "text"
        BY <2>1, <3>2, Zenon DEF Split, Nothing
      <4>2. Stands(r, p)
        BY <2>1 DEF ReadSoFar, p
      <4> QED
        BY <4>1, <4>2, Zenon DEF Stands
    <3> QED
      BY <3>1, <3>2
  <2>3. PlaceAfter("text", wire' \o coming') = "text"
    BY <1>5, <2>1, <2>2
  <2>4. r.tried <=> asked' # <<>>
    <3>1. r.tried <=> asked' # <<>> \/ p \notin {"text", "IAC"}
      BY <1>5, <2>1, Zenon DEF ReadSoFar, p
    <3> QED
      BY <2>2, <3>1
  <2>5. replies' = Answered(asked')
    <3>1. Answered(asked) \o r.replies
            = Answers(IF r.tried THEN <<"WILL CHARSET">> ELSE <<>>, asked \o Asks(taken))
      BY <2>1, Zenon DEF ReadSoFar
    <3>2. replies = Answered(asked)
      BY <2>1 DEF Matching
    <3>3. (IF r.tried THEN <<"WILL CHARSET">> ELSE <<>>)
            = (IF asked' = <<>> THEN <<>> ELSE <<"WILL CHARSET">>)
      BY <2>4
    <3> QED
      BY <1>5, <3>1, <3>2, <3>3, Zenon DEF Answered
  <2>6. LinesOf(said').rest = world'.buff
    BY <1>5, <2>1 DEF ReadSoFar
  <2>7. Len(ReceivedBy(events').rows) = Len(LinesOf(said').lines)
    <3>1. Len(ReceivedBy(events).rows) = Len(LinesOf(said).lines)
      BY <1>1, <2>1, NewWorlds DEF Matching
    <3>2. events \o c.events \in Seq(Events)
          /\ Len(ReceivedBy(events \o c.events).rows) = Len(ReceivedBy(events).rows) + Len(c.events)
      BY <1>3, <1>7, RowsMore
    <3>3. ReceivedBy(events').rows = ReceivedBy(events \o c.events).rows
      BY <1>4, <1>5, <1>7, <3>2, PromptsMore
    <3>4. LinesOf(said').lines = LinesOf(said).lines \o TextsOf(r.lines)
      BY <1>5, <2>1 DEF ReadSoFar
    <3>5. LinesOf(said).lines \in Seq(Words) /\ TextsOf(r.lines) \in Seq(Lines)
          /\ Len(TextsOf(r.lines)) = Len(r.lines)
      <4>1. LinesOf(said) \in Drafts
        BY <1>3, LinesOfSteps DEF Words
      <4>2. TextsOf(r.lines) \in Seq(Lines) /\ Len(TextsOf(r.lines)) = Len(r.lines)
        BY <1>6, TextsAre
      <4> QED
        BY <4>1, <4>2 DEF Drafts
    <3> DEFINE a == LinesOf(said).lines
               b == TextsOf(r.lines)
    <3>6. Len(a \o b) = Len(a) + Len(b)
      <4>1. a \in Seq(Words \cup Lines) /\ b \in Seq(Words \cup Lines)
        BY <3>5, SeqMonotonic
      <4> HIDE DEF a, b
      <4> QED
        BY <4>1
    <3> QED
      BY <1>7, <3>1, <3>2, <3>3, <3>4, <3>5, <3>6
  <2> QED
    BY <2>3, <2>4, <2>5, <2>6, <2>7, <1>5 DEF Matching
<1>13. \A i \in DOMAIN todo' : PlaceAfter("text", todo'[i]) = "text"
  BY <1>5 DEF ReadInv
<1> QED
  BY <1>10, <1>11, <1>12, <1>13 DEF ReadInv

\* Nothing else touches what is read.
LEMMA ReadStep == TextInv /\ ReadInv /\ [Next]_vars => ReadInv'
<1> SUFFICES ASSUME TextInv, ReadInv, [Next]_vars PROVE ReadInv'
  OBVIOUS
<1>1. ASSUME UNCHANGED <<todo, coming, wire, link, world, events, replies, said, asked, garbled>>
      PROVE ReadInv'
  BY <1>1 DEF ReadInv, Matching
<1>2. ASSUME NEW text \in Typed, WorldSend(text) PROVE ReadInv'
  <2>1. UNCHANGED <<todo, coming, wire, link, world, events, replies, said, asked, garbled>>
    BY <1>2, Zenon DEF WorldSend, streamVars
  <2> QED
    BY <1>1, <2>1
<1>3. CASE Midnight
  <2>1. UNCHANGED <<todo, coming, wire, link, world, events, replies, said, asked, garbled>>
    BY <1>3, Zenon DEF Midnight, streamVars, historyVars
  <2> QED
    BY <1>1, <2>1
<1>4. CASE UNCHANGED vars
  <2>1. UNCHANGED <<todo, coming, wire, link, world, events, replies, said, asked, garbled>>
    BY <1>4, Zenon DEF vars, streamVars, historyVars
  <2> QED
    BY <1>1, <2>1
<1>5. ASSUME NEW text \in Echoes, NEW opens \in Opens, WorldEcho(text, opens) PROVE ReadInv'
  BY <1>5, EchoReads
<1>6. ASSUME NEW opens \in Opens, WorldOpen(opens) \/ WorldClose(opens) PROVE ReadInv'
  BY <1>6, OpenReads, CloseReads
<1> QED
  BY <1>2, <1>3, <1>4, <1>5, <1>6, SayReads, ArriveReads, ConnectReads, DisconnectReads,
     NetReadReads, Zenon DEF Next

\* Telnet commands in and around the text of a MUD neither lose a line or a character of it nor
\* add one, wherever the network cuts it in pieces (TextIsKept; raw_read, handle_iac).
THEOREM TextOfTheMudIsKept == Spec => []TextIsKept
<1>1. ReadInv => TextIsKept
  BY Zenon DEF ReadInv, Matching, TextIsKept, LinesReceived, SaidLines, LinesOf, NoDraft,
               ReceivedBy, NoRows
<1> QED
  BY <1>1, TextInit, TextStep, ReadInit, ReadStep, PTL DEF Spec

\* Every telnet command of a MUD is answered, once, with the greeting before the first on every
\* connection (NegotiationAnswered; handle_iac, try_iac).
THEOREM CommandsAreAnswered == Spec => []NegotiationAnswered
<1>1. ReadInv => NegotiationAnswered
  BY Zenon DEF ReadInv, Matching, NegotiationAnswered, Answered, Answers
<1> QED
  BY <1>1, TextInit, TextStep, ReadInit, ReadStep, PTL DEF Spec

-----------------------------------------------------------------------------
(* What a terminal shows, and what a browser shows.                        *)

\* A terminal on the way.
Glyphs == Letters \cup Spoken
Scripts == Seq(Glyphs)
Screens == [md : Styles, shown : Seq(Glyphs \X Styles)]
NewScreen(md0) == [md |-> md0, shown |-> <<>>]

\* A character more on it.
LEMMA ShowCharIs ==
    ASSUME NEW st \in Screens, NEW c \in Glyphs
    PROVE  /\ ShowChar(st, c) \in Screens
           /\ c \in Escapes => ShowChar(st, c) = [md |-> SetCodes(st.md, c), shown |-> st.shown]
           /\ c \notin Escapes /\ c = "TAB" =>
                ShowChar(st, c) = [md |-> st.md, shown |-> st.shown \o << <<" ", st.md>>, <<" ", st.md>> >>]
           /\ c \notin Escapes /\ c # "TAB" =>
                ShowChar(st, c) = [md |-> st.md, shown |-> Append(st.shown, <<c, st.md>>)]
<1> DEFINE blank == <<" ", st.md>>
           glyph == <<c, st.md>>
           one == Append(st.shown, glyph)
           two == st.shown \o <<blank, blank>>
<1>1. st.md \in Styles /\ st.shown \in Seq(Glyphs \X Styles)
  BY DEF Screens
<1>2. " " \in Glyphs
  BY Zenon DEF Glyphs, Letters
<1>3. blank \in Glyphs \X Styles /\ glyph \in Glyphs \X Styles
  BY <1>1, <1>2
<1>4. one \in Seq(Glyphs \X Styles) /\ two \in Seq(Glyphs \X Styles)
  <2> DEFINE S == Glyphs \X Styles
  <2> HIDE DEF blank, glyph, S
  <2>1. blank \in S /\ glyph \in S /\ st.shown \in Seq(S)
    BY <1>1, <1>3 DEF S
  <2>2. <<blank, blank>> \in Seq(S)
    BY <2>1
  <2>3. one \in Seq(S) /\ two \in Seq(S)
    BY <2>1, <2>2, AppendProperties, ConcatProperties
  <2> QED
    BY <2>3 DEF S
<1>5. CASE c \in Escapes
  <2>1. ShowChar(st, c) = [st EXCEPT !.md = SetCodes(@, c)]
    <3>1. c # "TAB"
      BY <1>5 DEF Escapes, CodesOf
    <3> QED
      BY <1>5, <3>1, Zenon DEF ShowChar
  <2> DEFINE md == SetCodes(st.md, c)
  <2>2. md \in Styles
    BY <1>1, <1>5, SetCodesIs
  <2>3. ShowChar(st, c) = [st EXCEPT !.md = md]
    BY <2>1 DEF Screens
  <2> HIDE DEF md
  <2>4. ShowChar(st, c) = [md |-> md, shown |-> st.shown] /\ ShowChar(st, c) \in Screens
    BY <1>1, <2>2, <2>3 DEF Screens
  <2> QED
    BY <1>5, <2>4 DEF md
<1>6. CASE c \notin Escapes /\ c = "TAB"
  <2>1. ShowChar(st, c) = [st EXCEPT !.shown = @ \o <<blank, blank>>]
    BY <1>6, Zenon DEF ShowChar
  <2>2. ShowChar(st, c) = [st EXCEPT !.shown = two]
    <3> HIDE DEF blank
    <3> QED
      BY <2>1 DEF Screens
  <2> HIDE DEF two
  <2>3. ShowChar(st, c) = [md |-> st.md, shown |-> two] /\ ShowChar(st, c) \in Screens
    BY <1>1, <1>4, <2>2 DEF Screens
  <2> QED
    BY <1>6, <2>3 DEF two
<1>7. CASE c \notin Escapes /\ c # "TAB"
  <2>1. ShowChar(st, c) = [st EXCEPT !.shown = Append(@, glyph)]
    BY <1>7, Zenon DEF ShowChar
  <2>2. ShowChar(st, c) = [st EXCEPT !.shown = one]
    <3> HIDE DEF glyph
    <3> QED
      BY <2>1 DEF Screens
  <2> HIDE DEF one
  <2>3. ShowChar(st, c) = [md |-> st.md, shown |-> one] /\ ShowChar(st, c) \in Screens
    BY <1>1, <1>4, <2>2 DEF Screens
  <2> QED
    BY <1>7, <2>3 DEF one
<1> QED
  BY <1>5, <1>6, <1>7

\* A terminal, character by character.
LEMMA TerminalSteps ==
    ASSUME NEW md0 \in Styles
    PROVE  /\ Terminal(md0, <<>>) = NewScreen(md0)
           /\ \A s \in Seq(Glyphs) : Terminal(md0, s) \in Screens
           /\ \A s \in Seq(Glyphs), e \in Glyphs :
                 Terminal(md0, Append(s, e))
                   = ShowChar(Terminal(md0, s), e)
<1> DEFINE Op(r, e) == ShowChar(r, e)
           F == [p \in Screens \X Glyphs |-> Op(p[1], p[2])]
           q == NewScreen(md0)
<1>1. ASSUME NEW r \in Screens, NEW e \in Glyphs PROVE Op(r, e) \in Screens
  BY ShowCharIs
<1>2. q \in Screens
  BY EmptySeq DEF Screens, NewScreen
<1> HIDE DEF Op, q
<1>3. IsStep(F, Screens, Glyphs) /\ \A r \in Screens, e \in Glyphs : F[<<r, e>>] = Op(r, e)
  BY <1>1 DEF IsStep
<1> HIDE DEF F
<1>4. ASSUME NEW s \in Seq(Glyphs) PROVE Terminal(md0, s) = Fold(F, q, s)
  <2> DEFINE Iter(g) == g = [t \in SUBSET DOMAIN s |->
                               IF t = {} THEN q ELSE Op(g[t \ {Max(t)}], s[Max(t)])]
             iter == CHOOSE g : Iter(g)
  <2>1. Terminal(md0, s) = iter[DOMAIN s]
    BY Zenon DEF Terminal, FoldLeft, NewScreen, MapThenFoldSet, Op, q
  <2>2. PICK g \in [SUBSET (1 .. Len(s)) -> Screens] : IsFold(g, F, q, s, Len(s))
    BY <1>2, <1>3, FoldIsThere DEF IsStep
  <2>3. Iter(g)
    BY <1>3, <2>2, LastPlace DEF IsFold
  <2>4. Iter(iter)
    BY <2>3
  <2> HIDE DEF iter
  <2>5. /\ iter[{}] = q
        /\ \A t \in SUBSET (1 .. Len(s)) : t # {} => iter[t] = Op(iter[t \ {Max(t)}], s[Max(t)])
    BY <2>4, LastPlace
  <2> HIDE DEF Iter
  <2>6. Iterates(iter, Screens, F, q, s, Len(s))
    BY <1>3, <2>5, LastPlace DEF Iterates
  <2> QED
    BY <1>2, <1>3, <2>1, <2>6, FoldLeftIs
<1>5. FoldsOn(F, q, Screens, Glyphs)
  BY <1>2, <1>3, FoldMore
<1>6. ASSUME NEW s \in Seq(Glyphs), NEW e \in Glyphs
      PROVE  Terminal(md0, Append(s, e)) = Op(Terminal(md0, s), e)
  BY <1>3, <1>4, <1>5 DEF FoldsOn
<1>7. Terminal(md0, <<>>) = q /\ \A s \in Seq(Glyphs) : Terminal(md0, s) \in Screens
  BY <1>4, <1>5 DEF FoldsOn
<1> QED
  BY <1>6, <1>7, Zenon DEF Op, q

\* A terminal's style is one.
LEMMA TerminalIs ==
    ASSUME NEW md \in Styles, NEW t \in Scripts
    PROVE  Terminal(md, t) \in Screens /\ Terminal(md, t).md \in Styles
<1>1. Terminal(md, t) \in Screens
  BY TerminalSteps DEF Scripts
<1> QED
  BY <1>1 DEF Screens

\* The style after some lines, line by line.
LEMMA StyleSteps ==
    /\ StyleAfter(<<>>) = Plain
    /\ \A s \in Seq(Scripts) : StyleAfter(s) \in Styles
    /\ \A s \in Seq(Scripts), e \in Scripts :
          StyleAfter(Append(s, e))
            = Terminal(StyleAfter(s), e).md
<1> DEFINE Op(r, e) == Terminal(r, e).md
           F == [p \in Styles \X Scripts |-> Op(p[1], p[2])]
           q == Plain
<1>1. ASSUME NEW r \in Styles, NEW e \in Scripts PROVE Op(r, e) \in Styles
  BY TerminalIs
<1>2. q \in Styles
  BY DEF Plain, Styles
<1> HIDE DEF Op, q
<1>3. IsStep(F, Styles, Scripts) /\ \A r \in Styles, e \in Scripts : F[<<r, e>>] = Op(r, e)
  BY <1>1 DEF IsStep
<1> HIDE DEF F
<1>4. ASSUME NEW s \in Seq(Scripts) PROVE StyleAfter(s) = Fold(F, q, s)
  <2> DEFINE Iter(g) == g = [t \in SUBSET DOMAIN s |->
                               IF t = {} THEN q ELSE Op(g[t \ {Max(t)}], s[Max(t)])]
             iter == CHOOSE g : Iter(g)
  <2>1. StyleAfter(s) = iter[DOMAIN s]
    BY Zenon DEF StyleAfter, FoldLeft, MapThenFoldSet, Op, q
  <2>2. PICK g \in [SUBSET (1 .. Len(s)) -> Styles] : IsFold(g, F, q, s, Len(s))
    BY <1>2, <1>3, FoldIsThere DEF IsStep
  <2>3. Iter(g)
    BY <1>3, <2>2, LastPlace DEF IsFold
  <2>4. Iter(iter)
    BY <2>3
  <2> HIDE DEF iter
  <2>5. /\ iter[{}] = q
        /\ \A t \in SUBSET (1 .. Len(s)) : t # {} => iter[t] = Op(iter[t \ {Max(t)}], s[Max(t)])
    BY <2>4, LastPlace
  <2> HIDE DEF Iter
  <2>6. Iterates(iter, Styles, F, q, s, Len(s))
    BY <1>3, <2>5, LastPlace DEF Iterates
  <2> QED
    BY <1>2, <1>3, <2>1, <2>6, FoldLeftIs
<1>5. FoldsOn(F, q, Styles, Scripts)
  BY <1>2, <1>3, FoldMore
<1>6. ASSUME NEW s \in Seq(Scripts), NEW e \in Scripts
      PROVE  StyleAfter(Append(s, e)) = Op(StyleAfter(s), e)
  BY <1>3, <1>4, <1>5 DEF FoldsOn
<1>7. StyleAfter(<<>>) = q /\ \A s \in Seq(Scripts) : StyleAfter(s) \in Styles
  BY <1>4, <1>5 DEF FoldsOn
<1> QED
  BY <1>6, <1>7, Zenon DEF Op, q

\* What escape sequences do to a style: a colour is kept or set, flags are kept or dropped and
\* some are added.
Changes == [keepf : BOOLEAN, f : Int, keepb : BOOLEAN, b : Int, keep : BOOLEAN,
            flags : SUBSET DOMAIN FlagTag]
Changed(k, md) == [f |-> IF k.keepf THEN md.f ELSE k.f, b |-> IF k.keepb THEN md.b ELSE k.b,
                   flags |-> IF k.keep THEN md.flags \cup k.flags ELSE k.flags]

\* Twice is once.
LEMMA ChangedIs ==
    ASSUME NEW k \in Changes, NEW md \in Styles
    PROVE  Changed(k, md) \in Styles /\ Changed(k, Changed(k, md)) = Changed(k, md)
<1> DEFINE f == IF k.keepf THEN md.f ELSE k.f
           b == IF k.keepb THEN md.b ELSE k.b
           flags == IF k.keep THEN md.flags \cup k.flags ELSE k.flags
           new == Changed(k, md)
<1>1. f \in Int /\ b \in Int /\ flags \in SUBSET DOMAIN FlagTag
  BY DEF Changes, Styles
<1>2. new = [f |-> f, b |-> b, flags |-> flags]
  BY DEF Changed
<1>3. /\ f = IF k.keepf THEN f ELSE k.f
      /\ b = IF k.keepb THEN b ELSE k.b
      /\ flags = IF k.keep THEN flags \cup k.flags ELSE k.flags
  OBVIOUS
<1> HIDE DEF f, b, flags, new
<1>4. new.f = f /\ new.b = b /\ new.flags = flags
  BY <1>2
<1>5. Changed(k, new) = [f |-> f, b |-> b, flags |-> flags]
  BY <1>3, <1>4, Zenon DEF Changed
<1> QED
  BY <1>1, <1>2, <1>5 DEF Styles, new

\* One after the other is one.
LEMMA ChangesCompose ==
    ASSUME NEW j \in Changes, NEW k \in Changes
    PROVE  \E l \in Changes : \A md \in Styles : Changed(k, Changed(j, md)) = Changed(l, md)
<1> DEFINE f == IF k.keepf THEN j.f ELSE k.f
           b == IF k.keepb THEN j.b ELSE k.b
           flags == IF k.keep THEN j.flags \cup k.flags ELSE k.flags
           l == [keepf |-> k.keepf /\ j.keepf, f |-> f, keepb |-> k.keepb /\ j.keepb, b |-> b,
                 keep |-> k.keep /\ j.keep, flags |-> flags]
<1>1. f \in Int /\ b \in Int /\ flags \in SUBSET DOMAIN FlagTag
      /\ k.keepf \in BOOLEAN /\ k.keepb \in BOOLEAN /\ k.keep \in BOOLEAN
      /\ j.keepf \in BOOLEAN /\ j.keepb \in BOOLEAN /\ j.keep \in BOOLEAN
  BY DEF Changes
<1>2. l \in Changes
  <2> DEFINE u == k.keepf /\ j.keepf
             v == k.keepb /\ j.keepb
             w == k.keep /\ j.keep
  <2>1. u \in BOOLEAN /\ v \in BOOLEAN /\ w \in BOOLEAN
    OBVIOUS
  <2>2. l = [keepf |-> u, f |-> f, keepb |-> v, b |-> b, keep |-> w, flags |-> flags]
    OBVIOUS
  <2> HIDE DEF u, v, w, f, b, flags, l
  <2> QED
    BY <1>1, <2>1, <2>2 DEF Changes
<1>3. ASSUME NEW md \in Styles PROVE Changed(k, Changed(j, md)) = Changed(l, md)
  <2> DEFINE m == Changed(j, md)
  <2>1. /\ m.f = IF j.keepf THEN md.f ELSE j.f
        /\ m.b = IF j.keepb THEN md.b ELSE j.b
        /\ m.flags = IF j.keep THEN md.flags \cup j.flags ELSE j.flags
    BY DEF Changed
  <2>2. /\ l.keepf <=> k.keepf /\ j.keepf
        /\ l.keepb <=> k.keepb /\ j.keepb
        /\ l.keep <=> k.keep /\ j.keep
        /\ l.f = f /\ l.b = b /\ l.flags = flags
    <3> DEFINE u == k.keepf /\ j.keepf
               v == k.keepb /\ j.keepb
               w == k.keep /\ j.keep
    <3>1. l = [keepf |-> u, f |-> f, keepb |-> v, b |-> b, keep |-> w, flags |-> flags]
      OBVIOUS
    <3> HIDE DEF u, v, w, f, b, flags, l
    <3>2. l.keepf = u /\ l.keepb = v /\ l.keep = w /\ l.f = f /\ l.b = b /\ l.flags = flags
      BY <3>1
    <3> QED
      BY <3>2, Zenon DEF u, v, w
  <2> HIDE DEF m, l
  <2>3. (IF k.keepf THEN m.f ELSE k.f) = (IF l.keepf THEN md.f ELSE l.f)
    BY <2>1, <2>2
  <2>4. (IF k.keepb THEN m.b ELSE k.b) = (IF l.keepb THEN md.b ELSE l.b)
    BY <2>1, <2>2
  <2>5. (IF k.keep THEN m.flags \cup k.flags ELSE k.flags)
          = (IF l.keep THEN md.flags \cup l.flags ELSE l.flags)
    BY <2>1, <2>2
  <2>6. Changed(k, m) = Changed(l, md)
    BY <2>3, <2>4, <2>5, Zenon DEF Changed
  <2> QED
    BY <2>6 DEF m
<1> HIDE DEF l
<1> QED
  BY <1>2, <1>3

\* Nothing is a change, and so is one code.
LEMMA CodeChanges ==
    /\ \E k \in Changes : \A md \in Styles : Changed(k, md) = md
    /\ \A code \in Int : \E k \in Changes : \A md \in Styles : SetCode(md, code) = Changed(k, md)
<1> DEFINE Change(kf, f, kb, b, kk, flags) ==
             [keepf |-> kf, f |-> f, keepb |-> kb, b |-> b, keep |-> kk, flags |-> flags]
<1>1. \A md \in Styles : /\ md = [f |-> md.f, b |-> md.b, flags |-> md.flags]
                         /\ md.flags \cup {} = md.flags
  BY DEF Styles
<1>2. \E k \in Changes : \A md \in Styles : Changed(k, md) = md
  <2> DEFINE change == Change(TRUE, 0, TRUE, 0, TRUE, {})
  <2>8. change \in Changes
    BY DEF Changes
  <2>9. \A md \in Styles : Changed(change, md) = [f |-> md.f, b |-> md.b, flags |-> md.flags \cup {}]
    BY DEF Changed
  <2> HIDE DEF change
  <2> QED
    BY <1>1, <2>8, <2>9
<1>3. ASSUME NEW code \in Int
      PROVE  \E k \in Changes : \A md \in Styles : SetCode(md, code) = Changed(k, md)
  <2>1. CASE code = 0
    <3>1. \A md \in Styles : SetCode(md, code) = [f |-> 0, b |-> 0, flags |-> {}]
      BY <2>1 DEF SetCode, Plain
    <3> DEFINE change == Change(FALSE, 0, FALSE, 0, FALSE, {})
    <3>8. change \in Changes
      BY DEF Changes
    <3>9. \A md \in Styles : Changed(change, md) = [f |-> 0, b |-> 0, flags |-> {}]
      BY DEF Changed
    <3> HIDE DEF change
    <3> QED
      BY <3>1, <3>8, <3>9
  <2>2. CASE code \in 30 .. 37 \/ code \div 1000 = 38
    <3>1. \A md \in Styles : SetCode(md, code) = [f |-> code, b |-> md.b, flags |-> md.flags]
      BY <2>2 DEF SetCode, Styles
    <3> DEFINE change == Change(FALSE, code, TRUE, 0, TRUE, {})
    <3>8. change \in Changes
      BY DEF Changes
    <3>9. \A md \in Styles : Changed(change, md) = [f |-> code, b |-> md.b, flags |-> md.flags \cup {}]
      BY DEF Changed
    <3> HIDE DEF change
    <3> QED
      BY <1>1, <3>1, <3>8, <3>9
  <2>3. CASE code \in 40 .. 47 \/ code \div 1000 = 48
    <3>1. \A md \in Styles : SetCode(md, code) = [f |-> md.f, b |-> code, flags |-> md.flags]
      BY <2>3 DEF SetCode, Styles
    <3> DEFINE change == Change(TRUE, 0, FALSE, code, TRUE, {})
    <3>8. change \in Changes
      BY DEF Changes
    <3>9. \A md \in Styles : Changed(change, md) = [f |-> md.f, b |-> code, flags |-> md.flags \cup {}]
      BY DEF Changed
    <3> HIDE DEF change
    <3> QED
      BY <1>1, <3>1, <3>8, <3>9
  <2>4. ASSUME NEW flag \in DOMAIN FlagTag,
               \A md \in Styles : SetCode(md, code) = [f |-> md.f, b |-> md.b, flags |-> md.flags \cup {flag}]
        PROVE  \E k \in Changes : \A md \in Styles : SetCode(md, code) = Changed(k, md)
    <3> DEFINE change == Change(TRUE, 0, TRUE, 0, TRUE, {flag})
    <3>8. change \in Changes
      BY DEF Changes
    <3>9. \A md \in Styles : Changed(change, md) = [f |-> md.f, b |-> md.b, flags |-> md.flags \cup {flag}]
      BY DEF Changed
    <3> HIDE DEF change
    <3> QED
      BY <2>4, <3>8, <3>9
  <2>5. /\ "hilite" \in DOMAIN FlagTag /\ "underline" \in DOMAIN FlagTag
        /\ "invert" \in DOMAIN FlagTag /\ "flash" \in DOMAIN FlagTag
    BY DEF FlagTag
  <2>6. CASE code = 1
    <3>1. \A md \in Styles : SetCode(md, code) = [f |-> md.f, b |-> md.b, flags |-> md.flags \cup {"hilite"}]
      BY <2>6 DEF SetCode, Styles
    <3> QED
      BY <2>4, <2>5, <3>1
  <2>7. CASE code = 4
    <3>1. \A md \in Styles : SetCode(md, code) = [f |-> md.f, b |-> md.b, flags |-> md.flags \cup {"underline"}]
      BY <2>7 DEF SetCode, Styles
    <3> QED
      BY <2>4, <2>5, <3>1
  <2>8. CASE code = 7
    <3>1. \A md \in Styles : SetCode(md, code) = [f |-> md.f, b |-> md.b, flags |-> md.flags \cup {"invert"}]
      BY <2>8 DEF SetCode, Styles
    <3> QED
      BY <2>4, <2>5, <3>1
  <2>9. CASE code \in {3, 5, 6}
    <3>1. \A md \in Styles : SetCode(md, code) = [f |-> md.f, b |-> md.b, flags |-> md.flags \cup {"flash"}]
      BY <2>9 DEF SetCode, Styles
    <3> QED
      BY <2>4, <2>5, <3>1
  <2>10. CASE ~(\/ code \in 30 .. 37 \/ code \div 1000 = 38 \/ code \in 40 .. 47 \/ code \div 1000 = 48
                \/ code \in {0, 1, 3, 4, 5, 6, 7})
    <3>1. \A md \in Styles : SetCode(md, code) = md
      BY <2>10 DEF SetCode
    <3> QED
      BY <1>2, <3>1
  <2> QED
    BY <2>1, <2>2, <2>3, <2>6, <2>7, <2>8, <2>9, <2>10
<1> QED
  BY <1>2, <1>3

\* The codes of escape sequences are numbers.
LEMMA CodesAre == \A esc \in Escapes : CodesOf[esc] \in Seq(Int)
<1>1. <<31>> \in Seq(Int) /\ <<1>> \in Seq(Int) /\ <<0>> \in Seq(Int) /\ <<99>> \in Seq(Int)
      /\ <<4, 7, 44>> \in Seq(Int)
  OBVIOUS
<1>2. <<0, 31>> \in Seq(Int) /\ <<5, Colour256(38, 208)>> \in Seq(Int)
  BY DEF Colour256
<1> DEFINE Known == {<<31>>, <<1>>, <<0>>, <<99>>, <<4, 7, 44>>, <<0, 31>>, <<5, Colour256(38, 208)>>}
<1>3. Known \subseteq Seq(Int)
  BY <1>1, <1>2
<1>4. \A esc \in Escapes : CodesOf[esc] \in Known
  <2> DEFINE d == Colour256(38, 208)
  <2> HIDE DEF d
  <2> QED
    BY DEF Escapes, CodesOf
<1> HIDE DEF Known
<1> QED
  BY <1>3, <1>4

\* The style of a terminal after a character more.
LEMMA TerminalMore ==
    ASSUME NEW md \in Styles
    PROVE  /\ Terminal(md, <<>>).md = md
           /\ \A t \in Scripts, c \in Glyphs :
                 Terminal(md, Append(t, c)).md
                   = IF c \in Escapes THEN SetCodes(Terminal(md, t).md, c) ELSE Terminal(md, t).md
<1>1. Terminal(md, <<>>).md = md
  <2>1. NewScreen(md).md = md
    BY DEF NewScreen
  <2> QED
    BY <2>1, TerminalSteps
<1>2. ASSUME NEW t \in Scripts, NEW c \in Glyphs
      PROVE  Terminal(md, Append(t, c)).md
                   = IF c \in Escapes THEN SetCodes(Terminal(md, t).md, c) ELSE Terminal(md, t).md
  <2> DEFINE st == Terminal(md, t)
  <2>1. st \in Screens /\ Terminal(md, Append(t, c)) = ShowChar(st, c)
    BY TerminalSteps DEF Scripts
  <2> HIDE DEF st
  <2>2. ShowChar(st, c).md = IF c \in Escapes THEN SetCodes(st.md, c) ELSE st.md
    <3> DEFINE md1 == SetCodes(st.md, c)
               two == st.shown \o << <<" ", st.md>>, <<" ", st.md>> >>
               one == Append(st.shown, <<c, st.md>>)
    <3>1. /\ c \in Escapes => ShowChar(st, c) = [md |-> md1, shown |-> st.shown]
          /\ c \notin Escapes => ShowChar(st, c) = [md |-> st.md, shown |-> two]
                                  \/ ShowChar(st, c) = [md |-> st.md, shown |-> one]
      BY <2>1, ShowCharIs
    <3> HIDE DEF md1, two, one
    <3>2. /\ c \in Escapes => ShowChar(st, c).md = md1
          /\ c \notin Escapes => ShowChar(st, c).md = st.md
      BY <3>1
    <3> QED
      BY <3>2 DEF md1
  <2> QED
    BY <2>1, <2>2 DEF st
<1> QED
  BY <1>1, <1>2

\* So is a whole escape sequence.
LEMMA EscapeChanges ==
    \A esc \in Escapes : \E k \in Changes : \A md \in Styles : SetCodes(md, esc) = Changed(k, md)
<1> DEFINE Codes(md, s) == FoldLeft(SetCode, md, s)
           T == {s \in Seq(Int) : \E k \in Changes : \A md \in Styles : Codes(md, s) = Changed(k, md)}
<1>1. ASSUME NEW md \in Styles
      PROVE  /\ Codes(md, <<>>) = md
             /\ \A s \in Seq(Int) : Codes(md, s) \in Styles
             /\ \A s \in Seq(Int), e \in Int : Codes(md, Append(s, e)) = SetCode(Codes(md, s), e)
  BY SetCodeSteps
<1> HIDE DEF Codes
<1>2. <<>> \in T
  <2>1. \E k \in Changes : \A md \in Styles : Codes(md, <<>>) = Changed(k, md)
    BY <1>1, CodeChanges
  <2> QED
    BY <2>1, EmptySeq
<1>3. ASSUME NEW s \in T, NEW e \in Int PROVE Append(s, e) \in T
  <2>1. s \in Seq(Int) /\ Append(s, e) \in Seq(Int)
    OBVIOUS
  <2>2. PICK j \in Changes : \A md \in Styles : Codes(md, s) = Changed(j, md)
    OBVIOUS
  <2>3. PICK k \in Changes : \A md \in Styles : SetCode(md, e) = Changed(k, md)
    BY CodeChanges
  <2>4. PICK l \in Changes : \A md \in Styles : Changed(k, Changed(j, md)) = Changed(l, md)
    BY ChangesCompose
  <2>5. \A md \in Styles : Codes(md, Append(s, e)) = Changed(l, md)
    <3> TAKE md \in Styles
    <3>1. Codes(md, Append(s, e)) = SetCode(Codes(md, s), e) /\ Codes(md, s) \in Styles
      BY <1>1, <2>1
    <3> QED
      BY <2>2, <2>3, <2>4, <3>1
  <2> QED
    BY <2>1, <2>5
<1>4. T \in SUBSET Seq(Int)
  OBVIOUS
<1> HIDE DEF T
<1>5. T = Seq(Int)
  BY <1>2, <1>3, <1>4, AllSequences
<1>6. \A esc \in Escapes : CodesOf[esc] \in Seq(Int)
  BY CodesAre
<1>7. \A esc \in Escapes, md \in Styles : SetCodes(md, esc) = Codes(md, CodesOf[esc])
  BY Zenon DEF SetCodes, Codes
<1> SUFFICES ASSUME NEW esc \in Escapes
             PROVE  \E k \in Changes : \A md \in Styles : SetCodes(md, esc) = Changed(k, md)
  OBVIOUS
<1>8. PICK k \in Changes : \A md \in Styles : Codes(md, CodesOf[esc]) = Changed(k, md)
  BY <1>5, <1>6 DEF T
<1> QED
  BY <1>7, <1>8

\* So is what a text does to a style.
LEMMA TextChanges ==
    \A t \in Scripts : \E k \in Changes : \A md \in Styles : Terminal(md, t).md = Changed(k, md)
<1> DEFINE T == {s \in Seq(Glyphs) : \E k \in Changes : \A md \in Styles : Terminal(md, s).md = Changed(k, md)}
<1>1. <<>> \in T
  <2>1. PICK k \in Changes : \A md \in Styles : Changed(k, md) = md
    BY CodeChanges
  <2>2. \A md \in Styles : Terminal(md, <<>>).md = Changed(k, md)
    BY <2>1, TerminalMore
  <2> QED
    BY <2>2, EmptySeq
<1>2. ASSUME NEW s \in T, NEW c \in Glyphs PROVE Append(s, c) \in T
  <2>1. s \in Seq(Glyphs) /\ Append(s, c) \in Seq(Glyphs)
    OBVIOUS
  <2>2. PICK j \in Changes : \A md \in Styles : Terminal(md, s).md = Changed(j, md)
    OBVIOUS
  <2>3. CASE c \in Escapes
    <3>1. PICK k \in Changes : \A md \in Styles : SetCodes(md, c) = Changed(k, md)
      BY <2>3, EscapeChanges
    <3>2. PICK l \in Changes : \A md \in Styles : Changed(k, Changed(j, md)) = Changed(l, md)
      BY ChangesCompose
    <3>3. \A md \in Styles : Terminal(md, Append(s, c)).md = Changed(l, md)
      <4> TAKE md \in Styles
      <4>1. Terminal(md, Append(s, c)).md = SetCodes(Terminal(md, s).md, c) /\ Terminal(md, s).md \in Styles
        BY <2>1, <2>3, TerminalMore, TerminalIs DEF Scripts
      <4> QED
        BY <2>2, <3>1, <3>2, <4>1
    <3> QED
      BY <2>1, <3>3
  <2>4. CASE c \notin Escapes
    <3>1. \A md \in Styles : Terminal(md, Append(s, c)).md = Changed(j, md)
      BY <2>1, <2>2, <2>4, TerminalMore DEF Scripts
    <3> QED
      BY <2>1, <3>1
  <2> QED
    BY <2>3, <2>4
<1>3. T \in SUBSET Seq(Glyphs)
  OBVIOUS
<1> HIDE DEF T
<1>4. T = Seq(Glyphs)
  BY <1>1, <1>2, <1>3, AllSequences
<1> QED
  BY <1>4 DEF T, Scripts

\* A text leaves the style that it leaves when its beginning was read before.
LEMMA BeginningFirst ==
    ASSUME NEW md \in Styles, NEW t \in Scripts, NEW n \in 0 .. Len(t)
    PROVE  Terminal(Terminal(md, SubSeq(t, 1, n)).md, t).md = Terminal(md, t).md
<1> DEFINE Then(p, s) == Terminal(Terminal(md, p).md, s).md
           T == {s \in Seq(Glyphs) : \A k \in 0 .. Len(s) : Then(SubSeq(s, 1, k), s) = Terminal(md, s).md}
<1>0. ASSUME NEW s \in Seq(Glyphs) PROVE Then(s, s) = Terminal(md, s).md
  <2>1. PICK k \in Changes : \A m \in Styles : Terminal(m, s).md = Changed(k, m)
    BY TextChanges DEF Scripts
  <2>2. Terminal(md, s).md \in Styles
    BY TerminalIs DEF Scripts
  <2> QED
    BY <2>1, <2>2, ChangedIs
<1>1. <<>> \in T
  <2>1. \A k \in 0 .. Len(<<>>) : SubSeq(<<>>, 1, k) = <<>>
    OBVIOUS
  <2>2. Then(<<>>, <<>>) = Terminal(md, <<>>).md
    BY <1>0, EmptySeq
  <2> HIDE DEF Then
  <2> QED
    BY <2>1, <2>2, EmptySeq
<1>2. ASSUME NEW s \in T, NEW c \in Glyphs PROVE Append(s, c) \in T
  <2> DEFINE z == Append(s, c)
  <2>1. s \in Seq(Glyphs) /\ z \in Seq(Glyphs) /\ Len(s) \in Nat /\ Len(z) = Len(s) + 1
    OBVIOUS
  <2>2. \A k \in 0 .. Len(s) : SubSeq(z, 1, k) = SubSeq(s, 1, k) /\ SubSeq(s, 1, k) \in Seq(Glyphs)
    BY <2>1, BeginningOf
  <2>3. SubSeq(z, 1, Len(s) + 1) = z
    BY <2>1, BeginningOf
  <2>4. ASSUME NEW k \in 0 .. Len(s) PROVE Then(SubSeq(z, 1, k), z) = Terminal(md, z).md
    <3> DEFINE p == SubSeq(s, 1, k)
    <3>1. p \in Seq(Glyphs) /\ SubSeq(z, 1, k) = p /\ Then(p, s) = Terminal(md, s).md
      BY <2>2
    <3> HIDE DEF p
    <3>2. Terminal(md, p).md \in Styles
      BY <3>1, TerminalIs DEF Scripts
    <3>3. /\ Terminal(Terminal(md, p).md, z).md
               = IF c \in Escapes THEN SetCodes(Terminal(Terminal(md, p).md, s).md, c)
                 ELSE Terminal(Terminal(md, p).md, s).md
          /\ Terminal(md, z).md = IF c \in Escapes THEN SetCodes(Terminal(md, s).md, c)
                                  ELSE Terminal(md, s).md
      BY <2>1, <3>2, TerminalMore DEF Scripts
    <3> QED
      BY <3>1, <3>3
  <2>5. Then(SubSeq(z, 1, Len(s) + 1), z) = Terminal(md, z).md
    BY <1>0, <2>1, <2>3
  <2>6. \A k \in 0 .. Len(z) : k \in 0 .. Len(s) \/ k = Len(s) + 1
    BY <2>1
  <2> HIDE DEF z, Then
  <2>7. \A k \in 0 .. Len(z) : Then(SubSeq(z, 1, k), z) = Terminal(md, z).md
    BY <2>4, <2>5, <2>6
  <2> QED
    BY <2>1, <2>7 DEF z
<1>3. T \in SUBSET Seq(Glyphs)
  OBVIOUS
<1> HIDE DEF T
<1>4. T = Seq(Glyphs)
  BY <1>1, <1>2, <1>3, AllSequences
<1> QED
  BY <1>4 DEF T, Scripts

\* Letters that no charset has do not change a style.
LEMMA HighIsNoEscape == High \notin Escapes /\ Mojibake \notin Escapes /\ Mojibake \in Letters
<1>1. High \notin Escapes /\ Mojibake \notin Escapes
  BY DEF Escapes, CodesOf, High, Mojibake
<1>2. Mojibake \in Letters
  BY Zenon DEF Letters
<1> QED
  BY <1>1, <1>2

\* Nor does what stands for them.
LEMMA MojibakeStyle ==
    ASSUME NEW md \in Styles, NEW line \in Lines
    PROVE  LET u == [i \in DOMAIN line |-> IF line[i] = High THEN Mojibake ELSE line[i]]
           IN  u \in Lines /\ Terminal(md, u).md = Terminal(md, line).md
<1> DEFINE f == [c \in Letters |-> IF c = High THEN Mojibake ELSE c]
           U(s) == [i \in DOMAIN s |-> f[s[i]]]
           T == {s \in Seq(Letters) : U(s) \in Seq(Letters) /\ Terminal(md, U(s)).md = Terminal(md, s).md}
<1>1. \A c \in Letters : f[c] \in Letters /\ (f[c] \in Escapes <=> c \in Escapes)
                         /\ (c \in Escapes => f[c] = c)
  BY HighIsNoEscape
<1>2. Letters \subseteq Glyphs
  BY DEF Glyphs
<1>3. <<>> \in T
  <2>1. U(<<>>) = <<>>
    OBVIOUS
  <2> QED
    BY <2>1, EmptySeq
<1> HIDE DEF f
<1>4. ASSUME NEW s \in T, NEW c \in Letters PROVE Append(s, c) \in T
  <2>1. s \in Seq(Letters) /\ U(s) \in Seq(Letters) /\ Terminal(md, U(s)).md = Terminal(md, s).md
    OBVIOUS
  <2>2. U(Append(s, c)) = Append(U(s), f[c])
    BY <2>1, MapAppend
  <2> HIDE DEF U
  <2>3. U(s) \in Scripts /\ s \in Scripts /\ f[c] \in Glyphs /\ c \in Glyphs /\ f[c] \in Letters
    <3>1. U(s) \in Scripts /\ s \in Scripts
      BY <1>2, <2>1, SeqMonotonic DEF Scripts
    <3> QED
      BY <1>1, <1>2, <3>1
  <2>4. /\ Terminal(md, Append(s, c)).md
             = IF c \in Escapes THEN SetCodes(Terminal(md, s).md, c) ELSE Terminal(md, s).md
        /\ Terminal(md, Append(U(s), f[c])).md
             = IF f[c] \in Escapes THEN SetCodes(Terminal(md, U(s)).md, f[c]) ELSE Terminal(md, U(s)).md
    BY <2>3, TerminalMore
  <2>5. Append(s, c) \in Seq(Letters) /\ Append(U(s), f[c]) \in Seq(Letters)
    BY <2>1, <2>3
  <2>6. f[c] \in Letters /\ (f[c] \in Escapes <=> c \in Escapes) /\ (c \in Escapes => f[c] = c)
    BY <1>1
  <2>7. Terminal(md, Append(U(s), f[c])).md = Terminal(md, Append(s, c)).md
    <3>1. CASE c \in Escapes
      BY <2>1, <2>4, <2>6, <3>1
    <3>2. CASE c \notin Escapes
      BY <2>1, <2>4, <2>6, <3>2
    <3> QED
      BY <3>1, <3>2
  <2> QED
    BY <2>2, <2>5, <2>7
<1>5. T \in SUBSET Seq(Letters)
  OBVIOUS
<1> HIDE DEF T
<1>6. T = Seq(Letters)
  BY <1>3, <1>4, <1>5, AllSequences
<1>7. U(line) \in Seq(Letters) /\ Terminal(md, U(line)).md = Terminal(md, line).md
  BY <1>6 DEF T, Lines
<1>8. U(line) = [i \in DOMAIN line |-> IF line[i] = High THEN Mojibake ELSE line[i]]
  <2>1. \A i \in DOMAIN line : line[i] \in Letters
    BY DEF Lines
  <2>2. \A c \in Letters : f[c] = IF c = High THEN Mojibake ELSE c
    BY DEF f
  <2> QED
    BY <2>1, <2>2
<1> HIDE DEF U
<1> QED
  BY <1>7, <1>8 DEF Lines

\* What convert_charset leaves of a text may be read before it: the style after it is the same.
LEMMA ConvertedFirst ==
    ASSUME NEW md \in Styles, NEW line \in Lines, NEW cs
    PROVE  Terminal(Terminal(md, ConvertCharset(cs, line)).md, line).md = Terminal(md, line).md
<1>1. line \in Scripts /\ Len(line) \in Nat
  <2>1. Letters \subseteq Glyphs
    BY DEF Glyphs
  <2> QED
    BY <2>1, SeqMonotonic DEF Lines, Scripts
<1>2. Terminal(Terminal(md, line).md, line).md = Terminal(md, line).md
  <2>1. SubSeq(line, 1, Len(line)) = line
    BY <1>1, SubSeqFull DEF Scripts
  <2>2. Len(line) \in 0 .. Len(line)
    BY <1>1
  <2> QED
    BY <1>1, <2>1, <2>2, BeginningFirst
<1>3. CASE Legible(cs, line)
  <2>1. ConvertCharset(cs, line) = line
    BY <1>3, Zenon DEF ConvertCharset
  <2> QED
    BY <1>2, <2>1
<1>4. CASE ~Legible(cs, line) /\ cs \in Charsets
  <2> DEFINE k == SelectInSeq(line, LAMBDA t : t = High)
             n == Len(line)
             I == {i \in 1 .. n : line[i] = High}
  <2>1. ConvertCharset(cs, line) = SubSeq(line, 1, k - 1)
    BY <1>4, Zenon DEF ConvertCharset
  <2>0. DOMAIN line = 1 .. n /\ n \in Nat
    BY <1>1 DEF Scripts
  <2>2. I # {}
    BY <1>4, <2>0 DEF Legible
  <2>3. k = Min(I)
    BY <2>2 DEF SelectInSeq
  <2> HIDE DEF k
  <2>4. I \in SUBSET Nat /\ I \subseteq 1 .. n
    BY <2>0
  <2> HIDE DEF I, n
  <2>5. k \in Nat /\ k \in 1 .. n
    BY <2>2, <2>3, <2>4, MinIsIn
  <2>6. k - 1 \in 0 .. n
    BY <2>0, <2>5
  <2> QED
    BY <1>1, <2>1, <2>6, BeginningFirst DEF n
<1>5. CASE ~Legible(cs, line) /\ cs \notin Charsets
  <2> DEFINE u == [i \in DOMAIN line |-> IF line[i] = High THEN Mojibake ELSE line[i]]
  <2>1. ConvertCharset(cs, line) = u
    BY <1>5, Zenon DEF ConvertCharset
  <2>2. Terminal(md, u).md = Terminal(md, line).md
    BY MojibakeStyle
  <2> QED
    BY <1>2, <2>1, <2>2
<1> QED
  BY <1>3, <1>4, <1>5

\* To be somewhere in a sequence.
Among(x, s) == \E i \in DOMAIN s : s[i] = x

\* Which an element more decides.
LEMMA AmongMore ==
    ASSUME NEW S, NEW s \in Seq(S), NEW e \in S, NEW x
    PROVE  ~Among(x, <<>>) /\ (Among(x, Append(s, e)) <=> Among(x, s) \/ x = e)
<1>1. ~Among(x, <<>>)
  BY DEF Among
<1>2. Among(x, Append(s, e)) <=> Among(x, s) \/ x = e
  <2> DEFINE z == Append(s, e)
             n == Len(s)
  <2>1. /\ n \in Nat /\ DOMAIN s = 1 .. n /\ DOMAIN z = 1 .. n + 1
        /\ z[n + 1] = e /\ \A i \in 1 .. n : z[i] = s[i]
    OBVIOUS
  <2> HIDE DEF z, n
  <2>2. (\E i \in 1 .. n + 1 : z[i] = x) <=> (\E i \in 1 .. n : s[i] = x) \/ x = e
    BY <2>1
  <2> QED
    BY <2>1, <2>2 DEF Among, z
<1> QED
  BY <1>1, <1>2

\* The flags in order are the flags.
LEMMA FlagsAreKept ==
    ASSUME NEW md \in Styles
    PROVE  \A flag \in DOMAIN FlagTag : Among(flag, FlagsInOrder(md)) <=> flag \in md.flags
<1> DEFINE D == DOMAIN FlagTag
           K(s) == FlagsOf(md, s)
           T == {s \in Seq(D) : \A flag \in D : Among(flag, K(s)) <=> flag \in md.flags /\ Among(flag, s)}
<1>1. /\ K(<<>>) = <<>>
      /\ \A s \in Seq(D) : K(s) \in Seq(D)
      /\ \A s \in Seq(D), e \in D : K(Append(s, e)) = IF e \in md.flags THEN Append(K(s), e) ELSE K(s)
  BY FlagSteps
<1>2. FlagsInOrder(md) = K(FlagOrder)
  BY Zenon DEF FlagsInOrder, FlagsOf
<1>3. FlagOrder \in Seq(D)
  BY DEF FlagOrder, FlagTag
<1>4. \A flag \in D : Among(flag, FlagOrder)
  <2>1. /\ FlagOrder[1] = "underline" /\ FlagOrder[2] = "flash"
        /\ FlagOrder[3] = "hilite" /\ FlagOrder[4] = "invert" /\ DOMAIN FlagOrder = 1 .. 4
    BY DEF FlagOrder
  <2>2. \A flag \in D : flag \in {"underline", "flash", "hilite", "invert"}
    BY DEF FlagTag
  <2> QED
    BY <2>1, <2>2 DEF Among
<1> HIDE DEF K, D
<1>5. <<>> \in T
  BY <1>1, EmptySeq, AmongMore
<1>6. ASSUME NEW s \in T, NEW e \in D PROVE Append(s, e) \in T
  <2>1. s \in Seq(D) /\ Append(s, e) \in Seq(D) /\ K(s) \in Seq(D)
        /\ K(Append(s, e)) = IF e \in md.flags THEN Append(K(s), e) ELSE K(s)
    BY <1>1
  <2>4. \A flag \in D : Among(flag, K(s)) <=> flag \in md.flags /\ Among(flag, s)
    OBVIOUS
  <2>2. \A flag \in D : /\ Among(flag, Append(s, e)) <=> Among(flag, s) \/ flag = e
                        /\ Among(flag, Append(K(s), e)) <=> Among(flag, K(s)) \/ flag = e
    BY <2>1, AmongMore
  <2>3. \A flag \in D : Among(flag, K(Append(s, e))) <=> flag \in md.flags /\ Among(flag, Append(s, e))
    BY <2>1, <2>2, <2>4
  <2> QED
    BY <2>1, <2>3
<1>7. T \in SUBSET Seq(D)
  OBVIOUS
<1> HIDE DEF T
<1>8. T = Seq(D)
  BY <1>5, <1>6, <1>7, AllSequences
<1>9. \A flag \in D : Among(flag, K(FlagOrder)) <=> flag \in md.flags /\ Among(flag, FlagOrder)
  BY <1>3, <1>8 DEF T
<1> QED
  BY <1>2, <1>4, <1>9 DEF D

\* Every flag has a tag of its own, which is no colour.
LEMMA FlagTagsDiffer ==
    /\ \A a, b \in DOMAIN FlagTag : FlagTag[a] = FlagTag[b] => a = b
    /\ \A a \in DOMAIN FlagTag : Len(FlagTag[a]) # 3
<1>1. DOMAIN FlagTag = {"underline", "flash", "hilite", "invert"}
  BY DEF FlagTag
<1>2. /\ FlagTag["underline"] = <<"u">> /\ FlagTag["flash"] = <<"em">>
      /\ FlagTag["hilite"] = <<"strong">> /\ FlagTag["invert"] = <<"span", "invert">>
  BY DEF FlagTag
<1>3. <<"u">>[1] = "u" /\ <<"em">>[1] = "em" /\ <<"strong">>[1] = "strong"
      /\ <<"span", "invert">>[1] = "span"
  OBVIOUS
<1>4. FlagTag["underline"][1] = "u" /\ FlagTag["flash"][1] = "em"
      /\ FlagTag["hilite"][1] = "strong" /\ FlagTag["invert"][1] = "span"
  BY <1>2, <1>3
<1>5. Len(<<"u">>) # 3 /\ Len(<<"em">>) # 3 /\ Len(<<"strong">>) # 3 /\ Len(<<"span", "invert">>) # 3
  OBVIOUS
<1>6. ASSUME NEW a \in DOMAIN FlagTag, NEW b \in DOMAIN FlagTag, FlagTag[a] = FlagTag[b] PROVE a = b
  <2>1. FlagTag[a][1] = FlagTag[b][1]
    BY <1>6
  <2>2. a \in {"underline", "flash", "hilite", "invert"} /\ b \in {"underline", "flash", "hilite", "invert"}
    BY <1>1
  <2> QED
    BY <1>4, <2>1, <2>2
<1>7. ASSUME NEW a \in DOMAIN FlagTag PROVE Len(FlagTag[a]) # 3
  <2>2. a \in {"underline", "flash", "hilite", "invert"}
    BY <1>1
  <2> QED
    BY <1>2, <1>5, <2>2, Zenon
<1> QED
  BY <1>6, <1>7

\* The tags that start_span opens for a style show that style.
LEMMA StyleIsKept == \A md \in Styles : StyleOf(Tails(StartSpan(md))) = md
<1> SUFFICES ASSUME NEW md \in Styles PROVE StyleOf(Tails(StartSpan(md))) = md
  OBVIOUS
<1> DEFINE flags == FlagsInOrder(md)
           stack == StackOf(flags)
           o == <<"open", "span", md.b, md.f>>
           e == <<"span", md.b, md.f>>
           tags == Tails(StartSpan(md))
           n == Len(flags)
           colours == {i \in DOMAIN tags : Len(tags[i]) = 3}
           D == DOMAIN FlagTag
           f == IF colours = {} THEN 0 ELSE tags[Max(colours)][3]
           b == IF colours = {} THEN 0 ELSE tags[Max(colours)][2]
           held == {flag \in D : \E i \in DOMAIN tags : tags[i] = FlagTag[flag]}
<1>0. md.b \in Int /\ md.f \in Int /\ md.flags \in SUBSET D /\ md = [f |-> md.f, b |-> md.b, flags |-> md.flags]
  BY DEF Styles
<1>1. flags \in Seq(D) /\ n \in Nat /\ DOMAIN flags = 1 .. n
  BY FlagsInOrderIs
<1>2. /\ StartSpan(md) = OpenTags(flags) \o (IF Coloured(md) THEN <<o>> ELSE <<>>)
      /\ OpenTags(flags) \in Seq(Openings)
  BY <1>1, FlagTags, Zenon DEF StartSpan
<1>3. DOMAIN stack = 1 .. n /\ \A i \in 1 .. n : stack[i] = FlagTag[flags[i]] /\ flags[i] \in D
  BY <1>1 DEF StackOf
<1>4. Tails(OpenTags(flags)) = stack /\ stack \in Seq(InForce)
  <2>1. "flash" \in D
    BY DEF FlagTag
  <2> QED
    BY <1>1, <2>1, StackSteps
<1>5. StyleOf(tags) = [f |-> f, b |-> b, flags |-> held]
  BY Zenon DEF StyleOf
<1>6. \A flag \in D : (\E i \in 1 .. n : stack[i] = FlagTag[flag]) <=> flag \in md.flags
  <2> TAKE flag \in D
  <2>1. Among(flag, flags) <=> flag \in md.flags
    BY FlagsAreKept
  <2>2. (\E i \in 1 .. n : flags[i] = flag) <=> flag \in md.flags
    BY <1>1, <2>1 DEF Among
  <2>3. \A i \in 1 .. n : stack[i] = FlagTag[flag] <=> flags[i] = flag
    BY <1>3, FlagTagsDiffer
  <2> QED
    BY <2>2, <2>3
<1>7. \A i \in 1 .. n : Len(stack[i]) # 3
  BY <1>3, FlagTagsDiffer
<1>8. CASE ~Coloured(md)
  <2>1. StartSpan(md) = OpenTags(flags)
    BY <1>2, <1>8, ConcatEmptySeq
  <2>2. tags = stack
    BY <1>4, <2>1
  <2> HIDE DEF tags, stack
  <2>3. colours = {}
    BY <1>3, <1>7, <2>2
  <2>4. f = 0 /\ b = 0
    BY <2>3
  <2>5. md.f = 0 /\ md.b = 0
    BY <1>8 DEF Coloured
  <2>6. held = md.flags
    BY <1>0, <1>3, <1>6, <2>2
  <2> QED
    BY <1>0, <1>5, <2>4, <2>5, <2>6 DEF tags
<1>9. CASE Coloured(md)
  <2>1. o \in Openings /\ Tail(o) = e
    <3>1. o \in Openings
      BY <1>0 DEF Openings
    <3> QED
      BY <3>1, TailIs
  <2>2. Len(e) = 3 /\ e[2] = md.b /\ e[3] = md.f
    OBVIOUS
  <2> HIDE DEF o, e, stack, tags
  <2>3. StartSpan(md) = Append(OpenTags(flags), o)
    BY <1>2, <1>9, <2>1, AppendIsConcat
  <2>4. tags = Append(stack, e) /\ e \in InForce
    BY <1>2, <1>4, <2>1, <2>3, TailsSteps DEF tags
  <2>5. Len(stack) = n
    BY <1>1, <1>3, <1>4
  <2>6. DOMAIN tags = 1 .. n + 1 /\ tags[n + 1] = e /\ \A i \in 1 .. n : tags[i] = stack[i]
    BY <1>4, <2>4, <2>5
  <2>7. colours = {n + 1}
    BY <1>1, <1>7, <2>2, <2>6
  <2>8. Max(colours) = n + 1
    <3>1. Max(colours) \in colours
      <4> HIDE DEF colours, n
      <4>1. colours \subseteq 1 .. n + 1 /\ colours # {} /\ n + 1 \in Nat
        BY <1>1, <2>7
      <4> QED
        BY <4>1, MaxIsIn
    <3> HIDE DEF colours
    <3> QED
      BY <2>7, <3>1
  <2> HIDE DEF colours
  <2>9. f = md.f /\ b = md.b
    BY <2>2, <2>6, <2>7, <2>8
  <2>10. held = md.flags
    <3>1. \A flag \in D : e # FlagTag[flag]
      BY <2>2, FlagTagsDiffer
    <3>2. \A flag \in D : (\E i \in 1 .. n + 1 : tags[i] = FlagTag[flag])
                             <=> (\E i \in 1 .. n : stack[i] = FlagTag[flag])
      BY <1>1, <2>6, <3>1
    <3> QED
      BY <1>0, <1>6, <2>6, <3>2
  <2> QED
    BY <1>0, <1>5, <2>9, <2>10 DEF tags
<1> QED
  BY <1>8, <1>9

\* A piece of text more on a page.
LEMMA TextShows ==
    ASSUME NEW s \in Html, NEW c \in Letters \cup Entities
    PROVE  /\ Append(s, <<"text", c>>) \in Html
           /\ Browser(Append(s, <<"text", c>>)).tags = Browser(s).tags
           /\ Browser(Append(s, <<"text", c>>)).shown
                = IF c = " " /\ Browser(s).blank THEN Browser(s).shown
                  ELSE Append(Browser(s).shown, <<PlainText(c), StyleOf(Browser(s).tags)>>)
           /\ Browser(Append(s, <<"text", c>>)).blank <=> c = " "
<1> DEFINE t == <<"text", c>>
           b == Browser(s)
           blank == (c = " ")
           e == <<PlainText(c), StyleOf(b.tags)>>
           shown == Append(b.shown, e)
           new == Browser(Append(s, t))
<1>1. t \in Texts /\ t[1] = "text" /\ t[2] = c
  BY DEF Texts
<1>2. Append(s, t) \in Html /\ new.tags = b.tags
  <2> HIDE DEF t
  <2> QED
    BY <1>1, TextBrowses
<1>3. b \in Pages /\ new = Render(b, t)
  <2> HIDE DEF t
  <2> QED
    BY <1>1, BrowserSteps DEF Html, Tags
<1>4. new = IF c = " " /\ b.blank THEN b ELSE [b EXCEPT !.shown = Append(@, e), !.blank = blank]
  <2>1. "text" # "open" /\ "text" # "close"
    BY Zenon
  <2>2. Render(b, t) = IF t[2] = " " /\ b.blank THEN b
                       ELSE [b EXCEPT !.shown = Append(@, <<PlainText(t[2]), StyleOf(b.tags)>>),
                                      !.blank = (t[2] = " ")]
    <3> HIDE DEF t, b
    <3> QED
      BY <1>1, <2>1, Zenon DEF Render
  <2> HIDE DEF t, b
  <2> QED
    BY <1>1, <1>3, <2>2, Zenon
<1> HIDE DEF b, e, blank, t, new
<1>5. CASE c = " " /\ b.blank
  <2>1. new = b
    BY <1>4, <1>5
  <2> QED
    BY <1>2, <1>5, <2>1, Zenon DEF t, b, e, new
<1>6. CASE ~(c = " " /\ b.blank)
  <2>1. new = [b EXCEPT !.shown = Append(@, e), !.blank = blank]
    BY <1>4, <1>6, Zenon
  <2>2. new = [b EXCEPT !.shown = shown, !.blank = blank]
    BY <1>3, <2>1 DEF Pages
  <2> HIDE DEF shown
  <2>3. new.shown = shown /\ new.blank = blank
    BY <1>3, <2>2 DEF Pages
  <2> QED
    BY <1>2, <1>6, <2>3, Zenon DEF t, b, e, new, shown, blank
<1> QED
  BY <1>5, <1>6

\* Tags show nothing.
LEMMA TagsShow ==
    ASSUME NEW s \in Html, NEW v \in Seq(Tags)
    PROVE  s \o v \in Html /\ Browser(s \o v).shown = Browser(s).shown
<1> DEFINE B(h) == Browser(h)
           T == {w \in Seq(Tags) : s \o w \in Html /\ B(s \o w).shown = B(s).shown}
<1>1. /\ \A h \in Html : B(h) \in Pages
      /\ \A h \in Html, t \in Texts \cup Tags : B(Append(h, t)) = Render(B(h), t)
  BY BrowserSteps DEF Html
<1>2. ASSUME NEW b \in Pages, NEW t \in Tags PROVE Render(b, t).shown = b.shown
  <2>1. CASE t \in Openings
    <3>1. Render(b, t) = [b EXCEPT !.tags = Append(@, Tail(t))]
      BY <2>1, RenderIs
    <3> DEFINE d == Append(b.tags, Tail(t))
    <3>2. Render(b, t) = [b EXCEPT !.tags = d]
      BY <3>1 DEF Pages
    <3> HIDE DEF d
    <3> QED
      BY <3>2 DEF Pages
  <2>2. CASE t \in Closings
    <3> DEFINE d == Front(b.tags)
    <3>1. Render(b, t) \in {[b EXCEPT !.tags = d], [b EXCEPT !.fits = FALSE]}
      <4>1. Render(b, t) = IF b.tags # <<>> /\ Last(b.tags)[1] = t[2]
                           THEN [b EXCEPT !.tags = Front(@)] ELSE [b EXCEPT !.fits = FALSE]
        BY <2>2, RenderIs
      <4>2. [b EXCEPT !.tags = Front(@)] = [b EXCEPT !.tags = d]
        BY DEF Pages
      <4> HIDE DEF d
      <4> QED
        BY <4>1, <4>2, Zenon
    <3> HIDE DEF d
    <3> QED
      BY <3>1 DEF Pages
  <2> QED
    BY <2>1, <2>2 DEF Tags
<1> HIDE DEF B
<1>3. <<>> \in T
  <2>1. s \o <<>> = s
    BY ConcatEmptySeq DEF Html
  <2> QED
    BY <2>1, EmptySeq
<1>4. ASSUME NEW w \in T, NEW x \in Tags PROVE Append(w, x) \in T
  <2>1. w \in Seq(Tags) /\ s \o w \in Html /\ B(s \o w).shown = B(s).shown
    OBVIOUS
  <2>2. s \o Append(w, x) = Append(s \o w, x) /\ Append(s \o w, x) \in Html /\ x \in Texts \cup Tags
    <3>1. w \in Seq(Texts \cup Tags) /\ x \in Texts \cup Tags
      BY <2>1, SeqMonotonic
    <3> QED
      BY <2>1, <3>1, OneMore, AppendProperties DEF Html
  <2>3. B(Append(s \o w, x)).shown = B(s \o w).shown
    <3>1. B(Append(s \o w, x)) = Render(B(s \o w), x) /\ B(s \o w) \in Pages
      BY <1>1, <2>1, <2>2
    <3> QED
      BY <1>2, <3>1
  <2>4. Append(w, x) \in Seq(Tags)
    BY <2>1, AppendProperties
  <2> QED
    BY <2>1, <2>2, <2>3, <2>4
<1>5. T \in SUBSET Seq(Tags)
  OBVIOUS
<1> HIDE DEF T
<1>6. T = Seq(Tags)
  BY <1>3, <1>4, <1>5, AllSequences
<1> QED
  BY <1>6 DEF T, B

\* A blank at the end of HTML is one that a browser shows.
Blank == <<"text", " ">>
BlankShows(s) == \A t \in Html : s = Append(t, Blank) => ~Browser(t).blank

\* Pieces of text that are blanks.
LEMMA Blanks ==
    /\ Blank \in Texts /\ <<"text", "&nbsp;">> \in Texts /\ <<"text", "&nbsp;">> # Blank
    /\ " " \in Letters /\ "&nbsp;" \in Entities /\ "&nbsp;" # " "
    /\ \A c : <<"text", c>> = Blank => c = " "
<1>1. " " \in Letters /\ "&nbsp;" \in Entities /\ "&nbsp;" # " "
  BY Zenon DEF Letters, Entities
<1>2. ASSUME NEW c \in Letters \cup Entities PROVE <<"text", c>> \in Texts
  BY DEF Texts
<1>3. ASSUME NEW a, NEW b, <<"text", a>> = <<"text", b>> PROVE a = b
  <2>1. <<"text", a>>[2] = a /\ <<"text", b>>[2] = b
    OBVIOUS
  <2> QED
    BY <1>3, <2>1
<1> QED
  BY <1>1, <1>2, <1>3, Zenon DEF Blank

\* The last element of a sequence is one.
LEMMA AppendsDiffer ==
    ASSUME NEW S, NEW s \in Seq(S), NEW t \in Seq(S), NEW x \in S, NEW y \in S,
           Append(s, x) = Append(t, y)
    PROVE  s = t /\ x = y
<1>1. Last(Append(s, x)) = x /\ Front(Append(s, x)) = s
  BY FrontLastOfAppend
<1>2. Last(Append(t, y)) = y /\ Front(Append(t, y)) = t
  BY FrontLastOfAppend
<1> QED
  BY <1>1, <1>2

\* A blank that is kept from being lost shows as before, and whatever tags follow it, the last
\* thing is no blank.
LEMMA FixShows ==
    ASSUME NEW s \in Html, BlankShows(s), NEW v \in Seq(Tags)
    PROVE  /\ FixBlank(s) \o v \in Html
           /\ Browser(FixBlank(s) \o v).shown = Browser(s).shown
           /\ BlankShows(FixBlank(s) \o v)
<1> DEFINE nbsp == <<"text", "&nbsp;">>
           P == Texts \cup Tags
           f == FixBlank(s)
<1>1. f = IF s # <<>> /\ Last(s) = Blank THEN Append(Front(s), nbsp) ELSE s
  BY Zenon DEF FixBlank, Blank
<1>2. Blank \in P /\ nbsp \in P /\ nbsp # Blank
  BY Blanks
<1>3. f \in Html /\ Browser(f).shown = Browser(s).shown /\ \A t \in Html : f # Append(t, Blank)
  <2>1. CASE s # <<>> /\ Last(s) = Blank
    <3>1. PICK t \in Seq(P), x \in P : s = Append(t, x)
      BY <2>1, SequenceEmptyOrAppend DEF Html
    <3> HIDE DEF nbsp, P
    <3>2. Last(s) = x /\ Front(s) = t
      BY <3>1, FrontLastOfAppend
    <3>3. t \in Html /\ s = Append(t, Blank) /\ f = Append(t, nbsp)
      BY <1>1, <2>1, <3>1, <3>2 DEF Html, P
    <3>4. ~Browser(t).blank
      BY <3>3 DEF BlankShows
    <3>5. /\ Browser(Append(t, <<"text", " ">>)).shown
                = Append(Browser(t).shown, <<PlainText(" "), StyleOf(Browser(t).tags)>>)
          /\ Browser(Append(t, <<"text", "&nbsp;">>)).shown
                = Append(Browser(t).shown, <<PlainText("&nbsp;"), StyleOf(Browser(t).tags)>>)
      <4> DEFINE a == " "
                 b == "&nbsp;"
      <4>1. a \in Letters \cup Entities /\ b \in Letters \cup Entities /\ b # a
        BY Blanks
      <4> HIDE DEF a, b
      <4>2. Browser(Append(t, <<"text", a>>)).shown
                = IF a = " " /\ Browser(t).blank THEN Browser(t).shown
                  ELSE Append(Browser(t).shown, <<PlainText(a), StyleOf(Browser(t).tags)>>)
        BY <3>3, <4>1, TextShows, Zenon
      <4>3. Browser(Append(t, <<"text", b>>)).shown
                = IF b = " " /\ Browser(t).blank THEN Browser(t).shown
                  ELSE Append(Browser(t).shown, <<PlainText(b), StyleOf(Browser(t).tags)>>)
        BY <3>3, <4>1, TextShows, Zenon
      <4> QED
        BY <3>4, <4>2, <4>3, Zenon DEF a, b
    <3>6. Browser(f).shown = Browser(s).shown
      BY <3>3, <3>5, PlainTextIs, Zenon DEF Blank, nbsp
    <3>7. f \in Html
      BY <1>2, <3>3, AppendProperties DEF Html, P
    <3>8. ASSUME NEW u \in Html, f = Append(u, Blank) PROVE FALSE
      <4>1. Append(t, nbsp) = Append(u, Blank) /\ t \in Seq(P) /\ u \in Seq(P)
        BY <3>3, <3>8 DEF Html, P
      <4>2. nbsp = Blank
        BY <1>2, <4>1, AppendsDiffer
      <4> QED
        BY <1>2, <4>2
    <3> QED
      BY <3>6, <3>7, <3>8
  <2>2. CASE ~(s # <<>> /\ Last(s) = Blank)
    <3>1. f = s
      BY <1>1, <2>2, Zenon
    <3>2. ASSUME NEW u \in Html, s = Append(u, Blank) PROVE FALSE
      <4> HIDE DEF P
      <4>1. u \in Seq(P)
        BY DEF Html, P
      <4>2. Last(Append(u, Blank)) = Blank
        BY <1>2, <4>1, FrontLastOfAppend
      <4>3. Append(u, Blank) # <<>>
        <5>1. u \in Seq(P) /\ Blank \in P
          BY <1>2, <4>1
        <5> QED
          BY ONLY <5>1, AppendProperties
      <4> QED
        BY <2>2, <3>2, <4>2, <4>3
    <3> QED
      BY <3>1, <3>2
  <2> QED
    BY <2>1, <2>2
<1> HIDE DEF f, P, nbsp
<1>4. f \o v \in Html /\ Browser(f \o v).shown = Browser(f).shown
  BY <1>3, TagsShow
<1>5. \A t \in Html : f \o v # Append(t, Blank)
  <2>1. CASE v = <<>>
    <3>1. f \o v = f
      BY <1>3, <2>1, ConcatEmptySeq DEF Html
    <3> QED
      BY <1>3, <3>1
  <2>2. CASE v # <<>>
    <3>1. PICK w \in Seq(Tags), x \in Tags : v = Append(w, x)
      BY <2>2, SequenceEmptyOrAppend
    <3>2. w \in Seq(P) /\ x \in P /\ f \in Seq(P)
      <4>1. Tags \subseteq P
        BY DEF P
      <4> QED
        BY <1>3, <3>1, <4>1, SeqMonotonic DEF Html, P
    <3>3. f \o v = Append(f \o w, x) /\ f \o w \in Seq(P)
      BY <3>1, <3>2, OneMore, ConcatProperties
    <3>4. x # Blank
      <4>1. Blank[1] = "text"
        BY DEF Blank
      <4>2. x[1] \in {"open", "close"}
        BY DEF Tags, Openings, Closings
      <4>3. "text" \notin {"open", "close"}
        BY Zenon
      <4> QED
        BY <4>1, <4>2, <4>3
    <3>5. ASSUME NEW t \in Html, f \o v = Append(t, Blank) PROVE FALSE
      <4>1. t \in Seq(P) /\ Append(f \o w, x) = Append(t, Blank)
        BY <3>3, <3>5 DEF Html, P
      <4>2. x = Blank
        BY <1>2, <3>2, <3>3, <4>1, AppendsDiffer
      <4> QED
        BY <3>4, <4>2
    <3> QED
      BY <3>5
  <2> QED
    BY <2>1, <2>2
<1> QED
  BY <1>3, <1>4, <1>5 DEF BlankShows, f

\* The invariant of ansi2html's loop: what a browser shows of the HTML so far is what the
\* terminal shows, the markup is the terminal's style, and no blank is about to be lost.
Faithful(st, term) ==
    /\ Nested(st) /\ term \in Screens
    /\ Browser(st.html).shown = term.shown /\ st.md = term.md
    /\ Browser(st.html).blank => st.donbsp
    /\ BlankShows(st.html)
    /\ ~st.afterEsc => (st.inspan <=> StartSpan(st.md) # <<>>)

\* Tags between two texts.
LEMMA FaithfulSpan ==
    ASSUME NEW st, NEW term, Faithful(st, term), NEW v \in Seq(Tags), NEW p,
           Nested(p), p.html = FixBlank(st.html) \o v, p.md = st.md, p.donbsp,
           ~p.afterEsc => (p.inspan <=> StartSpan(p.md) # <<>>)
    PROVE  Faithful(p, term)
<1> DEFINE h == FixBlank(st.html) \o v
<1>1. st.html \in Html /\ BlankShows(st.html)
  BY DEF Faithful, Nested, Halfway
<1>2. Browser(h).shown = Browser(st.html).shown /\ BlankShows(h)
  BY <1>1, FixShows
<1> HIDE DEF h
<1>3. p.html = h
  BY DEF h
<1> QED
  BY <1>2, <1>3 DEF Faithful

\* The first escape sequence after a text.
LEMMA FaithfulClosed ==
    ASSUME NEW st, NEW term, Faithful(st, term)
    PROVE  /\ Nested(CloseText(st)) /\ ~CloseText(st).inspan
           /\ CloseText(st).md = st.md
           /\ Browser(CloseText(st).html).shown = term.shown
           /\ Browser(CloseText(st).html).blank => CloseText(st).donbsp
           /\ BlankShows(CloseText(st).html)
<1> DEFINE c == CloseText(st)
           v == EndSpan(st.md)
           h == FixBlank(st.html) \o v
<1>1. st \in Halfway /\ st.html \in Html /\ st.md \in Styles /\ Nested(st)
  BY DEF Faithful, Nested, Halfway
<1>2. Nested(c) /\ ~c.inspan
  BY <1>1, NestedClosed
<1>3. CASE ~st.inspan
  <2>1. c = st
    BY <1>3, Zenon DEF CloseText
  <2> QED
    BY <1>2, <2>1 DEF Faithful
<1>4. CASE st.inspan
  <2>1. c = [st EXCEPT !.html = h, !.donbsp = TRUE, !.inspan = FALSE]
    BY <1>4, Zenon DEF CloseText
  <2>2. v \in Seq(Tags)
    BY <1>1, SpansAreTags
  <2>3. Browser(h).shown = Browser(st.html).shown /\ BlankShows(h)
    BY <1>1, <2>2, FixShows DEF Faithful
  <2> HIDE DEF h, c
  <2>4. c.html = h /\ c.donbsp /\ c.md = st.md
    BY <1>1, <2>1 DEF Halfway
  <2> QED
    BY <1>2, <2>3, <2>4 DEF Faithful, c
<1> QED
  BY <1>3, <1>4

\* The first character after escape sequences.
LEMMA FaithfulOpen ==
    ASSUME NEW st, NEW term, Faithful(st, term)
    PROVE  Faithful(OpenText(st), term) /\ ~OpenText(st).afterEsc
<1> DEFINE o == OpenText(st)
           span == StartSpan(st.md)
           h == FixBlank(st.html) \o span
           in == span # <<>>
<1>1. st \in Halfway /\ st.html \in Html /\ st.md \in Styles /\ Nested(st) /\ st.afterEsc \in BOOLEAN
  BY DEF Faithful, Nested, Halfway
<1>2. Nested(o) /\ ~o.afterEsc
  BY <1>1, NestedOpen
<1>3. CASE ~st.afterEsc
  <2>1. o = st
    BY <1>3, Zenon DEF OpenText
  <2> QED
    BY <1>2, <2>1
<1>4. CASE st.afterEsc
  <2>1. o = [st EXCEPT !.html = h, !.donbsp = TRUE, !.inspan = in, !.afterEsc = FALSE]
    BY <1>4, Zenon DEF OpenText
  <2>2. span \in Seq(Tags)
    BY <1>1, SpansAreTags
  <2> HIDE DEF h, o, in
  <2>3. o.html = h /\ o.donbsp = TRUE /\ o.md = st.md /\ o.inspan = in
    BY <1>1, <2>1 DEF Halfway
  <2>4. o.html = FixBlank(st.html) \o span
    BY <2>3, Zenon DEF h
  <2>5. ~o.afterEsc => (o.inspan <=> StartSpan(o.md) # <<>>)
    BY <2>3, Zenon DEF in
  <2> HIDE DEF span
  <2>6. Faithful(o, term)
    BY <1>2, <2>2, <2>3, <2>4, <2>5, FaithfulSpan
  <2> QED
    BY <1>2, <2>6 DEF o
<1> QED
  BY <1>1, <1>3, <1>4

\* The style that a browser shows a character in.
LEMMA FaithfulStyle ==
    ASSUME NEW st, NEW term, Faithful(st, term), ~st.afterEsc
    PROVE  StyleOf(Browser(st.html).tags) = st.md
<1>1. st \in Halfway /\ st.md \in Styles /\ Nested(st)
  BY DEF Faithful, Nested, Halfway
<1>2. Browser(st.html).tags = Tails(StartSpan(st.md))
  <2>1. CASE st.inspan
    BY <2>1 DEF Faithful, Nested
  <2>2. CASE ~st.inspan
    <3>1. StartSpan(st.md) = <<>>
      BY <2>2 DEF Faithful
    <3>2. Tails(<<>>) = <<>>
      BY DEF Tails
    <3> QED
      BY <2>2, <3>1, <3>2 DEF Faithful, Nested
  <2> QED
    BY <2>1, <2>2
<1> QED
  BY <1>1, <1>2, StyleIsKept

\* A character.
LEMMA FaithfulPut ==
    ASSUME NEW st, NEW term, Faithful(st, term), ~st.afterEsc, NEW c \in Letters, c \notin Escapes
    PROVE  Faithful(PutChar(st, c), ShowChar(term, c))
<1> DEFINE blank == " "
           nbsp == "&nbsp;"
           s == st.html
           p == PutChar(st, c)
           q == ShowChar(term, c)
           b == Browser(s)
<1>1. /\ blank \in Letters /\ nbsp \in Entities /\ nbsp # blank
      /\ PlainText(nbsp) = blank /\ PlainText(blank) = blank
  BY PlainTextIs, Blanks, Zenon
<1>2. st \in Halfway /\ s \in Html /\ st.md \in Styles /\ Nested(st) /\ st.donbsp \in BOOLEAN
      /\ term \in Screens /\ st.md = term.md /\ b.shown = term.shown /\ (b.blank => st.donbsp)
  BY DEF Faithful, Nested, Halfway
<1>3. Nested(p)
  BY <1>2, NestedPut
<1>4. StyleOf(b.tags) = st.md
  BY FaithfulStyle
<1>5. c \in Glyphs
  BY DEF Glyphs
<1>6. /\ c = "TAB" => q = [md |-> term.md, shown |-> term.shown \o << <<blank, term.md>>, <<blank, term.md>> >>]
      /\ c # "TAB" => q = [md |-> term.md, shown |-> Append(term.shown, <<c, term.md>>)]
      /\ q \in Screens
  BY <1>2, <1>5, ShowCharIs
<1>7. b.shown \in Seq(Letters \X Styles)
  BY <1>2, BrowserSteps DEF Html, Pages
<1>8. ASSUME NEW h \in Html, NEW d \in BOOLEAN, p = [st EXCEPT !.html = h, !.donbsp = d],
             NEW shown, q = [md |-> term.md, shown |-> shown], Browser(h).shown = shown,
             Browser(h).blank => d, BlankShows(h)
      PROVE  Faithful(p, q)
  <2> HIDE DEF p, q
  <2>1. p.html = h /\ (p.inspan <=> st.inspan) /\ ~p.afterEsc /\ p.md = st.md /\ p.donbsp = d
    BY <1>2, <1>8 DEF Halfway
  <2>2. q.shown = shown /\ q.md = term.md
    BY <1>8
  <2> QED
    BY <1>2, <1>3, <1>6, <1>8, <2>1, <2>2 DEF Faithful
<1> HIDE DEF q, b
<1>9. CASE c = "TAB"
  <2> DEFINE x == <<"text", nbsp>>
             y == <<"text", blank>>
             h1 == Append(s, x)
             h == s \o <<x, y>>
             e == <<blank, st.md>>
  <2>1. p = [st EXCEPT !.html = h, !.donbsp = TRUE]
    <3>1. "TAB" # " "
      BY Zenon
    <3> QED
      BY <1>9, <3>1, Zenon DEF PutChar
  <2>2. h = Append(h1, y)
    <3>1. x \in Texts \cup Tags /\ y \in Texts \cup Tags
      BY Blanks, Zenon DEF Blank
    <3> HIDE DEF x, y
    <3> QED
      BY <1>2, <3>1, TwoMore DEF Html
  <2>3. /\ h1 \in Html /\ Browser(h1).tags = b.tags /\ ~Browser(h1).blank
        /\ Browser(h1).shown = Append(b.shown, e)
    <3> DEFINE z == nbsp
    <3>1. z \in Letters \cup Entities /\ z # " " /\ PlainText(z) = blank
      BY <1>1
    <3> HIDE DEF z
    <3>2. /\ Append(s, <<"text", z>>) \in Html
          /\ Browser(Append(s, <<"text", z>>)).tags = b.tags
          /\ Browser(Append(s, <<"text", z>>)).shown
                = IF z = " " /\ b.blank THEN b.shown
                  ELSE Append(b.shown, <<PlainText(z), StyleOf(b.tags)>>)
          /\ Browser(Append(s, <<"text", z>>)).blank <=> z = " "
      <4> HIDE DEF s
      <4>1. s \in Html
        BY <1>2 DEF s
      <4>2. /\ Append(s, <<"text", z>>) \in Html
            /\ Browser(Append(s, <<"text", z>>)).tags = Browser(s).tags
        BY ONLY <3>1, <4>1, TextShows
      <4>3. Browser(Append(s, <<"text", z>>)).shown
                = IF z = " " /\ Browser(s).blank THEN Browser(s).shown
                  ELSE Append(Browser(s).shown, <<PlainText(z), StyleOf(Browser(s).tags)>>)
        BY ONLY <3>1, <4>1, TextShows
      <4>4. Browser(Append(s, <<"text", z>>)).blank <=> z = " "
        BY ONLY <3>1, <4>1, TextShows
      <4> QED
        BY <4>2, <4>3, <4>4 DEF b
    <3> QED
      BY <1>4, <3>1, <3>2, Zenon DEF z
  <2> HIDE DEF h1, s
  <2>4. /\ Append(h1, y) \in Html
        /\ Browser(Append(h1, y)).shown = Append(Browser(h1).shown, e)
    <3> DEFINE z == blank
    <3>1. z \in Letters \cup Entities /\ PlainText(z) = blank
      BY <1>1
    <3> HIDE DEF z
    <3>2. /\ Append(h1, <<"text", z>>) \in Html
          /\ Browser(Append(h1, <<"text", z>>)).shown
                = IF z = " " /\ Browser(h1).blank THEN Browser(h1).shown
                  ELSE Append(Browser(h1).shown, <<PlainText(z), StyleOf(Browser(h1).tags)>>)
      BY <2>3, <3>1, TextShows
    <3> QED
      BY <1>4, <2>3, <3>1, <3>2, Zenon DEF z
  <2>5. b.shown \o <<e, e>> = Append(Append(b.shown, e), e)
    <3>1. e \in Letters \X Styles
      BY <1>1, <1>2
    <3> HIDE DEF e
    <3> QED
      BY <1>7, <3>1, TwoMore
  <2>6. BlankShows(Append(h1, y))
    <3> SUFFICES ASSUME NEW t \in Html, Append(h1, y) = Append(t, Blank) PROVE ~Browser(t).blank
      BY DEF BlankShows
    <3>1. y \in Texts \cup Tags /\ Blank \in Texts \cup Tags
      BY Blanks, Zenon DEF Blank
    <3> HIDE DEF y
    <3>2. t = h1
      <4> DEFINE P == Texts \cup Tags
      <4>1. h1 \in Seq(P) /\ t \in Seq(P) /\ y \in P /\ Blank \in P /\ Append(h1, y) = Append(t, Blank)
        BY <2>3, <3>1 DEF Html
      <4> HIDE DEF P
      <4> QED
        BY ONLY <4>1, AppendsDiffer
    <3> QED
      BY <2>3, <3>2
  <2> DEFINE shown == b.shown \o <<e, e>>
  <2>7. q = [md |-> term.md, shown |-> shown]
    BY <1>2, <1>6, <1>9, Zenon
  <2>8. Browser(h).shown = shown /\ h \in Html /\ BlankShows(h)
    BY <2>2, <2>3, <2>4, <2>5, <2>6
  <2> HIDE DEF h, shown, p
  <2>9. Faithful(p, q)
    BY <1>8, <2>1, <2>7, <2>8
  <2> QED
    BY <2>9 DEF p, q
<1>10. ASSUME NEW e \in Letters \cup Entities, PlainText(e) = c, NEW d \in BOOLEAN, c # "TAB",
              p = [st EXCEPT !.html = Append(s, <<"text", e>>), !.donbsp = d],
              e = blank => ~st.donbsp /\ d
       PROVE  Faithful(p, q)
  <2> DEFINE h == Append(s, <<"text", e>>)
             shown == Append(term.shown, <<c, term.md>>)
  <2>1. /\ h \in Html /\ (Browser(h).blank <=> e = " ")
        /\ Browser(h).shown = IF e = " " /\ b.blank THEN b.shown
                              ELSE Append(b.shown, <<PlainText(e), StyleOf(b.tags)>>)
    <3> HIDE DEF s
    <3>1. s \in Html
      BY <1>2 DEF s
    <3>2. e \in Letters \cup Entities
      BY <1>10
    <3>3. h \in Html
      BY ONLY <3>1, <3>2, TextShows DEF h
    <3>4. Browser(h).blank <=> e = " "
      BY ONLY <3>1, <3>2, TextShows DEF h
    <3>5. Browser(h).shown = IF e = " " /\ Browser(s).blank THEN Browser(s).shown
                             ELSE Append(Browser(s).shown, <<PlainText(e), StyleOf(Browser(s).tags)>>)
      BY ONLY <3>1, <3>2, TextShows DEF h
    <3> QED
      BY <3>3, <3>4, <3>5 DEF b
  <2>2. ~(e = blank /\ b.blank)
    BY <1>2, <1>10
  <2>3. Browser(h).shown = shown
    BY <1>2, <1>4, <1>10, <2>1, <2>2, Zenon
  <2>4. q = [md |-> term.md, shown |-> shown]
    BY <1>6, <1>10
  <2>5. BlankShows(h)
    <3> SUFFICES ASSUME NEW t \in Html, h = Append(t, Blank) PROVE ~Browser(t).blank
      BY DEF BlankShows
    <3> DEFINE x == <<"text", e>>
    <3>1. x \in Texts \cup Tags /\ Blank \in Texts \cup Tags
      <4>1. x \in Texts
        BY DEF Texts
      <4> QED
        BY <4>1, Blanks
    <3>2. h = Append(s, x)
      OBVIOUS
    <3> HIDE DEF x, h
    <3>3. t = s /\ x = Blank
      <4> DEFINE P == Texts \cup Tags
      <4>1. s \in Seq(P) /\ t \in Seq(P) /\ x \in P /\ Blank \in P /\ Append(s, x) = Append(t, Blank)
        BY <1>2, <3>1, <3>2 DEF Html
      <4> HIDE DEF P, s
      <4> QED
        BY ONLY <4>1, AppendsDiffer
    <3>4. e = blank
      BY <3>3, Blanks, Zenon DEF x
    <3> QED
      BY <2>2, <3>3, <3>4 DEF b
  <2>6. p = [st EXCEPT !.html = h, !.donbsp = d]
    BY <1>10
  <2>7. Browser(h).blank => d
    BY <1>10, <2>1
  <2> HIDE DEF h, shown, p
  <2> QED
    BY <1>8, <2>1, <2>3, <2>4, <2>5, <2>6, <2>7
<1>11. CASE c = blank
  <2>1. c # "TAB"
    BY <1>11, Zenon
  <2> DEFINE e == IF st.donbsp THEN nbsp ELSE blank
             d == NextDonbsp(st.donbsp)
  <2>2. p = [st EXCEPT !.html = Append(@, <<"text", e>>), !.donbsp = NextDonbsp(@)]
    BY <1>11, <2>1, Zenon DEF PutChar
  <2> HIDE DEF blank, nbsp, p
  <2>3. e \in Letters \cup Entities /\ PlainText(e) = c
    BY <1>1, <1>11
  <2>4. d \in BOOLEAN
    BY DEF NextDonbsp
  <2>5. e = blank => ~st.donbsp /\ d
    BY <1>1, Zenon DEF NextDonbsp
  <2> HIDE DEF e
  <2>6. p = [st EXCEPT !.html = Append(s, <<"text", e>>), !.donbsp = d]
    BY <1>2, <2>2 DEF Halfway
  <2> HIDE DEF d
  <2>7. Faithful(p, q)
    BY <1>10, <2>1, <2>3, <2>4, <2>5, <2>6
  <2> QED
    BY <2>7 DEF p, q
<1>12. CASE c # blank /\ c # "TAB"
  <2> DEFINE e == Entity(c)
             d == st.donbsp
  <2>1. p = [st EXCEPT !.html = Append(@, <<"text", e>>)]
    BY <1>12, Zenon DEF PutChar
  <2>2. e \in Letters \cup Entities /\ PlainText(e) = c
    BY PlainTextIs, Zenon
  <2>3. d \in BOOLEAN
    BY <1>2
  <2>4. e # blank
    BY <1>1, <1>12, <2>2, Zenon
  <2> HIDE DEF e, p
  <2>5. p = [st EXCEPT !.html = Append(s, <<"text", e>>), !.donbsp = d]
    BY <1>2, <2>1 DEF Halfway
  <2> HIDE DEF d
  <2>6. Faithful(p, q)
    BY <1>10, <1>12, <2>2, <2>3, <2>4, <2>5
  <2> QED
    BY <2>6 DEF p, q
<1> QED
  BY <1>9, <1>11, <1>12 DEF q

\* Every turn of the loop keeps it.
LEMMA FaithfulStep ==
    ASSUME NEW st, NEW term, Faithful(st, term), NEW c \in Letters
    PROVE  Faithful(PutToken(st, c), ShowChar(term, c))
<1>1. st \in Halfway /\ Nested(st) /\ term \in Screens /\ c \in Glyphs /\ st.md = term.md
  BY DEF Faithful, Nested, Glyphs
<1>2. CASE c \in Escapes
  <2> DEFINE closed == CloseText(st)
             md == SetCodes(term.md, c)
             p == PutToken(st, c)
             q == ShowChar(term, c)
  <2>1. p = [closed EXCEPT !.md = SetCodes(@, c), !.afterEsc = TRUE]
    BY <1>2, Zenon DEF PutToken
  <2>2. /\ Nested(closed) /\ closed.md = st.md /\ Browser(closed.html).shown = term.shown
        /\ (Browser(closed.html).blank => closed.donbsp) /\ BlankShows(closed.html)
    BY FaithfulClosed
  <2>3. Nested(p)
    BY <1>1, NestedStep
  <2>4. q = [md |-> md, shown |-> term.shown] /\ q \in Screens
    BY <1>1, <1>2, ShowCharIs
  <2> HIDE DEF closed, p, q
  <2>5. closed \in Halfway
    BY <2>2 DEF Nested
  <2>6. p = [closed EXCEPT !.md = md, !.afterEsc = TRUE]
    BY <1>1, <2>1, <2>2, <2>5 DEF Halfway
  <2> HIDE DEF md
  <2>7. p.html = closed.html /\ p.md = md /\ p.donbsp = closed.donbsp /\ p.afterEsc
    BY <2>5, <2>6 DEF Halfway
  <2>8. q.md = md /\ q.shown = term.shown
    BY <2>4
  <2>9. Faithful(p, q)
    BY <2>2, <2>3, <2>4, <2>7, <2>8 DEF Faithful
  <2> QED
    BY <2>9 DEF p, q
<1>3. CASE c \notin Escapes
  <2>1. PutToken(st, c) = PutChar(OpenText(st), c)
    BY <1>3, Zenon DEF PutToken
  <2> DEFINE open == OpenText(st)
  <2>2. Faithful(open, term) /\ ~open.afterEsc
    BY FaithfulOpen
  <2> HIDE DEF open
  <2>3. Faithful(PutChar(open, c), ShowChar(term, c))
    BY <1>3, <2>2, FaithfulPut
  <2> QED
    BY <2>1, <2>3 DEF open
<1> QED
  BY <1>2, <1>3

\* Before the first character.
LEMMA FaithfulStart ==
    ASSUME NEW md \in Styles
    PROVE  Faithful(Started(md), NewScreen(md))
<1> DEFINE span == StartSpan(md)
           in == span # <<>>
           st == Started(md)
           q == NewScreen(md)
<1>1. Nested(st) /\ span \in Html /\ Browser(span).shown = <<>>
  BY NestedStart
<1>2. q \in Screens
  BY TerminalSteps, EmptySeq
<1>3. BlankShows(span)
  <2>1. span \in Seq(Tags)
    BY SpansAreTags
  <2>2. <<>> \in Html /\ FixBlank(<<>>) = <<>>
    BY EmptySeq DEF Html, FixBlank
  <2>3. BlankShows(<<>>)
    <3> SUFFICES ASSUME NEW t \in Html, <<>> = Append(t, Blank) PROVE FALSE
      BY DEF BlankShows
    <3> DEFINE P == Texts \cup Tags
    <3>1. t \in Seq(P) /\ Blank \in P
      BY Blanks DEF Html
    <3> HIDE DEF P
    <3>2. Append(t, Blank) # <<>>
      BY ONLY <3>1, AppendProperties
    <3> QED
      BY <3>2
  <2> HIDE DEF span
  <2>4. <<>> \o span = span
    BY <2>1, ConcatEmptySeq
  <2>5. BlankShows(FixBlank(<<>>) \o span)
    BY <2>1, <2>2, <2>3, FixShows
  <2> QED
    BY <2>2, <2>4, <2>5
<1>4. st = [html |-> span, md |-> md, donbsp |-> TRUE, inspan |-> in, afterEsc |-> FALSE]
  BY DEF Started
<1>5. q = [md |-> md, shown |-> <<>>]
  BY DEF NewScreen
<1>6. StartSpan(md) = span
  OBVIOUS
<1> HIDE DEF st, in, span, q
<1>7. st.html = span /\ st.md = md /\ st.donbsp /\ (st.inspan <=> in)
  BY <1>4
<1>8. q.md = md /\ q.shown = <<>>
  BY <1>5
<1>9. st.inspan <=> StartSpan(st.md) # <<>>
  BY <1>6, <1>7 DEF in
<1> QED
  BY <1>1, <1>2, <1>3, <1>7, <1>8, <1>9 DEF Faithful, st, q

\* A browser shows a line as a terminal does, and the style after it is the terminal's.
LEMMA LineShows ==
    ASSUME NEW md \in Styles, NEW line \in Lines
    PROVE  /\ Browser(Ansi2Html(md, line).html).shown = Terminal(md, line).shown
           /\ Ansi2Html(md, line).md = Terminal(md, line).md
<1> DEFINE st0 == Started(md)
           Put(s) == FoldLeft(PutToken, st0, s)
           Show(s) == Terminal(md, s)
           T == {s \in Seq(Letters) : Faithful(Put(s), Show(s))}
<1>1. Ansi2Html(md, line) = IF line = <<>> THEN Put(line) ELSE CloseText(Put(line))
  BY Zenon DEF Ansi2Html, Started
<1>2. Faithful(st0, NewScreen(md)) /\ st0 \in Halfway
  BY FaithfulStart, NestedStart DEF Nested
<1> HIDE DEF st0
<1>3. /\ Put(<<>>) = st0
      /\ \A s \in Seq(Letters), e \in Letters : Put(Append(s, e)) = PutToken(Put(s), e)
  BY <1>2, PutTokenSteps
<1>4. /\ Show(<<>>) = NewScreen(md)
      /\ \A s \in Seq(Letters), e \in Letters : Show(Append(s, e)) = ShowChar(Show(s), e)
  <2>1. Letters \subseteq Glyphs
    BY DEF Glyphs
  <2>2. Seq(Letters) \subseteq Seq(Glyphs)
    BY <2>1, SeqMonotonic
  <2> QED
    BY <2>1, <2>2, TerminalSteps
<1> HIDE DEF Put, Show
<1>5. <<>> \in T
  BY <1>2, <1>3, <1>4, EmptySeq
<1>6. ASSUME NEW s \in T, NEW e \in Letters PROVE Append(s, e) \in T
  <2>1. s \in Seq(Letters) /\ Faithful(Put(s), Show(s))
    OBVIOUS
  <2>2. Faithful(PutToken(Put(s), e), ShowChar(Show(s), e)) /\ Append(s, e) \in Seq(Letters)
    BY <2>1, FaithfulStep, AppendProperties
  <2> QED
    BY <1>3, <1>4, <2>1, <2>2
<1>7. T \in SUBSET Seq(Letters)
  OBVIOUS
<1> HIDE DEF T
<1>8. T = Seq(Letters)
  BY <1>5, <1>6, <1>7, AllSequences
<1>9. Faithful(Put(line), Show(line))
  BY <1>8 DEF T, Lines
<1>10. /\ Browser(Put(line).html).shown = Show(line).shown /\ Put(line).md = Show(line).md
  BY <1>9 DEF Faithful
<1>11. CASE line = <<>>
  BY <1>1, <1>10, <1>11 DEF Show
<1>12. CASE line # <<>>
  <2>1. /\ Browser(CloseText(Put(line)).html).shown = Show(line).shown
        /\ CloseText(Put(line)).md = Put(line).md
    BY <1>9, FaithfulClosed
  <2> QED
    BY <1>1, <1>10, <1>12, <2>1 DEF Show
<1> QED
  BY <1>11, <1>12

-----------------------------------------------------------------------------
(* Pages show what was said.                                               *)

\* Whoever agrees on the style after a text agrees on the one after another.
SameAfter(a, b) ==
    \A md1 \in Styles, md2 \in Styles :
        Terminal(md1, a).md = Terminal(md2, a).md => Terminal(md1, b).md = Terminal(md2, b).md

\* What is said is a script, and what is read is, too.
LEMMA AllAreScripts == Words \subseteq Scripts /\ Lines \subseteq Scripts /\ <<>> \in Scripts
<1>1. Spoken \subseteq Glyphs /\ Letters \subseteq Glyphs
  BY DEF Glyphs
<1>2. Seq(Spoken) \subseteq Seq(Glyphs) /\ Seq(Letters) \subseteq Seq(Glyphs)
  BY <1>1, SeqMonotonic
<1> QED
  BY <1>2, EmptySeq DEF Words, Lines, Scripts

\* So does one who reads on.
LEMMA SameAfterMore ==
    /\ \A a : SameAfter(a, a)
    /\ \A b \in Scripts : SameAfter(<<>>, b)
    /\ \A a : \A b \in Scripts, c \in Glyphs : SameAfter(a, b) => SameAfter(a, Append(b, c))
<1>1. \A a : SameAfter(a, a)
  BY Zenon DEF SameAfter
<1>2. ASSUME NEW b \in Scripts PROVE SameAfter(<<>>, b)
  <2>1. \A md \in Styles : Terminal(md, <<>>).md = md
    BY TerminalMore
  <2> QED
    BY <2>1 DEF SameAfter
<1>3. ASSUME NEW a, NEW b \in Scripts, NEW c \in Glyphs, SameAfter(a, b)
      PROVE  SameAfter(a, Append(b, c))
  <2>1. \A md \in Styles : Terminal(md, Append(b, c)).md
            = IF c \in Escapes THEN SetCodes(Terminal(md, b).md, c) ELSE Terminal(md, b).md
    BY TerminalMore
  <2> QED
    BY <1>3, <2>1 DEF SameAfter
<1> QED
  BY <1>1, <1>2, <1>3

\* The unfinished line is the beginning of the next.
LEMMA LinesGrow ==
    ASSUME NEW s \in Words, NEW v \in Words
    PROVE  LET a == LinesOf(s)
               d == LinesOf(s \o v)
           IN  /\ Len(d.lines) >= Len(a.lines)
               /\ Len(d.lines) = Len(a.lines) => SameAfter(a.rest, d.rest)
               /\ Len(d.lines) # Len(a.lines) => SameAfter(a.rest, d.lines[Len(a.lines) + 1])
<1> DEFINE a == LinesOf(s)
           n == Len(a.lines)
           D(u) == LinesOf(s \o u)
           T == {u \in Seq(Spoken) :
                    /\ Len(D(u).lines) >= n
                    /\ Len(D(u).lines) = n => SameAfter(a.rest, D(u).rest)
                    /\ Len(D(u).lines) # n => SameAfter(a.rest, D(u).lines[n + 1])}
<1>1. s \in Seq(Spoken) /\ v \in Seq(Spoken)
  BY DEF Words
<1>2. a \in Drafts /\ \A u \in Seq(Spoken) : D(u) \in Drafts
  BY <1>1, LinesOfSteps, ConcatProperties
<1>3. a.lines \in Seq(Words) /\ n \in Nat
  BY <1>2 DEF Drafts
<1>4. D(<<>>) = a
  BY <1>1
<1> HIDE DEF a
<1>5. \A u \in Seq(Spoken), c \in Spoken : D(Append(u, c)) = ToLines(D(u), c)
  <2> SUFFICES ASSUME NEW u \in Seq(Spoken), NEW c \in Spoken PROVE D(Append(u, c)) = ToLines(D(u), c)
    OBVIOUS
  <2>1. s \o Append(u, c) = Append(s \o u, c) /\ s \o u \in Seq(Spoken)
    BY <1>1, ConcatAppend, ConcatProperties
  <2> QED
    BY <2>1, LinesOfSteps
<1> HIDE DEF D
<1>6. <<>> \in T
  BY <1>3, <1>4, SameAfterMore, EmptySeq
<1>7. ASSUME NEW u \in T, NEW c \in Spoken PROVE Append(u, c) \in T
  <2>1. u \in Seq(Spoken) /\ Append(u, c) \in Seq(Spoken)
    BY AppendProperties
  <2> DEFINE d == D(u)
             e == D(Append(u, c))
             k == Len(d.lines)
  <2>2. /\ d.lines \in Seq(Words) /\ d.rest \in Words /\ k \in Nat /\ k >= n
        /\ k = n => SameAfter(a.rest, d.rest)
        /\ k # n => SameAfter(a.rest, d.lines[n + 1])
    BY <1>2, <2>1 DEF Drafts
  <2>3. /\ c = "LF" => e = [lines |-> Append(d.lines, d.rest), rest |-> <<>>]
        /\ c # "LF" => e = [lines |-> d.lines, rest |-> Append(d.rest, c)]
    <3>1. d \in Drafts /\ e = ToLines(d, c)
      BY <1>2, <1>5, <2>1
    <3> HIDE DEF d, e
    <3> QED
      BY <3>1, ToLinesIs
  <2> HIDE DEF d, e
  <2> SUFFICES /\ Len(e.lines) >= n
               /\ Len(e.lines) = n => SameAfter(a.rest, e.rest)
               /\ Len(e.lines) # n => SameAfter(a.rest, e.lines[n + 1])
    BY <2>1 DEF e
  <2>4. CASE c = "LF"
    <3>1. e.lines = Append(d.lines, d.rest)
      BY <2>3, <2>4
    <3>2. /\ Len(e.lines) = k + 1
          /\ k = n => e.lines[n + 1] = d.rest
          /\ k # n => e.lines[n + 1] = d.lines[n + 1]
      BY <1>3, <2>2, <3>1
    <3> QED
      BY <1>3, <2>2, <3>2
  <2>5. CASE c # "LF"
    <3>1. e.lines = d.lines /\ e.rest = Append(d.rest, c)
      BY <2>3, <2>5
    <3>2. d.rest \in Scripts /\ c \in Glyphs
      BY <2>2, AllAreScripts DEF Glyphs
    <3>3. SameAfter(a.rest, d.rest) => SameAfter(a.rest, Append(d.rest, c))
      BY <3>2, SameAfterMore
    <3> QED
      BY <2>2, <3>1, <3>3
  <2> QED
    BY <2>4, <2>5
<1>8. T \in SUBSET Seq(Spoken)
  OBVIOUS
<1> HIDE DEF T
<1>9. T = Seq(Spoken)
  BY <1>6, <1>7, <1>8, AllSequences
<1> QED
  BY <1>1, <1>9 DEF T, D, a

\* The invariant.  Rows show their lines, and the style that the next line starts with is the
\* one that is in force, up to the first line with a letter that its charset does not have; a
\* prompt leaves a style that the rest of its line makes good.
LegibleTo(rows, lines, n) == \A j \in 1 .. n : Legible(rows[j].charset, lines[j])
RowShows(rows, lines, i) ==
    Browser(rows[i].html).shown = Terminal(StyleAfter(SubSeq(lines, 1, i - 1)), lines[i]).shown
Shown(got, lines, md, rest) ==
    /\ Len(got.rows) = Len(lines)
    /\ \A i \in 1 .. Len(lines) :
          ~got.rows[i].prompted /\ LegibleTo(got.rows, lines, i) => RowShows(got.rows, lines, i)
    /\ LegibleTo(got.rows, lines, Len(lines)) =>
          /\ Terminal(md, rest).md = Terminal(StyleAfter(lines), rest).md
          /\ ~got.prompted => md = StyleAfter(lines)

\* More of the unfinished line.
LEMMA RestMore ==
    ASSUME NEW got, NEW lines \in Seq(Scripts), NEW md \in Styles, NEW a, NEW b,
           Shown(got, lines, md, a), SameAfter(a, b)
    PROVE  Shown(got, lines, md, b)
<1>1. StyleAfter(lines) \in Styles
  BY StyleSteps
<1> QED
  BY <1>1, Zenon DEF Shown, SameAfter

\* What a line becomes.
LEMMA LineBecomes ==
    ASSUME NEW md \in Styles, NEW cs, NEW line \in Lines
    PROVE  /\ Terminal(ConvertToJson(md, cs, line).md, line).md = Terminal(md, line).md
           /\ Legible(cs, line) =>
                /\ Browser(ConvertToJson(md, cs, line).html).shown = Terminal(md, line).shown
                /\ ConvertToJson(md, cs, line).md = Terminal(md, line).md
<1> DEFINE c == ConvertCharset(cs, line)
<1>1. ConvertToJson(md, cs, line) = Ansi2Html(md, c)
  BY Zenon DEF ConvertToJson
<1>2. c \in Lines
  BY ConvertCharsetIs
<1>3. Terminal(Terminal(md, c).md, line).md = Terminal(md, line).md
  BY ConvertedFirst
<1>4. Legible(cs, line) => c = line
  BY Zenon DEF ConvertCharset
<1> HIDE DEF c
<1>5. /\ Browser(Ansi2Html(md, c).html).shown = Terminal(md, c).shown
      /\ Ansi2Html(md, c).md = Terminal(md, c).md
  BY <1>2, LineShows
<1> QED
  BY <1>1, <1>3, <1>4, <1>5

\* A prompt.
LEMMA PromptMore ==
    ASSUME NEW got \in Received, NEW lines \in Seq(Scripts), NEW md \in Styles, NEW rest \in Lines,
           NEW cs, Shown(got, lines, md, rest)
    PROVE  Shown([rows |-> got.rows, prompted |-> TRUE], lines, ConvertToJson(md, cs, rest).md, rest)
<1> DEFINE to == [rows |-> got.rows, prompted |-> TRUE]
           after == ConvertToJson(md, cs, rest).md
<1>1. to.rows = got.rows /\ to.prompted = TRUE
  OBVIOUS
<1>2. Terminal(after, rest).md = Terminal(md, rest).md
  BY LineBecomes
<1> HIDE DEF to, after
<1>3. Shown(to, lines, after, rest)
  BY <1>1, <1>2, Zenon DEF Shown
<1> QED
  BY <1>3 DEF to, after

\* A line.
LEMMA LineMore ==
    ASSUME NEW got \in Received, NEW lines \in Seq(Scripts), NEW md \in Styles, NEW rest,
           NEW line \in Lines, NEW cs, Shown(got, lines, md, rest), SameAfter(rest, line)
    PROVE  LET conv == ConvertToJson(md, cs, line)
               row == [html |-> conv.html, charset |-> cs, prompted |-> got.prompted]
           IN  Shown([rows |-> Append(got.rows, row), prompted |-> FALSE], Append(lines, line),
                     conv.md, <<>>)
<1> DEFINE conv == ConvertToJson(md, cs, line)
           row == [html |-> conv.html, charset |-> cs, prompted |-> got.prompted]
           rows == Append(got.rows, row)
           to == [rows |-> rows, prompted |-> FALSE]
           more == Append(lines, line)
           n == Len(lines)
           style == StyleAfter(lines)
<1>1. to.rows = rows /\ to.prompted = FALSE
  OBVIOUS
<1>2. row.html = conv.html /\ row.charset = cs /\ row.prompted = got.prompted
  OBVIOUS
<1>3. /\ Legible(cs, line) => Browser(conv.html).shown = Terminal(md, line).shown
                              /\ conv.md = Terminal(md, line).md
      /\ conv.md \in Styles
  BY LineBecomes, ConvertToJsonIs
<1>4. /\ line \in Scripts /\ style \in Styles
      /\ StyleAfter(more) = Terminal(style, line).md
  BY AllAreScripts, StyleSteps
<1>5. got.rows \in Seq(Rows) /\ Len(got.rows) = n /\ n \in Nat
  BY DEF Received, Shown
<1> HIDE DEF conv, row
<1>6. /\ Len(rows) = n + 1 /\ rows[n + 1] = row
      /\ \A i \in 1 .. n : rows[i] = got.rows[i]
  BY <1>5
<1>7. /\ Len(more) = n + 1 /\ more[n + 1] = line
      /\ \A i \in 1 .. n : more[i] = lines[i]
  BY <1>4
<1>8. /\ SubSeq(more, 1, n) = lines
      /\ \A k \in 0 .. n : SubSeq(more, 1, k) = SubSeq(lines, 1, k)
  BY <1>4, BeginningOf, SubSeqFull
<1>9. \A i \in 1 .. n : LegibleTo(rows, more, i) <=> LegibleTo(got.rows, lines, i)
  BY <1>5, <1>6, <1>7 DEF LegibleTo
<1>10. LegibleTo(rows, more, n + 1) => LegibleTo(got.rows, lines, n) /\ Legible(cs, line)
  BY <1>2, <1>5, <1>6, <1>7 DEF LegibleTo
<1> HIDE DEF rows, more, to, style
<1>11. LegibleTo(got.rows, lines, n) =>
          /\ Terminal(md, rest).md = Terminal(style, rest).md
          /\ ~got.prompted => md = style
  BY DEF Shown, style
<1>12. LegibleTo(got.rows, lines, n) => Terminal(md, line).md = Terminal(style, line).md
  BY <1>4, <1>11 DEF SameAfter
<1>13. ASSUME NEW i \in 1 .. n + 1, ~to.rows[i].prompted, LegibleTo(to.rows, more, i)
       PROVE  RowShows(to.rows, more, i)
  <2>1. CASE i = n + 1
    <3>1. ~got.prompted /\ LegibleTo(got.rows, lines, n) /\ Legible(cs, line)
      BY <1>1, <1>2, <1>6, <1>10, <1>13, <2>1
    <3>2. Browser(conv.html).shown = Terminal(style, line).shown
      BY <1>3, <1>11, <3>1
    <3>3. i - 1 = n /\ rows[i].html = conv.html /\ more[i] = line
      BY <1>2, <1>5, <1>6, <1>7, <2>1
    <3>4. StyleAfter(SubSeq(more, 1, i - 1)) = style
      BY <1>8, <3>3 DEF style
    <3> QED
      BY <1>1, <3>2, <3>3, <3>4 DEF RowShows
  <2>2. CASE i # n + 1
    <3>1. i \in 1 .. n /\ i - 1 \in 0 .. n
      BY <1>5, <2>2
    <3>2. ~got.rows[i].prompted /\ LegibleTo(got.rows, lines, i)
      BY <1>1, <1>6, <1>9, <1>13, <3>1
    <3>3. RowShows(got.rows, lines, i)
      BY <3>1, <3>2 DEF Shown
    <3>4. rows[i] = got.rows[i] /\ more[i] = lines[i] /\ SubSeq(more, 1, i - 1) = SubSeq(lines, 1, i - 1)
      BY <1>6, <1>7, <1>8, <3>1
    <3> QED
      BY <1>1, <3>3, <3>4, Zenon DEF RowShows
  <2> QED
    BY <2>1, <2>2
<1>14. ASSUME LegibleTo(to.rows, more, n + 1)
       PROVE  conv.md = StyleAfter(more)
  BY <1>1, <1>3, <1>4, <1>10, <1>12, <1>14
<1>15. Shown(to, more, conv.md, <<>>)
  BY <1>1, <1>6, <1>7, <1>13, <1>14, Zenon DEF Shown
<1> QED
  BY <1>15 DEF to, more, rows, row, conv

\* Lines, one after the other; the first of them completes the unfinished line.
LEMMA LinesShown ==
    ASSUME NEW es \in Seq(Events), NEW lines \in Seq(Scripts), NEW md \in Styles, NEW rest,
           Shown(ReceivedBy(es), lines, md, rest), NEW v \in Seq(ReadLines),
           v # <<>> => SameAfter(rest, v[1].text)
    PROVE  LET c == Converting(md, v)
           IN  /\ es \o c.events \in Seq(Events) /\ lines \o TextsOf(v) \in Seq(Scripts)
               /\ c.mdata \in Styles
               /\ Shown(ReceivedBy(es \o c.events), lines \o TextsOf(v), c.mdata,
                        IF v = <<>> THEN rest ELSE <<>>)
<1> DEFINE C(u) == Converting(md, u)
           Es(u) == es \o C(u).events
           Ls(u) == lines \o TextsOf(u)
           Fits(u) == u # <<>> => SameAfter(rest, u[1].text)
           Rest(u) == IF u = <<>> THEN rest ELSE <<>>
           T == {u \in Seq(ReadLines) :
                    /\ Es(u) \in Seq(Events) /\ Ls(u) \in Seq(Scripts)
                    /\ Fits(u) => Shown(ReceivedBy(Es(u)), Ls(u), C(u).mdata, Rest(u))}
           st0 == [mdata |-> md, events |-> <<>>]
<1>1. st0 \in Converted /\ st0.events = <<>> /\ st0.mdata = md
  BY EmptySeq DEF Converted
<1> HIDE DEF st0
<1>2. /\ C(<<>>) = st0
      /\ \A u \in Seq(ReadLines) : C(u) \in Converted
      /\ \A u \in Seq(ReadLines), e \in ReadLines : C(Append(u, e)) = Convert(C(u), e)
  <2>1. \A u : C(u) = FoldLeft(Convert, st0, u)
    BY Zenon DEF Converting, st0
  <2> HIDE DEF C
  <2> QED
    BY <1>1, <2>1, ConvertSteps
<1> HIDE DEF C
<1>3. TextsOf(<<>>) = <<>>
  BY DEF TextsOf
<1>4. <<>> \in T
  <2>1. Es(<<>>) = es /\ Ls(<<>>) = lines
    BY <1>1, <1>2, <1>3
  <2> HIDE DEF Es, Ls
  <2> QED
    BY <1>1, <1>2, <2>1, EmptySeq
<1>5. ASSUME NEW u \in T, NEW e \in ReadLines PROVE Append(u, e) \in T
  <2> DEFINE z == Append(u, e)
             conv == ConvertToJson(C(u).mdata, e.charset, e.text)
             line == "line"
             event == [kind |-> line, html |-> conv.html, charset |-> e.charset]
             got == ReceivedBy(Es(u))
             row == [html |-> conv.html, charset |-> e.charset, prompted |-> got.prompted]
  <2>1. /\ u \in Seq(ReadLines) /\ z \in Seq(ReadLines)
        /\ Es(u) \in Seq(Events) /\ Ls(u) \in Seq(Scripts)
        /\ Fits(u) => Shown(got, Ls(u), C(u).mdata, Rest(u))
    BY AppendProperties
  <2>2. C(u) \in Converted /\ C(u).mdata \in Styles /\ C(u).events \in Seq(LineEvents)
        /\ e.text \in Lines /\ e.charset \in Names
    BY <1>2, <2>1 DEF Converted, ReadLines
  <2>3. /\ event \in LineEvents /\ C(z) = Convert(C(u), e)
        /\ Convert(C(u), e).events = Append(C(u).events, event)
    BY <1>2, <2>1, <2>2, ConvertIs
  <2>4. Convert(C(u), e).mdata = conv.md
    <3> DEFINE evs == Append(C(u).events, [kind |-> "line", html |-> conv.html, charset |-> e.charset])
    <3>1. Convert(C(u), e) = [mdata |-> conv.md, events |-> evs]
      BY Zenon DEF Convert
    <3> HIDE DEF evs, conv
    <3> QED
      BY <3>1
  <2>5. event \in Events /\ event.kind = "line" /\ event.html = conv.html /\ event.charset = e.charset
    <3>1. conv.html \in Made /\ line \in {"line", "prompt", "echo"} /\ line = "line"
      BY <2>2, IsMade
    <3> HIDE DEF conv, line
    <3> QED
      BY <2>2, <3>1 DEF Events
  <2> HIDE DEF conv, event
  <2>6. Es(z) = Append(Es(u), event)
    <3>1. C(u).events \in Seq(Events) /\ es \in Seq(Events)
      <4>1. LineEvents \subseteq Events
        BY DEF LineEvents, Events
      <4> QED
        BY <2>2, <4>1, SeqMonotonic
    <3> DEFINE evs == C(u).events
    <3> HIDE DEF evs
    <3>2. es \o Append(evs, event) = Append(es \o evs, event)
      <4>1. es \in Seq(Events) /\ evs \in Seq(Events) /\ event \in Events
        BY <2>5, <3>1 DEF evs
      <4> QED
        BY ONLY <4>1, ConcatAppend
    <3> QED
      BY <2>3, <3>2 DEF evs
  <2>7. Ls(z) = Append(Ls(u), e.text) /\ e.text \in Scripts
    <3>1. TextsOf(u) \in Seq(Lines) /\ TextsOf(z) = Append(TextsOf(u), e.text)
      BY <2>1, TextsMore
    <3>2. TextsOf(u) \in Seq(Scripts) /\ e.text \in Scripts /\ lines \in Seq(Scripts)
      BY <2>2, <3>1, AllAreScripts, SeqMonotonic
    <3>3. lines \o Append(TextsOf(u), e.text) = Append(lines \o TextsOf(u), e.text)
      BY ONLY <3>2, ConcatAppend
    <3> QED
      BY <3>1, <3>2, <3>3
  <2>8. got \in Received /\ ReceivedBy(Append(Es(u), event)) = ToRows(got, event)
    BY <2>1, <2>5, ReceivedSteps
  <2>9. ToRows(got, event) = [rows |-> Append(got.rows, row), prompted |-> FALSE]
    BY <2>5, <2>8, ToRowsIs
  <2>10. Es(z) \in Seq(Events) /\ Ls(z) \in Seq(Scripts)
    BY <2>1, <2>5, <2>6, <2>7, AppendProperties
  <2>11. Rest(z) = <<>> /\ (Fits(z) => Fits(u) /\ SameAfter(Rest(u), e.text))
    <3>1. z # <<>>
      <4>1. Len(z) = Len(u) + 1 /\ Len(u) \in Nat /\ Len(<<>>) = 0
        BY <2>1
      <4> HIDE DEF z
      <4> QED
        BY <4>1
    <3>2. u # <<>> => z[1] = u[1]
      BY <2>1
    <3>3. u = <<>> => z[1] = e
      BY <2>1
    <3>4. SameAfter(<<>>, e.text)
      BY <2>7, SameAfterMore
    <3> HIDE DEF z
    <3> QED
      BY <3>1, <3>2, <3>3, <3>4
  <2> HIDE DEF Es, Ls, Fits, Rest, z, got
  <2>12. ASSUME Fits(z) PROVE Shown(ReceivedBy(Es(z)), Ls(z), C(z).mdata, Rest(z))
    <3>1. Shown(got, Ls(u), C(u).mdata, Rest(u)) /\ SameAfter(Rest(u), e.text)
      BY <2>1, <2>11, <2>12
    <3>2. Shown([rows |-> Append(got.rows, row), prompted |-> FALSE], Append(Ls(u), e.text),
                conv.md, <<>>)
      BY <2>1, <2>2, <2>8, <3>1, LineMore DEF conv
    <3> HIDE DEF row
    <3> QED
      BY <2>3, <2>4, <2>6, <2>7, <2>8, <2>9, <2>11, <3>2
  <2>13. z \in T
    BY <2>1, <2>10, <2>12
  <2> QED
    BY <2>13 DEF z
<1>6. T \in SUBSET Seq(ReadLines)
  OBVIOUS
<1> HIDE DEF T
<1>7. T = Seq(ReadLines)
  BY <1>4, <1>5, <1>6, AllSequences
<1>8. v \in T /\ C(v).mdata \in Styles
  BY <1>2, <1>7 DEF Converted
<1>9. Shown(ReceivedBy(Es(v)), Ls(v), C(v).mdata, Rest(v)) /\ Es(v) \in Seq(Events)
      /\ Ls(v) \in Seq(Scripts)
  BY <1>8, Zenon DEF T
<1> QED
  BY <1>8, <1>9 DEF C

\* The prompt that net_read may end with.
LEMMA PromptShown ==
    ASSUME NEW es \in Seq(Events), NEW lines \in Seq(Scripts), NEW md \in Styles,
           NEW r \in Readings, Shown(ReceivedBy(es), lines, md, r.buff)
    PROVE  Shown(ReceivedBy(es \o PromptOf(r, md)), lines,
                 IF r.prompt THEN ConvertToJson(md, r.charset, r.buff).md ELSE md, r.buff)
<1> DEFINE conv == ConvertToJson(md, r.charset, r.buff)
           prompt == "prompt"
           e == [kind |-> prompt, html |-> conv.html, charset |-> r.charset]
<1>1. conv.html \in Made /\ r.charset \in Names /\ r.buff \in Lines
  BY ReadingFields, IsMade
<1>2. prompt \in {"line", "prompt", "echo"} /\ prompt = "prompt"
  OBVIOUS
<1>0. PromptOf(r, md) = IF r.prompt THEN <<e>> ELSE <<>>
  BY Zenon DEF PromptOf
<1> HIDE DEF conv, prompt
<1>3. e \in Events /\ e.kind = "prompt"
  BY <1>1, <1>2 DEF Events
<1> HIDE DEF e
<1>4. ReceivedBy(es) \in Received /\ ReceivedBy(Append(es, e)) = ToRows(ReceivedBy(es), e)
  BY <1>3, ReceivedSteps
<1>5. ToRows(ReceivedBy(es), e) = [rows |-> ReceivedBy(es).rows, prompted |-> TRUE]
  BY <1>3, <1>4, ToRowsIs
<1>6. es \o <<e>> = Append(es, e) /\ es \o <<>> = es
  BY <1>3
<1>7. Shown([rows |-> ReceivedBy(es).rows, prompted |-> TRUE], lines, conv.md, r.buff)
  BY <1>1, <1>4, PromptMore DEF conv
<1>8. CASE r.prompt
  BY <1>0, <1>4, <1>5, <1>6, <1>7, <1>8 DEF conv
<1>9. CASE ~r.prompt
  BY <1>0, <1>6, <1>9
<1> QED
  BY <1>8, <1>9

\* The inductive invariant of what pages show, beside that of what is read.
ShowInv ==
    world # NoWorld /\ ~garbled =>
        Shown(ReceivedBy(events), LinesOf(said).lines, world.mdata, world.buff)

\* A fresh world has nothing to show.
LEMMA NothingShown == Shown(ReceivedBy(<<>>), LinesOf(<<>>).lines, Plain, <<>>)
<1>1. ReceivedBy(<<>>) = NoRows /\ LinesOf(<<>>) = NoDraft /\ StyleAfter(<<>>) = Plain
  BY ReceivedSteps, LinesOfSteps, StyleSteps
<1>2. NoRows.rows = <<>> /\ NoDraft.lines = <<>>
  BY DEF NoRows, NoDraft
<1> DEFINE none == <<>>
<1>3. Len(none) = 0 /\ 1 .. Len(none) = {}
  OBVIOUS
<1> HIDE DEF none
<1>4. ASSUME NEW got, got.rows = none, StyleAfter(none) = Plain PROVE Shown(got, none, Plain, none)
  BY <1>3, <1>4, Zenon DEF Shown
<1> QED
  BY <1>1, <1>2, <1>4 DEF none

\* net_read shows what it reads.
LEMMA NetReadShows == TextInv /\ ReadInv /\ ShowInv /\ NetRead => ShowInv'
<1> SUFFICES ASSUME TextInv, ReadInv, ShowInv, NetRead, ~garbled'
             PROVE  Shown(ReceivedBy(events)', LinesOf(said)'.lines, world'.mdata, world'.buff)
  BY DEF ShowInv
<1>1. /\ world \in OpenWorlds
      /\ \E junk \in BOOLEAN : DoesRead(Reading(junk), Converting(world.mdata, Reading(junk).lines))
  BY NetReadDoes
<1>2. PICK junk \in BOOLEAN : DoesRead(Reading(junk), Converting(world.mdata, Reading(junk).lines))
  BY <1>1
<1> DEFINE r == Reading(junk)
           c == Converting(world.mdata, r.lines)
           taken == SubSeq(wire, 1, r.used)
           new == Says(taken)
           lines == LinesOf(said).lines
           after == LinesOf(said \o new)
           texts == TextsOf(r.lines)
           rest == IF r.lines = <<>> THEN world.buff ELSE <<>>
           md == IF r.prompt THEN ConvertToJson(c.mdata, r.charset, r.buff).md ELSE c.mdata
<1>3. Matching /\ ~garbled /\ ReadSoFar(said, asked, taken, r)
  BY <1>2, NetReadTakes
<1>4. /\ wire \in Seq(Bytes) /\ events \in Seq(Events) /\ said \in Words
      /\ world.mdata \in Styles /\ world.buff \in Lines
  BY <1>1 DEF TextInv, ReadInv, OpenWorlds
<1>5. r \in Readings /\ r.lines \in Seq(ReadLines) /\ r.buff \in Lines
  <2>1. r \in Readings
    BY <1>2, Zenon DEF DoesRead
  <2> HIDE DEF r
  <2> QED
    BY <2>1, ReadingFields
<1>6. new \in Words
  <2>1. r.used \in 0 .. Len(wire)
    BY <1>1, <1>4, RawReads, Zenon DEF Reading, ReadInv
  <2>2. taken \in Seq(Bytes)
    BY <1>4, <2>1, SplitInTwo
  <2> QED
    BY <2>2, SaysSteps
<1>7. /\ world'.mdata = md /\ world'.buff = r.buff
      /\ events' = (events \o c.events) \o PromptOf(r, c.mdata) /\ said' = said \o new
  <2>1. world' = [buff |-> r.buff, tried |-> r.tried, charset |-> r.charset, mdata |-> md]
        /\ events' = (events \o c.events) \o PromptOf(r, c.mdata) /\ said' = said \o new
    BY <1>2, Zenon DEF DoesRead
  <2> HIDE DEF md, r, new
  <2> QED
    BY <2>1
<1>8. /\ after.lines = lines \o texts /\ after.rest = r.buff
      /\ LinesOf(said).rest = world.buff
  <2>1. world # NoWorld
    BY <1>1, NewWorlds
  <2> QED
    BY <1>3, <2>1 DEF ReadSoFar, Matching
<1>9. Shown(ReceivedBy(events), lines, world.mdata, world.buff)
  BY <1>1, <1>3, NewWorlds DEF ShowInv
<1>10. /\ Len(after.lines) = Len(lines) => SameAfter(world.buff, r.buff)
       /\ Len(after.lines) # Len(lines) => SameAfter(world.buff, after.lines[Len(lines) + 1])
  <2> HIDE DEF new
  <2> QED
    BY <1>4, <1>6, <1>8, LinesGrow
<1>11. /\ texts \in Seq(Lines) /\ Len(texts) = Len(r.lines)
       /\ r.lines # <<>> => texts[1] = r.lines[1].text
  <2> HIDE DEF r
  <2>1. texts \in Seq(Lines) /\ Len(texts) = Len(r.lines)
    BY <1>5, TextsAre
  <2>2. r.lines # <<>> => 1 \in DOMAIN r.lines
    BY <1>5
  <2>3. r.lines # <<>> => texts[1] = r.lines[1].text
    BY <2>2, Zenon DEF TextsOf
  <2> QED
    BY <2>1, <2>3
<1>12. lines \in Seq(Words) /\ lines \in Seq(Scripts)
  <2>1. LinesOf(said) \in Drafts
    BY <1>4, LinesOfSteps DEF Words
  <2>2. LinesOf(said).lines \in Seq(Words)
    BY <2>1 DEF Drafts
  <2> QED
    BY <2>2, AllAreScripts, SeqMonotonic
<1> HIDE DEF r, c, taken, new, lines, after, texts, md
<1>13. /\ r.lines = <<>> => SameAfter(world.buff, r.buff)
       /\ r.lines # <<>> => SameAfter(world.buff, r.lines[1].text)
  <2>1. texts \in Seq(Scripts)
    BY <1>11, AllAreScripts, SeqMonotonic
  <2>2. /\ Len(lines \o texts) = Len(lines) + Len(texts) /\ Len(lines) \in Nat /\ Len(texts) \in Nat
        /\ Len(texts) # 0 => (lines \o texts)[Len(lines) + 1] = texts[1]
    BY <1>12, <2>1
  <2>3. r.lines = <<>> => Len(after.lines) = Len(lines)
    BY <1>8, <1>11, <2>2
  <2>4. r.lines # <<>> => Len(texts) # 0
    BY <1>5, <1>11
  <2>5. r.lines # <<>> => Len(after.lines) # Len(lines) /\ after.lines[Len(lines) + 1] = r.lines[1].text
    BY <1>8, <1>11, <2>2, <2>4
  <2> QED
    BY <1>10, <2>3, <2>5
<1>14. /\ events \o c.events \in Seq(Events) /\ lines \o texts \in Seq(Scripts) /\ c.mdata \in Styles
       /\ Shown(ReceivedBy(events \o c.events), lines \o texts, c.mdata, rest)
  BY <1>4, <1>5, <1>9, <1>12, <1>13, LinesShown DEF c, texts
<1>15. SameAfter(rest, r.buff)
  <2>1. SameAfter(<<>>, r.buff)
    BY <1>5, AllAreScripts, SameAfterMore
  <2> QED
    BY <1>13, <2>1
<1> HIDE DEF rest
<1>16. Shown(ReceivedBy(events \o c.events), lines \o texts, c.mdata, r.buff)
  BY <1>14, <1>15, RestMore
<1>17. Shown(ReceivedBy((events \o c.events) \o PromptOf(r, c.mdata)), lines \o texts, md, r.buff)
  BY <1>5, <1>14, <1>16, PromptShown DEF md
<1>18. ReceivedBy(events)' = ReceivedBy(events') /\ LinesOf(said)' = LinesOf(said')
  BY Zenon DEF ReceivedBy, LinesOf
<1>19. LinesOf(said') = after
  BY <1>7 DEF after
<1> QED
  BY <1>7, <1>8, <1>17, <1>18, <1>19

\* An echo is no line of the MUD.
LEMMA EchoShows ==
    ASSUME TextInv, ShowInv, NEW text \in Echoes, NEW opens \in Opens, WorldEcho(text, opens)
    PROVE  ShowInv'
<1> DEFINE e == [kind |-> "echo", html |-> EchoHtml(text), charset |-> "UTF-8"]
<1>1. events' = Append(events, e) /\ UNCHANGED <<world, said, garbled>>
  BY Zenon DEF WorldEcho, EchoHtml, streamVars, historyVars
<1>2. e \in Events /\ e.kind = "echo" /\ events \in Seq(Events)
  <2>1. EchoHtml(text) \in Made
    BY CharactersAreLetters, TextPathAssumption, IsMade
  <2> QED
    BY <2>1 DEF Events, TextInv
<1> HIDE DEF e
<1>3. ReceivedBy(Append(events, e)) = ReceivedBy(events)
  <2>1. ReceivedBy(events) \in Received /\ ReceivedBy(Append(events, e)) = ToRows(ReceivedBy(events), e)
    BY <1>2, ReceivedSteps
  <2> QED
    BY <1>2, <2>1, ToRowsIs
<1>4. ReceivedBy(events)' = ReceivedBy(events') /\ LinesOf(said)' = LinesOf(said')
  BY Zenon DEF ReceivedBy, LinesOf
<1> QED
  BY <1>1, <1>3, <1>4 DEF ShowInv

\* Every step keeps it.
LEMMA ShowStep == TextInv /\ ReadInv /\ ShowInv /\ [Next]_vars => ShowInv'
<1> SUFFICES ASSUME TextInv, ReadInv, ShowInv, [Next]_vars PROVE ShowInv'
  OBVIOUS
<1>0. ReceivedBy(events)' = ReceivedBy(events') /\ LinesOf(said)' = LinesOf(said')
  BY Zenon DEF ReceivedBy, LinesOf
<1>1. ASSUME UNCHANGED <<world, events, said, garbled>> PROVE ShowInv'
  BY <1>0, <1>1 DEF ShowInv
<1>2. ASSUME \/ Say \/ Arrive \/ WorldDisconnect \/ Midnight \/ UNCHANGED vars
             \/ \E text \in Typed : WorldSend(text)
      PROVE  ShowInv'
  <2>1. UNCHANGED <<world, events, said, garbled>>
    BY <1>2, Zenon DEF Say, Arrive, WorldDisconnect, Midnight, WorldSend, vars, streamVars, historyVars
  <2> QED
    BY <1>1, <2>1
<1>3. CASE WorldConnect
  <2>1. /\ world # NoWorld /\ world' = [world EXCEPT !.tried = FALSE]
        /\ UNCHANGED <<events, said, garbled>>
    BY <1>3, Zenon DEF WorldConnect, Connected
  <2>2. world \in OpenWorlds
    BY <2>1 DEF TextInv, Worlds
  <2>3. world'.mdata = world.mdata /\ world'.buff = world.buff
    BY <2>1, <2>2 DEF OpenWorlds
  <2> QED
    BY <1>0, <2>1, <2>3 DEF ShowInv
<1>4. ASSUME NEW opens \in Opens, WorldOpen(opens) PROVE ShowInv'
  <2>1. world' = NewWorld /\ events' = <<>> /\ said' = <<>>
    BY <1>4, Zenon DEF WorldOpen
  <2>2. NewWorld.mdata = Plain /\ NewWorld.buff = <<>>
    BY DEF NewWorld, NoWorld
  <2> QED
    BY <1>0, <2>1, <2>2, NothingShown DEF ShowInv
<1>5. ASSUME NEW opens \in Opens, WorldClose(opens) PROVE ShowInv'
  <2>1. world' = NoWorld
    BY <1>5, Zenon DEF WorldClose
  <2> QED
    BY <2>1 DEF ShowInv
<1>6. ASSUME NEW text \in Echoes, NEW opens \in Opens, WorldEcho(text, opens) PROVE ShowInv'
  BY <1>6, EchoShows
<1> QED
  BY <1>2, <1>3, <1>4, <1>5, <1>6, NetReadShows, Zenon DEF Next

\* A page shows a line of the MUD as a terminal does: every character, every blank, in the style
\* in force, also when it was set lines ago (ShownAsSaid; convert_to_json, ansi2html).
THEOREM PagesShowWhatWasSaid == Spec => []ShownAsSaid
<1>1. Init => ShowInv
  BY Zenon DEF Init, ShowInv
<1>2. TextInv /\ ShowInv => ShownAsSaid
  <2> SUFFICES ASSUME TextInv, ShowInv, world # NoWorld, ~garbled
               PROVE  LET rows == ReceivedBy(events).rows
                          lines == LinesOf(said).lines
                      IN  \A i \in DOMAIN rows :
                            ~rows[i].prompted
                            /\ (\A j \in 1 .. i : Legible(rows[j].charset, lines[j])) =>
                                Browser(rows[i].html).shown
                                  = Terminal(StyleAfter(SubSeq(lines, 1, i - 1)), lines[i]).shown
    BY Zenon DEF ShownAsSaid, LinesReceived, SaidLines, ReceivedBy, NoRows, LinesOf, NoDraft
  <2> DEFINE rows == ReceivedBy(events).rows
             lines == LinesOf(said).lines
  <2>1. rows \in Seq(Rows)
    BY ReceivedSteps DEF TextInv, Received
  <2>2. /\ Len(rows) = Len(lines)
        /\ \A i \in 1 .. Len(lines) :
              ~rows[i].prompted /\ LegibleTo(rows, lines, i) => RowShows(rows, lines, i)
    BY Zenon DEF ShowInv, Shown
  <2>3. DOMAIN rows = 1 .. Len(lines)
    BY <2>1, <2>2
  <2> HIDE DEF rows, lines
  <2> QED
    BY <2>2, <2>3, Zenon DEF LegibleTo, RowShows, rows, lines
<1> QED
  BY <1>1, <1>2, TextInit, TextStep, ReadInit, ReadStep, ShowStep, PTL DEF Spec
==============================================================================
