-------------------------- MODULE Requests_proofs --------------------------
(***************************************************************************)
(* Proofs about Requests, for any connections, any requests, buffers of    *)
(* any size, and any number of faults.                                     *)
(***************************************************************************)
EXTENDS Requests, SequenceTheorems, FiniteSetTheorems, WellFoundedInduction, TLAPS

-----------------------------------------------------------------------------
(* Smallest and largest numbers.                                           *)

LEMMA MinOfTwo ==
    ASSUME NEW a \in Int, NEW b \in Int
    PROVE  Min({a, b}) = IF a <= b THEN a ELSE b
BY DEF Min

LEMMA MaxOfTwo ==
    ASSUME NEW a \in Int, NEW b \in Int
    PROVE  Max({a, b}) = IF a >= b THEN a ELSE b
BY DEF Max

\* A set of positions that is not empty has a first one.
LEMMA MinIsIn ==
    ASSUME NEW S \in SUBSET Nat, S # {}
    PROVE  Min(S) \in S /\ \A y \in S : Min(S) <= y
<1>1. PICK x \in S : \A y \in S : <<y, x>> \notin OpToRel(<, Nat)
  BY NatLessThanWellFounded, WFMin, Zenon
<1>2. \A y \in S : ~(y < x)
  BY <1>1, Zenon DEF OpToRel
<1>3. \A y \in S : x <= y
  BY <1>2
<1> QED
  BY <1>3 DEF Min

\* A set of positions in a sequence that is not empty has a last one.
LEMMA MaxIsIn ==
    ASSUME NEW n \in Nat, NEW S \in SUBSET (1 .. n), S # {}
    PROVE  Max(S) \in S /\ \A y \in S : y <= Max(S)
<1> DEFINE T == {i \in 0 .. n : n - i \in S}
<1>1. T \in SUBSET Nat /\ T # {}
  <2>1. T \in SUBSET Nat
    OBVIOUS
  <2>2. PICK x \in S : TRUE
    OBVIOUS
  <2>3. n - x \in T
    <3>1. x \in 1 .. n /\ n - (n - x) = x
      OBVIOUS
    <3> QED
      BY <3>1
  <2> HIDE DEF T
  <2> QED
    BY <2>1, <2>3
<1>2. Min(T) \in T /\ \A y \in T : Min(T) <= y
  BY <1>1, MinIsIn
<1>3. \A y \in S : y <= n - Min(T)
  <2>1. ASSUME NEW y \in S PROVE y <= n - Min(T)
    <3>1. n - y \in T
      OBVIOUS
    <3> HIDE DEF T
    <3>2. Min(T) <= n - y
      BY <1>2, <3>1
    <3>3. Min(T) \in Nat
      BY <1>1, <1>2
    <3>4. y \in 1 .. n
      OBVIOUS
    <3> QED
      BY <3>2, <3>3, <3>4
  <2> QED
    BY <2>1
<1>4. n - Min(T) \in S
  BY <1>2
<1> HIDE DEF T
<1> QED
  BY <1>3, <1>4 DEF Max

-----------------------------------------------------------------------------
(* Parts of sequences.                                                     *)

\* The first n elements.
LEMMA PrefixIs ==
    ASSUME NEW S, NEW s \in Seq(S), NEW n \in 0 .. Len(s)
    PROVE  /\ SubSeq(s, 1, n) \in Seq(S) /\ Len(SubSeq(s, 1, n)) = n
           /\ \A i \in 1 .. n : SubSeq(s, 1, n)[i] = s[i]
<1>1. \A i \in 1 .. n : s[i] \in S
  BY ElementOfSeq, LenProperties
<1>2. Len(s) \in Nat
  BY LenProperties
<1> QED
  BY <1>1, <1>2, SubSeqProperties

\* The elements after the first n.
LEMMA SuffixIs ==
    ASSUME NEW S, NEW s \in Seq(S), NEW n \in Nat
    PROVE  /\ SubSeq(s, n + 1, Len(s)) \in Seq(S)
           /\ Len(SubSeq(s, n + 1, Len(s))) = IF n <= Len(s) THEN Len(s) - n ELSE 0
           /\ \A i \in 1 .. Len(s) - n : SubSeq(s, n + 1, Len(s))[i] = s[n + i]
<1>1. \A i \in n + 1 .. Len(s) : s[i] \in S
  BY ElementOfSeq, LenProperties
<1>2. Len(s) \in Nat
  BY LenProperties
<1> QED
  BY <1>1, <1>2, SubSeqProperties

\* What is written over an empty file, and what comes out of a write, is made of bytes.
LEMMA WrittenIs ==
    ASSUME NEW S, NEW file \in Seq(S), NEW contents \in Seq(S)
    PROVE  /\ Written(file, contents) \in Seq(S)
           /\ Len(Written(file, contents)) =
                 IF Len(contents) >= Len(file) THEN Len(contents) ELSE Len(file)
           /\ file = <<>> => Written(file, contents) = contents
<1>1. Len(contents) \in Nat /\ Len(file) \in Nat
  BY LenProperties
<1> DEFINE rest == SubSeq(file, Len(contents) + 1, Len(file))
<1>2. /\ rest \in Seq(S)
      /\ Len(rest) = IF Len(contents) <= Len(file) THEN Len(file) - Len(contents) ELSE 0
  BY <1>1, SuffixIs
<1>3. file = <<>> => rest = <<>>
  BY <1>1, SubSeqEmpty, EmptySeq
<1>4. Written(file, contents) = contents \o rest
  BY DEF Written
<1>5. contents \o <<>> = contents
  BY ConcatEmptySeq
<1>6. contents \o rest \in Seq(S) /\ Len(contents \o rest) = Len(contents) + Len(rest)
  BY <1>2, ConcatProperties
<1> HIDE DEF rest
<1> QED
  BY <1>1, <1>2, <1>3, <1>4, <1>5, <1>6

\* A parameter's value is text.
LEMMA ParameterIsText ==
    ASSUME NEW body \in Seq(Chars), NEW key
    PROVE  mg_get_var(body, key) \in Seq(Chars) \cup {NOT_FOUND}
<1> DEFINE at == {i \in DOMAIN body : body[i] = key /\ (i = 1 \/ body[i - 1] = "&")}
           from == Max(at) + 1
           stops == {j \in from .. Len(body) : body[j] = "&"}
           to == IF stops = {} THEN Len(body) ELSE Min(stops) - 1
           value == SubSeq(body, from, to)
<1>1. Len(body) \in Nat /\ DOMAIN body = 1 .. Len(body)
  BY LenProperties
<1>2. CASE at = {}
  BY <1>2 DEF mg_get_var
<1>3. CASE at # {}
  <2>1. at \in SUBSET (1 .. Len(body))
    BY <1>1
  <2>2. Max(at) \in 1 .. Len(body)
    BY <1>1, <1>3, <2>1, MaxIsIn
  <2>3. mg_get_var(body, key) = Decode(value)
    BY <1>3 DEF mg_get_var
  <2> HIDE DEF at
  <2>4. to \in Int /\ to <= Len(body)
    <3>1. stops \in SUBSET Nat /\ stops \in SUBSET (from .. Len(body))
      BY <1>1, <2>2
    <3> HIDE DEF stops
    <3>2. stops # {} => Min(stops) \in from .. Len(body)
      BY <3>1, MinIsIn
    <3> QED
      BY <1>1, <2>2, <3>2
  <2> HIDE DEF to
  <2>5. \A i \in from .. to : body[i] \in Chars
    BY <1>1, <2>2, <2>4, ElementOfSeq
  <2>6. from \in Int
    BY <2>2
  <2>7. value \in Seq(Chars)
    BY <2>4, <2>5, <2>6, SubSeqProperties
  <2> HIDE DEF value, from
  <2>8. Decode(value) \in Seq(Chars)
    <3>1. Len(value) \in Nat /\ DOMAIN value = 1 .. Len(value)
      BY <2>7, LenProperties
    <3>2. \A i \in 1 .. Len(value) : value[i] \in Chars
      BY <2>7, ElementOfSeq
    <3>3. Decode(value) \in [1 .. Len(value) -> Chars]
      BY <3>1, <3>2, CharsAssumption DEF Decode
    <3> QED
      BY <3>1, <3>3, SeqDef
  <2> QED
    BY <2>3, <2>8
<1> QED
  BY <1>2, <1>3

LEMMA BufferSizes == BUF_SIZE \in Nat /\ BUF_SIZE > 0 /\ BUFF_LEN \in Nat /\ BUFF_LEN > 0
BY HttpAssumption

\* The end of the head is in the buffer.
LEMMA RequestLen ==
    ASSUME NEW buf \in Seq(Chars)
    PROVE  get_request_len(buf) \in Int /\ get_request_len(buf) <= Len(buf)
<1> DEFINE looked == 1 .. Len(buf) - 1
           ends == {k \in looked : EndsAt(buf, k)}
<1>1. Len(buf) \in Nat
  BY LenProperties
<1>2. CASE ends # {}
  <2>1. ends \in SUBSET Nat
    BY <1>1
  <2>2. Min(ends) \in ends
    BY <1>2, <2>1, MinIsIn
  <2>3. EndsAt(buf, Min(ends)) /\ Min(ends) \in 1 .. Len(buf) - 1
    BY <2>2
  <2>4. get_request_len(buf) = IF buf[Min(ends) + 1] = "n" THEN Min(ends) + 1 ELSE Min(ends) + 2
    BY <1>2 DEF get_request_len
  <2> HIDE DEF ends
  <2> QED
    BY <1>1, <2>3, <2>4 DEF EndsAt
<1>3. CASE ends = {}
  <2>1. get_request_len(buf) \in {-1, 0}
    <3>1. CASE \E k \in looked : buf[k] = "c"
      BY <1>3, <3>1 DEF get_request_len
    <3>2. CASE ~ \E k \in looked : buf[k] = "c"
      BY <1>3, <3>2 DEF get_request_len
    <3> QED
      BY <3>1, <3>2
  <2> QED
    BY <1>1, <2>1
<1> QED
  BY <1>2, <1>3

\* What mg_read takes from the buffer: at most n bytes of what is there.
LEMMA FromBufferIs ==
    ASSUME NEW buf \in Seq(Chars), NEW from \in Nat, NEW consumed \in Nat, NEW n \in Nat
    PROVE  LET bytes == FromBuffer(buf, from, consumed, n)
               there == Len(buf) - from - consumed
           IN  /\ bytes \in Seq(Chars)
               /\ Len(bytes) = IF n <= there THEN n ELSE IF there >= 0 THEN there ELSE 0
               /\ \A i \in 1 .. Len(bytes) : bytes[i] = buf[from + consumed + i]
<1> DEFINE rest == LeftOver(buf, from, consumed)
           bytes == FromBuffer(buf, from, consumed, n)
<1>1. Len(buf) \in Nat
  BY LenProperties
<1>2. /\ rest \in Seq(Chars)
      /\ Len(rest) = IF from + consumed <= Len(buf) THEN Len(buf) - from - consumed ELSE 0
      /\ \A i \in 1 .. Len(buf) - (from + consumed) : rest[i] = buf[from + consumed + i]
  BY <1>1, SuffixIs DEF LeftOver
<1> DEFINE m == Min({n, Len(rest)})
<1>3. bytes = SubSeq(rest, 1, m)
  BY DEF FromBuffer
<1> HIDE DEF rest, bytes
<1>4. m = IF n <= Len(rest) THEN n ELSE Len(rest)
  BY <1>1, <1>2, MinOfTwo
<1> HIDE DEF m
<1>5. m \in 0 .. Len(rest)
  BY <1>1, <1>2, <1>4
<1>6. /\ bytes \in Seq(Chars) /\ Len(bytes) = m
      /\ \A i \in 1 .. m : bytes[i] = rest[i]
  BY <1>2, <1>3, <1>5, PrefixIs
<1>7. Len(bytes) = IF n <= Len(rest) THEN n ELSE Len(rest)
  BY <1>4, <1>6
<1>8. ASSUME NEW i \in 1 .. Len(bytes) PROVE bytes[i] = buf[from + consumed + i]
  <2>1. i \in 1 .. Len(rest) /\ bytes[i] = rest[i]
    BY <1>2, <1>5, <1>6
  <2>2. i \in 1 .. Len(buf) - (from + consumed)
    BY <1>1, <1>2, <2>1
  <2> QED
    BY <1>2, <2>1, <2>2
<1>9. Len(bytes) = IF n <= Len(buf) - from - consumed THEN n
                   ELSE IF Len(buf) - from - consumed >= 0 THEN Len(buf) - from - consumed ELSE 0
  BY <1>1, <1>2, <1>7
<1> QED
  BY <1>6, <1>8, <1>9 DEF bytes

LEMMA ToReadIs ==
    ASSUME NEW len \in Nat, NEW content_len \in Int, NEW consumed \in Nat
    PROVE  LET most == IF content_len >= consumed THEN content_len - consumed ELSE 0
           IN  ToRead(len, content_len, consumed) = IF len <= most THEN len ELSE most
<1>1. Max({0, content_len - consumed}) = IF content_len >= consumed THEN content_len - consumed ELSE 0
  BY MaxOfTwo
<1> QED
  BY <1>1, MinOfTwo DEF ToRead

-----------------------------------------------------------------------------
(* The types.                                                              *)

Pcs == {"none", "request", "parse", "body", "handler", "lock", "stat", "fetch", "open", "flush",
        "closed"}

Connection ==
    [pc : Pcs, wire : Seq(Chars), gone : BOOLEAN, buf : Seq(Chars), request_len : Int,
     taken : Seq(Chars), part : {1, 2}, value : Seq(Chars), size : Int, work : Seq(Bytes),
     got : Seq(Bytes), saw : SUBSET (Seq(Bytes) \cup {NONE}),
     answer : {"none", "413", "400", "not provided", "no file", "200", "in", "refused", "written",
               "cut off"}]

\* What may be in a file: text, at most the two halves of a digest, at most a number.
Halves == {"md5", "..."} \X Seq(Chars)
Contents(f) ==
    CASE f = "files/f" -> Seq(Chars)
      [] f = "password.md5" -> {s \in Seq(Halves) : Len(s) <= 2}
      [] f = "guestcount" -> {s \in Seq(Int) : Len(s) <= 1}

Types ==
    /\ load \in Loads
    /\ conn \in [Conns -> Connection]
    /\ \A c \in Conns : conn[c].pc # "none" => load[c] # NULL
    /\ disk \in [Files -> Seq(Bytes) \cup {NONE}]
    /\ last \in [Files -> Seq(Bytes) \cup {NONE}]
    /\ torn \in [Files -> BOOLEAN]
    /\ spoilt \in SUBSET Files
    /\ holder \in Conns \cup {NULL}
    /\ guests \in Seq(Bytes)
    /\ faults \in 0 .. MaxFaults

LEMMA RequestIs ==
    ASSUME Types, NEW c \in Conns, load[c] # NULL
    PROVE  IsRequest(load[c]) /\ fname(c) \in Files
<1>1. IsRequest(load[c])
  BY RequestsAssumption DEF Types
<1> QED
  BY <1>1 DEF IsRequest, fname, FileOf, Files

\* A connection goes on, and the others stay.
LEMMA Goes ==
    ASSUME conn \in [Conns -> Connection], NEW c \in Conns, NEW r \in Connection, Set(c, r)
    PROVE  /\ conn' \in [Conns -> Connection] /\ conn'[c] = r
           /\ \A d \in Conns \ {c} : conn'[d] = conn[d]
BY DEF Set

\* The fields of a connection that goes on, or is answered.
LEMMA GoingIs ==
    ASSUME NEW c \in Conns, conn[c] \in Connection, NEW pc \in Pcs
    PROVE  Going(c, pc) \in Connection
BY DEF Going, Connection

LEMMA AnswerIs ==
    ASSUME NEW c \in Conns, conn[c] \in Connection,
           NEW what \in {"none", "413", "400", "not provided", "no file", "200", "in", "refused",
                         "written", "cut off"}
    PROVE  Answer(c, what) \in Connection
BY DEF Answer, Connection, Pcs

-----------------------------------------------------------------------------
(* Reading a request.                                                      *)

\* What a connection has read: the buffer holds no more than it can, the head's end is in it
\* once it has been found, and no more of a body is taken than Content-Length says.
InputOK(c) ==
    /\ Len(conn[c].buf) <= BUF_SIZE
    /\ conn[c].request_len <= Len(conn[c].buf)
    /\ conn[c].pc \in {"none", "request"} => conn[c].request_len <= 0
    /\ conn[c].pc \in {"parse", "body"} => conn[c].request_len > 0
    /\ load[c] # NULL =>
          Len(conn[c].taken) <= IF load[c].content_len >= 0 THEN load[c].content_len ELSE 0

InputInv == \A c \in Conns : InputOK(c)

\* The bytes that arrive are the first of those that are on their way.
LEMMA PulledIs ==
    ASSUME Types, NEW c \in Conns, NEW n \in Nat, NEW bytes \in Pulled(c, n)
    PROVE  LET wire == conn[c].wire
               rest == Rest(c, bytes)
           IN  /\ bytes \in Seq(Chars) /\ Len(bytes) \in 1 .. Len(wire) /\ Len(bytes) <= n
               /\ \A i \in 1 .. Len(bytes) : bytes[i] = wire[i]
               /\ rest \in Seq(Chars) /\ Len(rest) = Len(wire) - Len(bytes)
               /\ \A i \in 1 .. Len(rest) : rest[i] = wire[Len(bytes) + i]
<1> DEFINE wire == conn[c].wire
           most == Min({n, Len(wire)})
           rest == Rest(c, bytes)
<1>1. wire \in Seq(Chars) /\ Len(wire) \in Nat
  BY LenProperties DEF Types, Connection
<1> HIDE DEF wire
<1>2. most = IF n <= Len(wire) THEN n ELSE Len(wire)
  BY <1>1, MinOfTwo
<1>3. PICK k \in IF load[c].in_pieces THEN 1 .. most ELSE {most} \ {0} : bytes = SubSeq(wire, 1, k)
  BY DEF Pulled, wire
<1>4. k \in 1 .. Len(wire) /\ k \in Nat /\ k <= n
  BY <1>1, <1>2, <1>3
<1>5. bytes \in Seq(Chars) /\ Len(bytes) = k /\ \A i \in 1 .. k : bytes[i] = wire[i]
  BY <1>1, <1>3, <1>4, PrefixIs
<1>6. rest = SubSeq(wire, k + 1, Len(wire))
  BY <1>5 DEF Rest, wire
<1>7. /\ rest \in Seq(Chars) /\ Len(rest) = Len(wire) - k
      /\ \A i \in 1 .. Len(wire) - k : rest[i] = wire[k + i]
  <2>1. /\ SubSeq(wire, k + 1, Len(wire)) \in Seq(Chars)
        /\ Len(SubSeq(wire, k + 1, Len(wire))) = IF k <= Len(wire) THEN Len(wire) - k ELSE 0
        /\ \A i \in 1 .. Len(wire) - k : SubSeq(wire, k + 1, Len(wire))[i] = wire[k + i]
    BY <1>1, <1>4, SuffixIs
  <2>2. k <= Len(wire)
    BY <1>1, <1>4
  <2> QED
    BY <1>6, <2>1, <2>2
<1> HIDE DEF rest
<1> QED
  BY <1>1, <1>4, <1>5, <1>7 DEF wire, rest

\* What a step of a connection that reads does: it goes on as r, without a look at the disk.
Early == {"none", "request", "parse", "body", "handler"}
ReadsOn(c, r) ==
    /\ r \in Connection /\ Set(c, r)
    /\ UNCHANGED <<load, disk, holder, guests, history>>
    /\ faults' \in 0 .. MaxFaults
    /\ load[c] # NULL
    /\ conn[c].pc \in Early
    /\ r.answer # conn[c].answer => r.answer \in {"none", "413", "400", "not provided"}
    /\ r.got = conn[c].got /\ r.saw = conn[c].saw /\ r.size = conn[c].size

\* The input part of the same step.
InputGoes(c, r) ==
    /\ r.pc # "none"
    /\ Len(r.buf) <= BUF_SIZE /\ r.request_len <= Len(r.buf)
    /\ r.pc = "request" => r.request_len <= 0
    /\ r.pc \in {"parse", "body"} => r.request_len > 0
    /\ Len(r.taken) <= IF load[c].content_len >= 0 THEN load[c].content_len ELSE 0

LEMMA ConnectReads ==
    ASSUME Types, InputInv, NEW c \in Conns, Connect(c) \/ BreakOff(c) \/ RemoteClosed(c)
    PROVE  \E r : ReadsOn(c, r) /\ InputGoes(c, r) /\ r.pc \in {"request", "body", "closed"}
<1> USE DEF Types
<1>0. InputOK(c) /\ conn[c] \in Connection
  BY DEF InputInv
<1>1. CASE Connect(c)
  <2> DEFINE r == [Going(c, "request") EXCEPT !.wire = load[c].head \o load[c].body]
  <2>1. load[c].head \o load[c].body \in Seq(Chars)
    BY <1>1, RequestIs, ConcatProperties DEF Connect, IsRequest
  <2>2. r \in Connection
    BY ONLY <1>0, <2>1 DEF Going, Connection, Pcs
  <2>3. /\ r.pc = "request" /\ r.buf = conn[c].buf /\ r.request_len = conn[c].request_len
        /\ r.taken = conn[c].taken /\ r.answer = conn[c].answer /\ r.got = conn[c].got
        /\ r.saw = conn[c].saw /\ r.size = conn[c].size
    BY ONLY <1>0 DEF Going, Connection
  <2>4. Set(c, r) /\ UNCHANGED <<load, disk, holder, guests, faults, history>>
        /\ load[c] # NULL /\ conn[c].pc = "none"
    BY <1>1 DEF Connect, At
  <2> HIDE DEF r
  <2>5. ReadsOn(c, r)
    BY <2>2, <2>3, <2>4 DEF ReadsOn, Early
  <2>6. InputGoes(c, r)
    BY <1>0, <2>3, <2>4 DEF InputGoes, InputOK
  <2> QED
    BY <2>3, <2>5, <2>6
<1>2. CASE BreakOff(c)
  <2>1. PICK n \in 0 .. Len(conn[c].wire) - 1 :
           Set(c, [conn[c] EXCEPT !.wire = SubSeq(conn[c].wire, 1, n), !.gone = TRUE])
    BY <1>2 DEF BreakOff
  <2> DEFINE r == [conn[c] EXCEPT !.wire = SubSeq(conn[c].wire, 1, n), !.gone = TRUE]
  <2>2. SubSeq(conn[c].wire, 1, n) \in Seq(Chars)
    <3>1. conn[c].wire \in Seq(Chars)
      BY <1>0 DEF Connection
    <3>2. Len(conn[c].wire) \in Nat
      BY <3>1, LenProperties
    <3>3. n \in 0 .. Len(conn[c].wire)
      BY <3>2
    <3> QED
      BY <3>1, <3>3, PrefixIs
  <2>3. r \in Connection
    BY ONLY <1>0, <2>2 DEF Connection
  <2>4. /\ r.pc = conn[c].pc /\ r.buf = conn[c].buf /\ r.request_len = conn[c].request_len
        /\ r.taken = conn[c].taken /\ r.answer = conn[c].answer /\ r.got = conn[c].got
        /\ r.saw = conn[c].saw /\ r.size = conn[c].size
    BY ONLY <1>0 DEF Connection
  <2>5. /\ Set(c, r) /\ UNCHANGED <<load, disk, holder, guests, history>>
        /\ faults' = faults + 1 /\ faults < MaxFaults /\ conn[c].pc \in {"request", "body"}
    BY <1>2, <2>1 DEF BreakOff
  <2> HIDE DEF r
  <2>6. ReadsOn(c, r)
    BY <2>3, <2>4, <2>5, RequestsAssumption DEF ReadsOn, Early
  <2>7. InputGoes(c, r)
    BY <1>0, <2>4, <2>5 DEF InputGoes, InputOK
  <2> QED
    BY <2>4, <2>5, <2>6, <2>7
<1>3. CASE RemoteClosed(c)
  <2> DEFINE r == Answer(c, "none")
  <2>1. r \in Connection
    BY <1>0, AnswerIs
  <2>2. /\ r.pc = "closed" /\ r.buf = conn[c].buf /\ r.request_len = conn[c].request_len
        /\ r.taken = conn[c].taken /\ r.answer = "none" /\ r.got = conn[c].got
        /\ r.saw = conn[c].saw /\ r.size = conn[c].size
    BY ONLY <1>0 DEF Answer, Connection
  <2>3. Set(c, r) /\ UNCHANGED <<load, disk, holder, guests, faults, history>>
        /\ conn[c].pc = "request"
    BY <1>3 DEF RemoteClosed, At
  <2> HIDE DEF r
  <2>4. ReadsOn(c, r)
    BY <2>1, <2>2, <2>3 DEF ReadsOn, Early
  <2>5. InputGoes(c, r)
    BY <1>0, <2>2, <2>3 DEF InputGoes, InputOK
  <2> QED
    BY <2>2, <2>4, <2>5
<1> QED
  BY <1>1, <1>2, <1>3

LEMMA RequestReads ==
    ASSUME Types, InputInv, NEW c \in Conns, ReadRequest(c)
    PROVE  \E r : ReadsOn(c, r) /\ InputGoes(c, r) /\ r.pc \in {"request", "parse", "closed"}
<1> USE DEF Types
<1>0. InputOK(c) /\ conn[c] \in Connection /\ conn[c].buf \in Seq(Chars) /\ Len(conn[c].buf) \in Nat
  <2>1. InputOK(c) /\ conn[c] \in Connection
    BY DEF InputInv
  <2>2. conn[c].buf \in Seq(Chars)
    BY <2>1 DEF Connection
  <2> QED
    BY <2>1, <2>2, LenProperties
<1>1. BUF_SIZE - Len(conn[c].buf) \in Nat
  <2>1. Len(conn[c].buf) <= BUF_SIZE
    BY <1>0 DEF InputOK
  <2> QED
    BY <1>0, <2>1, BufferSizes
<1> DEFINE cur == conn[c]
           request_len(bytes) == get_request_len(cur.buf \o bytes)
           next(bytes) ==
              CASE request_len(bytes) = 0 /\ Len(cur.buf \o bytes) = BUF_SIZE -> Answer(c, "413")
                [] request_len(bytes) = 0 /\ Len(cur.buf \o bytes) < BUF_SIZE -> cur
                [] request_len(bytes) < 0 -> Answer(c, "none")
                [] request_len(bytes) > 0 -> Going(c, "parse")
           new(bytes) == [next(bytes) EXCEPT !.wire = Rest(c, bytes), !.buf = cur.buf \o bytes,
                                             !.request_len = request_len(bytes)]
<1>2. PICK bytes \in Pulled(c, BUF_SIZE - Len(cur.buf)) : Set(c, new(bytes))
  BY DEF ReadRequest
<1> DEFINE buf == cur.buf \o bytes
           len == get_request_len(buf)
           go == next(bytes)
           r == new(bytes)
<1>3. /\ buf \in Seq(Chars) /\ Len(buf) \in Nat /\ Len(buf) <= BUF_SIZE
      /\ Rest(c, bytes) \in Seq(Chars)
  <2>1. /\ bytes \in Seq(Chars) /\ Len(bytes) \in 1 .. Len(cur.wire)
        /\ Len(bytes) <= BUF_SIZE - Len(cur.buf) /\ Rest(c, bytes) \in Seq(Chars)
    BY <1>1, PulledIs
  <2>2. buf \in Seq(Chars) /\ Len(buf) = Len(cur.buf) + Len(bytes)
    BY <1>0, <2>1, ConcatProperties
  <2>3. Len(bytes) \in Nat
    BY <2>1, LenProperties
  <2> HIDE DEF buf
  <2> QED
    BY <1>0, <2>1, <2>2, <2>3, BufferSizes
<1>4. len \in Int /\ len <= Len(buf)
  BY <1>3, RequestLen
<1>5. cur.pc = "request"
  BY DEF ReadRequest, At
<1>6. /\ go \in Connection
      /\ go.pc = IF len > 0 THEN "parse" ELSE IF len = 0 /\ Len(buf) < BUF_SIZE THEN "request"
                 ELSE "closed"
      /\ go.answer \in {cur.answer, "413", "none"} /\ go.taken = cur.taken
      /\ go.got = cur.got /\ go.saw = cur.saw /\ go.size = cur.size
  <2>1. ASSUME NEW what \in {"413", "none"}
        PROVE  LET a == Answer(c, what)
               IN /\ a \in Connection /\ a.pc = "closed" /\ a.answer = what /\ a.taken = cur.taken
                  /\ a.got = cur.got /\ a.saw = cur.saw /\ a.size = cur.size
    <3>1. Answer(c, what) \in Connection
      BY <1>0, AnswerIs
    <3> QED
      BY ONLY <1>0, <3>1 DEF Answer, Connection
  <2>2. LET a == Going(c, "parse")
        IN /\ a \in Connection /\ a.pc = "parse" /\ a.answer = cur.answer /\ a.taken = cur.taken
           /\ a.got = cur.got /\ a.saw = cur.saw /\ a.size = cur.size
    <3>1. Going(c, "parse") \in Connection
      BY <1>0, GoingIs DEF Pcs
    <3> QED
      BY ONLY <1>0, <3>1 DEF Going, Connection
  <2> HIDE DEF buf
  <2>3. CASE len > 0
    BY <1>4, <2>2, <2>3 DEF buf
  <2>4. CASE len < 0
    BY <1>4, <2>1, <2>4 DEF buf
  <2>5. CASE len = 0 /\ Len(buf) < BUF_SIZE
    <3>1. go = cur
      BY <1>3, <2>5, BufferSizes DEF buf
    <3> HIDE DEF go, len
    <3> QED
      BY <1>0, <1>5, <2>5, <3>1
  <2>6. CASE len = 0 /\ Len(buf) = BUF_SIZE
    BY <1>3, <2>1, <2>6, BufferSizes DEF buf
  <2> HIDE DEF go, len
  <2> QED
    BY <1>3, <1>4, <2>3, <2>4, <2>5, <2>6, BufferSizes
<1> HIDE DEF go
<1>7. r = [go EXCEPT !.wire = Rest(c, bytes), !.buf = buf, !.request_len = len]
  BY DEF go
<1> HIDE DEF buf, len, r
<1>8. r \in Connection
  BY ONLY <1>3, <1>4, <1>6, <1>7 DEF Connection
<1>9. /\ r.pc = go.pc /\ r.buf = buf /\ r.request_len = len /\ r.taken = cur.taken
      /\ r.answer = go.answer /\ r.got = cur.got /\ r.saw = cur.saw /\ r.size = cur.size
  BY ONLY <1>6, <1>7 DEF Connection
<1>10. Set(c, r) /\ UNCHANGED <<load, disk, holder, guests, faults, history>>
  BY <1>2 DEF ReadRequest, r
<1>11. ReadsOn(c, r)
  BY <1>5, <1>6, <1>8, <1>9, <1>10 DEF ReadsOn, Early
<1>12. InputGoes(c, r)
  BY <1>0, <1>3, <1>4, <1>5, <1>6, <1>9 DEF InputGoes, InputOK
<1>13. r.pc \in {"request", "parse", "closed"}
  BY <1>6, <1>9
<1> QED
  BY <1>11, <1>12, <1>13

\* What mg_read takes out of the buffer while a body is read.
LEMMA FromHeadIs ==
    ASSUME Types, InputInv, NEW c \in Conns, conn[c].pc \in {"parse", "body"}
    PROVE  LET t == Len(conn[c].taken)
               most == IF load[c].content_len >= t THEN load[c].content_len - t ELSE 0
               n == IF BUFF_LEN <= most THEN BUFF_LEN ELSE most
               there == Len(conn[c].buf) - conn[c].request_len - t
               bytes == FromHead(c)
           IN  /\ bytes \in Seq(Chars)
               /\ Len(bytes) = IF n <= there THEN n ELSE IF there >= 0 THEN there ELSE 0
               /\ \A i \in 1 .. Len(bytes) : bytes[i] = conn[c].buf[conn[c].request_len + t + i]
<1> DEFINE t == Len(conn[c].taken)
           most == IF load[c].content_len >= t THEN load[c].content_len - t ELSE 0
           n == IF BUFF_LEN <= most THEN BUFF_LEN ELSE most
<1>1. /\ conn[c].buf \in Seq(Chars) /\ conn[c].taken \in Seq(Chars)
      /\ conn[c].request_len \in Nat /\ load[c].content_len \in Int
  <2>1. load[c].content_len \in Int
    BY RequestIs DEF Types, IsRequest
  <2>2. conn[c] \in Connection /\ conn[c].request_len > 0
    BY DEF Types, InputInv, InputOK
  <2>3. conn[c].request_len \in Int
    BY <2>2 DEF Connection
  <2>4. conn[c].request_len \in Nat
    BY <2>2, <2>3
  <2> QED
    BY <2>1, <2>2, <2>4 DEF Connection
<1>2. t \in Nat
  BY <1>1, LenProperties
<1> HIDE DEF t
<1> HIDE DEF n
<1>3. ToRead(BUFF_LEN, load[c].content_len, t) = n
  <2>1. BUFF_LEN \in Nat
    BY BufferSizes
  <2> QED
    BY <1>1, <1>2, <2>1, ToReadIs DEF n
<1>6. n \in Nat
  BY <1>1, <1>2, BufferSizes DEF n
<1>4. FromHead(c) = FromBuffer(conn[c].buf, conn[c].request_len, t, n)
  BY <1>3 DEF FromHead, t
<1>5. LET bytes == FromBuffer(conn[c].buf, conn[c].request_len, t, n)
          there == Len(conn[c].buf) - conn[c].request_len - t
      IN  /\ bytes \in Seq(Chars)
          /\ Len(bytes) = IF n <= there THEN n ELSE IF there >= 0 THEN there ELSE 0
          /\ \A i \in 1 .. Len(bytes) : bytes[i] = conn[c].buf[conn[c].request_len + t + i]
  BY <1>1, <1>2, <1>6, FromBufferIs
<1> QED
  BY <1>4, <1>5 DEF n, t

\* What this call of mg_read still wants, up to the end of the body.
LEMMA WantedIs ==
    ASSUME Types, NEW c \in Conns, load[c] # NULL
    PROVE  LET whole == IF load[c].content_len >= 0 THEN load[c].content_len ELSE 0
               this == conn[c].part * BUFF_LEN
           IN  /\ Wanted(c) = (IF this <= whole THEN this ELSE whole) - Len(conn[c].taken)
               /\ Wanted(c) \in Int
               /\ Len(conn[c].taken) + Wanted(c) <= whole
<1> DEFINE whole == IF load[c].content_len >= 0 THEN load[c].content_len ELSE 0
           this == conn[c].part * BUFF_LEN
<1>1. load[c].content_len \in Int
  BY RequestIs DEF IsRequest
<1>2. conn[c].part \in {1, 2} /\ Len(conn[c].taken) \in Nat
  <2>1. conn[c] \in Connection
    BY DEF Types
  <2>2. conn[c].part \in {1, 2} /\ conn[c].taken \in Seq(Chars)
    BY <2>1 DEF Connection
  <2> QED
    BY <2>2, LenProperties
<1>3. this \in Nat
  BY <1>2, BufferSizes
<1>4. Max({0, load[c].content_len}) = whole
  BY <1>1, MaxOfTwo
<1>5. whole \in Nat
  BY <1>1
<1> HIDE DEF whole, this
<1>6. Min({this, whole}) = IF this <= whole THEN this ELSE whole
  BY <1>3, <1>5, MinOfTwo
<1>7. Wanted(c) = Min({this, whole}) - Len(conn[c].taken)
  BY <1>4 DEF Wanted, this
<1>8. /\ Wanted(c) = (IF this <= whole THEN this ELSE whole) - Len(conn[c].taken)
      /\ Wanted(c) \in Int
      /\ Len(conn[c].taken) + Wanted(c) <= whole
  <2> DEFINE t == Len(conn[c].taken)
             most == IF this <= whole THEN this ELSE whole
  <2>1. t \in Nat /\ Wanted(c) = most - t
    BY <1>2, <1>6, <1>7
  <2>2. most \in Nat /\ most <= whole
    BY <1>3, <1>5
  <2> HIDE DEF t, most
  <2>3. Wanted(c) \in Int /\ t + Wanted(c) <= whole
    BY <1>5, <2>1, <2>2
  <2> QED
    BY <2>1, <2>3 DEF t, most
<1> QED
  BY <1>8 DEF whole, this

\* The fields that a step which reads a body leaves alone.
SameReader(c, r) ==
    /\ r.buf = conn[c].buf /\ r.request_len = conn[c].request_len /\ r.gone = conn[c].gone
    /\ r.answer = conn[c].answer /\ r.got = conn[c].got /\ r.saw = conn[c].saw
    /\ r.size = conn[c].size

LEMMA ParseReads ==
    ASSUME Types, InputInv, NEW c \in Conns, Parse(c)
    PROVE  \E r : ReadsOn(c, r) /\ InputGoes(c, r) /\ r.pc \in {"body", "handler", "closed"}
<1> USE DEF Types
<1>0. InputOK(c) /\ conn[c] \in Connection /\ conn[c].taken \in Seq(Chars)
  <2>1. InputOK(c) /\ conn[c] \in Connection
    BY DEF InputInv
  <2> QED
    BY <2>1 DEF Connection
<1>1. /\ conn[c].pc = "parse" /\ UNCHANGED <<load, disk, holder, guests, faults, history>>
      /\ load[c] # NULL
  BY DEF Parse, At
<1>2. load[c].content_len \in Int
  BY <1>1, RequestIs DEF IsRequest
<1>3. CASE Set(c, Answer(c, "400"))
  <2> DEFINE r == Answer(c, "400")
  <2>1. r \in Connection
    BY <1>0, AnswerIs
  <2>2. /\ r.pc = "closed" /\ r.buf = conn[c].buf /\ r.request_len = conn[c].request_len
        /\ r.taken = conn[c].taken /\ r.answer = "400" /\ r.got = conn[c].got
        /\ r.saw = conn[c].saw /\ r.size = conn[c].size
    BY ONLY <1>0 DEF Answer, Connection
  <2> HIDE DEF r
  <2>3. ReadsOn(c, r)
    BY <1>1, <1>3, <2>1, <2>2 DEF ReadsOn, Early, r
  <2>4. InputGoes(c, r)
    BY <1>0, <1>1, <2>2 DEF InputGoes, InputOK
  <2> QED
    BY <2>2, <2>3, <2>4
<1>4. CASE Set(c, [Going(c, "body") EXCEPT !.taken = FromHead(c)])
  <2> DEFINE r == [Going(c, "body") EXCEPT !.taken = FromHead(c)]
             t == Len(conn[c].taken)
             most == IF load[c].content_len >= t THEN load[c].content_len - t ELSE 0
             n == IF BUFF_LEN <= most THEN BUFF_LEN ELSE most
             there == Len(conn[c].buf) - conn[c].request_len - t
  <2>1. /\ FromHead(c) \in Seq(Chars)
        /\ Len(FromHead(c)) = IF n <= there THEN n ELSE IF there >= 0 THEN there ELSE 0
    BY <1>1, FromHeadIs
  <2>2. t \in Nat
    BY <1>0, LenProperties
  <2>3. Len(FromHead(c)) <= IF load[c].content_len >= 0 THEN load[c].content_len ELSE 0
    <3>1. Len(FromHead(c)) \in Nat
      BY <2>1, LenProperties
    <3>2. there \in Int
      <4>1. Len(conn[c].buf) \in Nat /\ conn[c].request_len \in Int
        BY <1>0, LenProperties DEF Connection
      <4> QED
        BY <2>2, <4>1
    <3> HIDE DEF t, there
    <3> QED
      BY <1>2, <2>1, <2>2, <3>1, <3>2, BufferSizes
  <2>4. r \in Connection
    BY ONLY <1>0, <2>1 DEF Going, Connection, Pcs
  <2>5. r.pc = "body" /\ r.taken = FromHead(c) /\ SameReader(c, r)
    BY ONLY <1>0, <2>1 DEF Going, Connection, SameReader
  <2> HIDE DEF r, t, n, there
  <2>6. ReadsOn(c, r)
    BY <1>1, <1>4, <2>4, <2>5 DEF ReadsOn, Early, SameReader, r
  <2>7. InputGoes(c, r)
    BY <1>0, <1>1, <2>3, <2>5 DEF InputGoes, InputOK, SameReader
  <2> QED
    BY <2>5, <2>6, <2>7
<1>5. CASE Set(c, Going(c, "handler"))
  <2> DEFINE r == Going(c, "handler")
  <2>1. r \in Connection
    BY <1>0, GoingIs DEF Pcs
  <2>2. r.pc = "handler" /\ r.taken = conn[c].taken /\ SameReader(c, r)
    BY ONLY <1>0 DEF Going, Connection, SameReader
  <2> HIDE DEF r
  <2>3. ReadsOn(c, r)
    BY <1>1, <1>5, <2>1, <2>2 DEF ReadsOn, Early, SameReader, r
  <2>4. InputGoes(c, r)
    BY <1>0, <1>1, <2>2 DEF InputGoes, InputOK, SameReader
  <2> QED
    BY <2>2, <2>3, <2>4
<1> QED
  BY <1>3, <1>4, <1>5 DEF Parse

LEMMA BodyReads ==
    ASSUME Types, InputInv, NEW c \in Conns, ReadBody(c) \/ ReadReturns(c)
    PROVE  \E r : ReadsOn(c, r) /\ InputGoes(c, r) /\ r.pc \in {"body", "handler"}
<1> USE DEF Types
<1>0. /\ InputOK(c) /\ conn[c] \in Connection /\ conn[c].taken \in Seq(Chars)
      /\ Len(conn[c].taken) \in Nat
  <2>1. InputOK(c) /\ conn[c] \in Connection
    BY DEF InputInv
  <2>2. conn[c].taken \in Seq(Chars)
    BY <2>1 DEF Connection
  <2> QED
    BY <2>1, <2>2, LenProperties
<1>1. /\ conn[c].pc = "body" /\ UNCHANGED <<load, disk, holder, guests, faults, history>>
      /\ load[c] # NULL
  BY DEF ReadBody, ReadReturns, At
<1>2. load[c].content_len \in Int
  BY <1>1, RequestIs DEF IsRequest
<1> DEFINE whole == IF load[c].content_len >= 0 THEN load[c].content_len ELSE 0
<1>3. Len(conn[c].taken) <= whole
  BY <1>0, <1>1 DEF InputOK
<1>4. CASE ReadBody(c)
  <2>1. PICK bytes \in Pulled(c, Wanted(c)) :
           Set(c, [conn[c] EXCEPT !.taken = conn[c].taken \o bytes, !.wire = Rest(c, bytes)])
    BY <1>4 DEF ReadBody
  <2> DEFINE taken == conn[c].taken \o bytes
             r == [conn[c] EXCEPT !.taken = taken, !.wire = Rest(c, bytes)]
  <2>2. Wanted(c) \in Nat /\ Len(conn[c].taken) + Wanted(c) <= whole
    <3>1. Wanted(c) \in Int /\ Len(conn[c].taken) + Wanted(c) <= whole
      BY <1>1, WantedIs
    <3>2. Wanted(c) > 0
      BY <1>4 DEF ReadBody
    <3> QED
      BY <3>1, <3>2
  <2>3. bytes \in Seq(Chars) /\ Len(bytes) <= Wanted(c) /\ Rest(c, bytes) \in Seq(Chars)
    BY <2>2, PulledIs
  <2>4. taken \in Seq(Chars) /\ Len(taken) = Len(conn[c].taken) + Len(bytes)
    BY <1>0, <2>3, ConcatProperties
  <2> HIDE DEF taken, whole
  <2>5. Len(taken) <= whole
    <3>1. Len(bytes) \in Nat
      BY <2>3, LenProperties
    <3>2. whole \in Int
      BY <1>2 DEF whole
    <3> QED
      BY <1>0, <2>2, <2>3, <2>4, <3>1, <3>2
  <2>6. r \in Connection
    BY ONLY <1>0, <2>3, <2>4 DEF Connection
  <2>7. r.pc = conn[c].pc /\ r.taken = taken /\ SameReader(c, r)
    BY ONLY <1>0, <2>3, <2>4 DEF Connection, SameReader
  <2>8. Set(c, r)
    BY <2>1 DEF taken
  <2> HIDE DEF r
  <2>9. ReadsOn(c, r)
    BY <1>1, <2>6, <2>7, <2>8 DEF ReadsOn, Early, SameReader
  <2>10. InputGoes(c, r)
    BY <1>0, <1>1, <2>5, <2>7 DEF InputGoes, InputOK, SameReader, whole
  <2> QED
    BY <1>1, <2>7, <2>9, <2>10
<1>5. CASE Set(c, [conn[c] EXCEPT !.part = 2, !.taken = conn[c].taken \o FromHead(c)])
  <2> DEFINE taken == conn[c].taken \o FromHead(c)
             r == [conn[c] EXCEPT !.part = 2, !.taken = taken]
             t == Len(conn[c].taken)
             most == IF load[c].content_len >= t THEN load[c].content_len - t ELSE 0
             n == IF BUFF_LEN <= most THEN BUFF_LEN ELSE most
             there == Len(conn[c].buf) - conn[c].request_len - t
  <2>1. /\ FromHead(c) \in Seq(Chars)
        /\ Len(FromHead(c)) = IF n <= there THEN n ELSE IF there >= 0 THEN there ELSE 0
    BY <1>1, FromHeadIs
  <2>2. there \in Int
    <3>1. Len(conn[c].buf) \in Nat /\ conn[c].request_len \in Int
      BY <1>0, LenProperties DEF Connection
    <3> QED
      BY <1>0, <3>1
  <2>3. taken \in Seq(Chars) /\ Len(taken) = t + Len(FromHead(c))
    BY <1>0, <2>1, ConcatProperties
  <2> HIDE DEF taken, there
  <2>4. Len(taken) <= whole
    <3> DEFINE l == Len(FromHead(c))
               cl == load[c].content_len
    <3>1. cl \in Int /\ t \in Nat /\ t <= whole /\ whole = IF cl >= 0 THEN cl ELSE 0
      BY <1>0, <1>2, <1>3, LenProperties DEF Connection
    <3>2. l = (IF n <= there THEN n ELSE IF there >= 0 THEN there ELSE 0) /\ Len(taken) = t + l
      BY <2>1, <2>3
    <3> HIDE DEF l, cl, whole, t
    <3>3. l <= whole - t
      <4>1. most \in Nat /\ most = whole - t
        BY ONLY <3>1 DEF cl
      <4> HIDE DEF most
      <4>2. n \in Nat /\ n <= most
        BY ONLY <4>1, BufferSizes
      <4> HIDE DEF n
      <4> QED
        BY ONLY <2>2, <3>2, <4>1, <4>2
    <3> HIDE DEF n
    <3>4. l \in Int /\ whole \in Int
      <4>1. l \in Nat
        BY <2>1, LenProperties DEF l
      <4> QED
        BY <3>1, <4>1
    <3>5. Len(taken) = t + l
      BY <3>2
    <3>6. t \in Nat
      BY <3>1
    <3> QED
      BY ONLY <3>3, <3>4, <3>5, <3>6
  <2>5. r \in Connection
    BY ONLY <1>0, <2>3 DEF Connection
  <2>6. r.pc = conn[c].pc /\ r.taken = taken /\ SameReader(c, r)
    BY ONLY <1>0, <2>3 DEF Connection, SameReader
  <2>7. Set(c, r)
    BY <1>5 DEF taken
  <2> HIDE DEF r, t, n
  <2>8. ReadsOn(c, r)
    BY <1>1, <2>5, <2>6, <2>7 DEF ReadsOn, Early, SameReader
  <2>9. InputGoes(c, r)
    BY <1>0, <1>1, <2>4, <2>6 DEF InputGoes, InputOK, SameReader
  <2> QED
    BY <1>1, <2>6, <2>8, <2>9
<1>6. CASE Set(c, [Going(c, "handler") EXCEPT
                      !.value = SubSeq(conn[c].taken, 1, Min({BUFF_LEN, Len(conn[c].taken)}))])
  <2> DEFINE value == SubSeq(conn[c].taken, 1, Min({BUFF_LEN, Len(conn[c].taken)}))
             r == [Going(c, "handler") EXCEPT !.value = value]
  <2>1. value \in Seq(Chars)
    <3> DEFINE t == Len(conn[c].taken)
               n == Min({BUFF_LEN, t})
    <3>1. t \in Nat
      BY <1>0
    <3> HIDE DEF t
    <3>2. n = IF BUFF_LEN <= t THEN BUFF_LEN ELSE t
      <4>1. BUFF_LEN \in Int /\ t \in Int
        BY <3>1, BufferSizes
      <4> QED
        BY <4>1, MinOfTwo
    <3> HIDE DEF n
    <3>3. n \in 0 .. t
      BY <3>1, <3>2, BufferSizes
    <3>4. value = SubSeq(conn[c].taken, 1, n)
      BY DEF n, t
    <3>5. n \in 0 .. Len(conn[c].taken)
      BY <3>3 DEF t
    <3> QED
      BY <1>0, <3>4, <3>5, PrefixIs
  <2> HIDE DEF value
  <2>2. r \in Connection
    BY ONLY <1>0, <2>1 DEF Going, Connection, Pcs
  <2>3. r.pc = "handler" /\ r.taken = conn[c].taken /\ SameReader(c, r)
    BY ONLY <1>0, <2>1 DEF Going, Connection, SameReader
  <2>4. Set(c, r)
    BY <1>6 DEF value
  <2> HIDE DEF r
  <2>5. ReadsOn(c, r)
    BY <1>1, <2>2, <2>3, <2>4 DEF ReadsOn, Early, SameReader
  <2>6. InputGoes(c, r)
    BY <1>0, <1>1, <1>3, <2>3 DEF InputGoes, InputOK, SameReader
  <2> QED
    BY <2>3, <2>5, <2>6
<1> QED
  BY <1>4, <1>5, <1>6 DEF ReadReturns

-----------------------------------------------------------------------------
(* Files, and what handlers know of them.                                  *)

\* A passed password's digest has two halves.
LEMMA Digests ==
    ASSUME NEW p \in Seq(Chars)
    PROVE  /\ mg_md5(p) \in Seq(Halves) /\ Len(mg_md5(p)) = 2
           /\ mg_md5(p) \in {s \in Seq(Halves) : Len(s) <= 2}
<1>1. mg_md5(p) \in Seq(Halves) /\ Len(mg_md5(p)) = 2
  BY DEF mg_md5, Halves
<1>2. Len(mg_md5(p)) <= 2
  BY <1>1
<1> QED
  BY <1>1, <1>2

LEMMA ContentsOf ==
    /\ Contents("files/f") = Seq(Chars)
    /\ Contents("password.md5") = {s \in Seq(Halves) : Len(s) <= 2}
    /\ Contents("guestcount") = {s \in Seq(Int) : Len(s) <= 1}
BY DEF Contents

\* What a file may hold is made of bytes, may be empty, may be cut and may be written over.
LEMMA ContentsAre ==
    ASSUME NEW f \in Files, NEW file \in Contents(f)
    PROVE  /\ file \in Seq(Bytes) /\ file # NONE /\ <<>> \in Contents(f)
           /\ \A n \in 0 .. Len(file) : SubSeq(file, 1, n) \in Contents(f)
           /\ \A over \in Contents(f) : Written(over, file) \in Contents(f)
<1>1. ASSUME NEW S, NEW m \in Nat, NEW s \in Seq(S), Len(s) <= m
      PROVE  /\ <<>> \in Seq(S) /\ Len(<<>>) <= m
             /\ \A n \in 0 .. Len(s) : SubSeq(s, 1, n) \in Seq(S) /\ Len(SubSeq(s, 1, n)) <= m
             /\ \A over \in Seq(S) : Len(over) <= m =>
                    Written(over, s) \in Seq(S) /\ Len(Written(over, s)) <= m
  <2>1. Len(s) \in Nat
    BY <1>1, LenProperties
  <2>2. <<>> \in Seq(S) /\ Len(<<>>) <= m
    BY <1>1, EmptySeq
  <2>3. ASSUME NEW n \in 0 .. Len(s) PROVE SubSeq(s, 1, n) \in Seq(S) /\ Len(SubSeq(s, 1, n)) <= m
    <3>1. SubSeq(s, 1, n) \in Seq(S) /\ Len(SubSeq(s, 1, n)) = n
      BY <1>1, <2>3, PrefixIs
    <3> QED
      BY <1>1, <2>1, <2>3, <3>1
  <2>4. ASSUME NEW over \in Seq(S), Len(over) <= m
        PROVE  Written(over, s) \in Seq(S) /\ Len(Written(over, s)) <= m
    <3>1. /\ Written(over, s) \in Seq(S)
          /\ Len(Written(over, s)) = IF Len(s) >= Len(over) THEN Len(s) ELSE Len(over)
      BY <1>1, <2>4, WrittenIs
    <3> QED
      BY <1>1, <2>1, <2>4, <3>1
  <2> QED
    BY <2>2, <2>3, <2>4
<1>2. CASE f = "files/f"
  <2>1. Contents(f) = Seq(Chars)
    BY <1>2, ContentsOf
  <2>2. file \in Seq(Chars) /\ Len(file) \in Nat
    BY <2>1, LenProperties
  <2>3. \A n \in 0 .. Len(file) : SubSeq(file, 1, n) \in Seq(Chars)
    BY <2>2, PrefixIs
  <2>4. \A over \in Seq(Chars) : Written(over, file) \in Seq(Chars)
    BY <2>2, WrittenIs
  <2>5. <<>> \in Seq(Chars) /\ file \in Seq(Bytes)
    BY <2>2, EmptySeq DEF Bytes
  <2> QED
    BY <2>1, <2>3, <2>4, <2>5, RequestsAssumption
<1>3. CASE f = "password.md5"
  <2>1. Contents(f) = {s \in Seq(Halves) : Len(s) <= 2}
    BY <1>3, ContentsOf
  <2>2. file \in Seq(Halves) /\ Len(file) <= 2
    BY <2>1
  <2>3. file \in Seq(Bytes)
    BY <2>2 DEF Bytes, Halves
  <2>4. /\ <<>> \in Seq(Halves) /\ Len(<<>>) <= 2
        /\ \A n \in 0 .. Len(file) :
              SubSeq(file, 1, n) \in Seq(Halves) /\ Len(SubSeq(file, 1, n)) <= 2
        /\ \A over \in Seq(Halves) : Len(over) <= 2 =>
              Written(over, file) \in Seq(Halves) /\ Len(Written(over, file)) <= 2
    BY <1>1, <2>2
  <2> QED
    BY <2>1, <2>3, <2>4, RequestsAssumption
<1>4. CASE f = "guestcount"
  <2>1. Contents(f) = {s \in Seq(Int) : Len(s) <= 1}
    BY <1>4, ContentsOf
  <2>2. file \in Seq(Int) /\ Len(file) <= 1
    BY <2>1
  <2>3. file \in Seq(Bytes)
    BY <2>2 DEF Bytes
  <2>4. /\ <<>> \in Seq(Int) /\ Len(<<>>) <= 1
        /\ \A n \in 0 .. Len(file) :
              SubSeq(file, 1, n) \in Seq(Int) /\ Len(SubSeq(file, 1, n)) <= 1
        /\ \A over \in Seq(Int) : Len(over) <= 1 =>
              Written(over, file) \in Seq(Int) /\ Len(Written(over, file)) <= 1
    BY <1>1, <2>2
  <2> QED
    BY <2>1, <2>3, <2>4, RequestsAssumption
<1> QED
  BY <1>2, <1>3, <1>4 DEF Files

\* The answers after which nothing was read from a file.
Unread == {"none", "413", "400", "not provided", "no file", "written", "cut off"}

\* What is known of a request's connection when it has looked at its file's size and is about
\* to read it: the file is one of those it has seen, and so is the one of which it has the size.
FetchOK(c, r, file) ==
    /\ file \in r.saw
    /\ r.saw \in SUBSET (Contents(fname(c)) \cup {NONE}) /\ IsFiniteSet(r.saw)
    /\ \E f \in r.saw : r.size = file_size(f)
    /\ load[c].kind # "guest" => NONE \notin r.saw

\* What a reader's answer says.
ReadOK(r) ==
    /\ r.answer = "200" =>
          /\ Len(r.got) <= r.size
          /\ r.saw = {r.got} \/ Cardinality(r.saw) > 1
    /\ r.answer = "in" => r.work \in r.saw
    /\ r.answer = "refused" => r.saw # {r.work}

\* All that is known of c's request when its connection is r, the users mutex is held by h and
\* its file holds file.
Ready(c, r, h, file) ==
    /\ r.pc # "closed" => r.answer \in Unread
    /\ r.pc = "lock" => load[c].kind = "guest"
    /\ r.pc \in {"stat", "fetch"} => load[c].kind \in {"login", "read", "guest"}
    /\ r.pc \in {"open", "flush"} => load[c].kind \in {"write", "passwd", "guest"}
    /\ r.pc \in {"stat", "fetch"} /\ load[c].kind = "login" =>
          r.work \in Seq(Halves) /\ Len(r.work) = 2
    /\ r.pc \in {"open", "flush"} => r.work \in Contents(fname(c))
    /\ r.pc = "flush" => file # NONE
    /\ r.pc = "fetch" => FetchOK(c, r, file)
    /\ r.pc \in {"stat", "fetch", "open", "flush"} /\ load[c].kind = "guest" => h = c
    /\ ReadOK(r)

ReadyInv == \A c \in Conns : Ready(c, conn[c], holder, disk[fname(c)])

DiskInv == \A f \in Files : {disk[f], last[f]} \subseteq Contents(f) \cup {NONE}

\* What a connection has read stays as it is.
SameInput(c, r) ==
    /\ r.buf = conn[c].buf /\ r.request_len = conn[c].request_len /\ r.taken = conn[c].taken
    /\ r.value = conn[c].value /\ r.gone = conn[c].gone

\* Where a handler goes first; only a guest's goes to the file for the users mutex.
Asks(c, r) ==
    /\ r.pc \in {"open", "stat", "lock", "closed"}
    /\ r.pc = "open" => load[c].kind # "guest"
    /\ SameInput(c, r)

LEMMA HandleReads ==
    ASSUME Types, InputInv, ReadyInv, NEW c \in Conns, Handle(c)
    PROVE  \E r : ReadsOn(c, r) /\ InputGoes(c, r) /\ Ready(c, r, holder, disk[fname(c)]) /\ Asks(c, r)
<1> USE DEF Types
<1>0. /\ InputOK(c) /\ conn[c] \in Connection /\ conn[c].value \in Seq(Chars)
      /\ Ready(c, conn[c], holder, disk[fname(c)])
  <2>1. InputOK(c) /\ conn[c] \in Connection /\ Ready(c, conn[c], holder, disk[fname(c)])
    BY DEF InputInv, ReadyInv
  <2> QED
    BY <2>1 DEF Connection
<1>1. /\ conn[c].pc = "handler" /\ UNCHANGED <<load, disk, holder, guests, faults, history>>
      /\ load[c] # NULL /\ conn[c].answer \in Unread
  BY <1>0 DEF Handle, At, Ready
<1>2. load[c].kind \in {"write", "read", "passwd", "login", "guest"}
  BY <1>1, RequestIs DEF IsRequest
<1>3. CASE Set(c, Answer(c, "not provided"))
  <2> DEFINE r == Answer(c, "not provided")
  <2>1. r \in Connection
    BY <1>0, AnswerIs
  <2>2. /\ r.pc = "closed" /\ r.taken = conn[c].taken /\ r.answer = "not provided"
        /\ r.buf = conn[c].buf /\ r.request_len = conn[c].request_len
        /\ r.got = conn[c].got /\ r.saw = conn[c].saw /\ r.size = conn[c].size
        /\ SameInput(c, r)
    BY ONLY <1>0 DEF Answer, Connection, SameInput
  <2> HIDE DEF r
  <2>3. ReadsOn(c, r)
    BY <1>1, <1>3, <2>1, <2>2 DEF ReadsOn, Early, r
  <2>4. InputGoes(c, r)
    BY <1>0, <1>1, <2>2 DEF InputGoes, InputOK
  <2>5. Ready(c, r, holder, disk[fname(c)])
    BY <2>2 DEF Ready, ReadOK, Unread
  <2>6. Asks(c, r)
    BY <2>2 DEF Asks
  <2> QED
    BY <2>3, <2>4, <2>5, <2>6
<1>4. ASSUME NEW next \in {"open", "stat", "lock"}, NEW work \in Seq(Bytes),
             Set(c, [Going(c, next) EXCEPT !.work = work]),
             next = "lock" => load[c].kind = "guest",
             next = "stat" => load[c].kind \in {"login", "read"},
             next = "stat" /\ load[c].kind = "login" => work \in Seq(Halves) /\ Len(work) = 2,
             next = "open" => load[c].kind \in {"write", "passwd"} /\ work \in Contents(fname(c))
      PROVE  \E r : ReadsOn(c, r) /\ InputGoes(c, r) /\ Ready(c, r, holder, disk[fname(c)]) /\ Asks(c, r)
  <2> DEFINE r == [Going(c, next) EXCEPT !.work = work]
  <2>1. r \in Connection
    BY ONLY <1>0, <1>4 DEF Going, Connection, Pcs
  <2>2. /\ r.pc = next /\ r.taken = conn[c].taken /\ r.work = work /\ SameReader(c, r)
        /\ SameInput(c, r)
    BY ONLY <1>0, <1>4 DEF Going, Connection, SameReader, SameInput
  <2>3. Set(c, r)
    BY <1>4
  <2> HIDE DEF r
  <2>4. ReadsOn(c, r)
    BY <1>1, <2>1, <2>2, <2>3 DEF ReadsOn, Early, SameReader
  <2>5. InputGoes(c, r)
    BY <1>0, <1>1, <2>2 DEF InputGoes, InputOK, SameReader
  <2>6. ReadOK(r)
    BY <1>1, <2>2 DEF SameReader, ReadOK, Unread
  <2>7. Ready(c, r, holder, disk[fname(c)])
    BY <1>1, <1>4, <2>2, <2>6 DEF Ready, SameReader
  <2>8. Asks(c, r)
    BY <1>4, <2>2 DEF Asks
  <2> QED
    BY <2>4, <2>5, <2>7, <2>8
<1> DEFINE needs == CASE load[c].kind = "write" -> {"file=", "contents="}
                      [] load[c].kind = "passwd" -> {"newpassword="}
                      [] load[c].kind = "login" -> {"password="}
                      [] OTHER -> {}
           work == CASE load[c].kind = "write" -> get_qsvar(c, "contents=")
                     [] load[c].kind = "passwd" -> mg_md5(get_qsvar(c, "newpassword="))
                     [] load[c].kind = "login" -> mg_md5(get_qsvar(c, "password="))
                     [] OTHER -> <<>>
           next == CASE load[c].kind \in {"write", "passwd"} -> "open"
                     [] load[c].kind \in {"login", "read"} -> "stat"
                     [] load[c].kind = "guest" -> "lock"
<1>5. Set(c, IF \E name \in needs : get_qsvar(c, name) = NOT_FOUND
                 THEN Answer(c, "not provided")
                 ELSE [Going(c, next) EXCEPT !.work = work])
  BY DEF Handle
<1>6. CASE \A name \in needs : get_qsvar(c, name) # NOT_FOUND
  <2>1. \A name \in needs : get_qsvar(c, name) \in Seq(Chars)
    BY <1>0, <1>6, ParameterIsText DEF get_qsvar
  <2>2. Set(c, [Going(c, next) EXCEPT !.work = work])
    BY <1>5, <1>6
  <2>3. Seq(Chars) \subseteq Seq(Bytes) /\ Seq(Halves) \subseteq Seq(Bytes)
    BY DEF Bytes, Halves
  <2>4. CASE load[c].kind = "write"
    <3>1. work \in Seq(Chars) /\ next = "open" /\ fname(c) = "files/f"
      BY <2>1, <2>4 DEF fname, FileOf
    <3>2. work \in Contents(fname(c)) /\ work \in Seq(Bytes)
      BY <2>3, <3>1 DEF Contents
    <3> HIDE DEF work, next
    <3> QED
      BY <1>4, <2>2, <2>4, <3>1, <3>2
  <2>5. CASE load[c].kind = "passwd"
    <3>1. /\ work \in Seq(Halves) /\ Len(work) = 2 /\ next = "open"
          /\ fname(c) = "password.md5" /\ work \in {s \in Seq(Halves) : Len(s) <= 2}
      BY <2>1, <2>5, Digests DEF fname, FileOf
    <3> HIDE DEF work, next
    <3>3. work \in Contents(fname(c)) /\ work \in Seq(Bytes)
      BY <2>3, <3>1, ContentsOf
    <3> QED
      BY <1>4, <2>2, <2>5, <3>1, <3>3
  <2>6. CASE load[c].kind = "login"
    <3>1. work \in Seq(Halves) /\ Len(work) = 2 /\ next = "stat"
      BY <2>1, <2>6, Digests
    <3> HIDE DEF work, next
    <3>2. work \in Seq(Bytes)
      BY <2>3, <3>1
    <3> QED
      BY <1>4, <2>2, <2>6, <3>1, <3>2
  <2>7. CASE load[c].kind \in {"read", "guest"}
    <3>1. work \in Seq(Bytes) /\ next = IF load[c].kind = "guest" THEN "lock" ELSE "stat"
      BY <2>7
    <3> HIDE DEF work, next
    <3> QED
      BY <1>4, <2>2, <2>7, <3>1
  <2> QED
    BY <1>2, <2>4, <2>5, <2>6, <2>7
<1> QED
  BY <1>3, <1>5, <1>6

-----------------------------------------------------------------------------
(* A step of one connection, and the others.                               *)

\* A step that changes no request keeps what is known of requests, if it is known of every
\* connection with the state after the step.
LEMMA ReadyAfter ==
    ASSUME load' = load,
           \A d \in Conns : Ready(d, conn'[d], holder', disk'[fname(d)])
    PROVE  ReadyInv'
BY DEF ReadyInv, Ready, FetchOK, fname

LEMMA InputAfter ==
    ASSUME Types, InputInv, load' = load,
           \A d \in Conns :
              \/ /\ conn'[d].buf = conn[d].buf /\ conn'[d].request_len = conn[d].request_len
                 /\ conn'[d].taken = conn[d].taken
                 /\ conn'[d].pc \in {conn[d].pc, "lock", "stat", "fetch", "open", "flush", "closed"}
              \/ InputGoes(d, conn'[d])
    PROVE  InputInv'
<1>1. ASSUME NEW d \in Conns PROVE InputOK(d)'
  <2>1. InputOK(d)
    BY DEF InputInv
  <2>2. CASE InputGoes(d, conn'[d])
    BY <1>1, <2>2 DEF InputGoes, InputOK
  <2>3. CASE /\ conn'[d].buf = conn[d].buf /\ conn'[d].request_len = conn[d].request_len
             /\ conn'[d].taken = conn[d].taken
             /\ conn'[d].pc \in {conn[d].pc, "lock", "stat", "fetch", "open", "flush", "closed"}
    BY <1>1, <2>1, <2>3 DEF InputOK
  <2> QED
    BY <1>1, <2>2, <2>3
<1> QED
  BY <1>1 DEF InputInv

\* A step after which nothing is known of a file.
LEMMA EarlyReady ==
    ASSUME NEW c \in Conns, NEW r, ReadsOn(c, r), Ready(c, conn[c], holder, disk[fname(c)]),
           r.pc \in Early \cup {"closed"}
    PROVE  Ready(c, r, holder, disk[fname(c)])
BY DEF ReadsOn, Ready, ReadOK, Early, Unread

ReadingInv == Types /\ InputInv /\ ReadyInv /\ DiskInv

LEMMA ReadsKeep ==
    ASSUME ReadingInv, NEW c \in Conns, NEW r, ReadsOn(c, r), InputGoes(c, r),
           Ready(c, r, holder, disk[fname(c)])
    PROVE  ReadingInv'
<1> USE DEF ReadingInv
<1>1. /\ conn' \in [Conns -> Connection] /\ conn'[c] = r
      /\ \A d \in Conns \ {c} : conn'[d] = conn[d]
  BY Goes DEF ReadsOn, Types
<1>2. UNCHANGED <<load, disk, holder, guests, last, torn, spoilt>> /\ faults' \in 0 .. MaxFaults
  BY DEF ReadsOn, history
<1>3. Types'
  <2>1. \A d \in Conns : conn'[d].pc # "none" => load'[d] # NULL
    BY <1>1, <1>2 DEF ReadsOn, Types
  <2> QED
    BY <1>1, <1>2, <2>1 DEF Types
<1>4. InputInv'
  BY <1>1, <1>2, InputAfter
<1>5. ReadyInv'
  <2>1. ASSUME NEW d \in Conns PROVE Ready(d, conn'[d], holder', disk'[fname(d)])
    <3>1. Ready(d, conn[d], holder, disk[fname(d)])
      BY <2>1 DEF ReadyInv
    <3> QED
      BY <1>1, <1>2, <2>1, <3>1
  <2> QED
    BY <1>2, <2>1, ReadyAfter
<1>6. DiskInv'
  BY <1>2 DEF DiskInv
<1> QED
  BY <1>3, <1>4, <1>5, <1>6

LEMMA EarlyKeeps ==
    ASSUME ReadingInv, NEW c \in Conns,
           \/ Connect(c) \/ BreakOff(c) \/ ReadRequest(c) \/ RemoteClosed(c) \/ Parse(c)
           \/ ReadBody(c) \/ ReadReturns(c) \/ Handle(c)
    PROVE  ReadingInv'
<1>1. Types /\ InputInv /\ ReadyInv /\ Ready(c, conn[c], holder, disk[fname(c)])
  BY DEF ReadingInv, ReadyInv
<1>2. ASSUME NEW r, ReadsOn(c, r), InputGoes(c, r), r.pc \in Early \cup {"closed"}
      PROVE  ReadingInv'
  BY <1>1, <1>2, EarlyReady, ReadsKeep
<1>3. CASE Connect(c) \/ BreakOff(c) \/ RemoteClosed(c)
  <2>1. PICK r : ReadsOn(c, r) /\ InputGoes(c, r) /\ r.pc \in {"request", "body", "closed"}
    BY <1>1, <1>3, ConnectReads
  <2> QED
    BY <1>2, <2>1 DEF Early
<1>4. CASE ReadRequest(c)
  <2>1. PICK r : ReadsOn(c, r) /\ InputGoes(c, r) /\ r.pc \in {"request", "parse", "closed"}
    BY <1>1, <1>4, RequestReads
  <2> QED
    BY <1>2, <2>1 DEF Early
<1>5. CASE Parse(c)
  <2>1. PICK r : ReadsOn(c, r) /\ InputGoes(c, r) /\ r.pc \in {"body", "handler", "closed"}
    BY <1>1, <1>5, ParseReads
  <2> QED
    BY <1>2, <2>1 DEF Early
<1>6. CASE ReadBody(c) \/ ReadReturns(c)
  <2>1. PICK r : ReadsOn(c, r) /\ InputGoes(c, r) /\ r.pc \in {"body", "handler"}
    BY <1>1, <1>6, BodyReads
  <2> QED
    BY <1>2, <2>1 DEF Early
<1>7. CASE Handle(c)
  BY <1>1, <1>7, HandleReads, ReadsKeep
<1> QED
  BY <1>3, <1>4, <1>5, <1>6, <1>7

-----------------------------------------------------------------------------
(* Reading a file.                                                         *)

LEMMA TwoIn ==
    ASSUME NEW S, IsFiniteSet(S), NEW x \in S, NEW y \in S, x # y
    PROVE  Cardinality(S) > 1
<1>1. Cardinality({x}) = 1 /\ IsFiniteSet({x})
  BY FS_Singleton
<1>2. IsFiniteSet({x} \cup {y}) /\ Cardinality({x} \cup {y}) = 2
  <2>1. Cardinality({x} \cup {y}) = IF y \in {x} THEN Cardinality({x}) ELSE Cardinality({x}) + 1
    BY <1>1, FS_AddElement
  <2>2. IsFiniteSet({x} \cup {y}) /\ y \notin {x}
    BY <1>1, FS_AddElement
  <2> QED
    BY <1>1, <2>1, <2>2
<1>3. Cardinality({x} \cup {y}) <= Cardinality(S)
  BY FS_Subset
<1>4. Cardinality(S) \in Nat
  BY FS_CardinalityType
<1> QED
  BY <1>2, <1>3, <1>4

\* The sizes of files.
LEMMA FileSizeIs ==
    ASSUME NEW S, NEW file \in Seq(S) \cup {NONE}
    PROVE  /\ file_size(file) \in Int
           /\ file # NONE => file_size(file) = Len(file) /\ file_size(file) \in Nat
BY LenProperties DEF file_size

\* What is read is the file's beginning, and all of it if the file is as large as it was.
LEMMA FetchedIs ==
    ASSUME NEW S, NEW file \in Seq(S), file # NONE, NEW size \in Nat
    PROVE  /\ Fetched(file, size) \in Seq(S)
           /\ Len(Fetched(file, size)) = IF size < Len(file) THEN size ELSE Len(file)
           /\ size = Len(file) => Fetched(file, size) = file
<1> DEFINE n == IF size < Len(file) THEN size ELSE Len(file)
<1>1. Len(file) \in Nat
  BY LenProperties
<1>2. Fetched(file, size) = SubSeq(file, 1, n)
  BY DEF Fetched
<1>3. n \in 0 .. Len(file) /\ (size = Len(file) => n = Len(file))
  BY <1>1
<1> HIDE DEF n
<1>4. /\ SubSeq(file, 1, n) \in Seq(S) /\ Len(SubSeq(file, 1, n)) = n
      /\ \A i \in 1 .. n : SubSeq(file, 1, n)[i] = file[i]
  BY <1>3, PrefixIs
<1>5. n = Len(file) => SubSeq(file, 1, n) = file
  BY <1>4, SeqEqual
<1> QED
  BY <1>2, <1>3, <1>4, <1>5 DEF n

\* file_read gives the file, if it is as large as it was, or nothing, or nothing yet.
LEMMA FileReadIs ==
    ASSUME NEW S, NEW file \in Seq(S), NONE \notin Seq(S), NEW size \in Nat, size <= MAX_FILE_SIZE
    PROVE  file_read(file, size) =
              IF size = 0 THEN <<>> ELSE IF size <= Len(file) THEN Fetched(file, size) ELSE NONE
<1>1. Len(file) \in Nat /\ file # NONE /\ MAX_FILE_SIZE \in Nat
  BY LenProperties, DiskAssumption
<1>2. CASE size = 0
  BY <1>1, <1>2 DEF file_read
<1>3. CASE size > 0
  <2> DEFINE s == Fetched(file, size)
  <2>1. s \in Seq(S) /\ Len(s) = IF size < Len(file) THEN size ELSE Len(file)
    BY <1>1, FetchedIs
  <2>2. file_read(file, size) = IF s # NONE /\ Len(s) = size THEN s ELSE NONE
    BY <1>1, <1>3 DEF file_read
  <2>3. s # NONE
    BY <2>1
  <2> HIDE DEF s
  <2>4. Len(s) = size <=> size <= Len(file)
    BY <1>1, <2>1
  <2>5. file_read(file, size) = IF size <= Len(file) THEN s ELSE NONE
    BY <2>2, <2>3, <2>4
  <2>6. size # 0
    BY <1>3
  <2> QED
    BY <2>5, <2>6 DEF s
<1> QED
  BY <1>2, <1>3

-----------------------------------------------------------------------------
(* Locking, looking at a file's size, reading it.                          *)

\* What a step of a handler before it writes does.
MovesOn(c, r) ==
    /\ r \in Connection /\ Set(c, r) /\ SameInput(c, r)
    /\ UNCHANGED <<load, disk, guests, faults, history>>
    /\ load[c] # NULL
    /\ r.pc \in {"stat", "fetch", "open", "closed"}
    /\ holder' \in {holder, c}
    /\ holder' # holder => holder = NULL

\* The number that user_guest takes from guestcount.
NextGuest(file) == CASE file = NONE -> 1 [] file = <<>> -> 0 [] OTHER -> file[1]
GuestHas(r, g) == r.got = <<g>> /\ r.work = <<g + 1>>

\* What a step does that writes no file and lets in no guest: when it has looked at a file's
\* size, that file is all it has seen; a guest's handler goes on with the number it read.
Quiet(c, r) ==
    /\ r \in Connection /\ Set(c, r)
    /\ UNCHANGED <<load, disk, guests, history>>
    /\ load[c] # NULL /\ conn[c].pc # "flush" /\ r.pc # "flush"
    /\ r.pc = "fetch" => r.saw = {disk[fname(c)]}
    /\ r.pc = "open" /\ load[c].kind = "guest" =>
          /\ conn[c].pc = "fetch"
          /\ \E g \in Int :
                GuestHas(r, g) /\ (conn[c].saw = {disk[fname(c)]} => g = NextGuest(disk[fname(c)]))

LEMMA MovesKeep ==
    ASSUME ReadingInv, NEW c \in Conns, NEW r, MovesOn(c, r),
           Ready(c, r, holder', disk[fname(c)])
    PROVE  ReadingInv'
<1> USE DEF ReadingInv
<1>1. /\ conn' \in [Conns -> Connection] /\ conn'[c] = r
      /\ \A d \in Conns \ {c} : conn'[d] = conn[d]
  BY Goes DEF MovesOn, Types
<1>2. UNCHANGED <<load, disk, guests, faults, last, torn, spoilt>>
  BY DEF MovesOn, history
<1>3. Types'
  <2>1. \A d \in Conns : conn'[d].pc # "none" => load'[d] # NULL
    BY <1>1, <1>2 DEF MovesOn, Types
  <2>2. holder' \in Conns \cup {NULL}
    BY DEF MovesOn, Types
  <2> QED
    BY <1>1, <1>2, <2>1, <2>2 DEF Types
<1>4. InputInv'
  <2>1. \A d \in Conns :
           /\ conn'[d].buf = conn[d].buf /\ conn'[d].request_len = conn[d].request_len
           /\ conn'[d].taken = conn[d].taken
           /\ conn'[d].pc \in {conn[d].pc, "lock", "stat", "fetch", "open", "flush", "closed"}
    BY <1>1 DEF MovesOn, SameInput
  <2> QED
    BY <1>2, <2>1, InputAfter
<1>5. ReadyInv'
  <2>1. ASSUME NEW d \in Conns, d # c PROVE Ready(d, conn'[d], holder', disk'[fname(d)])
    <3>1. Ready(d, conn[d], holder, disk[fname(d)])
      BY <2>1 DEF ReadyInv
    <3>2. holder' = holder \/ holder # d
      BY <2>1, RequestsAssumption DEF MovesOn
    <3>3. Ready(d, conn[d], holder', disk[fname(d)])
      BY <3>1, <3>2 DEF Ready
    <3> QED
      BY <1>1, <1>2, <2>1, <3>3
  <2>2. Ready(c, conn'[c], holder', disk'[fname(c)])
    BY <1>1, <1>2
  <2> QED
    BY <1>2, <2>1, <2>2, ReadyAfter
<1>6. DiskInv'
  BY <1>2 DEF DiskInv
<1> QED
  BY <1>3, <1>4, <1>5, <1>6

\* A connection whose handler is at work has a request, for a file that holds what it may.
LEMMA AtWork ==
    ASSUME ReadingInv, NEW c \in Conns, conn[c].pc \notin {"none"}
    PROVE  /\ conn[c] \in Connection /\ load[c] # NULL /\ IsRequest(load[c]) /\ fname(c) \in Files
           /\ disk[fname(c)] \in Contents(fname(c)) \cup {NONE}
           /\ disk[fname(c)] \in Seq(Bytes) \cup {NONE}
           /\ Ready(c, conn[c], holder, disk[fname(c)])
<1>1. Types /\ conn[c] \in Connection /\ load[c] # NULL
  BY DEF ReadingInv, Types
<1>2. IsRequest(load[c]) /\ fname(c) \in Files
  BY <1>1, RequestIs
<1>3. Ready(c, conn[c], holder, disk[fname(c)])
  BY DEF ReadingInv, ReadyInv
<1>4. disk[fname(c)] \in Contents(fname(c)) \cup {NONE}
  BY <1>2 DEF ReadingInv, DiskInv
<1>5. disk[fname(c)] \in Seq(Bytes) \cup {NONE}
  BY <1>1, <1>2 DEF Types
<1> QED
  BY <1>1, <1>2, <1>3, <1>4, <1>5

LEMMA LockMoves ==
    ASSUME ReadingInv, NEW c \in Conns, Lock(c)
    PROVE  \E r : MovesOn(c, r) /\ Ready(c, r, holder', disk[fname(c)]) /\ Quiet(c, r)
<1> DEFINE r == Going(c, "stat")
<1>1. /\ conn[c].pc = "lock" /\ holder = NULL /\ holder' = c /\ Set(c, r)
      /\ UNCHANGED <<load, disk, guests, faults, history>>
  BY DEF Lock, At, MayLock
<1>2. /\ conn[c] \in Connection /\ load[c] # NULL
      /\ Ready(c, conn[c], holder, disk[fname(c)])
  BY <1>1, AtWork
<1>3. r \in Connection
  BY <1>2, GoingIs DEF Pcs
<1>4. r.pc = "stat" /\ SameInput(c, r) /\ r.answer = conn[c].answer
  BY ONLY <1>2 DEF Going, Connection, SameInput
<1> HIDE DEF r
<1>5. MovesOn(c, r)
  BY <1>1, <1>2, <1>3, <1>4 DEF MovesOn
<1>6. Ready(c, r, holder', disk[fname(c)])
  BY <1>1, <1>2, <1>4 DEF Ready, ReadOK, Unread
<1>7. Quiet(c, r)
  BY <1>1, <1>2, <1>3, <1>4 DEF Quiet
<1> QED
  BY <1>5, <1>6, <1>7

LEMMA StatMoves ==
    ASSUME ReadingInv, NEW c \in Conns, Stat(c)
    PROVE  \E r : MovesOn(c, r) /\ Ready(c, r, holder', disk[fname(c)]) /\ Quiet(c, r)
<1> DEFINE file == disk[fname(c)]
<1>1. conn[c].pc = "stat" /\ UNCHANGED <<load, disk, holder, guests, faults, history>>
  BY DEF Stat, At
<1>2. /\ conn[c] \in Connection /\ load[c] # NULL /\ Ready(c, conn[c], holder, file)
      /\ file \in Contents(fname(c)) \cup {NONE} /\ file \in Seq(Bytes) \cup {NONE}
  BY <1>1, AtWork
<1>3. CASE Set(c, Answer(c, "no file"))
  <2> DEFINE r == Answer(c, "no file")
  <2>1. r \in Connection
    BY <1>2, AnswerIs
  <2>2. r.pc = "closed" /\ SameInput(c, r) /\ r.answer = "no file"
    BY ONLY <1>2 DEF Answer, Connection, SameInput
  <2> HIDE DEF r
  <2>3. MovesOn(c, r)
    BY <1>1, <1>2, <1>3, <2>1, <2>2 DEF MovesOn, r
  <2>4. Ready(c, r, holder', disk[fname(c)])
    BY <2>2 DEF Ready, ReadOK
  <2>5. Quiet(c, r)
    BY <1>1, <1>2, <1>3, <2>1, <2>2 DEF Quiet, r
  <2> QED
    BY <2>3, <2>4, <2>5
<1>4. CASE /\ file # NONE \/ load[c].kind = "guest"
           /\ Set(c, [Going(c, "fetch") EXCEPT !.size = file_size(file), !.saw = {file}])
  <2> DEFINE r == [Going(c, "fetch") EXCEPT !.size = file_size(file), !.saw = {file}]
  <2> HIDE DEF file
  <2>1. file_size(file) \in Int
    BY <1>2, FileSizeIs
  <2>2. r \in Connection
    BY ONLY <1>2, <2>1 DEF Going, Connection, Pcs
  <2>3. /\ r.pc = "fetch" /\ SameInput(c, r) /\ r.answer = conn[c].answer /\ r.saw = {file}
        /\ r.size = file_size(file) /\ r.work = conn[c].work
    BY ONLY <1>2, <2>1 DEF Going, Connection, SameInput
  <2>4. Set(c, r)
    BY <1>4
  <2> HIDE DEF r
  <2>5. MovesOn(c, r)
    BY <1>1, <1>2, <2>2, <2>3, <2>4 DEF MovesOn
  <2>6. FetchOK(c, r, file)
    <3>1. IsFiniteSet({file})
      BY FS_Singleton
    <3> QED
      BY <1>2, <1>4, <2>3, <3>1 DEF FetchOK
  <2>7. Ready(c, r, holder', file)
    BY <1>1, <1>2, <2>3, <2>6 DEF Ready, ReadOK, Unread
  <2>8. Quiet(c, r)
    BY <1>1, <1>2, <2>2, <2>3, <2>4 DEF Quiet, file
  <2> QED
    BY <2>5, <2>7, <2>8 DEF file
<1> QED
  BY <1>3, <1>4 DEF Stat

\* The file a request reads is one it saw, of which it has the size.
LEMMA ReadFile ==
    ASSUME ReadingInv, NEW c \in Conns, conn[c].pc = "fetch", load[c].kind # "guest"
    PROVE  LET file == disk[fname(c)]
               size == conn[c].size
           IN  /\ file \in Contents(fname(c)) /\ file \in Seq(Bytes) /\ file # NONE
               /\ size \in Nat
               /\ \E f \in conn[c].saw : f \in Contents(fname(c)) /\ size = Len(f)
               /\ conn[c].saw = {file} => size = Len(file)
<1> DEFINE file == disk[fname(c)]
           size == conn[c].size
<1>1. FetchOK(c, conn[c], file) /\ fname(c) \in Files
  BY AtWork DEF Ready
<1>2. /\ file \in conn[c].saw /\ conn[c].saw \in SUBSET (Contents(fname(c)) \cup {NONE})
      /\ NONE \notin conn[c].saw
  BY <1>1 DEF FetchOK
<1>3. PICK f \in conn[c].saw : size = file_size(f)
  BY <1>1 DEF FetchOK
<1>4. f \in Contents(fname(c)) /\ f # NONE /\ file \in Contents(fname(c)) /\ file # NONE
  BY <1>2
<1>5. f \in Seq(Bytes) /\ file \in Seq(Bytes)
  BY <1>1, <1>4, ContentsAre
<1>6. size = Len(f) /\ size \in Nat
  BY <1>3, <1>4, <1>5, FileSizeIs
<1> QED
  BY <1>4, <1>5, <1>6

LEMMA FetchReadMoves ==
    ASSUME ReadingInv, NEW c \in Conns, Fetch(c), load[c].kind = "read"
    PROVE  \E r : MovesOn(c, r) /\ Ready(c, r, holder', disk[fname(c)]) /\ Quiet(c, r)
<1> DEFINE file == disk[fname(c)]
           size == conn[c].size
           got == Fetched(file, size)
           r == [Answer(c, "200") EXCEPT !.got = got]
<1>1. /\ conn[c].pc = "fetch" /\ UNCHANGED <<load, disk, holder, guests, faults, history>>
      /\ Set(c, r)
  BY DEF Fetch, At
<1>2. /\ conn[c] \in Connection /\ load[c] # NULL /\ FetchOK(c, conn[c], file)
  BY <1>1, AtWork DEF Ready
<1>3. /\ file \in Seq(Bytes) /\ file # NONE /\ size \in Nat
      /\ conn[c].saw = {file} => size = Len(file)
  BY <1>1, ReadFile
<1> HIDE DEF file, size
<1>4. /\ got \in Seq(Bytes)
      /\ Len(got) = IF size < Len(file) THEN size ELSE Len(file)
      /\ size = Len(file) => got = file
  BY <1>3, FetchedIs
<1> HIDE DEF got
<1>5. r \in Connection
  BY ONLY <1>2, <1>4 DEF Answer, Connection, Pcs
<1>6. /\ r.pc = "closed" /\ SameInput(c, r) /\ r.answer = "200" /\ r.got = got
      /\ r.saw = conn[c].saw /\ r.size = conn[c].size
  BY ONLY <1>2, <1>4 DEF Answer, Connection, SameInput
<1> HIDE DEF r
<1>7. MovesOn(c, r)
  BY <1>1, <1>2, <1>5, <1>6 DEF MovesOn
<1>8. Len(got) <= size
  <2>1. Len(file) \in Nat
    BY <1>3, LenProperties
  <2> QED
    BY <1>3, <1>4, <2>1
<1>9. r.saw = {got} \/ Cardinality(r.saw) > 1
  <2>1. file \in conn[c].saw /\ IsFiniteSet(conn[c].saw)
    BY <1>2 DEF FetchOK
  <2>2. CASE conn[c].saw = {file}
    BY <1>3, <1>4, <1>6, <2>2
  <2>3. CASE conn[c].saw # {file}
    <3>1. PICK y \in conn[c].saw : y # file
      BY <2>1, <2>3
    <3>2. Cardinality(conn[c].saw) > 1
      BY <2>1, <3>1, TwoIn
    <3> QED
      BY <1>6, <3>2
  <2> QED
    BY <2>2, <2>3
<1>10. ReadOK(r)
  BY <1>6, <1>8, <1>9 DEF ReadOK, size
<1>11. Ready(c, r, holder', disk[fname(c)])
  BY <1>6, <1>10 DEF Ready
<1>12. Quiet(c, r)
  BY <1>1, <1>2, <1>5, <1>6 DEF Quiet
<1> QED
  BY <1>7, <1>11, <1>12

LEMMA FetchLoginMoves ==
    ASSUME ReadingInv, NEW c \in Conns, Fetch(c), load[c].kind = "login"
    PROVE  \E r : MovesOn(c, r) /\ Ready(c, r, holder', disk[fname(c)]) /\ Quiet(c, r)
<1> DEFINE file == disk[fname(c)]
           size == conn[c].size
           work == conn[c].work
           says == IF file_read(file, size) = work THEN "in" ELSE "refused"
           r == Answer(c, says)
<1>1. /\ conn[c].pc = "fetch" /\ UNCHANGED <<load, disk, holder, guests, faults, history>>
      /\ Set(c, r)
  BY DEF Fetch, At
<1>2. /\ conn[c] \in Connection /\ load[c] # NULL /\ FetchOK(c, conn[c], file)
      /\ work \in Seq(Halves) /\ Len(work) = 2
  BY <1>1, AtWork DEF Ready
<1>3. /\ file \in Contents(fname(c)) /\ size \in Nat
      /\ \E f \in conn[c].saw : f \in Contents(fname(c)) /\ size = Len(f)
      /\ conn[c].saw = {file} => size = Len(file)
  BY <1>1, ReadFile
<1>4. Contents(fname(c)) = {s \in Seq(Halves) : Len(s) <= 2}
  BY ContentsOf DEF fname, FileOf
<1> HIDE DEF file, size, work
<1>5. file \in Seq(Halves) /\ Len(file) \in Nat /\ Len(file) <= 2 /\ size <= 2
  <2>1. file \in Seq(Halves) /\ Len(file) <= 2
    BY <1>3, <1>4
  <2>2. PICK f \in conn[c].saw : f \in {s \in Seq(Halves) : Len(s) <= 2} /\ size = Len(f)
    BY <1>3, <1>4
  <2>3. size <= 2
    BY <2>2
  <2> QED
    BY <2>1, <2>3, LenProperties
<1>6. size <= MAX_FILE_SIZE /\ NONE \notin Seq(Halves)
  <2>1. size <= MAX_FILE_SIZE
    BY <1>3, <1>5, RequestsAssumption, DiskAssumption
  <2>2. Halves \subseteq Bytes
    BY DEF Halves, Bytes
  <2>3. Seq(Halves) \subseteq Seq(Bytes)
    BY <2>2
  <2> QED
    BY <2>1, <2>3, RequestsAssumption
<1>7. file_read(file, size) =
         IF size = 0 THEN <<>> ELSE IF size <= Len(file) THEN Fetched(file, size) ELSE NONE
  BY <1>3, <1>5, <1>6, FileReadIs
<1>8. file # NONE /\ Len(Fetched(file, size)) = (IF size < Len(file) THEN size ELSE Len(file))
      /\ (size = Len(file) => Fetched(file, size) = file)
  <2>1. file # NONE
    BY <1>5, <1>6
  <2> QED
    BY <1>3, <1>5, <2>1, FetchedIs
<1>9. file_read(file, size) = work => work = file
  <2>1. ASSUME file_read(file, size) = work PROVE size = 2 /\ Len(file) = 2
    <3>1. Len(<<>>) = 0
      BY EmptySeq
    <3>2. work # NONE
      BY <1>2, <1>6
    <3>3. CASE size = 0
      <4>1. work = <<>>
        BY <1>7, <2>1, <3>3
      <4>2. Len(work) = 0
        BY <3>1, <4>1
      <4> QED
        BY <1>2, <4>2
    <3>4. CASE size # 0 /\ size <= Len(file)
      <4>1. Len(Fetched(file, size)) = 2
        BY <1>2, <1>7, <2>1, <3>4
      <4> QED
        BY <1>3, <1>5, <1>8, <3>4, <4>1
    <3>5. CASE size # 0 /\ ~(size <= Len(file))
      BY <1>7, <2>1, <3>2, <3>5
    <3> QED
      BY <3>3, <3>4, <3>5
  <2>2. ASSUME size = 2, Len(file) = 2 PROVE file_read(file, size) = file
    BY <1>7, <1>8, <2>2
  <2> QED
    BY <2>1, <2>2
<1>10. conn[c].saw = {work} => file_read(file, size) = work
  <2>1. ASSUME conn[c].saw = {work} PROVE file = work /\ size = 2
    <3>1. file = work
      BY <1>2, <2>1 DEF FetchOK
    <3> QED
      BY <1>2, <1>3, <2>1, <3>1
  <2>2. ASSUME size = 2, Len(file) = 2 PROVE file_read(file, size) = file
    BY <1>7, <1>8, <2>2
  <2> QED
    BY <1>2, <2>1, <2>2
<1>11. says \in {"in", "refused"} /\ (says = "in" <=> file_read(file, size) = work)
  OBVIOUS
<1> HIDE DEF says
<1>12. r \in Connection
  BY <1>2, <1>11, AnswerIs
<1>13. /\ r.pc = "closed" /\ SameInput(c, r) /\ r.answer = says
       /\ r.saw = conn[c].saw /\ r.work = work
  BY ONLY <1>2 DEF Answer, Connection, SameInput, work
<1> HIDE DEF r
<1>14. MovesOn(c, r)
  BY <1>1, <1>2, <1>12, <1>13 DEF MovesOn
<1>15. ReadOK(r)
  BY <1>2, <1>9, <1>10, <1>11, <1>13 DEF ReadOK, FetchOK
<1>16. Ready(c, r, holder', disk[fname(c)])
  BY <1>13, <1>15 DEF Ready
<1>17. Quiet(c, r)
  BY <1>1, <1>2, <1>12, <1>13 DEF Quiet
<1> QED
  BY <1>14, <1>16, <1>17

Numbers == {s \in Seq(Int) : Len(s) <= 1}

LEMMA NoneIsNoNumber == NONE \notin Seq(Int)
<1>1. Seq(Int) \subseteq Seq(Bytes)
  BY DEF Bytes
<1> QED
  BY <1>1, RequestsAssumption

LEMMA ReadNumIs ==
    /\ file_readnum(NONE, 1) = 1
    /\ file_readnum(<<>>, 1) = 0
    /\ \A s : s # NONE /\ s # <<>> => file_readnum(s, 1) = s[1]
<1>1. NONE # <<>>
  BY NoneIsNoNumber, EmptySeq
<1> QED
  BY <1>1 DEF file_readnum

LEMMA FileReadEdges ==
    ASSUME NEW file
    PROVE  /\ file_read(file, -1) = NONE /\ file_read(file, 0) = <<>>
           /\ file_read(NONE, 1) = NONE
<1>1. file_read(file, -1) = NONE
  <2>1. -1 < 0 /\ -1 # 0 /\ ~(-1 > MAX_FILE_SIZE)
    BY DiskAssumption
  <2> QED
    BY <2>1 DEF file_read
<1>2. file_read(file, 0) = <<>>
  <2>1. ~(0 < 0) /\ ~(0 > MAX_FILE_SIZE)
    BY DiskAssumption
  <2> QED
    BY <2>1 DEF file_read
<1>3. file_read(NONE, 1) = NONE
  <2>1. ~(1 < 0) /\ 1 # 0 /\ ~(1 > MAX_FILE_SIZE)
    BY DiskAssumption, RequestsAssumption
  <2>2. Fetched(NONE, 1) = NONE
    BY DEF Fetched
  <2> QED
    BY <2>1, <2>2 DEF file_read
<1> QED
  BY <1>1, <1>2, <1>3

\* What user_guest makes of guestcount, and of a guestcount that is as large as it was.
LEMMA GuestNumber ==
    ASSUME NEW file \in Numbers \cup {NONE}, NEW seen \in Numbers \cup {NONE}
    PROVE  LET guestid == file_readnum(file_read(file, file_size(seen)), 1)
           IN  /\ guestid \in Int
               /\ seen = file => guestid = NextGuest(file)
<1> DEFINE size == file_size(seen)
           s == file_read(file, size)
           guestid == file_readnum(s, 1)
<1> USE DEF NextGuest
<1>0. MAX_FILE_SIZE \in Nat /\ MAX_FILE_SIZE >= 2
  BY DiskAssumption, RequestsAssumption
<1>1. CASE seen = NONE
  <2>1. file_size(seen) = -1
    BY <1>1 DEF file_size
  <2>2. guestid = 1
    BY <2>1, FileReadEdges, ReadNumIs
  <2>3. NONE # <<>>
    BY NoneIsNoNumber, EmptySeq
  <2> HIDE DEF guestid
  <2> QED
    BY <1>1, <2>2, <2>3 DEF guestid
<1>2. CASE seen # NONE
  <2>1. seen \in Seq(Int) /\ Len(seen) <= 1
    BY <1>2 DEF Numbers
  <2>2. size = Len(seen) /\ size \in {0, 1}
    <3>1. size = Len(seen)
      BY <1>2 DEF file_size
    <3>2. Len(seen) \in Nat
      BY <2>1, LenProperties
    <3> HIDE DEF size
    <3> QED
      BY <2>1, <3>1, <3>2
  <2> HIDE DEF size
  <2>3. CASE size = 0
    <3>1. s = <<>>
      BY <2>3, FileReadEdges DEF size
    <3>2. NONE # <<>>
      BY NoneIsNoNumber, EmptySeq
    <3> HIDE DEF s
    <3>3. guestid = 0
      BY <3>1, ReadNumIs
    <3>4. seen = <<>>
      BY <2>1, <2>2, <2>3, EmptySeq
    <3> HIDE DEF guestid
    <3> QED
      BY <3>2, <3>3, <3>4 DEF size, s, guestid
  <2>4. CASE size = 1 /\ file = NONE
    <3>1. s = NONE
      BY <2>4, FileReadEdges DEF size
    <3> HIDE DEF s
    <3>2. guestid = 1
      BY <3>1, ReadNumIs
    <3> HIDE DEF guestid
    <3> QED
      BY <1>2, <2>4, <3>2 DEF size, s, guestid
  <2>5. CASE size = 1 /\ file # NONE
    <3>1. file \in Seq(Int) /\ Len(file) \in Nat /\ Len(file) <= 1
      BY <2>5, LenProperties DEF Numbers
    <3>2. size \in Nat /\ size <= MAX_FILE_SIZE
      BY <1>0, <2>5
    <3>3. s = IF size = 0 THEN <<>> ELSE IF size <= Len(file) THEN Fetched(file, size) ELSE NONE
      BY <3>1, <3>2, NoneIsNoNumber, FileReadIs DEF size
    <3> HIDE DEF s
    <3>4. CASE Len(file) = 1
      <4>1. s = Fetched(file, size)
        BY <2>5, <3>3, <3>4
      <4>2. Fetched(file, size) = file
        BY <2>5, <3>1, <3>2, <3>4, FetchedIs
      <4>3. file # <<>>
        BY <3>4, EmptySeq
      <4>4. guestid = file[1]
        BY <2>5, <4>1, <4>2, <4>3, ReadNumIs
      <4>5. file[1] \in Int
        BY <3>1, <3>4, ElementOfSeq
      <4> HIDE DEF guestid
      <4> QED
        BY <2>5, <4>3, <4>4, <4>5 DEF size, s, guestid
    <3>5. CASE Len(file) = 0
      <4>1. s = NONE
        BY <2>5, <3>3, <3>5
      <4>2. guestid = 1
        BY <4>1, ReadNumIs
      <4>3. Len(seen) = 1
        BY <2>2, <2>5
      <4>4. seen # file
        BY <3>5, <4>3
      <4> HIDE DEF guestid
      <4> QED
        BY <4>2, <4>4 DEF size, s, guestid
    <3>6. Len(file) \in {0, 1}
      <4> DEFINE n == Len(file)
      <4>1. n \in Nat /\ n <= 1
        BY <3>1
      <4> HIDE DEF n
      <4>2. n \in {0, 1}
        BY <4>1
      <4> QED
        BY <4>2 DEF n
    <3> QED
      BY <3>4, <3>5, <3>6
  <2> QED
    BY <2>2, <2>3, <2>4, <2>5
<1> QED
  BY <1>1, <1>2

LEMMA FetchGuestMoves ==
    ASSUME ReadingInv, NEW c \in Conns, Fetch(c), load[c].kind = "guest"
    PROVE  \E r : MovesOn(c, r) /\ Ready(c, r, holder', disk[fname(c)]) /\ Quiet(c, r)
<1> DEFINE file == disk[fname(c)]
           g == file_readnum(file_read(file, conn[c].size), 1)
           r == [Going(c, "open") EXCEPT !.got = <<g>>, !.work = <<g + 1>>]
<1>1. /\ conn[c].pc = "fetch" /\ UNCHANGED <<load, disk, holder, guests, faults, history>>
      /\ Set(c, r)
  BY DEF Fetch, At
<1>2. /\ conn[c] \in Connection /\ load[c] # NULL /\ FetchOK(c, conn[c], file)
      /\ file \in Contents(fname(c)) \cup {NONE}
      /\ holder = c /\ conn[c].answer \in Unread
  BY <1>1, AtWork DEF Ready
<1>3. fname(c) = "guestcount" /\ Contents(fname(c)) = Numbers
  <2>1. fname(c) = "guestcount"
    BY DEF fname, FileOf
  <2> QED
    BY <2>1, ContentsOf DEF Numbers
<1>4. PICK seen \in conn[c].saw : conn[c].size = file_size(seen)
  BY <1>2 DEF FetchOK
<1>5. seen \in Numbers \cup {NONE} /\ file \in Numbers \cup {NONE}
  BY <1>2, <1>3, <1>4 DEF FetchOK
<1>6. /\ g \in Int
      /\ seen = file => g = NextGuest(file)
  BY <1>4, <1>5, GuestNumber
<1>7. conn[c].saw = {file} => seen = file
  BY <1>4
<1> HIDE DEF g
<1>8. <<g + 1>> \in Numbers /\ <<g>> \in Seq(Bytes) /\ <<g + 1>> \in Seq(Bytes)
  <2>1. \A n \in Int : <<n>> \in Seq(Int) /\ Len(<<n>>) <= 1
    OBVIOUS
  <2>2. g + 1 \in Int
    BY <1>6
  <2>3. Seq(Int) \subseteq Seq(Bytes)
    BY DEF Bytes
  <2> QED
    BY <1>6, <2>1, <2>2, <2>3 DEF Numbers
<1>9. r \in Connection
  BY ONLY <1>2, <1>8 DEF Going, Connection, Pcs
<1>10. /\ r.pc = "open" /\ SameInput(c, r) /\ r.answer = conn[c].answer /\ r.work = <<g + 1>>
       /\ r.got = <<g>>
  BY ONLY <1>2, <1>8 DEF Going, Connection, SameInput
<1> HIDE DEF r
<1>11. MovesOn(c, r)
  BY <1>1, <1>2, <1>9, <1>10 DEF MovesOn
<1>12. Ready(c, r, holder', disk[fname(c)])
  BY <1>1, <1>2, <1>3, <1>8, <1>10 DEF Ready, ReadOK, Unread
<1>13. conn[c].saw = {file} => g = NextGuest(file)
  BY <1>6, <1>7
<1>14. GuestHas(r, g)
  BY <1>10 DEF GuestHas
<1>15. Quiet(c, r)
  BY <1>1, <1>2, <1>6, <1>9, <1>10, <1>13, <1>14 DEF Quiet
<1> QED
  BY <1>11, <1>12, <1>15

LEMMA MovingMoves ==
    ASSUME ReadingInv, NEW c \in Conns, Lock(c) \/ Stat(c) \/ Fetch(c)
    PROVE  \E r : MovesOn(c, r) /\ Ready(c, r, holder', disk[fname(c)]) /\ Quiet(c, r)
<1>1. CASE Fetch(c)
  <2>1. load[c].kind \in {"login", "read", "guest"}
    BY <1>1, AtWork DEF Fetch, At, Ready
  <2> QED
    BY <1>1, <2>1, FetchReadMoves, FetchLoginMoves, FetchGuestMoves
<1> QED
  BY <1>1, LockMoves, StatMoves

LEMMA MovingKeeps ==
    ASSUME ReadingInv, NEW c \in Conns, Lock(c) \/ Stat(c) \/ Fetch(c)
    PROVE  ReadingInv'
BY MovingMoves, MovesKeep

-----------------------------------------------------------------------------
(* Writing a file.                                                         *)

\* What c's step makes of the disk: nothing, or c's file is another one now.
NewDisk(c, r) ==
    \/ Set(c, r) /\ disk' = disk
    \/ \E file \in Contents(fname(c)) : DiskIs(c, file, r)

\* What it makes of another connection: it sees the file, if it is about to read it.
Sees(d) ==
    \/ /\ conn'[d] = conn[d]
       /\ conn[d].pc = "fetch" => disk'[fname(d)] = disk[fname(d)]
    \/ /\ conn[d].pc = "fetch" /\ disk'[fname(d)] \in Contents(fname(d))
       /\ conn'[d] = [conn[d] EXCEPT !.saw = conn[d].saw \cup {disk'[fname(d)]}]

LEMMA DiskGoes ==
    ASSUME ReadingInv, NEW c \in Conns, load[c] # NULL, NEW r \in Connection, NewDisk(c, r)
    PROVE  /\ conn' \in [Conns -> Connection] /\ conn'[c] = r
           /\ disk' \in [Files -> Seq(Bytes) \cup {NONE}]
           /\ \A f \in Files : disk'[f] \in Contents(f) \cup {NONE}
           /\ \A f \in Files : disk[f] # NONE => disk'[f] # NONE
           /\ \A f \in Files \ {fname(c)} : disk'[f] = disk[f]
           /\ \A d \in Conns \ {c} : Sees(d)
<1>1. /\ conn \in [Conns -> Connection] /\ disk \in [Files -> Seq(Bytes) \cup {NONE}]
      /\ \A f \in Files : disk[f] \in Contents(f) \cup {NONE}
      /\ fname(c) \in Files
  BY RequestIs DEF ReadingInv, Types, DiskInv
<1>2. CASE Set(c, r) /\ disk' = disk
  <2>1. /\ conn' \in [Conns -> Connection] /\ conn'[c] = r
        /\ \A d \in Conns \ {c} : conn'[d] = conn[d]
    BY <1>1, <1>2, Goes
  <2> QED
    BY <1>1, <1>2, <2>1 DEF Sees
<1>3. ASSUME NEW file \in Contents(fname(c)), DiskIs(c, file, r)
      PROVE  /\ conn' \in [Conns -> Connection] /\ conn'[c] = r
             /\ disk' \in [Files -> Seq(Bytes) \cup {NONE}]
             /\ \A f \in Files : disk'[f] \in Contents(f) \cup {NONE}
             /\ \A f \in Files : disk[f] # NONE => disk'[f] # NONE
             /\ \A f \in Files \ {fname(c)} : disk'[f] = disk[f]
             /\ \A d \in Conns \ {c} : Sees(d)
  <2>1. file \in Seq(Bytes) /\ file # NONE
    BY <1>1, <1>3, ContentsAre
  <2>2. /\ disk' \in [Files -> Seq(Bytes) \cup {NONE}] /\ disk'[fname(c)] = file
        /\ \A f \in Files \ {fname(c)} : disk'[f] = disk[f]
    BY <1>1, <1>3, <2>1 DEF DiskIs
  <2>3. \A d \in Conns :
           conn'[d] = IF d = c THEN r
                      ELSE IF conn[d].pc = "fetch" /\ fname(d) = fname(c)
                           THEN [conn[d] EXCEPT !.saw = conn[d].saw \cup {file}]
                      ELSE conn[d]
    BY <1>3 DEF DiskIs, At
  <2>4. \A d \in Conns :
           [conn[d] EXCEPT !.saw = conn[d].saw \cup {file}] \in Connection
    <3>1. ASSUME NEW d \in Conns
          PROVE  [conn[d] EXCEPT !.saw = conn[d].saw \cup {file}] \in Connection
      <4>1. conn[d] \in Connection
        BY <1>1
      <4>2. conn[d].saw \cup {file} \in SUBSET (Seq(Bytes) \cup {NONE})
        BY <2>1, <4>1 DEF Connection
      <4> QED
        BY ONLY <4>1, <4>2 DEF Connection
    <3> QED
      BY <3>1
  <2>5. conn' \in [Conns -> Connection] /\ conn'[c] = r
    <3>1. DOMAIN conn' = Conns /\ conn' = [d \in Conns |-> conn'[d]]
      BY <1>3 DEF DiskIs
    <3>2. \A d \in Conns : conn'[d] \in Connection
      BY <1>1, <2>3, <2>4
    <3> QED
      BY <2>3, <3>1, <3>2
  <2>6. ASSUME NEW d \in Conns \ {c} PROVE Sees(d)
    <3>1. CASE conn[d].pc = "fetch" /\ fname(d) = fname(c)
      BY <1>3, <2>2, <2>3, <2>6, <3>1 DEF Sees
    <3>2. CASE conn[d].pc = "fetch" /\ fname(d) # fname(c)
      <4>1. fname(d) \in Files
        BY <3>2, AtWork
      <4> QED
        BY <2>2, <2>3, <2>6, <3>2, <4>1 DEF Sees
    <3>3. CASE conn[d].pc # "fetch"
      BY <2>3, <2>6, <3>3 DEF Sees
    <3> QED
      BY <3>1, <3>2, <3>3
  <2> QED
    BY <1>1, <1>3, <2>1, <2>2, <2>5, <2>6
<1> QED
  BY <1>2, <1>3 DEF NewDisk

\* What a step that writes a file does, once the file is open.
WritesOn(c, r) ==
    /\ r \in Connection /\ NewDisk(c, r) /\ SameInput(c, r)
    /\ load' = load
    /\ conn[c].pc \in {"open", "flush"} /\ r.pc \in {"flush", "closed"}
    /\ holder' = holder \/ AfterWrite(c)
    /\ guests' \in Seq(Bytes) /\ faults' \in 0 .. MaxFaults
    /\ torn' \in [Files -> BOOLEAN] /\ spoilt' \in SUBSET Files
    /\ last' = last \/ last' = [last EXCEPT ![fname(c)] = conn[c].work]

LEMMA WritesKeep ==
    ASSUME ReadingInv, NEW c \in Conns, NEW r, WritesOn(c, r),
           Ready(c, r, holder', disk'[fname(c)])
    PROVE  ReadingInv'
<1> USE DEF ReadingInv
<1>0. /\ load[c] # NULL /\ fname(c) \in Files /\ Ready(c, conn[c], holder, disk[fname(c)])
      /\ r \in Connection /\ NewDisk(c, r) /\ load' = load
      /\ conn[c].pc \in {"open", "flush"}
  BY AtWork DEF WritesOn
<1>1. /\ conn' \in [Conns -> Connection] /\ conn'[c] = r
      /\ disk' \in [Files -> Seq(Bytes) \cup {NONE}]
      /\ \A f \in Files : disk'[f] \in Contents(f) \cup {NONE}
      /\ \A f \in Files : disk[f] # NONE => disk'[f] # NONE
      /\ \A d \in Conns \ {c} : Sees(d)
  BY <1>0, DiskGoes
<1>2. conn[c].work \in Contents(fname(c)) /\ conn[c].work \in Seq(Bytes)
  <2>1. conn[c].work \in Contents(fname(c))
    BY <1>0 DEF Ready
  <2> QED
    BY <1>0, <2>1, ContentsAre
<1>3. holder' = holder \/ (holder' = NULL /\ holder = c)
  BY <1>0 DEF WritesOn, AfterWrite, Ready
<1>4. /\ \A f \in Files : last'[f] \in Contents(f) \cup {NONE}
      /\ last' \in [Files -> Seq(Bytes) \cup {NONE}]
  <2>1. \A f \in Files : last[f] \in Contents(f) \cup {NONE}
    BY DEF DiskInv
  <2>2. last \in [Files -> Seq(Bytes) \cup {NONE}]
    BY DEF Types
  <2>3. CASE last' = last
    BY <2>1, <2>2, <2>3
  <2>4. CASE last' = [last EXCEPT ![fname(c)] = conn[c].work]
    BY <1>0, <1>2, <2>1, <2>2, <2>4
  <2> QED
    BY <2>3, <2>4 DEF WritesOn
<1>5. \A d \in Conns \ {c} : conn'[d].pc = conn[d].pc /\ SameInput(d, conn'[d])
  <2>1. ASSUME NEW d \in Conns \ {c} PROVE conn'[d].pc = conn[d].pc /\ SameInput(d, conn'[d])
    <3>1. conn[d] \in Connection
      BY DEF Types
    <3>2. Sees(d)
      BY <1>1, <2>1
    <3>3. CASE conn'[d] = conn[d]
      BY <3>3 DEF SameInput
    <3>4. CASE conn'[d] = [conn[d] EXCEPT !.saw = conn[d].saw \cup {disk'[fname(d)]}]
      BY ONLY <3>1, <3>4 DEF Connection, SameInput
    <3> QED
      BY <3>2, <3>3, <3>4 DEF Sees
  <2> QED
    BY <2>1
<1>6. Types'
  <2>1. \A d \in Conns : conn'[d].pc # "none" => load'[d] # NULL
    BY <1>0, <1>1, <1>5 DEF Types
  <2>2. holder' \in Conns \cup {NULL}
    BY <1>3 DEF Types
  <2>3. /\ load' \in Loads /\ guests' \in Seq(Bytes) /\ faults' \in 0 .. MaxFaults
        /\ torn' \in [Files -> BOOLEAN] /\ spoilt' \in SUBSET Files
    BY <1>0 DEF WritesOn, Types
  <2> QED
    BY <1>1, <1>4, <2>1, <2>2, <2>3 DEF Types
<1>7. InputInv'
  <2>1. \A d \in Conns :
           /\ conn'[d].buf = conn[d].buf /\ conn'[d].request_len = conn[d].request_len
           /\ conn'[d].taken = conn[d].taken
           /\ conn'[d].pc \in {conn[d].pc, "lock", "stat", "fetch", "open", "flush", "closed"}
    BY <1>1, <1>5 DEF WritesOn, SameInput
  <2> QED
    BY <1>0, <2>1, InputAfter
<1>8. ReadyInv'
  <2>1. ASSUME NEW d \in Conns, d # c PROVE Ready(d, conn'[d], holder', disk'[fname(d)])
    <3>1. Ready(d, conn[d], holder, disk[fname(d)]) /\ conn[d] \in Connection
      BY <2>1 DEF ReadyInv, Types
    <3>2. holder' = holder \/ holder # d
      BY <1>3, <2>1
    <3>3. Sees(d)
      BY <1>1, <2>1
    <3>4. conn[d].pc \in {"fetch", "flush"} => fname(d) \in Files
      BY <2>1, AtWork
    <3>5. CASE conn[d].pc # "fetch"
      <4>1. conn'[d] = conn[d]
        BY <3>3, <3>5 DEF Sees
      <4>2. conn[d].pc = "flush" => disk'[fname(d)] # NONE
        BY <1>1, <3>1, <3>4 DEF Ready
      <4> QED
        BY <3>1, <3>2, <3>5, <4>1, <4>2 DEF Ready
    <3>6. CASE conn[d].pc = "fetch" /\ disk'[fname(d)] = disk[fname(d)] /\ conn'[d] = conn[d]
      BY <3>1, <3>2, <3>6 DEF Ready
    <3>7. CASE /\ conn[d].pc = "fetch" /\ disk'[fname(d)] \in Contents(fname(d))
               /\ conn'[d] = [conn[d] EXCEPT !.saw = conn[d].saw \cup {disk'[fname(d)]}]
      <4> DEFINE file == disk'[fname(d)]
                 new == conn'[d]
      <4>1. /\ new.pc = "fetch" /\ new.saw = conn[d].saw \cup {file} /\ new.size = conn[d].size
            /\ new.answer = conn[d].answer /\ new.work = conn[d].work
        BY ONLY <3>1, <3>7 DEF Connection
      <4>2. FetchOK(d, conn[d], disk[fname(d)])
        BY <3>1, <3>7 DEF Ready
      <4>3. file \in Contents(fname(d)) /\ file # NONE
        BY <3>4, <3>7, ContentsAre
      <4> HIDE DEF file, new
      <4>4. IsFiniteSet(conn[d].saw \cup {file})
        BY <4>2, FS_AddElement DEF FetchOK
      <4>5. FetchOK(d, new, file)
        BY <4>1, <4>2, <4>3, <4>4 DEF FetchOK
      <4>6. Ready(d, new, holder', file)
        BY <3>1, <3>2, <3>7, <4>1, <4>5 DEF Ready, ReadOK, Unread
      <4> QED
        BY <4>6 DEF file, new
    <3> QED
      BY <3>3, <3>5, <3>6, <3>7 DEF Sees
  <2> QED
    BY <1>0, <1>1, <2>1, ReadyAfter
<1>9. DiskInv'
  BY <1>1, <1>4 DEF DiskInv
<1> QED
  BY <1>6, <1>7, <1>8, <1>9

LEMMA AfterWriteIs ==
    ASSUME ReadingInv, NEW c \in Conns, AfterWrite(c)
    PROVE  guests' \in Seq(Bytes)
<1>1. guests \in Seq(Bytes) /\ conn[c].got \in Seq(Bytes)
  <2>1. conn[c] \in Connection
    BY DEF ReadingInv, Types
  <2> QED
    BY <2>1 DEF ReadingInv, Types, Connection
<1>2. guests \o conn[c].got \in Seq(Bytes)
  BY <1>1, ConcatProperties
<1> QED
  BY <1>1, <1>2 DEF AfterWrite

LEMMA NextFault ==
    ASSUME ReadingInv, faults < MaxFaults
    PROVE  faults + 1 \in 0 .. MaxFaults
<1>1. faults \in 0 .. MaxFaults
  BY DEF ReadingInv, Types
<1> QED
  BY <1>1, RequestsAssumption

LEMMA OpenWrites ==
    ASSUME ReadingInv, NEW c \in Conns, Open(c)
    PROVE  LET r == Going(c, "flush")
           IN  /\ WritesOn(c, r) /\ Ready(c, r, holder', disk'[fname(c)])
               /\ r.got = conn[c].got /\ r.work = conn[c].work
               /\ disk'[fname(c)] = <<>>
<1> DEFINE r == Going(c, "flush")
<1>1. /\ conn[c].pc = "open" /\ UNCHANGED <<load, holder, guests, faults, last, spoilt>>
      /\ DiskIs(c, <<>>, r) /\ torn' = [torn EXCEPT ![fname(c)] = Writing(fname(c)) # {}]
  BY DEF Open, At, Opened
<1>2. /\ conn[c] \in Connection /\ load[c] # NULL /\ fname(c) \in Files
      /\ Ready(c, conn[c], holder, disk[fname(c)])
  BY <1>1, AtWork
<1>3. r \in Connection
  BY <1>2, GoingIs DEF Pcs
<1>4. /\ r.pc = "flush" /\ SameInput(c, r) /\ r.answer = conn[c].answer
      /\ r.got = conn[c].got /\ r.work = conn[c].work
  BY ONLY <1>2 DEF Going, Connection, SameInput
<1> HIDE DEF r
<1>5. conn[c].work \in Contents(fname(c))
  BY <1>1, <1>2 DEF Ready
<1>6. <<>> \in Contents(fname(c)) /\ <<>> # NONE
  <2>1. <<>> \in Contents(fname(c))
    BY <1>2, <1>5, ContentsAre
  <2> QED
    BY <1>2, <2>1, ContentsAre
<1>7. NewDisk(c, r)
  BY <1>1, <1>6 DEF NewDisk
<1>8. disk'[fname(c)] = <<>>
  BY <1>1, <1>2 DEF ReadingInv, Types, DiskIs
<1>9. WritesOn(c, r)
  <2>1. torn' \in [Files -> BOOLEAN] /\ spoilt' \in SUBSET Files
    BY <1>1 DEF ReadingInv, Types
  <2>2. guests' \in Seq(Bytes) /\ faults' \in 0 .. MaxFaults
    BY <1>1 DEF ReadingInv, Types
  <2> QED
    BY <1>1, <1>3, <1>4, <1>7, <2>1, <2>2 DEF WritesOn
<1>10. Ready(c, r, holder', disk'[fname(c)])
  BY <1>1, <1>2, <1>4, <1>6, <1>8 DEF Ready, ReadOK, Unread
<1> QED
  BY <1>4, <1>8, <1>9, <1>10 DEF r

\* A handler that has written is done, whatever became of the file.
LEMMA WrittenKeeps ==
    ASSUME ReadingInv, NEW c \in Conns, conn[c].pc \in {"open", "flush"},
           NewDisk(c, Answer(c, "written")), AfterWrite(c), load' = load,
           faults' \in 0 .. MaxFaults, torn' \in [Files -> BOOLEAN],
           spoilt' \in {spoilt, spoilt \cup {fname(c)}},
           last' = last \/ last' = [last EXCEPT ![fname(c)] = conn[c].work]
    PROVE  ReadingInv'
<1> DEFINE r == Answer(c, "written")
<1>1. /\ conn[c] \in Connection /\ load[c] # NULL /\ fname(c) \in Files
  BY AtWork
<1>2. r \in Connection
  BY <1>1, AnswerIs
<1>3. r.pc = "closed" /\ SameInput(c, r) /\ r.answer = "written"
  BY ONLY <1>1 DEF Answer, Connection, SameInput
<1>4. NewDisk(c, r)
  OBVIOUS
<1> HIDE DEF r
<1>5. spoilt' \in SUBSET Files
  BY <1>1 DEF ReadingInv, Types
<1>6. guests' \in Seq(Bytes)
  BY AfterWriteIs
<1>7. WritesOn(c, r)
  BY <1>2, <1>3, <1>4, <1>5, <1>6 DEF WritesOn
<1>8. Ready(c, r, holder', disk'[fname(c)])
  BY <1>3 DEF Ready, ReadOK
<1> QED
  BY <1>7, <1>8, WritesKeep

\* What is written is what a file of its kind may hold.
LEMMA FlushedIs ==
    ASSUME ReadingInv, NEW c \in Conns, conn[c].pc = "flush", NEW n \in 0 .. Len(conn[c].work)
    PROVE  Written(disk[fname(c)], SubSeq(conn[c].work, 1, n)) \in Contents(fname(c))
<1>1. /\ fname(c) \in Files /\ disk[fname(c)] \in Contents(fname(c)) \cup {NONE}
      /\ disk[fname(c)] # NONE /\ conn[c].work \in Contents(fname(c))
  BY AtWork DEF Ready
<1>2. SubSeq(conn[c].work, 1, n) \in Contents(fname(c))
  BY <1>1, ContentsAre
<1> QED
  BY <1>1, <1>2, ContentsAre

LEMMA WorkIs ==
    ASSUME ReadingInv, NEW c \in Conns, conn[c].pc \in {"open", "flush"}
    PROVE  /\ conn[c].work \in Seq(Bytes) /\ Len(conn[c].work) \in Nat
           /\ SubSeq(conn[c].work, 1, Len(conn[c].work)) = conn[c].work
<1>1. conn[c].work \in Seq(Bytes)
  <2>1. conn[c] \in Connection
    BY DEF ReadingInv, Types
  <2> QED
    BY <2>1 DEF Connection
<1>2. Len(conn[c].work) \in Nat
  BY <1>1, LenProperties
<1>3. SubSeq(conn[c].work, 1, Len(conn[c].work)) = conn[c].work
  BY <1>1, SubSeqFull
<1> QED
  BY <1>1, <1>2, <1>3

LEMMA WritingKeeps ==
    ASSUME ReadingInv, NEW c \in Conns,
           Open(c) \/ OpenFails(c) \/ Flush(c) \/ FlushFails(c)
    PROVE  ReadingInv'
<1>1. CASE Open(c)
  BY <1>1, OpenWrites, WritesKeep
<1>2. CASE OpenFails(c)
  <2>1. /\ conn[c].pc = "open" /\ Set(c, Answer(c, "written")) /\ AfterWrite(c)
        /\ faults < MaxFaults /\ faults' = faults + 1 /\ spoilt' = spoilt \cup {fname(c)}
        /\ UNCHANGED <<load, disk, last, torn>>
    BY <1>2 DEF OpenFails, At
  <2>2. NewDisk(c, Answer(c, "written"))
    BY <2>1 DEF NewDisk
  <2>3. torn' \in [Files -> BOOLEAN]
    BY <2>1 DEF ReadingInv, Types
  <2>4. faults' \in 0 .. MaxFaults
    BY <2>1, NextFault
  <2> QED
    BY <2>1, <2>2, <2>3, <2>4, WrittenKeeps
<1>3. CASE Flush(c)
  <2>1. /\ conn[c].pc = "flush" /\ AfterWrite(c)
        /\ DiskIs(c, Written(disk[fname(c)], conn[c].work), Answer(c, "written"))
        /\ last' = [last EXCEPT ![fname(c)] = conn[c].work]
        /\ UNCHANGED <<load, faults, torn, spoilt>>
    BY <1>3 DEF Flush, At
  <2>2. Written(disk[fname(c)], conn[c].work) \in Contents(fname(c))
    <3>1. Len(conn[c].work) \in 0 .. Len(conn[c].work)
      BY <2>1, WorkIs
    <3>2. Written(disk[fname(c)], SubSeq(conn[c].work, 1, Len(conn[c].work))) \in Contents(fname(c))
      BY <2>1, <3>1, FlushedIs
    <3> QED
      BY <2>1, <3>2, WorkIs
  <2>3. NewDisk(c, Answer(c, "written"))
    BY <2>1, <2>2 DEF NewDisk
  <2>4. faults' \in 0 .. MaxFaults /\ torn' \in [Files -> BOOLEAN]
    BY <2>1 DEF ReadingInv, Types
  <2> QED
    BY <2>1, <2>3, <2>4, WrittenKeeps
<1>4. CASE FlushFails(c)
  <2>1. /\ conn[c].pc = "flush" /\ AfterWrite(c)
        /\ faults < MaxFaults /\ faults' = faults + 1 /\ spoilt' = spoilt \cup {fname(c)}
        /\ torn' = [torn EXCEPT ![fname(c)] = TRUE]
        /\ UNCHANGED <<load, last>>
    BY <1>4 DEF FlushFails, At
  <2>2. PICK n \in 0 .. Len(conn[c].work) - 1 :
           DiskIs(c, Written(disk[fname(c)], SubSeq(conn[c].work, 1, n)), Answer(c, "written"))
    BY <1>4 DEF FlushFails
  <2>3. Written(disk[fname(c)], SubSeq(conn[c].work, 1, n)) \in Contents(fname(c))
    <3>1. n \in 0 .. Len(conn[c].work)
      BY <2>1, WorkIs
    <3> QED
      BY <2>1, <3>1, FlushedIs
  <2>4. NewDisk(c, Answer(c, "written"))
    BY <2>2, <2>3 DEF NewDisk
  <2>5. faults' \in 0 .. MaxFaults
    BY <2>1, NextFault
  <2>6. torn' \in [Files -> BOOLEAN]
    BY <2>1 DEF ReadingInv, Types
  <2> QED
    BY <2>1, <2>4, <2>5, <2>6, WrittenKeeps
<1> QED
  BY <1>1, <1>2, <1>3, <1>4

LEMMA RestartKeeps ==
    ASSUME ReadingInv, Restart
    PROVE  ReadingInv'
<1> USE DEF ReadingInv
<1>1. /\ faults < MaxFaults /\ holder' = NULL /\ faults' = faults + 1
      /\ UNCHANGED <<load, disk, guests, last>>
      /\ torn' = [f \in Files |-> torn[f] \/ Writing(f) # {}]
      /\ spoilt' = spoilt \cup {f \in Files : Writing(f) # {}}
      /\ conn' = [c \in Conns |->
            IF conn[c].pc \in {"none", "closed"} THEN conn[c] ELSE Answer(c, "cut off")]
  BY DEF Restart
<1>2. ASSUME NEW c \in Conns
      PROVE  LET r == conn'[c]
             IN  /\ r \in Connection /\ SameInput(c, r) /\ r.pc \in {conn[c].pc, "closed"}
                 /\ \/ r = conn[c] /\ r.pc \in {"none", "closed"}
                    \/ r.pc = "closed" /\ r.answer = "cut off" /\ conn[c].pc # "none"
  <2>1. conn[c] \in Connection
    BY <1>2 DEF Types
  <2>2. CASE conn[c].pc \in {"none", "closed"}
    <3>1. conn'[c] = conn[c]
      BY <1>1, <1>2, <2>2
    <3>2. SameInput(c, conn[c])
      BY DEF SameInput
    <3> QED
      BY <2>1, <2>2, <3>1, <3>2
  <2>3. CASE conn[c].pc \notin {"none", "closed"}
    <3>1. conn'[c] = Answer(c, "cut off")
      BY <1>1, <1>2, <2>3
    <3>2. Answer(c, "cut off") \in Connection
      BY <2>1, AnswerIs
    <3>3. /\ Answer(c, "cut off").pc = "closed" /\ SameInput(c, Answer(c, "cut off"))
          /\ Answer(c, "cut off").answer = "cut off"
      BY ONLY <2>1 DEF Answer, Connection, SameInput
    <3> QED
      BY <2>3, <3>1, <3>2, <3>3
  <2> QED
    BY <2>2, <2>3
<1>3. Types'
  <2>1. conn' \in [Conns -> Connection]
    BY <1>1, <1>2
  <2>2. \A c \in Conns : conn'[c].pc # "none" => load'[c] # NULL
    BY <1>1, <1>2 DEF Types
  <2>3. torn' \in [Files -> BOOLEAN] /\ spoilt' \in SUBSET Files
    BY <1>1 DEF Types
  <2>4. faults' \in 0 .. MaxFaults
    BY <1>1, NextFault
  <2> QED
    BY <1>1, <2>1, <2>2, <2>3, <2>4 DEF Types
<1>4. InputInv'
  <2>1. \A d \in Conns :
           /\ conn'[d].buf = conn[d].buf /\ conn'[d].request_len = conn[d].request_len
           /\ conn'[d].taken = conn[d].taken
           /\ conn'[d].pc \in {conn[d].pc, "lock", "stat", "fetch", "open", "flush", "closed"}
    BY <1>2 DEF SameInput
  <2> QED
    BY <1>1, <2>1, InputAfter
<1>5. ReadyInv'
  <2>1. ASSUME NEW d \in Conns PROVE Ready(d, conn'[d], holder', disk'[fname(d)])
    <3>1. Ready(d, conn[d], holder, disk[fname(d)])
      BY <2>1 DEF ReadyInv
    <3>2. CASE conn'[d] = conn[d] /\ conn[d].pc \in {"none", "closed"}
      BY <3>1, <3>2 DEF Ready
    <3>3. CASE conn'[d].pc = "closed" /\ conn'[d].answer = "cut off"
      BY <3>3 DEF Ready, ReadOK
    <3> QED
      BY <1>2, <2>1, <3>2, <3>3
  <2> QED
    BY <1>1, <2>1, ReadyAfter
<1>6. DiskInv'
  BY <1>1 DEF DiskInv
<1> QED
  BY <1>3, <1>4, <1>5, <1>6

-----------------------------------------------------------------------------
(* What holds of every state.                                              *)

LEMMA InitFiles ==
    ASSUME Init
    PROVE  /\ DOMAIN disk = Files /\ disk = [f \in Files |-> disk[f]]
           /\ \A f \in Files : disk[f] \in Contents(f) \cup {NONE}
           /\ disk["guestcount"] = NONE
<1>1. disk = [f \in Files |-> CASE f = "files/f" -> <<"x", "y", "x">>
                                [] f = "password.md5" -> mg_md5(<<"x">>)
                                [] f = "guestcount" -> NONE]
  BY DEF Init
<1>2. /\ disk["files/f"] = <<"x", "y", "x">> /\ disk["password.md5"] = mg_md5(<<"x">>)
      /\ disk["guestcount"] = NONE
  BY <1>1 DEF Files
<1>3. <<"x", "y", "x">> \in Contents("files/f")
  <2>1. \A a, b \in Chars : <<a, b, a>> \in Seq(Chars)
    OBVIOUS
  <2>2. <<"x", "y", "x">> \in Seq(Chars)
    BY <2>1, LettersAssumption
  <2> QED
    BY <2>2, ContentsOf
<1>4. mg_md5(<<"x">>) \in Contents("password.md5")
  <2>1. <<"x">> \in Seq(Chars)
    BY LettersAssumption
  <2> QED
    BY <2>1, Digests, ContentsOf
<1>5. DOMAIN disk = Files /\ disk = [f \in Files |-> disk[f]]
  <2> DEFINE first(f) == CASE f = "files/f" -> <<"x", "y", "x">>
                           [] f = "password.md5" -> mg_md5(<<"x">>)
                           [] f = "guestcount" -> NONE
  <2>1. disk = [f \in Files |-> first(f)]
    BY <1>1
  <2> HIDE DEF first
  <2> QED
    BY <2>1
<1> QED
  BY <1>2, <1>3, <1>4, <1>5 DEF Files

LEMMA FreshIs ==
    /\ Fresh \in Connection
    /\ Fresh.pc = "none" /\ Fresh.answer = "none" /\ Fresh.request_len = 0 /\ Fresh.gone = FALSE
    /\ Fresh.buf = <<>> /\ Fresh.taken = <<>> /\ Fresh.part = 1 /\ Fresh.value = <<>>
    /\ Fresh.work = <<>>
<1>1. NONE \notin {} /\ -1 \in Int /\ 0 \in Int /\ 1 \in {1, 2}
  OBVIOUS
<1>2. <<>> \in Seq(Chars) /\ <<>> \in Seq(Bytes)
  BY EmptySeq
<1>3. {} \in SUBSET (Seq(Bytes) \cup {NONE})
  OBVIOUS
<1>4. Fresh \in Connection
  BY ONLY <1>1, <1>2, <1>3 DEF Fresh, Connection, Pcs
<1> QED
  BY <1>4 DEF Fresh

LEMMA InitReading == Init => ReadingInv
<1> SUFFICES ASSUME Init PROVE ReadingInv
  OBVIOUS
<1>1. /\ load \in Loads /\ conn = [c \in Conns |-> Fresh] /\ disk = last
      /\ torn = [f \in Files |-> FALSE] /\ spoilt = {} /\ holder = NULL /\ guests = <<>>
      /\ faults = 0
  BY DEF Init
<1>2. \A c \in Conns : conn[c] = Fresh
  BY <1>1
<1>3. /\ DOMAIN disk = Files /\ disk = [f \in Files |-> disk[f]]
      /\ \A f \in Files : disk[f] \in Contents(f) \cup {NONE}
  BY InitFiles
<1>4. Types
  <2>1. \A f \in Files : disk[f] \in Seq(Bytes) \cup {NONE}
    BY <1>3, ContentsAre
  <2>2. disk \in [Files -> Seq(Bytes) \cup {NONE}]
    BY <1>3, <2>1
  <2>3. conn \in [Conns -> Connection]
    BY <1>1, FreshIs
  <2>4. \A c \in Conns : conn[c].pc = "none"
    BY <1>2, FreshIs
  <2>5. guests \in Seq(Bytes)
    BY <1>1, EmptySeq
  <2>6. faults \in 0 .. MaxFaults
    BY <1>1, RequestsAssumption
  <2>7. torn \in [Files -> BOOLEAN] /\ spoilt \in SUBSET Files /\ holder \in Conns \cup {NULL}
    BY <1>1
  <2> QED
    BY <1>1, <2>2, <2>3, <2>4, <2>5, <2>6, <2>7 DEF Types
<1>5. InputInv
  <2>1. ASSUME NEW c \in Conns PROVE InputOK(c)
    <3>1. Len(<<>>) = 0
      BY EmptySeq
    <3>2. load[c] # NULL => load[c].content_len \in Int
      BY <1>4, RequestIs DEF IsRequest
    <3>3. /\ Len(conn[c].buf) = 0 /\ conn[c].request_len = 0 /\ Len(conn[c].taken) = 0
          /\ conn[c].pc = "none"
      BY <1>2, <2>1, <3>1, FreshIs
    <3> QED
      BY <3>2, <3>3, BufferSizes DEF InputOK
  <2> QED
    BY <2>1 DEF InputInv
<1>6. ReadyInv
  <2>1. ASSUME NEW c \in Conns PROVE Ready(c, conn[c], holder, disk[fname(c)])
    <3>1. conn[c].pc = "none" /\ conn[c].answer = "none"
      BY <1>2, <2>1, FreshIs
    <3> QED
      BY <3>1 DEF Ready, ReadOK, Unread
  <2> QED
    BY <2>1 DEF ReadyInv
<1>7. DiskInv
  BY <1>1, <1>3 DEF DiskInv
<1> QED
  BY <1>4, <1>5, <1>6, <1>7 DEF ReadingInv

LEMMA NextReading == ReadingInv /\ [Next]_vars => ReadingInv'
<1> SUFFICES ASSUME ReadingInv, [Next]_vars PROVE ReadingInv'
  OBVIOUS
<1>1. CASE UNCHANGED vars
  BY <1>1 DEF vars, history, ReadingInv, Types, InputInv, InputOK, ReadyInv, Ready, ReadOK, FetchOK,
              fname, DiskInv
<1>2. CASE Restart
  BY <1>2, RestartKeeps
<1>3. ASSUME NEW c \in Conns, Connect(c) \/ BreakOff(c) \/ Serve(c) \/ Lock(c)
      PROVE  ReadingInv'
  <2>1. CASE \/ Connect(c) \/ BreakOff(c) \/ ReadRequest(c) \/ RemoteClosed(c) \/ Parse(c)
             \/ ReadBody(c) \/ ReadReturns(c) \/ Handle(c)
    BY <2>1, EarlyKeeps
  <2>2. CASE Lock(c) \/ Stat(c) \/ Fetch(c)
    BY <2>2, MovingKeeps
  <2>3. CASE Open(c) \/ OpenFails(c) \/ Flush(c) \/ FlushFails(c)
    BY <2>3, WritingKeeps
  <2> QED
    BY <1>3, <2>1, <2>2, <2>3 DEF Serve
<1> QED
  BY <1>1, <1>2, <1>3 DEF Next

LEMMA ReadingIsInvariant == Spec => []ReadingInv
BY InitReading, NextReading, PTL DEF Spec

\* Buffers are never overrun, no more of a body is read than Content-Length says, and only
\* connections that asked for something are at work (mongoose.c:1368-1416, util.c:223-240).
THEOREM RequestTypes == Spec => []TypeOK
<1>1. ReadingInv => TypeOK
  <2> SUFFICES ASSUME ReadingInv PROVE TypeOK
    OBVIOUS
  <2>1. Types /\ InputInv
    BY DEF ReadingInv
  <2>2. ASSUME NEW c \in Conns
        PROVE  /\ conn[c].pc \in Pcs
               /\ Len(conn[c].buf) <= BUF_SIZE
               /\ conn[c].request_len <= Len(conn[c].buf)
               /\ Started(c) => Len(conn[c].taken) <= Max({0, load[c].content_len})
    <3>1. conn[c] \in Connection /\ InputOK(c)
      BY <2>1, <2>2 DEF Types, InputInv
    <3>2. conn[c].pc \in Pcs
      BY <3>1 DEF Connection
    <3>3. ASSUME Started(c) PROVE Len(conn[c].taken) <= Max({0, load[c].content_len})
      <4>1. load[c] # NULL
        BY <3>3 DEF Started
      <4>2. load[c].content_len \in Int
        BY <2>1, <4>1, RequestIs DEF IsRequest
      <4>3. Max({0, load[c].content_len}) = IF 0 >= load[c].content_len THEN 0 ELSE load[c].content_len
        BY <4>2, MaxOfTwo
      <4>4. Len(conn[c].taken) <= IF load[c].content_len >= 0 THEN load[c].content_len ELSE 0
        BY <3>1, <4>1 DEF InputOK
      <4> QED
        BY <4>2, <4>3, <4>4
    <3> QED
      BY <3>1, <3>2, <3>3 DEF InputOK
  <2> QED
    BY <2>1, <2>2 DEF Types, TypeOK, Pcs
<1> QED
  BY <1>1, ReadingIsInvariant, PTL

\* Files are read without a lock, while others write them: a page gets the whole of a file that
\* was there, or somebody wrote it meanwhile; a login is accepted only with a password that was
\* valid during it, and refused with it only if there was another one (file.c:191-258,
\* banana.c:157-175).
THEOREM ReadersSeeWhatWasThere == Spec => []ReadsAreRight
<1>1. ReadingInv => ReadsAreRight
  BY DEF ReadingInv, ReadyInv, Ready, ReadOK, ReadsAreRight
<1> QED
  BY <1>1, ReadingIsInvariant, PTL

-----------------------------------------------------------------------------
(* Files that several write, and the numbers of guests.                    *)

LEMMA QuietSteps ==
    ASSUME ReadingInv, NEW c \in Conns,
           Connect(c) \/ BreakOff(c) \/ Lock(c) \/ ReadRequest(c) \/ RemoteClosed(c) \/ Parse(c)
           \/ ReadBody(c) \/ ReadReturns(c) \/ Handle(c) \/ Stat(c) \/ Fetch(c)
    PROVE  \E r : Quiet(c, r)
<1>1. Types /\ InputInv /\ ReadyInv
  BY DEF ReadingInv
<1>2. ASSUME NEW r, ReadsOn(c, r), r.pc \in Early \cup {"closed"}
      PROVE  Quiet(c, r)
  BY <1>2 DEF ReadsOn, Quiet, Early
<1>3. CASE Connect(c) \/ BreakOff(c) \/ RemoteClosed(c)
  <2>1. PICK r : ReadsOn(c, r) /\ r.pc \in {"request", "body", "closed"}
    BY <1>1, <1>3, ConnectReads
  <2> QED
    BY <1>2, <2>1 DEF Early
<1>4. CASE ReadRequest(c)
  <2>1. PICK r : ReadsOn(c, r) /\ r.pc \in {"request", "parse", "closed"}
    BY <1>1, <1>4, RequestReads
  <2> QED
    BY <1>2, <2>1 DEF Early
<1>5. CASE Parse(c)
  <2>1. PICK r : ReadsOn(c, r) /\ r.pc \in {"body", "handler", "closed"}
    BY <1>1, <1>5, ParseReads
  <2> QED
    BY <1>2, <2>1 DEF Early
<1>6. CASE ReadBody(c) \/ ReadReturns(c)
  <2>1. PICK r : ReadsOn(c, r) /\ r.pc \in {"body", "handler"}
    BY <1>1, <1>6, BodyReads
  <2> QED
    BY <1>2, <2>1 DEF Early
<1>7. CASE Handle(c)
  <2>1. PICK r : ReadsOn(c, r) /\ Asks(c, r)
    BY <1>1, <1>7, HandleReads
  <2> QED
    BY <2>1 DEF ReadsOn, Asks, Quiet, Early
<1>8. CASE Lock(c) \/ Stat(c) \/ Fetch(c)
  BY <1>8, MovingMoves
<1> QED
  BY <1>3, <1>4, <1>5, <1>6, <1>7, <1>8

\* A file holds what its last write left there, or it is empty while one writes it, unless that
\* write was not alone, failed, or was stopped.
LastOK(f) ==
    ~torn[f] =>
        \/ Writing(f) = {} /\ disk[f] = last[f]
        \/ disk[f] = <<>> /\ \E c \in Conns : Writing(f) = {c}

LastInv == \A f \in Files : LastOK(f)

\* Who writes a file after a step of c.
LEMMA WritingAfter ==
    ASSUME NEW c \in Conns, NEW r, load' = load, conn'[c] = r,
           \A d \in Conns \ {c} : conn'[d].pc = conn[d].pc, NEW f
    PROVE  Writing(f)' = IF r.pc = "flush" /\ fname(c) = f THEN Writing(f) \cup {c}
                         ELSE Writing(f) \ {c}
<1>1. \A d \in Conns : fname(d)' = fname(d)
  BY DEF fname
<1>2. \A d \in Conns \ {c} : d \in Writing(f)' <=> d \in Writing(f)
  BY <1>1 DEF Writing, At
<1>3. c \in Writing(f)' <=> r.pc = "flush" /\ fname(c) = f
  BY <1>1 DEF Writing, At
<1>4. Writing(f)' \subseteq Conns /\ Writing(f) \subseteq Conns
  BY DEF Writing
<1> HIDE DEF Writing
<1> QED
  BY <1>2, <1>3, <1>4

LEMMA QuietLast ==
    ASSUME ReadingInv, LastInv, NEW c \in Conns, NEW r, Quiet(c, r)
    PROVE  LastInv'
<1>1. /\ conn'[c] = r /\ \A d \in Conns \ {c} : conn'[d] = conn[d]
      /\ UNCHANGED <<load, disk, last, torn>> /\ r.pc # "flush" /\ conn[c].pc # "flush"
  BY Goes DEF Quiet, ReadingInv, Types, history
<1>2. \A f \in Files : Writing(f)' = Writing(f)
  <2>1. \A f \in Files : Writing(f)' = Writing(f) \ {c}
    BY <1>1, WritingAfter
  <2>2. \A f \in Files : c \notin Writing(f)
    BY <1>1 DEF Writing, At
  <2> QED
    BY <2>1, <2>2
<1>3. \A f \in Files : LastOK(f)'
  BY <1>1, <1>2 DEF LastInv, LastOK
<1> QED
  BY <1>3 DEF LastInv

LEMMA RestartLast ==
    ASSUME ReadingInv, LastInv, Restart
    PROVE  LastInv'
<1>1. \A f \in Files : torn'[f] = (torn[f] \/ Writing(f) # {})
  BY DEF Restart
<1>2. UNCHANGED <<disk, last, load>>
  BY DEF Restart
<1>3. \A f \in Files : Writing(f)' = {}
  <2>1. \A c \in Conns : conn'[c].pc # "flush"
    <3>1. ASSUME NEW c \in Conns PROVE conn'[c].pc # "flush"
      <4>1. conn[c] \in Connection
        BY DEF ReadingInv, Types
      <4>2. conn'[c] = IF conn[c].pc \in {"none", "closed"} THEN conn[c] ELSE Answer(c, "cut off")
        BY DEF Restart
      <4>3. Answer(c, "cut off").pc = "closed"
        BY ONLY <4>1 DEF Answer, Connection
      <4> QED
        BY <4>2, <4>3
    <3> QED
      BY <3>1
  <2> QED
    BY <2>1 DEF Writing, At
<1>4. ASSUME NEW f \in Files PROVE LastOK(f)'
  <2>1. LastOK(f)
    BY <1>4 DEF LastInv
  <2> QED
    BY <1>1, <1>2, <1>3, <1>4, <2>1 DEF LastOK
<1> QED
  BY <1>4 DEF LastInv

\* What a write does to files but its own, and to who writes them.
LEMMA WritesOther ==
    ASSUME ReadingInv, NEW c \in Conns, load[c] # NULL, NEW r \in Connection, NewDisk(c, r),
           load' = load
    PROVE  /\ conn'[c] = r
           /\ \A d \in Conns \ {c} : conn'[d].pc = conn[d].pc
           /\ \A f \in Files : Writing(f)' = IF r.pc = "flush" /\ fname(c) = f
                                             THEN Writing(f) \cup {c} ELSE Writing(f) \ {c}
<1>1. conn'[c] = r /\ \A d \in Conns \ {c} : Sees(d)
  BY DiskGoes
<1>2. ASSUME NEW d \in Conns \ {c} PROVE conn'[d].pc = conn[d].pc
  <2>1. conn[d] \in Connection
    BY DEF ReadingInv, Types
  <2>2. CASE conn'[d] = conn[d]
    BY <2>2
  <2>3. CASE conn'[d] = [conn[d] EXCEPT !.saw = conn[d].saw \cup {disk'[fname(d)]}]
    BY ONLY <2>1, <2>3 DEF Connection
  <2> QED
    BY <1>1, <2>2, <2>3 DEF Sees
<1> QED
  BY <1>1, <1>2, WritingAfter

LEMMA WritingLast ==
    ASSUME ReadingInv, LastInv, NEW c \in Conns,
           Open(c) \/ OpenFails(c) \/ Flush(c) \/ FlushFails(c)
    PROVE  LastInv'
<1>0. /\ conn[c].pc \in {"open", "flush"} /\ load' = load /\ load[c] # NULL
      /\ conn[c] \in Connection /\ fname(c) \in Files
      /\ torn \in [Files -> BOOLEAN] /\ last \in [Files -> Seq(Bytes) \cup {NONE}]
      /\ disk \in [Files -> Seq(Bytes) \cup {NONE}]
  <2>1. conn[c].pc \in {"open", "flush"} /\ load' = load
    BY DEF Open, OpenFails, Flush, FlushFails, At
  <2> QED
    BY <2>1, AtWork DEF ReadingInv, Types
<1>1. Answer(c, "written") \in Connection
  BY <1>0, AnswerIs
<1>2. Answer(c, "written").pc = "closed"
  BY ONLY <1>0 DEF Answer, Connection
<1>3. Going(c, "flush") \in Connection
  BY <1>0, GoingIs DEF Pcs
<1>4. Going(c, "flush").pc = "flush"
  BY ONLY <1>0 DEF Going, Connection
<1>5. ASSUME NEW file \in Contents(fname(c)), NEW r, DiskIs(c, file, r)
      PROVE  /\ NewDisk(c, r)
             /\ disk' = [disk EXCEPT ![fname(c)] = file]
  BY <1>5 DEF NewDisk, DiskIs
<1>6. CASE Open(c)
  <2>1. /\ DiskIs(c, <<>>, Going(c, "flush"))
        /\ torn' = [torn EXCEPT ![fname(c)] = Writing(fname(c)) # {}]
        /\ last' = last /\ conn[c].pc = "open"
    BY <1>6 DEF Open, Opened, At
  <2>2. <<>> \in Contents(fname(c))
    <3>1. conn[c].work \in Contents(fname(c))
      BY <1>0, AtWork DEF Ready
    <3> QED
      BY <1>0, <3>1, ContentsAre
  <2>3. NewDisk(c, Going(c, "flush")) /\ disk' = [disk EXCEPT ![fname(c)] = <<>>]
    BY <1>5, <2>1, <2>2
  <2>4. \A f \in Files : Writing(f)' = IF fname(c) = f THEN Writing(f) \cup {c}
                                       ELSE Writing(f) \ {c}
    BY <1>0, <1>3, <1>4, <2>3, WritesOther
  <2>5. \A f \in Files : c \notin Writing(f)
    BY <2>1 DEF Writing, At
  <2>6. ASSUME NEW f \in Files PROVE LastOK(f)'
    <3>1. LastOK(f)
      BY <2>6 DEF LastInv
    <3>2. CASE f = fname(c)
      <4>1. torn'[f] = (Writing(f) # {}) /\ disk'[f] = <<>> /\ Writing(f)' = Writing(f) \cup {c}
        BY <1>0, <2>1, <2>3, <2>4, <3>2
      <4>2. Writing(f) = {} => Writing(f)' = {c}
        BY <4>1
      <4> QED
        BY <4>1, <4>2 DEF LastOK
    <3>3. CASE f # fname(c)
      <4>1. /\ torn'[f] = torn[f] /\ disk'[f] = disk[f] /\ last'[f] = last[f]
            /\ Writing(f)' = Writing(f)
        BY <1>0, <2>1, <2>3, <2>4, <2>5, <2>6, <3>3
      <4> QED
        BY <3>1, <4>1 DEF LastOK
    <3> QED
      BY <3>2, <3>3
  <2> QED
    BY <2>6 DEF LastInv
<1>7. CASE OpenFails(c)
  <2>1. /\ Set(c, Answer(c, "written")) /\ UNCHANGED <<disk, last, torn>> /\ conn[c].pc = "open"
    BY <1>7 DEF OpenFails, At
  <2>2. NewDisk(c, Answer(c, "written"))
    BY <2>1 DEF NewDisk
  <2>3. \A f \in Files : Writing(f)' = Writing(f) \ {c}
    BY <1>0, <1>1, <1>2, <2>2, WritesOther
  <2>4. \A f \in Files : c \notin Writing(f)
    BY <2>1 DEF Writing, At
  <2>5. \A f \in Files : Writing(f)' = Writing(f)
    BY <2>3, <2>4
  <2>6. \A f \in Files : LastOK(f)'
    BY <2>1, <2>5 DEF LastInv, LastOK
  <2> QED
    BY <2>6 DEF LastInv
<1>8. CASE Flush(c) \/ FlushFails(c)
  <2>1. conn[c].pc = "flush"
    BY <1>8 DEF Flush, FlushFails, At
  <2>2. /\ conn[c].work \in Seq(Bytes) /\ Len(conn[c].work) \in Nat
        /\ SubSeq(conn[c].work, 1, Len(conn[c].work)) = conn[c].work
    BY <2>1, WorkIs
  <2>3. PICK n \in 0 .. Len(conn[c].work) :
           /\ DiskIs(c, Written(disk[fname(c)], SubSeq(conn[c].work, 1, n)), Answer(c, "written"))
           /\ \/ n = Len(conn[c].work) /\ last' = [last EXCEPT ![fname(c)] = conn[c].work]
                 /\ torn' = torn
              \/ last' = last /\ torn' = [torn EXCEPT ![fname(c)] = TRUE]
    <3>1. CASE Flush(c)
      <4>1. Len(conn[c].work) \in 0 .. Len(conn[c].work)
        BY <2>2
      <4> QED
        BY <2>2, <3>1, <4>1 DEF Flush
    <3>2. CASE FlushFails(c)
      <4>1. PICK n \in 0 .. Len(conn[c].work) - 1 :
               DiskIs(c, Written(disk[fname(c)], SubSeq(conn[c].work, 1, n)), Answer(c, "written"))
        BY <3>2 DEF FlushFails
      <4>2. n \in 0 .. Len(conn[c].work)
        BY <2>2
      <4>3. last' = last /\ torn' = [torn EXCEPT ![fname(c)] = TRUE]
        BY <3>2 DEF FlushFails
      <4> QED
        BY <4>1, <4>2, <4>3
    <3> QED
      BY <1>8, <3>1, <3>2
  <2> DEFINE file == Written(disk[fname(c)], SubSeq(conn[c].work, 1, n))
  <2>4. file \in Contents(fname(c))
    BY <2>1, FlushedIs
  <2>5. NewDisk(c, Answer(c, "written")) /\ disk' = [disk EXCEPT ![fname(c)] = file]
    BY <1>5, <2>3, <2>4
  <2>6. \A f \in Files : Writing(f)' = Writing(f) \ {c}
    BY <1>0, <1>1, <1>2, <2>5, WritesOther
  <2>7. c \in Writing(fname(c)) /\ \A f \in Files \ {fname(c)} : c \notin Writing(f)
    BY <2>1 DEF Writing, At
  <2>8. ASSUME NEW f \in Files PROVE LastOK(f)'
    <3>1. LastOK(f)
      BY <2>8 DEF LastInv
    <3>2. CASE f # fname(c)
      <4>1. torn'[f] = torn[f] /\ last'[f] = last[f]
        <5>1. \/ last' = [last EXCEPT ![fname(c)] = conn[c].work] /\ torn' = torn
              \/ last' = last /\ torn' = [torn EXCEPT ![fname(c)] = TRUE]
          BY <2>3
        <5> QED
          BY <1>0, <2>8, <3>2, <5>1
      <4>2. disk'[f] = disk[f]
        BY <1>0, <2>5, <2>8, <3>2
      <4>3. Writing(f)' = Writing(f)
        BY <2>6, <2>7, <2>8, <3>2
      <4> QED
        BY <3>1, <4>1, <4>2, <4>3 DEF LastOK
    <3>3. CASE f = fname(c) /\ torn' = [torn EXCEPT ![fname(c)] = TRUE]
      <4>1. torn'[f]
        BY <1>0, <3>3
      <4> QED
        BY <4>1 DEF LastOK
    <3>4. CASE /\ f = fname(c) /\ n = Len(conn[c].work) /\ torn' = torn
               /\ last' = [last EXCEPT ![fname(c)] = conn[c].work]
      <4>1. ASSUME ~torn[f] PROVE disk[f] = <<>> /\ Writing(f) = {c}
        <5>1. c \in Writing(f)
          BY <2>7, <3>4
        <5> QED
          BY <3>1, <4>1, <5>1 DEF LastOK
      <4>2. disk[f] = <<>> => disk'[f] = conn[c].work
        <5>1. file = Written(disk[f], conn[c].work)
          BY <2>2, <3>4
        <5>2. <<>> \in Seq(Bytes)
          BY EmptySeq
        <5>3. Written(<<>>, conn[c].work) = conn[c].work
          BY <2>2, <5>2, WrittenIs
        <5> QED
          BY <1>0, <2>5, <3>4, <5>1, <5>3
      <4>3. last'[f] = conn[c].work /\ torn'[f] = torn[f] /\ Writing(f)' = Writing(f) \ {c}
        BY <1>0, <2>6, <3>4
      <4> QED
        BY <4>1, <4>2, <4>3 DEF LastOK
    <3> QED
      BY <2>3, <3>2, <3>3, <3>4
  <2> QED
    BY <2>8 DEF LastInv
<1> QED
  BY <1>6, <1>7, <1>8

\* The guests that were let in have numbers below g.
Below(g) == \A i \in DOMAIN guests : guests[i] < g

\* The guest whose handler has the users mutex has a number that no other was given: it has seen
\* the file as it is, or has read it, and has then made it empty.
GuestOK(c) ==
    load[c].kind = "guest" =>
        /\ conn[c].pc = "fetch" => conn[c].saw = {disk["guestcount"]}
        /\ conn[c].pc \in {"open", "flush"} => \E g \in Int : GuestHas(conn[c], g) /\ Below(g)
        /\ conn[c].pc = "flush" => disk["guestcount"] = <<>>

\* The file says what number comes next, but when it is being written.
Counted ==
    \/ disk["guestcount"] = NONE /\ guests = <<>>
    \/ \E m \in Int : disk["guestcount"] = <<m>> /\ Below(m)
    \/ \E c \in Conns : conn[c].pc = "flush" /\ load[c].kind = "guest"

GuestInv ==
    "guestcount" \notin spoilt =>
        /\ guests \in Seq(Int) /\ IsInjective(guests)
        /\ Counted
        /\ \A c \in Conns : GuestOK(c)

LEMMA OneGuest ==
    ASSUME ReadingInv, NEW c \in Conns, NEW d \in Conns,
           load[c].kind = "guest", load[d].kind = "guest",
           conn[c].pc \in {"fetch", "open", "flush"}, conn[d].pc \in {"fetch", "open", "flush"}
    PROVE  c = d
BY DEF ReadingInv, ReadyInv, Ready

LEMMA GuestFile ==
    ASSUME NEW c
    PROVE  /\ load[c].kind = "guest" => fname(c) = "guestcount"
           /\ load[c].kind \in {"write", "read", "passwd", "login"} => fname(c) # "guestcount"
BY DEF fname, FileOf

\* What a guest's number is, when the file is as it was seen.
LEMMA NextIsFree ==
    ASSUME "guestcount" \notin spoilt, GuestInv,
           ~ \E c \in Conns : conn[c].pc = "flush" /\ load[c].kind = "guest"
    PROVE  Below(NextGuest(disk["guestcount"]))
<1>1. Counted
  BY DEF GuestInv
<1>2. CASE disk["guestcount"] = NONE /\ guests = <<>>
  <2>1. DOMAIN guests = {}
    BY <1>2
  <2> QED
    BY <2>1 DEF Below
<1>3. ASSUME NEW m \in Int, disk["guestcount"] = <<m>>, Below(m)
      PROVE  Below(NextGuest(disk["guestcount"]))
  <2>1. <<m>> \in Seq(Int) /\ <<m>>[1] = m /\ Len(<<m>>) = 1 /\ Len(<<>>) = 0
    BY <1>3
  <2>2. <<m>> # <<>>
    BY <2>1
  <2>3. <<m>> # NONE
    BY <2>1, NoneIsNoNumber
  <2>4. NextGuest(<<m>>) = m
    BY <2>1, <2>2, <2>3 DEF NextGuest
  <2> QED
    BY <1>3, <2>4
<1> QED
  BY <1>1, <1>2, <1>3 DEF Counted

LEMMA QuietGuests ==
    ASSUME ReadingInv, GuestInv, NEW c \in Conns, NEW r, Quiet(c, r)
    PROVE  GuestInv'
<1>1. /\ conn'[c] = r /\ \A d \in Conns \ {c} : conn'[d] = conn[d]
      /\ UNCHANGED <<load, disk, guests, spoilt>> /\ r.pc # "flush" /\ conn[c].pc # "flush"
  BY Goes DEF Quiet, ReadingInv, Types, history
<1>2. SUFFICES ASSUME "guestcount" \notin spoilt'
               PROVE  Counted' /\ \A d \in Conns : GuestOK(d)'
  BY <1>1 DEF GuestInv
<1>3. "guestcount" \notin spoilt /\ Counted /\ \A d \in Conns : GuestOK(d)
  BY <1>1, <1>2 DEF GuestInv
<1>4. Counted'
  <2>1. ASSUME NEW d \in Conns, conn[d].pc = "flush", load[d].kind = "guest" PROVE Counted'
    <3>1. conn'[d] = conn[d]
      BY <1>1, <2>1
    <3> QED
      BY <1>1, <2>1, <3>1 DEF Counted
  <2>2. CASE disk["guestcount"] = NONE /\ guests = <<>>
    BY <1>1, <2>2 DEF Counted
  <2>3. CASE \E m \in Int : disk["guestcount"] = <<m>> /\ Below(m)
    BY <1>1, <2>3 DEF Counted, Below
  <2> QED
    BY <1>3, <2>1, <2>2, <2>3 DEF Counted
<1>5. ASSUME NEW d \in Conns, d # c PROVE GuestOK(d)'
  <2>1. GuestOK(d) /\ conn'[d] = conn[d]
    BY <1>1, <1>3, <1>5
  <2> QED
    BY <1>1, <2>1 DEF GuestOK, Below
<1>6. GuestOK(c)'
  <2> SUFFICES ASSUME load[c].kind = "guest"
               PROVE  /\ r.pc = "fetch" => r.saw = {disk["guestcount"]}
                      /\ r.pc = "open" => \E g \in Int : GuestHas(r, g) /\ Below(g)
    BY <1>1 DEF GuestOK, Below, GuestHas
  <2>1. fname(c) = "guestcount"
    BY GuestFile
  <2>2. r.pc = "fetch" => r.saw = {disk["guestcount"]}
    BY <2>1 DEF Quiet
  <2>3. ASSUME r.pc = "open" PROVE \E g \in Int : GuestHas(r, g) /\ Below(g)
    <3>1. conn[c].pc = "fetch"
      BY <2>3 DEF Quiet
    <3>2. PICK g \in Int :
             GuestHas(r, g) /\ (conn[c].saw = {disk[fname(c)]} => g = NextGuest(disk[fname(c)]))
      BY <2>3 DEF Quiet
    <3>3. g = NextGuest(disk["guestcount"])
      BY <1>3, <2>1, <3>1, <3>2 DEF GuestOK
    <3>4. ~ \E d \in Conns : conn[d].pc = "flush" /\ load[d].kind = "guest"
      BY <3>1, OneGuest
    <3> QED
      BY <1>3, <3>2, <3>3, <3>4, NextIsFree
  <2> QED
    BY <2>2, <2>3
<1> QED
  BY <1>4, <1>5, <1>6

LEMMA RestartGuests ==
    ASSUME ReadingInv, GuestInv, Restart
    PROVE  GuestInv'
<1>1. /\ UNCHANGED <<load, disk, guests>>
      /\ spoilt' = spoilt \cup {f \in Files : Writing(f) # {}}
  BY DEF Restart
<1>2. SUFFICES ASSUME "guestcount" \notin spoilt'
               PROVE  Counted' /\ \A d \in Conns : GuestOK(d)'
  BY <1>1 DEF GuestInv
<1>3. "guestcount" \notin spoilt /\ Counted
  BY <1>1, <1>2 DEF GuestInv
<1>4. Writing("guestcount") = {}
  BY <1>1, <1>2 DEF Files
<1>5. ~ \E c \in Conns : conn[c].pc = "flush" /\ load[c].kind = "guest"
  BY <1>4, GuestFile DEF Writing, At
<1>6. ASSUME NEW c \in Conns PROVE conn'[c].pc \in {"none", "closed"}
  <2>1. conn[c] \in Connection
    BY DEF ReadingInv, Types
  <2>2. conn'[c] = IF conn[c].pc \in {"none", "closed"} THEN conn[c] ELSE Answer(c, "cut off")
    BY DEF Restart
  <2>3. Answer(c, "cut off").pc = "closed"
    BY ONLY <2>1 DEF Answer, Connection
  <2> QED
    BY <2>2, <2>3
<1>7. Counted'
  <2>1. CASE disk["guestcount"] = NONE /\ guests = <<>>
    BY <1>1, <2>1 DEF Counted
  <2>2. CASE \E m \in Int : disk["guestcount"] = <<m>> /\ Below(m)
    BY <1>1, <2>2 DEF Counted, Below
  <2> QED
    BY <1>3, <1>5, <2>1, <2>2 DEF Counted
<1>8. \A d \in Conns : GuestOK(d)'
  BY <1>6 DEF GuestOK
<1> QED
  BY <1>7, <1>8

\* A write of another file.
LEMMA OtherGuests ==
    ASSUME ReadingInv, GuestInv, NEW c \in Conns, load[c] # NULL, load[c].kind # "guest",
           NEW r \in Connection, NewDisk(c, r), load' = load, guests' = guests,
           spoilt \subseteq spoilt'
    PROVE  GuestInv'
<1>1. /\ fname(c) # "guestcount"
      /\ conn'[c] = r /\ \A d \in Conns \ {c} : Sees(d)
      /\ \A d \in Conns \ {c} : conn'[d].pc = conn[d].pc
      /\ disk'["guestcount"] = disk["guestcount"]
  <2>1. load[c].kind \in {"write", "read", "passwd", "login"}
    BY RequestIs DEF IsRequest, ReadingInv
  <2>2. fname(c) # "guestcount"
    BY <2>1, GuestFile
  <2>3. "guestcount" \in Files
    BY DEF Files
  <2> QED
    BY <2>2, <2>3, DiskGoes, WritesOther
<1>2. SUFFICES ASSUME "guestcount" \notin spoilt'
               PROVE  Counted' /\ \A d \in Conns : GuestOK(d)'
  BY DEF GuestInv
<1>3. "guestcount" \notin spoilt /\ Counted /\ \A d \in Conns : GuestOK(d)
  BY <1>2 DEF GuestInv
<1>4. Counted'
  <2>1. ASSUME NEW d \in Conns, conn[d].pc = "flush", load[d].kind = "guest" PROVE Counted'
    <3>1. conn'[d].pc = "flush"
      BY <1>1, <2>1
    <3> QED
      BY <2>1, <3>1 DEF Counted
  <2>2. CASE disk["guestcount"] = NONE /\ guests = <<>>
    BY <1>1, <2>2 DEF Counted
  <2>3. CASE \E m \in Int : disk["guestcount"] = <<m>> /\ Below(m)
    BY <1>1, <2>3 DEF Counted, Below
  <2> QED
    BY <1>3, <2>1, <2>2, <2>3 DEF Counted
<1>5. ASSUME NEW d \in Conns, d # c, load[d].kind = "guest" PROVE GuestOK(d)'
  <2>1. GuestOK(d) /\ Sees(d) /\ fname(d) = "guestcount" /\ conn[d] \in Connection
    BY <1>1, <1>3, <1>5, GuestFile DEF ReadingInv, Types
  <2>2. CASE conn'[d] = conn[d]
    BY <1>1, <2>1, <2>2 DEF GuestOK, Below
  <2>3. CASE /\ conn[d].pc = "fetch"
             /\ conn'[d] = [conn[d] EXCEPT !.saw = conn[d].saw \cup {disk'[fname(d)]}]
    <3>1. conn'[d].pc = "fetch" /\ conn'[d].saw = conn[d].saw \cup {disk'[fname(d)]}
      BY ONLY <2>1, <2>3 DEF Connection
    <3>2. conn'[d].saw = {disk'["guestcount"]}
      BY <1>1, <1>5, <2>1, <2>3, <3>1 DEF GuestOK
    <3> QED
      BY <3>1, <3>2 DEF GuestOK
  <2> QED
    BY <2>1, <2>2, <2>3 DEF Sees
<1>6. \A d \in Conns : GuestOK(d)'
  <2>1. ASSUME NEW d \in Conns, load[d].kind # "guest" PROVE GuestOK(d)'
    BY <2>1 DEF GuestOK
  <2> QED
    BY <1>5, <2>1
<1> QED
  BY <1>4, <1>6

\* Another guest is not at the file.
LEMMA OtherGuestsWait ==
    ASSUME ReadingInv, NEW c \in Conns, load[c].kind = "guest", conn[c].pc \in {"open", "flush"},
           NEW r \in Connection, NewDisk(c, r), load' = load, NEW d \in Conns, d # c
    PROVE  GuestOK(d)'
<1>1. /\ conn'[d].pc = conn[d].pc
  BY WritesOther, AtWork
<1>2. load[d].kind = "guest" => conn[d].pc \notin {"fetch", "open", "flush"}
  BY OneGuest
<1> QED
  BY <1>1, <1>2 DEF GuestOK

LEMMA OpenGuests ==
    ASSUME ReadingInv, GuestInv, NEW c \in Conns, Open(c), load[c].kind = "guest"
    PROVE  GuestInv'
<1> DEFINE r == Going(c, "flush")
<1>1. conn[c].pc = "open" /\ UNCHANGED <<load, guests, spoilt>>
  BY DEF Open, At
<1>2. WritesOn(c, r) /\ r.got = conn[c].got /\ r.work = conn[c].work /\ disk'[fname(c)] = <<>>
  BY OpenWrites
<1>3. conn[c] \in Connection /\ load[c] # NULL
  BY <1>1, AtWork
<1>4. r.pc = "flush"
  BY ONLY <1>3 DEF Going, Connection
<1> HIDE DEF r
<1>5. r \in Connection /\ NewDisk(c, r)
  BY <1>2 DEF WritesOn
<1>6. conn'[c] = r
  BY <1>1, <1>3, <1>5, WritesOther
<1>7. disk'["guestcount"] = <<>>
  BY <1>2, GuestFile
<1>8. SUFFICES ASSUME "guestcount" \notin spoilt'
               PROVE  Counted' /\ \A d \in Conns : GuestOK(d)'
  BY <1>1 DEF GuestInv
<1>9. GuestOK(c)
  BY <1>1, <1>8 DEF GuestInv
<1>10. Counted'
  <2>1. conn'[c].pc = "flush" /\ load'[c].kind = "guest"
    BY <1>1, <1>4, <1>6
  <2> QED
    BY <2>1 DEF Counted
<1>11. GuestOK(c)'
  <2>1. PICK g \in Int : GuestHas(conn[c], g) /\ Below(g)
    BY <1>1, <1>9 DEF GuestOK
  <2>2. GuestHas(r, g) /\ Below(g)'
    BY <1>1, <1>2, <2>1 DEF GuestHas, Below
  <2> QED
    BY <1>4, <1>6, <1>7, <2>2 DEF GuestOK, GuestHas
<1>12. \A d \in Conns \ {c} : GuestOK(d)'
  BY <1>1, <1>5, OtherGuestsWait
<1> QED
  BY <1>10, <1>11, <1>12

\* A number above all others is another one.
LEMMA InjectiveAppend ==
    ASSUME NEW s \in Seq(Int), IsInjective(s), NEW g \in Int, \A i \in DOMAIN s : s[i] < g
    PROVE  /\ s \o <<g>> \in Seq(Int) /\ IsInjective(s \o <<g>>)
           /\ \A i \in DOMAIN (s \o <<g>>) : (s \o <<g>>)[i] < g + 1
<1> DEFINE t == s \o <<g>>
           n == Len(s)
<1>1. n \in Nat /\ DOMAIN s = 1 .. n
  BY LenProperties
<1>2. <<g>> \in Seq(Int) /\ Len(<<g>>) = 1 /\ <<g>>[1] = g
  OBVIOUS
<1>3. t \in Seq(Int) /\ Len(t) = n + 1
  BY <1>2, ConcatProperties
<1>4. /\ \A i \in 1 .. n : t[i] = s[i]
      /\ t[n + 1] = g
  <2>1. \A i \in 1 .. Len(s) + Len(<<g>>) :
           t[i] = IF i <= Len(s) THEN s[i] ELSE <<g>>[i - Len(s)]
    BY <1>2, ConcatProperties
  <2>2. ASSUME NEW i \in 1 .. n PROVE t[i] = s[i]
    <3>1. i \in 1 .. Len(s) + Len(<<g>>) /\ i <= Len(s)
      BY <1>1, <1>2
    <3> QED
      BY <2>1, <3>1
  <2>3. t[n + 1] = g
    <3>1. n + 1 \in 1 .. Len(s) + Len(<<g>>) /\ ~(n + 1 <= Len(s)) /\ (n + 1) - Len(s) = 1
      BY <1>1, <1>2
    <3>2. t[n + 1] = <<g>>[(n + 1) - Len(s)]
      BY <2>1, <3>1
    <3> QED
      BY <1>2, <3>1, <3>2
  <2> QED
    BY <2>2, <2>3
<1>5. DOMAIN t = 1 .. n + 1
  BY <1>3, LenProperties
<1>6. \A i \in 1 .. n : s[i] \in Int /\ s[i] < g
  BY <1>1, ElementOfSeq
<1>7. \A i, j \in 1 .. n : s[i] = s[j] => i = j
  BY <1>1 DEF IsInjective
<1> HIDE DEF t, n
<1>8. \A i \in 1 .. n + 1 : t[i] \in Int /\ t[i] < g + 1
  <2>1. ASSUME NEW i \in 1 .. n + 1 PROVE t[i] \in Int /\ t[i] < g + 1
    <3>1. CASE i \in 1 .. n
      BY <1>4, <1>6, <3>1
    <3>2. CASE i = n + 1
      BY <1>4, <3>2
    <3> QED
      BY <1>1, <2>1, <3>1, <3>2
  <2> QED
    BY <2>1
<1>9. \A i, j \in 1 .. n + 1 : t[i] = t[j] => i = j
  <2>1. ASSUME NEW i \in 1 .. n + 1, NEW j \in 1 .. n + 1, t[i] = t[j] PROVE i = j
    <3>1. CASE i \in 1 .. n /\ j \in 1 .. n
      BY <1>4, <1>7, <2>1, <3>1
    <3>2. CASE i \in 1 .. n /\ j = n + 1
      <4>1. t[i] = s[i] /\ s[i] \in Int /\ s[i] < g /\ t[j] = g
        BY <1>4, <1>6, <3>2
      <4>2. t[i] \in Int /\ t[i] < t[j]
        BY <4>1
      <4> QED
        BY <2>1, <4>2
    <3>3. CASE i = n + 1 /\ j \in 1 .. n
      <4>1. t[j] = s[j] /\ s[j] \in Int /\ s[j] < g /\ t[i] = g
        BY <1>4, <1>6, <3>3
      <4>2. t[j] \in Int /\ t[j] < t[i]
        BY <4>1
      <4> QED
        BY <2>1, <4>2
    <3> QED
      BY <1>1, <2>1, <3>1, <3>2, <3>3
  <2> QED
    BY <2>1
<1> QED
  BY <1>3, <1>5, <1>8, <1>9 DEF IsInjective, t

LEMMA FlushGuests ==
    ASSUME ReadingInv, GuestInv, NEW c \in Conns, Flush(c), load[c].kind = "guest"
    PROVE  GuestInv'
<1> DEFINE r == Answer(c, "written")
<1>1. /\ conn[c].pc = "flush" /\ UNCHANGED <<load, spoilt>>
      /\ guests' = guests \o conn[c].got
      /\ DiskIs(c, Written(disk[fname(c)], conn[c].work), r)
  BY DEF Flush, At, AfterWrite
<1>2. conn[c] \in Connection /\ load[c] # NULL /\ fname(c) = "guestcount"
  BY <1>1, AtWork, GuestFile
<1>3. r \in Connection
  BY <1>2, AnswerIs
<1>4. r.pc = "closed"
  BY ONLY <1>2 DEF Answer, Connection
<1> HIDE DEF r
<1>5. SUFFICES ASSUME "guestcount" \notin spoilt
               PROVE  /\ guests' \in Seq(Int) /\ IsInjective(guests')
                      /\ Counted' /\ \A d \in Conns : GuestOK(d)'
  BY <1>1 DEF GuestInv
<1>6. /\ disk["guestcount"] = <<>> /\ guests \in Seq(Int) /\ IsInjective(guests)
      /\ \E g \in Int : GuestHas(conn[c], g) /\ Below(g)
  BY <1>1, <1>5 DEF GuestInv, GuestOK
<1>7. PICK g \in Int : GuestHas(conn[c], g) /\ Below(g)
  BY <1>6
<1>8. /\ conn[c].work = <<g + 1>> /\ guests' = guests \o <<g>>
      /\ \A i \in DOMAIN guests : guests[i] < g
  BY <1>1, <1>7 DEF GuestHas, Below
<1>9. g + 1 \in Int
  BY <1>7
<1>10. /\ guests' \in Seq(Int) /\ IsInjective(guests')
       /\ \A i \in DOMAIN guests' : guests'[i] < g + 1
  BY <1>6, <1>8, InjectiveAppend
<1>11. Written(<<>>, <<g + 1>>) = <<g + 1>>
  <2>1. <<>> \in Seq(Int) /\ <<g + 1>> \in Seq(Int)
    BY <1>9
  <2> QED
    BY <2>1, WrittenIs
<1>12. DiskIs(c, <<g + 1>>, r)
  BY <1>1, <1>2, <1>6, <1>8, <1>11
<1>13. disk'["guestcount"] = <<g + 1>>
  BY <1>2, <1>12 DEF DiskIs, ReadingInv, Types, Files
<1>14. NewDisk(c, r)
  <2>1. conn[c].work \in Contents(fname(c))
    BY <1>1, AtWork DEF Ready
  <2> QED
    BY <1>8, <1>12, <2>1 DEF NewDisk
<1>15. conn'[c] = r
  BY <1>1, <1>2, <1>3, <1>14, WritesOther
<1>16. Counted'
  BY <1>9, <1>10, <1>13 DEF Counted, Below
<1>17. GuestOK(c)'
  BY <1>4, <1>15 DEF GuestOK
<1>18. \A d \in Conns \ {c} : GuestOK(d)'
  BY <1>1, <1>3, <1>14, OtherGuestsWait
<1> QED
  BY <1>10, <1>16, <1>17, <1>18

LEMMA WritingGuests ==
    ASSUME ReadingInv, GuestInv, NEW c \in Conns,
           Open(c) \/ OpenFails(c) \/ Flush(c) \/ FlushFails(c)
    PROVE  GuestInv'
<1>1. CASE load[c].kind = "guest" /\ (OpenFails(c) \/ FlushFails(c))
  <2>1. fname(c) = "guestcount"
    BY <1>1, GuestFile
  <2>2. "guestcount" \in spoilt'
    BY <1>1, <2>1 DEF OpenFails, FlushFails
  <2> QED
    BY <2>2 DEF GuestInv
<1>2. CASE load[c].kind # "guest"
  <2>1. /\ conn[c].pc \in {"open", "flush"} /\ load' = load /\ guests' = guests
        /\ spoilt \subseteq spoilt'
    BY <1>2 DEF Open, OpenFails, Flush, FlushFails, At, AfterWrite
  <2>2. conn[c] \in Connection /\ load[c] # NULL /\ fname(c) \in Files
    BY <2>1, AtWork
  <2>3. Answer(c, "written") \in Connection
    BY <2>2, AnswerIs
  <2>4. \E r \in Connection : NewDisk(c, r)
    <3>1. CASE Open(c)
      <4>1. WritesOn(c, Going(c, "flush"))
        BY <3>1, OpenWrites
      <4> QED
        BY <4>1 DEF WritesOn
    <3>2. CASE OpenFails(c)
      BY <2>3, <3>2 DEF OpenFails, NewDisk
    <3>3. ASSUME conn[c].pc = "flush", NEW n \in 0 .. Len(conn[c].work),
                 DiskIs(c, Written(disk[fname(c)], SubSeq(conn[c].work, 1, n)), Answer(c, "written"))
          PROVE  \E r \in Connection : NewDisk(c, r)
      BY <2>3, <3>3, FlushedIs DEF NewDisk
    <3>4. CASE Flush(c)
      <4>1. conn[c].pc = "flush"
        BY <3>4 DEF Flush, At
      <4>2. /\ Len(conn[c].work) \in 0 .. Len(conn[c].work)
            /\ SubSeq(conn[c].work, 1, Len(conn[c].work)) = conn[c].work
        BY <4>1, WorkIs
      <4>3. DiskIs(c, Written(disk[fname(c)], conn[c].work), Answer(c, "written"))
        BY <3>4 DEF Flush
      <4> QED
        BY <3>3, <4>1, <4>2, <4>3
    <3>5. CASE FlushFails(c)
      <4>1. conn[c].pc = "flush"
        BY <3>5 DEF FlushFails, At
      <4>2. PICK n \in 0 .. Len(conn[c].work) - 1 :
               DiskIs(c, Written(disk[fname(c)], SubSeq(conn[c].work, 1, n)), Answer(c, "written"))
        BY <3>5 DEF FlushFails
      <4>3. n \in 0 .. Len(conn[c].work)
        BY <4>1, WorkIs
      <4> QED
        BY <3>3, <4>1, <4>2, <4>3
    <3> QED
      BY <3>1, <3>2, <3>4, <3>5
  <2> QED
    BY <1>2, <2>1, <2>2, <2>4, OtherGuests
<1> QED
  BY <1>1, <1>2, OpenGuests, FlushGuests

FilesInv == ReadingInv /\ LastInv /\ GuestInv

LEMMA InitFilesInv == Init => FilesInv
<1> SUFFICES ASSUME Init PROVE FilesInv
  OBVIOUS
<1>1. ReadingInv /\ disk = last /\ guests = <<>>
  BY InitReading DEF Init
<1>2. \A c \in Conns : conn[c].pc = "none"
  <2>1. \A c \in Conns : conn[c] = Fresh
    BY DEF Init
  <2> QED
    BY <2>1, FreshIs
<1>3. LastInv
  <2>1. \A f \in Files : Writing(f) = {}
    BY <1>2 DEF Writing, At
  <2> QED
    BY <1>1, <2>1 DEF LastInv, LastOK
<1>4. GuestInv
  <2>1. disk["guestcount"] = NONE
    BY InitFiles
  <2>2. <<>> \in Seq(Int) /\ DOMAIN <<>> = {}
    OBVIOUS
  <2>3. IsInjective(guests)
    BY <1>1, <2>2 DEF IsInjective
  <2>4. Counted
    BY <1>1, <2>1 DEF Counted
  <2>5. \A c \in Conns : GuestOK(c)
    BY <1>2 DEF GuestOK
  <2> QED
    BY <1>1, <2>2, <2>3, <2>4, <2>5 DEF GuestInv
<1> QED
  BY <1>1, <1>3, <1>4 DEF FilesInv

LEMMA NextFilesInv == FilesInv /\ [Next]_vars => FilesInv'
<1> SUFFICES ASSUME FilesInv, [Next]_vars PROVE FilesInv'
  OBVIOUS
<1>0. ReadingInv /\ LastInv /\ GuestInv
  BY DEF FilesInv
<1>1. ReadingInv'
  BY <1>0, NextReading
<1>2. CASE UNCHANGED vars
  <2>1. LastInv'
    BY <1>0, <1>2 DEF vars, history, LastInv, LastOK, Writing, At, fname
  <2>2. GuestInv'
    BY <1>0, <1>2 DEF vars, history, GuestInv, Counted, GuestOK, Below
  <2> QED
    BY <1>1, <2>1, <2>2 DEF FilesInv
<1>3. CASE Restart
  <2>1. LastInv' /\ GuestInv'
    BY <1>0, <1>3, RestartLast, RestartGuests
  <2> QED
    BY <1>1, <2>1 DEF FilesInv
<1>4. ASSUME NEW c \in Conns, Connect(c) \/ BreakOff(c) \/ Serve(c) \/ Lock(c)
      PROVE  FilesInv'
  <2>1. CASE Connect(c) \/ BreakOff(c) \/ Lock(c) \/ ReadRequest(c) \/ RemoteClosed(c) \/ Parse(c)
             \/ ReadBody(c) \/ ReadReturns(c) \/ Handle(c) \/ Stat(c) \/ Fetch(c)
    <3>1. PICK r : Quiet(c, r)
      BY <1>0, <2>1, QuietSteps
    <3>2. LastInv' /\ GuestInv'
      BY <1>0, <3>1, QuietLast, QuietGuests
    <3> QED
      BY <1>1, <3>2 DEF FilesInv
  <2>2. CASE Open(c) \/ OpenFails(c) \/ Flush(c) \/ FlushFails(c)
    <3>1. LastInv' /\ GuestInv'
      BY <1>0, <2>2, WritingLast, WritingGuests
    <3> QED
      BY <1>1, <3>1 DEF FilesInv
  <2> QED
    BY <1>4, <2>1, <2>2 DEF Serve
<1> QED
  BY <1>2, <1>3, <1>4 DEF Next

LEMMA FilesInvIsInvariant == Spec => []FilesInv
BY InitFilesInv, NextFilesInv, PTL DEF Spec

\* A file holds what the last write should have left there, unless that write was not alone,
\* failed, or was stopped; nothing of what was there before is left over (file.c:102-126).
THEOREM WholeFilesStay == Spec => []LastWriteStays
<1>1. FilesInv => LastWriteStays
  <2>1. FilesInv => \A f \in Files : ~torn[f] /\ Writing(f) = {} => disk[f] = last[f]
    BY DEF FilesInv, LastInv, LastOK
  <2> QED
    BY <2>1 DEF LastWriteStays
<1> QED
  BY <1>1, FilesInvIsInvariant, PTL

\* Guests get different numbers, before and after a restart, until a write of guestcount fails
\* or is stopped: the mutex keeps the others from the file between its being read and its being
\* written (users.c:37-66).
THEOREM GuestsGetDifferentNumbers == Spec => []GuestsDistinct
<1>1. FilesInv => GuestsDistinct
  BY DEF FilesInv, GuestInv, GuestsDistinct
<1> QED
  BY <1>1, FilesInvIsInvariant, PTL

-----------------------------------------------------------------------------
(* The body, as a handler sees it.                                         *)

LEMMA MinOfThree ==
    ASSUME NEW a \in Int, NEW b \in Int, NEW d \in Int
    PROVE  LET n == Min({a, b, d})
           IN  n \in {a, b, d} /\ n <= a /\ n <= b /\ n <= d
<1> DEFINE S == {a, b, d}
<1>1. \E x \in S : \A y \in S : x <= y
  <2>1. \E x \in S : x <= a /\ x <= b /\ x <= d
    OBVIOUS
  <2> QED
    BY <2>1
<1>2. Min(S) \in S /\ \A y \in S : Min(S) <= y
  BY <1>1 DEF Min
<1> QED
  BY <1>2

LEMMA ConcatIs ==
    ASSUME NEW S, NEW s \in Seq(S), NEW t \in Seq(S)
    PROVE  /\ s \o t \in Seq(S) /\ Len(s \o t) = Len(s) + Len(t)
           /\ \A i \in 1 .. Len(s) : (s \o t)[i] = s[i]
           /\ \A i \in 1 .. Len(t) : (s \o t)[Len(s) + i] = t[i]
<1>1. Len(s) \in Nat /\ Len(t) \in Nat
  BY LenProperties
<1>2. /\ s \o t \in Seq(S) /\ Len(s \o t) = Len(s) + Len(t)
      /\ \A i \in 1 .. Len(s) + Len(t) :
            (s \o t)[i] = IF i <= Len(s) THEN s[i] ELSE t[i - Len(s)]
  BY ConcatProperties
<1>3. ASSUME NEW i \in 1 .. Len(s) PROVE (s \o t)[i] = s[i]
  <2>1. i \in 1 .. Len(s) + Len(t) /\ i <= Len(s)
    BY <1>1, <1>3
  <2> QED
    BY <1>2, <2>1
<1>4. ASSUME NEW i \in 1 .. Len(t) PROVE (s \o t)[Len(s) + i] = t[i]
  <2>1. /\ Len(s) + i \in 1 .. Len(s) + Len(t) /\ ~(Len(s) + i <= Len(s))
        /\ (Len(s) + i) - Len(s) = i
    BY <1>1, <1>4
  <2>2. (s \o t)[Len(s) + i] = t[(Len(s) + i) - Len(s)]
    BY <1>2, <2>1
  <2> QED
    BY <2>1, <2>2
<1> QED
  BY <1>2, <1>3, <1>4

\* s begins with buf.
Begins(buf, s) == Len(buf) <= Len(s) /\ \A i \in 1 .. Len(buf) : buf[i] = s[i]

\* Where the head ends is known as soon as the end is there, whatever comes after it.
LEMMA RequestLenOfMore ==
    ASSUME NEW buf \in Seq(Chars), NEW s \in Seq(Chars), Begins(buf, s), get_request_len(buf) > 0
    PROVE  get_request_len(s) = get_request_len(buf)
<1> DEFINE ends(b) == {k \in 1 .. Len(b) - 1 : EndsAt(b, k)}
<1>1. Len(buf) \in Nat /\ Len(s) \in Nat /\ Len(buf) <= Len(s)
  BY LenProperties DEF Begins
<1>2. ends(buf) # {}
  <2> SUFFICES ASSUME ends(buf) = {} PROVE FALSE
    OBVIOUS
  <2>1. get_request_len(buf) \in {-1, 0}
    <3>1. CASE \E k \in 1 .. Len(buf) - 1 : buf[k] = "c"
      BY <3>1 DEF get_request_len
    <3>2. CASE ~ \E k \in 1 .. Len(buf) - 1 : buf[k] = "c"
      BY <3>2 DEF get_request_len
    <3> QED
      BY <3>1, <3>2
  <2> QED
    BY <2>1
<1> DEFINE k == Min(ends(buf))
<1>3. k \in ends(buf) /\ \A j \in ends(buf) : k <= j
  <2>1. ends(buf) \in SUBSET Nat
    BY <1>1
  <2> HIDE DEF ends
  <2> QED
    BY <1>2, <2>1, MinIsIn
<1>4. k \in 1 .. Len(buf) - 1 /\ k \in Nat /\ EndsAt(buf, k)
  BY <1>1, <1>3
<1>5. get_request_len(buf) = IF buf[k + 1] = "n" THEN k + 1 ELSE k + 2
  BY <1>2 DEF get_request_len
<1> HIDE DEF k
<1>6. \A i \in 1 .. Len(buf) : buf[i] = s[i]
  BY DEF Begins
<1>7. buf[k] = s[k] /\ buf[k + 1] = s[k + 1] /\ (k + 2 <= Len(buf) => buf[k + 2] = s[k + 2])
  <2>1. k \in 1 .. Len(buf) /\ k + 1 \in 1 .. Len(buf)
    BY <1>1, <1>4
  <2>2. k + 2 <= Len(buf) => k + 2 \in 1 .. Len(buf)
    BY <1>1, <1>4
  <2> QED
    BY <1>6, <2>1, <2>2
<1>8. k \in ends(s)
  <2>1. k \in 1 .. Len(s) - 1 /\ (k + 2 <= Len(buf) => k + 2 <= Len(s))
    BY <1>1, <1>4
  <2>2. EndsAt(s, k)
    BY <1>4, <1>7, <2>1 DEF EndsAt
  <2> QED
    BY <2>1, <2>2
<1>9. ASSUME NEW j \in ends(s) PROVE k <= j
  <2>1. j \in 1 .. Len(s) - 1 /\ j \in Nat /\ EndsAt(s, j)
    BY <1>1, <1>9
  <2> SUFFICES ASSUME j < k PROVE FALSE
    BY <1>4, <2>1
  <2>2. j \in 1 .. Len(buf) - 1 /\ j + 1 \in 1 .. Len(buf) /\ j + 2 \in 1 .. Len(buf)
        /\ j + 2 <= Len(buf) /\ j \in 1 .. Len(buf)
    BY <1>1, <1>4, <2>1
  <2>3. buf[j] = s[j] /\ buf[j + 1] = s[j + 1] /\ buf[j + 2] = s[j + 2]
    BY <1>6, <2>2
  <2>4. EndsAt(buf, j)
    BY <2>1, <2>2, <2>3 DEF EndsAt
  <2>5. k <= j
    BY <1>3, <2>2, <2>4
  <2> QED
    BY <1>4, <2>1, <2>5
<1>10. Min(ends(s)) = k /\ ends(s) # {}
  <2>1. ends(s) \in SUBSET Nat /\ ends(s) # {}
    BY <1>1, <1>8
  <2> HIDE DEF ends
  <2>2. Min(ends(s)) \in ends(s) /\ \A y \in ends(s) : Min(ends(s)) <= y
    BY <2>1, MinIsIn
  <2>3. Min(ends(s)) \in Nat /\ Min(ends(s)) <= k /\ k <= Min(ends(s))
    BY <1>8, <1>9, <2>1, <2>2
  <2> QED
    BY <1>4, <2>1, <2>3
<1>11. get_request_len(s) = IF s[k + 1] = "n" THEN k + 1 ELSE k + 2
  BY <1>10 DEF get_request_len
<1> QED
  BY <1>5, <1>7, <1>11

Whole(c) == IF load[c].content_len >= 0 THEN load[c].content_len ELSE 0
All(c) == load[c].head \o load[c].body

\* wire holds bytes of s, from the nth on.
Follows(wire, s, n) ==
    /\ n + Len(wire) <= Len(s)
    /\ \A i \in 1 .. Len(wire) : wire[i] = s[n + i]

\* While the head is read: what was read and what is on its way is the request, cut short only
\* by a connection that broke.
HeadPart(c, r) ==
    /\ r.taken = <<>> /\ r.part = 1 /\ r.value = <<>>
    /\ Begins(r.buf, All(c)) /\ Follows(r.wire, All(c), Len(r.buf))
    /\ ~r.gone => Len(r.buf) + Len(r.wire) = Len(All(c))

\* While the body is read: so much of it came with the head; so much of it was taken; what is on
\* its way comes after both.  All that came with the head was taken, or all that this call may.
Ahead(c, r) == Len(r.buf) - Len(load[c].head)
Here(c, r) == IF Len(r.taken) >= Ahead(c, r) THEN Len(r.taken) ELSE Ahead(c, r)
BodyPart(c, r) ==
    /\ IsForm(c)
    /\ Begins(r.buf, All(c)) /\ r.request_len = Len(load[c].head)
    /\ Begins(r.taken, load[c].body)
    /\ Follows(r.wire, load[c].body, Here(c, r))
    /\ ~r.gone => Here(c, r) + Len(r.wire) = Len(load[c].body)
    /\ Len(r.taken) < Ahead(c, r) =>
          Len(r.taken) = IF r.part * BUFF_LEN <= Whole(c) THEN r.part * BUFF_LEN ELSE Whole(c)
    /\ r.part = 1 => Len(r.taken) <= BUFF_LEN
    /\ r.part = 2 => Len(r.taken) >= BUFF_LEN

\* What a handler sees: the body from its first byte on, as far as the bounds go.
ValuePart(c, r) ==
    Begins(r.value, load[c].body) /\ Len(r.value) <= BUFF_LEN /\ Len(r.value) <= Whole(c)
ValueWhole(c, r) ==
    IsForm(c) /\ r.request_len > 0 /\ ~r.gone =>
        Len(r.value) \in {BUFF_LEN, Whole(c)}

BeforeValue == {"none", "request", "parse", "body"}
Ended(r, how) == r.pc = "closed" /\ r.answer \in how

ReadsWell(c, r) ==
    /\ r.pc = "none" => r = Fresh
    /\ r.pc \in {"request", "parse"} => HeadPart(c, r)
    /\ r.pc = "parse" => r.request_len = Len(load[c].head)
    /\ r.pc = "body" => BodyPart(c, r)
    /\ r.pc \notin BeforeValue /\ ~Ended(r, {"cut off"}) => ValuePart(c, r)
    /\ r.pc \notin BeforeValue /\ ~Ended(r, {"cut off", "400"}) => ValueWhole(c, r)

BodyInv == \A c \in Conns : load[c] # NULL => ReadsWell(c, conn[c])

LEMMA BodyAfter ==
    ASSUME load' = load, \A d \in Conns : load[d] # NULL => ReadsWell(d, conn'[d])
    PROVE  BodyInv'
<1>1. ASSUME NEW d \in Conns, load'[d] # NULL PROVE ReadsWell(d, conn[d])'
  <2>1. ReadsWell(d, conn'[d])
    BY <1>1
  <2>2. All(d)' = All(d) /\ Whole(d)' = Whole(d) /\ IsForm(d)' = IsForm(d)
    BY DEF All, Whole, IsForm
  <2>3. HeadPart(d, conn[d])' = HeadPart(d, conn'[d])
    BY <2>2 DEF HeadPart, Begins, Follows
  <2>4. BodyPart(d, conn[d])' = BodyPart(d, conn'[d])
    BY <2>2 DEF BodyPart, Here, Ahead, Begins, Follows
  <2>5. ValuePart(d, conn[d])' = ValuePart(d, conn'[d])
    BY <2>2 DEF ValuePart, Begins
  <2>6. ValueWhole(d, conn[d])' = ValueWhole(d, conn'[d])
    BY <2>2 DEF ValueWhole
  <2> QED
    BY <2>1, <2>3, <2>4, <2>5, <2>6 DEF ReadsWell, Ended, Fresh, BeforeValue
<1> QED
  BY <1>1 DEF BodyInv

\* A step of one connection.
LEMMA BodyGoes ==
    ASSUME Types, BodyInv, NEW c \in Conns, NEW r, Set(c, r), load' = load, ReadsWell(c, r)
    PROVE  BodyInv'
<1>1. conn'[c] = r /\ \A d \in Conns \ {c} : conn'[d] = conn[d]
  BY DEF Types, Set
<1>2. ASSUME NEW d \in Conns, load[d] # NULL PROVE ReadsWell(d, conn'[d])
  <2>1. ReadsWell(d, conn[d])
    BY <1>2 DEF BodyInv
  <2>2. CASE d = c
    BY <1>1, <2>2
  <2>3. CASE d # c
    BY <1>1, <1>2, <2>1, <2>3
  <2> QED
    BY <2>2, <2>3
<1> QED
  BY <1>2, BodyAfter

\* Once a handler has seen the body it does not change.
LEMMA SeenStays ==
    ASSUME NEW c \in Conns, NEW r, ReadsWell(c, conn[c]), SameInput(c, r),
           conn[c].pc \notin BeforeValue \cup {"closed"}, r.pc \notin BeforeValue
    PROVE  ReadsWell(c, r)
<1>1. ValuePart(c, r) /\ ValueWhole(c, r)
  BY DEF ReadsWell, SameInput, ValuePart, ValueWhole, Ended
<1> QED
  BY <1>1 DEF ReadsWell, BeforeValue

\* The head of a request ends with the first empty line of what is sent.
LEMMA HeadLen ==
    ASSUME NEW r, IsRequest(r)
    PROVE  get_request_len(r.head \o r.body) = Len(r.head)
<1> DEFINE s == r.head \o r.body
           ends == {k \in 1 .. Len(s) - 1 : EndsAt(s, k)}
<1>1. s \in Seq(Chars) /\ Len(s) \in Nat
  <2>1. r.head \in Seq(Chars) /\ r.body \in Seq(Chars)
    BY DEF IsRequest
  <2>2. s \in Seq(Chars)
    BY <2>1, ConcatProperties
  <2> QED
    BY <2>2, LenProperties
<1>2. PICK k \in 1 .. Len(s) - 1 :
        /\ EmptyLine(s, k) /\ \A j \in 1 .. k - 1 : ~EmptyLine(s, j)
        /\ Len(r.head) = IF s[k + 1] = "n" THEN k + 1 ELSE k + 2
  BY DEF IsRequest
<1>3. get_request_len(s) = IF ends # {} THEN IF s[Min(ends) + 1] = "n" THEN Min(ends) + 1
                                             ELSE Min(ends) + 2
                           ELSE get_request_len(s)
  BY DEF get_request_len
<1> HIDE DEF s
<1>4. k \in Nat /\ k \in ends
  BY <1>1, <1>2 DEF EmptyLine, EndsAt
<1>5. \A j \in ends : k <= j
  <2> SUFFICES ASSUME NEW j \in ends, j < k PROVE FALSE
    BY <1>1, <1>4
  <2>1. j \in 1 .. k - 1 /\ EndsAt(s, j)
    BY <1>1, <1>4
  <2> QED
    BY <1>2, <2>1 DEF EmptyLine, EndsAt
<1>6. ends \in SUBSET Nat
  BY <1>1
<1> HIDE DEF ends
<1>7. Min(ends) \in ends /\ \A y \in ends : Min(ends) <= y
  BY <1>4, <1>6, MinIsIn
<1>8. Min(ends) = k
  <2>1. Min(ends) \in Nat /\ Min(ends) <= k /\ k <= Min(ends)
    BY <1>4, <1>5, <1>6, <1>7
  <2> QED
    BY <1>4, <2>1
<1>9. get_request_len(s) = Len(r.head)
  BY <1>2, <1>3, <1>4, <1>8
<1> QED
  BY <1>9 DEF s

LEMMA RequestParts ==
    ASSUME Types, NEW c \in Conns, load[c] # NULL
    PROVE  /\ load[c].head \in Seq(Chars) /\ Len(load[c].head) \in Nat
           /\ load[c].body \in Seq(Chars) /\ Len(load[c].body) \in Nat
           /\ All(c) \in Seq(Chars) /\ Len(All(c)) = Len(load[c].head) + Len(load[c].body)
           /\ \A i \in 1 .. Len(load[c].body) : All(c)[Len(load[c].head) + i] = load[c].body[i]
           /\ get_request_len(All(c)) = Len(load[c].head)
           /\ load[c].content_len \in Int /\ Whole(c) \in Nat
<1>1. IsRequest(load[c])
  BY RequestIs
<1>2. /\ load[c].head \in Seq(Chars) /\ load[c].body \in Seq(Chars)
      /\ load[c].content_len \in Int /\ get_request_len(All(c)) = Len(load[c].head)
  <2>1. get_request_len(load[c].head \o load[c].body) = Len(load[c].head)
    BY <1>1, HeadLen
  <2> QED
    BY <1>1, <2>1 DEF IsRequest, All
<1>3. /\ All(c) \in Seq(Chars) /\ Len(All(c)) = Len(load[c].head) + Len(load[c].body)
      /\ \A i \in 1 .. Len(load[c].body) : All(c)[Len(load[c].head) + i] = load[c].body[i]
  <2> DEFINE s == load[c].head
             t == load[c].body
  <2>1. s \in Seq(Chars) /\ t \in Seq(Chars) /\ All(c) = s \o t
    BY <1>2 DEF All
  <2> HIDE DEF s, t
  <2>2. /\ s \o t \in Seq(Chars) /\ Len(s \o t) = Len(s) + Len(t)
        /\ \A i \in 1 .. Len(t) : (s \o t)[Len(s) + i] = t[i]
    BY ONLY <2>1, ConcatIs
  <2> QED
    BY <2>1, <2>2 DEF s, t
<1>4. Whole(c) \in Nat
  BY <1>2 DEF Whole
<1>5. Len(load[c].head) \in Nat /\ Len(load[c].body) \in Nat
  BY <1>2, LenProperties
<1> QED
  BY <1>2, <1>3, <1>4, <1>5

\* What a handler sees before any of the body was read, or if none is.
LEMMA NothingSeen ==
    ASSUME Types, NEW c \in Conns, load[c] # NULL, NEW r, r.value = <<>>, r.pc \notin BeforeValue,
           IsForm(c) => r.request_len <= 0 \/ Ended(r, {"400"}), r.request_len \in Int
    PROVE  ReadsWell(c, r)
<1>1. Len(r.value) = 0
  BY EmptySeq
<1>2. Len(load[c].body) \in Nat /\ Whole(c) \in Nat
  BY RequestParts
<1>3. ValuePart(c, r)
  BY <1>1, <1>2, BufferSizes DEF ValuePart, Begins
<1>4. ~Ended(r, {"cut off", "400"}) => ValueWhole(c, r)
  <2>1. IsForm(c) /\ ~Ended(r, {"cut off", "400"}) => r.request_len <= 0
    BY DEF Ended
  <2>2. r.request_len <= 0 => ~(r.request_len > 0)
    OBVIOUS
  <2>3. ~(IsForm(c) /\ ~Ended(r, {"cut off", "400"}) /\ r.request_len > 0)
    BY <2>1, <2>2
  <2> QED
    BY <2>3 DEF ValueWhole
<1> QED
  BY <1>3, <1>4 DEF ReadsWell, BeforeValue

\* What is on its way, cut short.
LEMMA FollowsLess ==
    ASSUME NEW wire \in Seq(Chars), NEW s, NEW k \in Nat, Len(s) \in Nat, Follows(wire, s, k),
           NEW n \in 0 .. Len(wire)
    PROVE  Follows(SubSeq(wire, 1, n), s, k)
<1>1. /\ Len(SubSeq(wire, 1, n)) = n /\ n <= Len(wire) /\ n \in Nat /\ Len(wire) \in Nat
      /\ \A i \in 1 .. n : SubSeq(wire, 1, n)[i] = wire[i]
  BY PrefixIs, LenProperties
<1> DEFINE w == SubSeq(wire, 1, n)
<1> HIDE DEF w
<1>2. Len(w) = n /\ \A i \in 1 .. n : w[i] = wire[i]
  BY <1>1 DEF w
<1>3. k + Len(w) <= Len(s)
  BY <1>1, <1>2 DEF Follows
<1>4. \A i \in 1 .. Len(w) : w[i] = s[k + i]
  BY <1>1, <1>2 DEF Follows
<1>5. Follows(w, s, k)
  BY <1>3, <1>4 DEF Follows
<1> QED
  BY <1>5 DEF w

\* Of what is on its way, bytes arrive and rest is what is left.
Splits(wire, bytes, rest) ==
    /\ bytes \in Seq(Chars) /\ rest \in Seq(Chars) /\ Len(bytes) <= Len(wire)
    /\ \A i \in 1 .. Len(bytes) : bytes[i] = wire[i]
    /\ Len(rest) = Len(wire) - Len(bytes)
    /\ \A i \in 1 .. Len(rest) : rest[i] = wire[Len(bytes) + i]

LEMMA PulledSplits ==
    ASSUME Types, NEW c \in Conns, NEW n \in Nat, NEW bytes \in Pulled(c, n)
    PROVE  Splits(conn[c].wire, bytes, Rest(c, bytes)) /\ Len(bytes) <= n
<1>1. Len(bytes) \in 1 .. Len(conn[c].wire) => Len(bytes) <= Len(conn[c].wire)
  OBVIOUS
<1> QED
  BY <1>1, PulledIs DEF Splits

\* What arrives goes on where what was read ends.
LEMMA Arrives ==
    ASSUME NEW had \in Seq(Chars), NEW wire \in Seq(Chars), NEW s, Len(s) \in Nat,
           Begins(had, s), Follows(wire, s, Len(had)),
           NEW bytes, NEW rest, Splits(wire, bytes, rest)
    PROVE  /\ Begins(had \o bytes, s) /\ Follows(rest, s, Len(had \o bytes))
           /\ Len(had \o bytes) = Len(had) + Len(bytes)
           /\ Len(had \o bytes) + Len(rest) = Len(had) + Len(wire)
<1> DEFINE now == had \o bytes
<1>0. /\ bytes \in Seq(Chars) /\ rest \in Seq(Chars) /\ Len(bytes) <= Len(wire)
      /\ \A i \in 1 .. Len(bytes) : bytes[i] = wire[i]
      /\ Len(rest) = Len(wire) - Len(bytes)
      /\ \A i \in 1 .. Len(rest) : rest[i] = wire[Len(bytes) + i]
  BY DEF Splits
<1>1. /\ Len(now) = Len(had) + Len(bytes)
      /\ \A i \in 1 .. Len(had) : now[i] = had[i]
      /\ \A i \in 1 .. Len(bytes) : now[Len(had) + i] = bytes[i]
  BY <1>0, ConcatIs
<1>2. /\ Len(had) \in Nat /\ Len(bytes) \in Nat /\ Len(wire) \in Nat /\ Len(rest) \in Nat
  BY <1>0, LenProperties
<1> HIDE DEF now
<1>3. Len(had) + Len(wire) <= Len(s)
  BY <1>0 DEF Follows
<1>4. ASSUME NEW i \in 1 .. Len(now) PROVE now[i] = s[i]
  <2>1. CASE i <= Len(had)
    <3>1. i \in 1 .. Len(had)
      BY <1>0, <1>2, <2>1
    <3> QED
      BY <1>0, <1>1, <3>1 DEF Begins
  <2>2. CASE i > Len(had)
    <3>1. i - Len(had) \in 1 .. Len(bytes) /\ i - Len(had) \in 1 .. Len(wire)
          /\ Len(had) + (i - Len(had)) = i
      BY <1>0, <1>1, <1>2, <2>2
    <3>2. now[i] = wire[i - Len(had)]
      BY <1>0, <1>1, <3>1
    <3>3. wire[i - Len(had)] = s[Len(had) + (i - Len(had))]
      BY <1>0, <3>1 DEF Follows
    <3> QED
      BY <1>0, <3>1, <3>2, <3>3
  <2> QED
    BY <1>0, <1>2, <2>1, <2>2
<1>5. ASSUME NEW i \in 1 .. Len(rest) PROVE rest[i] = s[Len(now) + i]
  <2>1. Len(bytes) + i \in 1 .. Len(wire)
    BY <1>0, <1>2
  <2>2. wire[Len(bytes) + i] = s[Len(had) + (Len(bytes) + i)]
    BY <1>0, <2>1 DEF Follows
  <2>3. Len(had) + (Len(bytes) + i) = Len(now) + i
    BY <1>0, <1>1, <1>2
  <2> QED
    BY <1>0, <2>2, <2>3
<1>6. Len(now) <= Len(s) /\ Len(now) + Len(rest) <= Len(s)
      /\ Len(now) + Len(rest) = Len(had) + Len(wire)
  BY <1>0, <1>1, <1>2, <1>3
<1>7. Begins(now, s)
  BY <1>0, <1>4, <1>6 DEF Begins
<1>8. Follows(rest, s, Len(now))
  BY <1>0, <1>5, <1>6 DEF Follows
<1> QED
  BY <1>1, <1>6, <1>7, <1>8 DEF now

\* While a request is read, what is known is what was read.
LEMMA ReadsHead ==
    ASSUME NEW c, NEW r, HeadPart(c, r),
           r.pc = "request" \/ (r.pc = "parse" /\ r.request_len = Len(load[c].head))
    PROVE  ReadsWell(c, r)
<1>1. r.pc \in BeforeValue /\ r.pc \notin {"none", "body"}
  BY DEF BeforeValue
<1> QED
  BY <1>1 DEF ReadsWell

LEMMA ReadsBody ==
    ASSUME NEW c, NEW r, BodyPart(c, r), r.pc = "body"
    PROVE  ReadsWell(c, r)
<1>1. r.pc \in BeforeValue /\ r.pc \notin {"none", "request", "parse"}
  BY DEF BeforeValue
<1> QED
  BY <1>1 DEF ReadsWell

\* A browser connects.
LEMMA ConnectBody ==
    ASSUME Types, BodyInv, NEW c \in Conns, Connect(c)
    PROVE  BodyInv'
<1> DEFINE r == [Going(c, "request") EXCEPT !.wire = load[c].head \o load[c].body]
<1>1. Set(c, r) /\ load' = load /\ load[c] # NULL /\ conn[c].pc = "none"
  BY DEF Connect, At
<1>2. conn[c] = Fresh
  BY <1>1 DEF BodyInv, ReadsWell
<1>3. /\ r.pc = "request" /\ r.taken = <<>> /\ r.part = 1 /\ r.value = <<>> /\ r.buf = <<>>
      /\ r.wire = All(c)
  <2>1. conn[c] \in Connection
    BY DEF Types
  <2>2. /\ r.pc = "request" /\ r.taken = conn[c].taken /\ r.part = conn[c].part
        /\ r.value = conn[c].value /\ r.buf = conn[c].buf
        /\ r.wire = load[c].head \o load[c].body
    BY ONLY <2>1 DEF Connection, Going
  <2> QED
    BY <1>2, <2>2, FreshIs DEF All
<1>4. All(c) \in Seq(Chars) /\ Len(All(c)) \in Nat
  BY <1>1, RequestParts, LenProperties
<1> HIDE DEF r
<1>5. Len(r.buf) = 0
  BY <1>3
<1>6. Begins(r.buf, All(c)) /\ Follows(r.wire, All(c), 0)
  BY ONLY <1>3, <1>4, <1>5 DEF Begins, Follows
<1>7. HeadPart(c, r)
  BY <1>3, <1>4, <1>5, <1>6 DEF HeadPart
<1>8. ReadsWell(c, r)
  BY <1>3, <1>7, ReadsHead
<1> QED
  BY <1>1, <1>8, BodyGoes

\* A connection breaks.
LEMMA BreakBody ==
    ASSUME Types, BodyInv, NEW c \in Conns, BreakOff(c)
    PROVE  BodyInv'
<1>1. PICK n \in 0 .. Len(conn[c].wire) - 1 :
         Set(c, [conn[c] EXCEPT !.wire = SubSeq(conn[c].wire, 1, n), !.gone = TRUE])
  BY DEF BreakOff
<1> DEFINE w == SubSeq(conn[c].wire, 1, n)
           r == [conn[c] EXCEPT !.wire = w, !.gone = TRUE]
<1>2. load' = load /\ conn[c].pc \in {"request", "body"} /\ load[c] # NULL /\ conn[c] \in Connection
  BY DEF BreakOff, Types
<1>3. /\ r.pc = conn[c].pc /\ r.taken = conn[c].taken /\ r.part = conn[c].part
      /\ r.value = conn[c].value /\ r.buf = conn[c].buf /\ r.wire = w /\ r.gone = TRUE
      /\ r.request_len = conn[c].request_len
  BY ONLY <1>2 DEF Connection
<1>4. conn[c].wire \in Seq(Chars) /\ conn[c].buf \in Seq(Chars) /\ conn[c].taken \in Seq(Chars)
  BY ONLY <1>2 DEF Connection
<1>5. Len(conn[c].buf) \in Nat /\ Len(conn[c].taken) \in Nat /\ Len(conn[c].wire) \in Nat
  BY ONLY <1>4, LenProperties
<1>6. n \in 0 .. Len(conn[c].wire)
  BY <1>5
<1>7. ReadsWell(c, conn[c])
  BY <1>2 DEF BodyInv
<1>8. ASSUME conn[c].pc = "request" PROVE ReadsWell(c, r)
  <2>1. HeadPart(c, conn[c])
    BY <1>7, <1>8 DEF ReadsWell
  <2>2. Len(All(c)) \in Nat
    BY <1>2, RequestParts, LenProperties
  <2>3. Follows(w, All(c), Len(conn[c].buf))
    BY <1>4, <1>5, <1>6, <2>1, <2>2, FollowsLess DEF HeadPart
  <2> HIDE DEF w, r
  <2>4. HeadPart(c, r)
    BY <1>3, <2>1, <2>3 DEF HeadPart
  <2>5. r.pc = "request"
    BY <1>3, <1>8
  <2> QED
    BY ONLY <2>4, <2>5, ReadsHead
<1>9. ASSUME conn[c].pc = "body" PROVE ReadsWell(c, r)
  <2>1. BodyPart(c, conn[c])
    BY <1>7, <1>9 DEF ReadsWell
  <2>2. Len(load[c].body) \in Nat /\ Len(load[c].head) \in Nat
    BY <1>2, RequestParts
  <2>3. Here(c, conn[c]) \in Nat
    <3>1. Ahead(c, conn[c]) \in Int
      BY ONLY <1>5, <2>2 DEF Ahead
    <3> QED
      BY ONLY <1>5, <3>1 DEF Here
  <2>4. Follows(w, load[c].body, Here(c, conn[c]))
    BY <1>4, <1>6, <2>1, <2>2, <2>3, FollowsLess DEF BodyPart
  <2> HIDE DEF w, r
  <2>5. Here(c, r) = Here(c, conn[c]) /\ Ahead(c, r) = Ahead(c, conn[c])
    BY <1>3 DEF Here, Ahead
  <2>6. BodyPart(c, r)
    BY <1>3, <2>1, <2>4, <2>5 DEF BodyPart
  <2>7. r.pc = "body"
    BY <1>3, <1>9
  <2> QED
    BY ONLY <2>6, <2>7, ReadsBody
<1> HIDE DEF r
<1>10. ReadsWell(c, r)
  BY <1>2, <1>8, <1>9
<1>11. Set(c, r)
  BY <1>1 DEF r
<1> QED
  BY <1>2, <1>10, <1>11, BodyGoes

\* The head is read.
LEMMA RequestBody ==
    ASSUME Types, InputInv, BodyInv, NEW c \in Conns, ReadRequest(c)
    PROVE  BodyInv'
<1>1. /\ load' = load /\ conn[c].pc = "request" /\ load[c] # NULL /\ conn[c] \in Connection
      /\ InputOK(c)
  BY DEF ReadRequest, At, Types, InputInv
<1>2. HeadPart(c, conn[c])
  BY <1>1 DEF BodyInv, ReadsWell
<1> DEFINE nextOf(now, len) ==
              CASE len = 0 /\ Len(now) = BUF_SIZE -> Answer(c, "413")
                [] len = 0 /\ Len(now) < BUF_SIZE -> conn[c]
                [] len < 0 -> Answer(c, "none")
                [] len > 0 -> Going(c, "parse")
           goes(bytes, now, len) ==
              [nextOf(now, len) EXCEPT !.wire = Rest(c, bytes), !.buf = now, !.request_len = len]
<1>3. PICK bytes \in Pulled(c, BUF_SIZE - Len(conn[c].buf)) :
         Set(c, goes(bytes, conn[c].buf \o bytes, get_request_len(conn[c].buf \o bytes)))
  BY DEF ReadRequest
<1> DEFINE now == conn[c].buf \o bytes
           len == get_request_len(now)
           r == goes(bytes, now, len)
<1>4. Set(c, r)
  BY <1>3
<1>5. conn[c].buf \in Seq(Chars) /\ conn[c].wire \in Seq(Chars) /\ Len(conn[c].buf) \in Nat
  <2>1. conn[c].buf \in Seq(Chars) /\ conn[c].wire \in Seq(Chars)
    BY ONLY <1>1 DEF Connection
  <2> QED
    BY <2>1, LenProperties
<1>6. BUF_SIZE - Len(conn[c].buf) \in Nat
  BY <1>1, <1>5, BufferSizes DEF InputOK
<1>7. /\ Splits(conn[c].wire, bytes, Rest(c, bytes))
      /\ Len(bytes) <= BUF_SIZE - Len(conn[c].buf)
      /\ bytes \in Seq(Chars)
  <2>1. Splits(conn[c].wire, bytes, Rest(c, bytes)) /\ Len(bytes) <= BUF_SIZE - Len(conn[c].buf)
    BY <1>6, PulledSplits
  <2> QED
    BY <2>1 DEF Splits
<1>8. Len(All(c)) \in Nat /\ All(c) \in Seq(Chars) /\ get_request_len(All(c)) = Len(load[c].head)
  BY <1>1, RequestParts, LenProperties
<1>9. /\ Begins(now, All(c)) /\ Follows(Rest(c, bytes), All(c), Len(now))
      /\ Len(now) = Len(conn[c].buf) + Len(bytes)
      /\ Len(now) + Len(Rest(c, bytes)) = Len(conn[c].buf) + Len(conn[c].wire)
  <2>1. Begins(conn[c].buf, All(c)) /\ Follows(conn[c].wire, All(c), Len(conn[c].buf))
    BY <1>2 DEF HeadPart
  <2> DEFINE had == conn[c].buf
             wire == conn[c].wire
             rest == Rest(c, bytes)
             s == All(c)
  <2>2. /\ had \in Seq(Chars) /\ wire \in Seq(Chars) /\ Len(s) \in Nat
        /\ Begins(had, s) /\ Follows(wire, s, Len(had)) /\ Splits(wire, bytes, rest)
    BY <2>1, <1>5, <1>7, <1>8
  <2> HIDE DEF had, wire, rest, s
  <2>3. /\ Begins(had \o bytes, s) /\ Follows(rest, s, Len(had \o bytes))
        /\ Len(had \o bytes) = Len(had) + Len(bytes)
        /\ Len(had \o bytes) + Len(rest) = Len(had) + Len(wire)
    BY ONLY <2>2, Arrives
  <2> QED
    BY <2>3 DEF had, wire, rest, s
<1>10. now \in Seq(Chars) /\ len \in Int
  <2>1. now \in Seq(Chars)
    BY <1>5, <1>7, ConcatIs
  <2> QED
    BY <2>1, RequestLen
<1>11. len > 0 => len = Len(load[c].head)
  BY <1>8, <1>9, <1>10, RequestLenOfMore
<1>12. Len(now) <= BUF_SIZE /\ Len(now) \in Nat
  <2>1. Len(bytes) \in Nat
    BY <1>7, LenProperties
  <2> QED
    BY <1>5, <1>7, <1>9, <2>1, BufferSizes
<1> HIDE DEF now, len
<1> DEFINE next == nextOf(now, len)
<1>13. \/ len = 0 /\ next = Answer(c, "413")
       \/ len = 0 /\ next = conn[c]
       \/ len < 0 /\ next = Answer(c, "none")
       \/ len > 0 /\ next = Going(c, "parse")
  BY <1>10, <1>12, BufferSizes
<1> HIDE DEF next
<1>14. r = [next EXCEPT !.wire = Rest(c, bytes), !.buf = now, !.request_len = len]
  BY DEF next
<1> HIDE DEF r
<1>15. next \in Connection /\ next.pc \in {"request", "closed", "parse"}
       /\ (next.pc = "parse" => len > 0) /\ (next.pc = "closed" => len <= 0)
       /\ next.taken = conn[c].taken /\ next.part = conn[c].part /\ next.value = conn[c].value
       /\ next.gone = conn[c].gone
  <2>1. CASE len = 0 /\ next = Answer(c, "413")
    <3>1. /\ next \in Connection /\ next.pc = "closed" /\ next.gone = conn[c].gone
          /\ next.taken = conn[c].taken /\ next.part = conn[c].part /\ next.value = conn[c].value
      <4>1. conn[c] \in Connection /\ next = Answer(c, "413")
        BY <1>1, <2>1
      <4>2. next \in Connection
        BY <4>1, AnswerIs DEF Pcs
      <4> QED
        BY ONLY <4>1, <4>2 DEF Answer, Connection
    <3>2. len <= 0
      BY <2>1
    <3> QED
      BY <3>1, <3>2
  <2>2. CASE len = 0 /\ next = conn[c]
    BY <1>1, <2>2
  <2>3. CASE len < 0 /\ next = Answer(c, "none")
    <3>1. /\ next \in Connection /\ next.pc = "closed" /\ next.gone = conn[c].gone
          /\ next.taken = conn[c].taken /\ next.part = conn[c].part /\ next.value = conn[c].value
      <4>1. conn[c] \in Connection /\ next = Answer(c, "none")
        BY <1>1, <2>3
      <4>2. next \in Connection
        BY <4>1, AnswerIs DEF Pcs
      <4> QED
        BY ONLY <4>1, <4>2 DEF Answer, Connection
    <3>2. len <= 0
      BY <2>3, <1>10
    <3> QED
      BY <3>1, <3>2
  <2>4. CASE len > 0 /\ next = Going(c, "parse")
    <3>1. /\ next \in Connection /\ next.pc = "parse" /\ next.gone = conn[c].gone
          /\ next.taken = conn[c].taken /\ next.part = conn[c].part /\ next.value = conn[c].value
      <4>1. conn[c] \in Connection /\ next = Going(c, "parse")
        BY <1>1, <2>4
      <4>2. next \in Connection
        BY <4>1, GoingIs DEF Pcs
      <4> QED
        BY ONLY <4>1, <4>2 DEF Going, Connection
    <3> QED
      BY <2>4, <3>1
  <2> QED
    BY <1>13, <2>1, <2>2, <2>3, <2>4
<1>16. /\ r.pc = next.pc /\ r.taken = next.taken /\ r.part = next.part /\ r.value = next.value
       /\ r.gone = next.gone /\ r.buf = now /\ r.wire = Rest(c, bytes) /\ r.request_len = len
  BY ONLY <1>14, <1>15 DEF Connection
<1>17. ASSUME r.pc = "closed" PROVE ReadsWell(c, r)
  <2>1. r.value = <<>> /\ r.request_len <= 0 /\ r.request_len \in Int
    BY <1>2, <1>10, <1>15, <1>16, <1>17 DEF HeadPart
  <2>2. r.pc \notin BeforeValue
    BY <1>17 DEF BeforeValue
  <2> QED
    BY <1>1, <2>1, <2>2, NothingSeen
<1>18. ASSUME r.pc \in {"request", "parse"} PROVE ReadsWell(c, r)
  <2>1. HeadPart(c, r)
    BY <1>2, <1>9, <1>15, <1>16 DEF HeadPart
  <2>2. r.pc = "parse" => r.request_len = Len(load[c].head)
    BY <1>11, <1>15, <1>16
  <2> QED
    BY <1>18, <2>1, <2>2, ReadsHead
<1>19. ReadsWell(c, r)
  BY <1>15, <1>16, <1>17, <1>18
<1>20. Set(c, r)
  BY <1>4
<1> QED
  BY <1>1, <1>19, <1>20, BodyGoes

\* The remote end closed the connection before the head's end came.
LEMMA ClosedBody ==
    ASSUME Types, InputInv, BodyInv, NEW c \in Conns, RemoteClosed(c)
    PROVE  BodyInv'
<1> DEFINE r == Answer(c, "none")
<1>1. /\ load' = load /\ conn[c].pc = "request" /\ load[c] # NULL /\ conn[c] \in Connection
      /\ InputOK(c) /\ Set(c, r)
  BY DEF RemoteClosed, At, Types, InputInv
<1>2. HeadPart(c, conn[c])
  BY <1>1 DEF BodyInv, ReadsWell
<1>3. /\ r.pc = "closed" /\ r.value = conn[c].value /\ r.request_len = conn[c].request_len
      /\ r.request_len \in Int
  BY ONLY <1>1 DEF Answer, Connection
<1>4. r.request_len <= 0 /\ r.value = <<>>
  BY <1>1, <1>2, <1>3 DEF InputOK, HeadPart
<1> HIDE DEF r
<1>5. r.pc \notin BeforeValue
  BY <1>3 DEF BeforeValue
<1>6. ReadsWell(c, r)
  BY <1>1, <1>3, <1>4, <1>5, NothingSeen
<1> QED
  BY <1>1, <1>6, BodyGoes

\* What mg_read takes from the buffer for a body is the body's, from where it was read on.
LEMMA HeadHasBody ==
    ASSUME Types, InputInv, NEW c \in Conns, conn[c].pc \in {"parse", "body"},
           conn[c].request_len = Len(load[c].head), Begins(conn[c].buf, All(c))
    PROVE  LET t == Len(conn[c].taken)
               bytes == FromHead(c)
               most == Whole(c) - t
               n == IF BUFF_LEN <= most THEN BUFF_LEN ELSE most
               there == Ahead(c, conn[c]) - t
           IN  /\ bytes \in Seq(Chars) /\ t \in Nat /\ t <= Whole(c)
               /\ Ahead(c, conn[c]) \in Nat /\ Ahead(c, conn[c]) <= Len(load[c].body)
               /\ Len(bytes) = IF n <= there THEN n ELSE IF there >= 0 THEN there ELSE 0
               /\ \A i \in 1 .. Len(bytes) : bytes[i] = load[c].body[t + i]
<1> DEFINE t == Len(conn[c].taken)
           bytes == FromHead(c)
           h == Len(load[c].head)
           buf == conn[c].buf
<1>1. load[c] # NULL /\ conn[c] \in Connection /\ InputOK(c)
  BY DEF Types, InputInv
<1>2. buf \in Seq(Chars) /\ conn[c].taken \in Seq(Chars)
  BY ONLY <1>1 DEF Connection
<1>3. t \in Nat /\ Len(buf) \in Nat
  BY ONLY <1>2, LenProperties
<1>4. /\ h \in Nat /\ Len(load[c].body) \in Nat /\ Len(All(c)) = h + Len(load[c].body)
      /\ \A i \in 1 .. Len(load[c].body) : All(c)[h + i] = load[c].body[i]
      /\ load[c].content_len \in Int /\ Whole(c) \in Nat
  BY <1>1, RequestParts
<1>5. t <= Whole(c) /\ h <= Len(buf)
  BY <1>1 DEF InputOK, Whole
<1>6. LET most == IF load[c].content_len >= t THEN load[c].content_len - t ELSE 0
          n == IF BUFF_LEN <= most THEN BUFF_LEN ELSE most
          there == Len(buf) - h - t
      IN  /\ bytes \in Seq(Chars)
          /\ Len(bytes) = IF n <= there THEN n ELSE IF there >= 0 THEN there ELSE 0
          /\ \A i \in 1 .. Len(bytes) : bytes[i] = buf[h + t + i]
  BY FromHeadIs
<1>7. Len(buf) <= Len(All(c)) /\ \A i \in 1 .. Len(buf) : buf[i] = All(c)[i]
  BY DEF Begins
<1>8. Whole(c) - t = IF load[c].content_len >= t THEN load[c].content_len - t ELSE 0
  <2> DEFINE cl == load[c].content_len
  <2>1. cl \in Int /\ Whole(c) = (IF cl >= 0 THEN cl ELSE 0)
    BY <1>4 DEF Whole
  <2> HIDE DEF cl, t
  <2>2. Whole(c) - t = IF cl >= t THEN cl - t ELSE 0
    BY ONLY <1>3, <1>5, <2>1
  <2> QED
    BY <2>2 DEF cl
<1>9. Ahead(c, conn[c]) = Len(buf) - h
  BY DEF Ahead
<1> HIDE DEF t, bytes, h, buf
<1>10. Ahead(c, conn[c]) \in Nat /\ Ahead(c, conn[c]) <= Len(load[c].body)
  BY ONLY <1>3, <1>4, <1>5, <1>7, <1>9
<1>11. /\ bytes \in Seq(Chars)
       /\ LET most == Whole(c) - t
              n == IF BUFF_LEN <= most THEN BUFF_LEN ELSE most
              there == Ahead(c, conn[c]) - t
          IN  Len(bytes) = IF n <= there THEN n ELSE IF there >= 0 THEN there ELSE 0
  <2>1. Len(buf) - h - t = Ahead(c, conn[c]) - t
    BY ONLY <1>9
  <2> QED
    BY <1>6, <1>8, <2>1
<1>12. ASSUME NEW i \in 1 .. Len(bytes) PROVE bytes[i] = load[c].body[t + i]
  <2>1. Len(bytes) \in Nat
    BY <1>11, LenProperties
  <2>2. Len(bytes) <= Ahead(c, conn[c]) - t
    BY ONLY <1>11, <1>12, <1>3, <1>4, <1>10, <2>1, BufferSizes
  <2>3. h + t + i \in 1 .. Len(buf) /\ t + i \in 1 .. Len(load[c].body) /\ h + (t + i) = h + t + i
    <3> DEFINE a == Ahead(c, conn[c])
               b == Len(load[c].body)
    <3>1. h \in Nat /\ b \in Nat
      BY ONLY <1>4
    <3>2. a = Len(buf) - h /\ a <= b /\ a \in Nat
      BY ONLY <1>9, <1>10
    <3>3. i \in Nat /\ i >= 1 /\ i <= a - t
      <4>1. i \in Nat /\ i >= 1 /\ i <= Len(bytes)
        BY ONLY <1>12, <2>1
      <4> HIDE DEF a
      <4> QED
        BY ONLY <1>3, <2>1, <2>2, <3>2, <4>1 DEF a
    <3> HIDE DEF a, b
    <3>4. h + t + i \in 1 .. Len(buf) /\ t + i \in 1 .. b /\ h + (t + i) = h + t + i
      BY ONLY <1>3, <3>1, <3>2, <3>3
    <3> QED
      BY <3>4 DEF b
  <2>4. bytes[i] = buf[h + t + i]
    BY <1>6
  <2>5. buf[h + t + i] = All(c)[h + (t + i)]
    BY <1>7, <2>3
  <2>6. All(c)[h + (t + i)] = load[c].body[t + i]
    BY <1>4, <2>3
  <2> QED
    BY <2>4, <2>5, <2>6
<1> QED
  BY <1>3, <1>5, <1>10, <1>11, <1>12 DEF t, bytes

\* The head is parsed: what of the body came with it is taken.
LEMMA ParseBody ==
    ASSUME Types, InputInv, BodyInv, NEW c \in Conns, Parse(c)
    PROVE  BodyInv'
<1> DEFINE r1 == Answer(c, "400")
           r2 == [Going(c, "body") EXCEPT !.taken = FromHead(c)]
           r3 == Going(c, "handler")
<1>1. /\ load' = load /\ conn[c].pc = "parse" /\ load[c] # NULL /\ conn[c] \in Connection
      /\ \/ Set(c, r1)
         \/ IsForm(c) /\ Set(c, r2)
         \/ ~IsForm(c) /\ Set(c, r3)
  BY DEF Parse, At, Types
<1>2. HeadPart(c, conn[c]) /\ conn[c].request_len = Len(load[c].head)
  BY <1>1 DEF BodyInv, ReadsWell
<1>3. /\ conn[c].taken = <<>> /\ conn[c].part = 1 /\ conn[c].value = <<>>
      /\ Begins(conn[c].buf, All(c)) /\ Follows(conn[c].wire, All(c), Len(conn[c].buf))
      /\ ~conn[c].gone => Len(conn[c].buf) + Len(conn[c].wire) = Len(All(c))
  BY <1>2 DEF HeadPart
<1>4. CASE Set(c, r1)
  <2>1. r1.pc = "closed" /\ r1.answer = "400" /\ r1.value = conn[c].value /\ r1.request_len \in Int
    BY ONLY <1>1 DEF Answer, Connection
  <2> HIDE DEF r1
  <2>2. r1.pc \notin BeforeValue /\ Ended(r1, {"400"})
    BY <2>1 DEF BeforeValue, Ended
  <2>3. ReadsWell(c, r1)
    BY <1>1, <1>3, <2>1, <2>2, NothingSeen
  <2> QED
    BY <1>1, <1>4, <2>3, BodyGoes
<1>5. CASE ~IsForm(c) /\ Set(c, r3)
  <2>1. r3.pc = "handler" /\ r3.value = conn[c].value /\ r3.request_len \in Int
    BY ONLY <1>1 DEF Going, Connection
  <2> HIDE DEF r3
  <2>2. r3.pc \notin BeforeValue
    BY <2>1 DEF BeforeValue
  <2>3. ReadsWell(c, r3)
    BY <1>1, <1>3, <1>5, <2>1, <2>2, NothingSeen
  <2> QED
    BY <1>1, <1>5, <2>3, BodyGoes
<1>6. CASE IsForm(c) /\ Set(c, r2)
  <2> DEFINE body == load[c].body
             buf == conn[c].buf
             wire == conn[c].wire
             bytes == FromHead(c)
             a == Ahead(c, conn[c])
             h == Len(load[c].head)
  <2>1. /\ r2.pc = "body" /\ r2.taken = bytes /\ r2.buf = buf /\ r2.part = conn[c].part
        /\ r2.wire = wire /\ r2.gone = conn[c].gone /\ r2.request_len = conn[c].request_len
    BY ONLY <1>1 DEF Going, Connection
  <2>2. Len(conn[c].taken) = 0
    BY <1>3
  <2>3. /\ bytes \in Seq(Chars)
        /\ a \in Nat /\ a <= Len(body)
        /\ LET n == IF BUFF_LEN <= Whole(c) THEN BUFF_LEN ELSE Whole(c)
           IN  Len(bytes) = IF n <= a THEN n ELSE a
        /\ \A i \in 1 .. Len(bytes) : bytes[i] = body[i]
    <3>1. conn[c].pc \in {"parse", "body"}
      BY <1>1
    <3>2. LET t == Len(conn[c].taken)
              most == Whole(c) - t
              n == IF BUFF_LEN <= most THEN BUFF_LEN ELSE most
              there == a - t
          IN  /\ bytes \in Seq(Chars)
              /\ a \in Nat /\ a <= Len(body)
              /\ Len(bytes) = IF n <= there THEN n ELSE IF there >= 0 THEN there ELSE 0
              /\ \A i \in 1 .. Len(bytes) : bytes[i] = body[t + i]
      BY <1>2, <1>3, <3>1, HeadHasBody
    <3> HIDE DEF bytes, a, body
    <3>3. Whole(c) \in Nat /\ a \in Nat
      BY <1>1, <3>2, RequestParts
    <3>4. Whole(c) - 0 = Whole(c) /\ a - 0 = a /\ \A i \in Nat : 0 + i = i
      BY ONLY <3>3
    <3>5. Len(bytes) \in Nat
      BY <3>2, LenProperties
    <3>6. \A i \in 1 .. Len(bytes) : bytes[i] = body[i]
      BY <2>2, <3>2, <3>4, <3>5
    <3> QED
      BY <2>2, <3>2, <3>4, <3>6
  <2>4. /\ h \in Nat /\ Len(body) \in Nat /\ Whole(c) \in Nat /\ Len(All(c)) = h + Len(body)
        /\ \A i \in 1 .. Len(body) : All(c)[h + i] = body[i]
    BY <1>1, RequestParts
  <2>5. Len(buf) \in Nat /\ Len(wire) \in Nat
    <3>1. buf \in Seq(Chars) /\ wire \in Seq(Chars)
      BY ONLY <1>1 DEF Connection
    <3> QED
      BY <3>1, LenProperties
  <2>6. a = Len(buf) - h
    BY DEF Ahead
  <2>7. Len(bytes) \in Nat /\ Len(bytes) <= a /\ Len(bytes) <= BUFF_LEN
        /\ (Len(bytes) < a => Len(bytes) = IF BUFF_LEN <= Whole(c) THEN BUFF_LEN ELSE Whole(c))
    <3> HIDE DEF bytes, a, body
    <3>1. Len(bytes) \in Nat
      BY <2>3, LenProperties
    <3> QED
      BY ONLY <2>3, <2>4, <3>1, BufferSizes
  <2>8. Begins(bytes, body)
    <3> HIDE DEF bytes, a, body
    <3> QED
      BY <2>3, <2>4, <2>7 DEF Begins
  <2>9. Follows(wire, body, a) /\ (~conn[c].gone => a + Len(wire) = Len(body))
    <3> HIDE DEF a, body, h, wire, buf
    <3>1. Len(buf) + Len(wire) <= Len(All(c))
          /\ \A i \in 1 .. Len(wire) : wire[i] = All(c)[Len(buf) + i]
      BY <1>3 DEF Follows, wire, buf
    <3>2. a + Len(wire) <= Len(body)
      BY ONLY <2>4, <2>5, <2>6, <3>1
    <3>3. ASSUME NEW i \in 1 .. Len(wire) PROVE wire[i] = body[a + i]
      <4>1. Len(buf) + i = h + (a + i) /\ a + i \in 1 .. Len(body)
        BY ONLY <2>3, <2>4, <2>5, <2>6, <3>2, <3>3
      <4> QED
        BY <2>4, <3>1, <4>1
    <3>4. ~conn[c].gone => Len(buf) + Len(wire) = Len(All(c))
      BY <1>3 DEF buf, wire
    <3>5. Len(buf) + Len(wire) = Len(All(c)) => a + Len(wire) = Len(body)
      BY ONLY <2>4, <2>5, <2>6
    <3> QED
      BY <3>2, <3>3, <3>4, <3>5 DEF Follows
  <2> HIDE DEF r2
  <2>10. Ahead(c, r2) = a
    BY <2>1 DEF Ahead
  <2>11. Here(c, r2) = a
    <3> HIDE DEF a, bytes
    <3>1. Here(c, r2) = IF Len(bytes) >= a THEN Len(bytes) ELSE a
      BY <2>1, <2>10 DEF Here
    <3> QED
      BY ONLY <2>3, <2>7, <3>1
  <2>12. 1 * BUFF_LEN = BUFF_LEN
    BY BufferSizes
  <2>13. BodyPart(c, r2)
    <3> HIDE DEF a, bytes, wire, buf, body
    <3>1. r2.part = 1 /\ r2.part # 2 /\ r2.part * BUFF_LEN = BUFF_LEN
      BY <1>3, <2>1, <2>12
    <3>2. /\ Begins(r2.buf, All(c)) /\ r2.request_len = Len(load[c].head)
          /\ Begins(r2.taken, load[c].body)
          /\ Follows(r2.wire, load[c].body, Here(c, r2))
          /\ ~r2.gone => Here(c, r2) + Len(r2.wire) = Len(load[c].body)
      BY <1>2, <1>3, <2>1, <2>8, <2>9, <2>11 DEF body, buf
    <3>3. /\ Len(r2.taken) < Ahead(c, r2) =>
                Len(r2.taken) = IF r2.part * BUFF_LEN <= Whole(c) THEN r2.part * BUFF_LEN ELSE Whole(c)
          /\ Len(r2.taken) <= BUFF_LEN
      BY <2>1, <2>7, <2>10, <3>1
    <3> QED
      BY <1>6, <3>1, <3>2, <3>3 DEF BodyPart
  <2>14. ReadsWell(c, r2)
    BY <2>1, <2>13, ReadsBody
  <2> QED
    BY <1>1, <1>6, <2>14, BodyGoes
<1> QED
  BY <1>1, <1>4, <1>5, <1>6

\* More of the body is read: all that came with the head was taken before.
LEMMA MoreBody ==
    ASSUME Types, InputInv, BodyInv, NEW c \in Conns, ReadBody(c)
    PROVE  BodyInv'
<1> DEFINE goes(bytes) ==
              [conn[c] EXCEPT !.taken = conn[c].taken \o bytes, !.wire = Rest(c, bytes)]
<1>1. /\ load' = load /\ conn[c].pc = "body" /\ load[c] # NULL /\ conn[c] \in Connection
      /\ InputOK(c) /\ Wanted(c) > 0
  BY DEF ReadBody, At, Types, InputInv
<1>2. PICK bytes \in Pulled(c, Wanted(c)) : Set(c, goes(bytes))
  BY DEF ReadBody
<1> DEFINE r == goes(bytes)
           had == conn[c].taken
           wire == conn[c].wire
           rest == Rest(c, bytes)
           body == load[c].body
           t == Len(conn[c].taken)
           a == Ahead(c, conn[c])
           upTo == conn[c].part * BUFF_LEN
<1>3. BodyPart(c, conn[c])
  BY <1>1 DEF BodyInv, ReadsWell
<1>4. /\ had \in Seq(Chars) /\ wire \in Seq(Chars) /\ conn[c].buf \in Seq(Chars)
      /\ conn[c].part \in {1, 2}
  BY ONLY <1>1 DEF Connection
<1>5. t \in Nat /\ Len(wire) \in Nat /\ Len(conn[c].buf) \in Nat
  BY ONLY <1>4, LenProperties
<1>6. Len(body) \in Nat /\ Len(load[c].head) \in Nat /\ Whole(c) \in Nat
  BY <1>1, RequestParts
<1>7. a \in Int
  BY <1>5, <1>6 DEF Ahead
<1>8. /\ Wanted(c) = (IF upTo <= Whole(c) THEN upTo ELSE Whole(c)) - t
      /\ Wanted(c) \in Int
  <2>1. LET whole == IF load[c].content_len >= 0 THEN load[c].content_len ELSE 0
        IN  /\ Wanted(c) = (IF upTo <= whole THEN upTo ELSE whole) - t
            /\ Wanted(c) \in Int
    BY <1>1, WantedIs
  <2> QED
    BY <2>1 DEF Whole
<1>9. upTo \in Nat /\ (conn[c].part = 1 => upTo = BUFF_LEN)
  <2>1. CASE conn[c].part = 1
    BY <2>1, BufferSizes
  <2>2. CASE conn[c].part = 2
    BY <2>2, BufferSizes
  <2> QED
    BY <1>4, <2>1, <2>2
<1>10. t < a => t = IF upTo <= Whole(c) THEN upTo ELSE Whole(c)
  BY <1>3 DEF BodyPart
<1>11. t >= a /\ Wanted(c) \in Nat
  <2> HIDE DEF t, a, upTo
  <2>1. Wanted(c) > 0
    BY <1>1
  <2> QED
    BY ONLY <1>5, <1>6, <1>7, <1>8, <1>9, <1>10, <2>1
<1>12. Here(c, conn[c]) = t
  BY <1>11 DEF Here
<1>13. /\ Splits(wire, bytes, rest) /\ Len(bytes) <= Wanted(c)
  BY <1>11, PulledSplits
<1>14. Begins(had, body) /\ Follows(wire, body, Len(had))
       /\ (~conn[c].gone => t + Len(wire) = Len(body))
  BY <1>3, <1>12 DEF BodyPart
<1> DEFINE now == had \o bytes
<1>15. /\ r.pc = "body" /\ r.buf = conn[c].buf /\ r.wire = rest /\ r.gone = conn[c].gone
       /\ r.request_len = conn[c].request_len /\ r.taken = now /\ r.part = conn[c].part
  BY ONLY <1>1 DEF Connection
<1>16. Set(c, r)
  BY <1>2
<1> HIDE DEF had, wire, rest, body, r
<1>17. /\ Begins(now, body) /\ Follows(rest, body, Len(now))
       /\ Len(now) = Len(had) + Len(bytes)
       /\ Len(now) + Len(rest) = Len(had) + Len(wire)
  BY ONLY <1>4, <1>6, <1>13, <1>14, Arrives
<1>18. Len(had) = t /\ Len(bytes) \in Nat
  <2>1. bytes \in Seq(Chars)
    BY <1>13 DEF Splits
  <2> QED
    BY <2>1, LenProperties DEF had
<1> HIDE DEF now
<1>19. Ahead(c, r) = a
  BY <1>15 DEF Ahead
<1>20. Len(now) >= a /\ Len(now) \in Nat /\ Len(now) >= t
       /\ (conn[c].part = 1 => Len(now) <= BUFF_LEN)
  <2> HIDE DEF t, a, upTo
  <2>1. Len(now) <= upTo
    BY ONLY <1>5, <1>6, <1>8, <1>9, <1>13, <1>17, <1>18
  <2> QED
    BY ONLY <1>5, <1>7, <1>9, <1>11, <1>17, <1>18, <2>1
<1>21. Here(c, r) = Len(now)
  BY <1>15, <1>19, <1>20 DEF Here
<1>22. /\ IsForm(c) /\ Begins(r.buf, All(c)) /\ r.request_len = Len(load[c].head)
       /\ (conn[c].part = 2 => t >= BUFF_LEN)
  BY <1>3, <1>15 DEF BodyPart
<1>23. ~r.gone => Len(now) + Len(rest) = Len(body)
  <2>1. Len(now) + Len(rest) = t + Len(wire)
    BY <1>17, <1>18
  <2> QED
    BY <1>14, <1>15, <2>1
<1>24. /\ ~(Len(r.taken) < Ahead(c, r))
       /\ (r.part = 1 => Len(r.taken) <= BUFF_LEN)
       /\ (r.part = 2 => Len(r.taken) >= BUFF_LEN)
  <2> HIDE DEF t, a
  <2>1. t >= BUFF_LEN => Len(now) >= BUFF_LEN
    BY ONLY <1>5, <1>20, BufferSizes
  <2>2. ~(Len(now) < a)
    BY ONLY <1>7, <1>20
  <2> QED
    BY <1>15, <1>19, <1>20, <1>22, <2>1, <2>2
<1>25. BodyPart(c, r)
  BY <1>15, <1>17, <1>21, <1>22, <1>23, <1>24 DEF BodyPart, body
<1>26. ReadsWell(c, r)
  BY <1>15, <1>25, ReadsBody
<1> QED
  BY <1>1, <1>16, <1>26, BodyGoes

\* The first mg_read filled its buffer; the second begins.
LEMMA SecondBody ==
    ASSUME Types, InputInv, BodyInv, NEW c \in Conns, conn[c].pc = "body",
           conn[c].part = 1, Len(conn[c].taken) = BUFF_LEN,
           NEW r, r = [conn[c] EXCEPT !.part = 2, !.taken = conn[c].taken \o FromHead(c)]
    PROVE  ReadsWell(c, r)
<1> DEFINE had == conn[c].taken
           wire == conn[c].wire
           bytes == FromHead(c)
           now == had \o bytes
           body == load[c].body
           a == Ahead(c, conn[c])
<1>1. load[c] # NULL /\ conn[c] \in Connection /\ conn[c].pc = "body"
  BY DEF Types
<1>2. BodyPart(c, conn[c])
  BY <1>1 DEF BodyInv, ReadsWell
<1>3. had \in Seq(Chars)
  BY ONLY <1>1 DEF Connection
<1>4. Len(body) \in Nat /\ Whole(c) \in Nat
  BY <1>1, RequestParts
<1>5. /\ IsForm(c) /\ Begins(conn[c].buf, All(c)) /\ conn[c].request_len = Len(load[c].head)
      /\ Begins(had, body) /\ Follows(wire, body, Here(c, conn[c]))
      /\ (~conn[c].gone => Here(c, conn[c]) + Len(wire) = Len(body))
  BY <1>2 DEF BodyPart
<1>6. /\ r.pc = "body" /\ r.buf = conn[c].buf /\ r.wire = wire /\ r.gone = conn[c].gone
      /\ r.request_len = conn[c].request_len /\ r.taken = now /\ r.part = 2
  <2>1. r = [conn[c] EXCEPT !.part = 2, !.taken = conn[c].taken \o FromHead(c)]
    OBVIOUS
  <2> QED
    BY ONLY <1>1, <2>1 DEF Connection
<1>7. Len(had) = BUFF_LEN
  OBVIOUS
<1>8. LET t == Len(had)
          most == Whole(c) - t
          n == IF BUFF_LEN <= most THEN BUFF_LEN ELSE most
          there == a - t
      IN  /\ bytes \in Seq(Chars) /\ t \in Nat /\ t <= Whole(c)
          /\ a \in Nat /\ a <= Len(body)
          /\ Len(bytes) = IF n <= there THEN n ELSE IF there >= 0 THEN there ELSE 0
          /\ \A i \in 1 .. Len(bytes) : bytes[i] = body[t + i]
  <2>1. conn[c].pc \in {"parse", "body"}
    OBVIOUS
  <2> QED
    BY <1>5, <2>1, HeadHasBody
<1> HIDE DEF had, bytes, body, a
<1>9. /\ Len(now) = Len(had) + Len(bytes)
      /\ \A i \in 1 .. Len(had) : now[i] = had[i]
      /\ \A i \in 1 .. Len(bytes) : now[Len(had) + i] = bytes[i]
  <2>1. bytes \in Seq(Chars)
    BY <1>8
  <2> QED
    BY ONLY <1>3, <2>1, ConcatIs
<1>10. Len(bytes) \in Nat
  BY <1>8, LenProperties
<1> HIDE DEF now
<1>11. /\ Len(now) \in Nat /\ Len(now) >= BUFF_LEN
       /\ Len(now) = BUFF_LEN \/ Len(now) <= a
       /\ BUFF_LEN >= a => Len(now) = BUFF_LEN
       /\ Len(now) < a => Len(now) = IF 2 * BUFF_LEN <= Whole(c) THEN 2 * BUFF_LEN ELSE Whole(c)
  <2> DEFINE w == Whole(c)
             l == Len(now)
             b == Len(bytes)
  <2>1. /\ BUFF_LEN \in Nat /\ BUFF_LEN > 0 /\ BUFF_LEN <= w /\ a \in Nat /\ w \in Nat
        /\ l = BUFF_LEN + b /\ b \in Nat
        /\ LET most == w - BUFF_LEN
               n == IF BUFF_LEN <= most THEN BUFF_LEN ELSE most
               there == a - BUFF_LEN
           IN  b = IF n <= there THEN n ELSE IF there >= 0 THEN there ELSE 0
    BY <1>4, <1>7, <1>8, <1>9, <1>10, BufferSizes
  <2> HIDE DEF w, l, b
  <2>2. /\ l \in Nat /\ l >= BUFF_LEN
        /\ l = BUFF_LEN \/ l <= a
        /\ BUFF_LEN >= a => l = BUFF_LEN
        /\ l < a => l = IF 2 * BUFF_LEN <= w THEN 2 * BUFF_LEN ELSE w
    BY ONLY <2>1
  <2> QED
    BY <2>2 DEF w, l
<1>12. Len(had) <= Len(body) /\ \A i \in 1 .. Len(had) : had[i] = body[i]
  BY <1>5 DEF Begins
<1>13. Begins(now, body)
  <2>1. Len(now) <= Len(body)
    BY ONLY <1>4, <1>7, <1>8, <1>11, <1>12
  <2>2. ASSUME NEW i \in 1 .. Len(now) PROVE now[i] = body[i]
    <3>1. CASE i \in 1 .. Len(had)
      BY <1>9, <1>12, <3>1
    <3>2. CASE i - Len(had) \in 1 .. Len(bytes)
      <4>1. Len(had) + (i - Len(had)) = i
        BY ONLY <1>8, <2>2, <1>11
      <4>2. now[Len(had) + (i - Len(had))] = bytes[i - Len(had)]
        BY <1>9, <3>2
      <4>3. bytes[i - Len(had)] = body[Len(had) + (i - Len(had))]
        BY <1>8, <3>2
      <4> QED
        BY <4>1, <4>2, <4>3
    <3> QED
      BY <1>8, <1>9, <1>10, <3>1, <3>2
  <2> QED
    BY <2>1, <2>2 DEF Begins
<1>14. Ahead(c, r) = a
  BY <1>6 DEF Ahead, a
<1>15. Here(c, r) = Here(c, conn[c])
  <2>1. Here(c, r) = IF Len(now) >= a THEN Len(now) ELSE a
    BY ONLY <1>6, <1>14 DEF Here
  <2>2. Here(c, conn[c]) = IF Len(had) >= a THEN Len(had) ELSE a
    BY DEF Here, had, a
  <2> QED
    BY ONLY <1>7, <1>8, <1>11, <2>1, <2>2, BufferSizes
<1>16. /\ Begins(r.buf, All(c)) /\ r.request_len = Len(load[c].head)
       /\ Begins(r.taken, load[c].body)
       /\ Follows(r.wire, load[c].body, Here(c, r))
       /\ ~r.gone => Here(c, r) + Len(r.wire) = Len(load[c].body)
  BY <1>5, <1>6, <1>13, <1>15 DEF body
<1>17. /\ Len(r.taken) < Ahead(c, r) =>
             Len(r.taken) = IF r.part * BUFF_LEN <= Whole(c) THEN r.part * BUFF_LEN ELSE Whole(c)
       /\ r.part # 1 /\ Len(r.taken) >= BUFF_LEN
  <2>1. r.part # 1 /\ r.part * BUFF_LEN = 2 * BUFF_LEN
    BY <1>6
  <2> QED
    BY <1>6, <1>11, <1>14, <2>1
<1>18. BodyPart(c, r)
  BY <1>5, <1>16, <1>17 DEF BodyPart
<1> QED
  BY <1>6, <1>18, ReadsBody

\* mg_read returned: the handler sees what it read.
LEMMA ReturnsBody ==
    ASSUME Types, InputInv, BodyInv, NEW c \in Conns, ReadReturns(c)
    PROVE  BodyInv'
<1> DEFINE t == Len(conn[c].taken)
           n == Min({BUFF_LEN, t})
           r1 == [conn[c] EXCEPT !.part = 2, !.taken = conn[c].taken \o FromHead(c)]
           v == SubSeq(conn[c].taken, 1, n)
           r2 == [Going(c, "handler") EXCEPT !.value = v]
<1>1. /\ load' = load /\ conn[c].pc = "body" /\ load[c] # NULL /\ conn[c] \in Connection
      /\ InputOK(c) /\ (Wanted(c) <= 0 \/ AtEnd(c))
      /\ \/ conn[c].part = 1 /\ t = BUFF_LEN /\ Set(c, r1)
         \/ Set(c, r2)
  BY DEF ReadReturns, At, Types, InputInv
<1>2. CASE conn[c].part = 1 /\ t = BUFF_LEN /\ Set(c, r1)
  <2> HIDE DEF t, r1
  <2>1. Len(conn[c].taken) = BUFF_LEN
    BY <1>2 DEF t
  <2>2. ReadsWell(c, r1)
    BY <1>1, <1>2, <2>1, SecondBody DEF r1
  <2> QED
    BY <1>1, <1>2, <2>2, BodyGoes
<1>3. CASE Set(c, r2)
  <2>1. BodyPart(c, conn[c])
    BY <1>1 DEF BodyInv, ReadsWell
  <2>2. conn[c].taken \in Seq(Chars) /\ conn[c].part \in {1, 2}
    BY ONLY <1>1 DEF Connection
  <2>3. t \in Nat /\ Whole(c) \in Nat /\ Len(load[c].body) \in Nat
    BY <1>1, <2>2, LenProperties, RequestParts
  <2>4. n = IF BUFF_LEN <= t THEN BUFF_LEN ELSE t
    BY <2>3, BufferSizes, MinOfTwo
  <2> HIDE DEF n
  <2>5. n \in 0 .. t /\ n <= BUFF_LEN /\ n \in Nat
    <3> HIDE DEF t
    <3> QED
      BY <2>3, <2>4, BufferSizes
  <2>6. Len(v) = n /\ \A i \in 1 .. n : v[i] = conn[c].taken[i]
    BY <2>2, <2>5, PrefixIs
  <2> HIDE DEF v
  <2>7. t <= Whole(c) /\ t <= Len(load[c].body) /\ \A i \in 1 .. t : conn[c].taken[i] = load[c].body[i]
    BY <1>1, <2>1 DEF InputOK, Whole, BodyPart, Begins
  <2>8. /\ r2.pc = "handler" /\ r2.value = v /\ r2.gone = conn[c].gone
    BY ONLY <1>1 DEF Going, Connection
  <2> HIDE DEF r2
  <2>9. ValuePart(c, r2)
    <3> HIDE DEF t
    <3>1. n <= Len(load[c].body) /\ n <= Whole(c)
      BY ONLY <2>3, <2>5, <2>7
    <3>2. \A i \in 1 .. n : v[i] = load[c].body[i]
      BY <2>3, <2>5, <2>6, <2>7
    <3> QED
      BY <2>5, <2>6, <2>8, <3>1, <3>2 DEF ValuePart, Begins
  <2>10. ~r2.gone => Len(v) \in {BUFF_LEN, Whole(c)}
    <3> SUFFICES ASSUME ~conn[c].gone PROVE n \in {BUFF_LEN, Whole(c)}
      BY <2>6, <2>8
    <3>1. Wanted(c) <= 0
      BY <1>1 DEF AtEnd
    <3> DEFINE upTo == conn[c].part * BUFF_LEN
    <3>2. Wanted(c) = (IF upTo <= Whole(c) THEN upTo ELSE Whole(c)) - t
      <4>1. LET whole == IF load[c].content_len >= 0 THEN load[c].content_len ELSE 0
            IN  Wanted(c) = (IF upTo <= whole THEN upTo ELSE whole) - t
        BY <1>1, WantedIs
      <4> QED
        BY <4>1 DEF Whole
    <3>3. upTo \in Nat /\ upTo >= BUFF_LEN
      <4>1. CASE conn[c].part = 1
        BY <4>1, BufferSizes
      <4>2. CASE conn[c].part = 2
        BY <4>2, BufferSizes
      <4> QED
        BY <2>2, <4>1, <4>2
    <3> HIDE DEF upTo, t
    <3>4. t >= BUFF_LEN \/ t = Whole(c)
      BY ONLY <2>3, <2>7, <3>1, <3>2, <3>3, BufferSizes
    <3>5. n = BUFF_LEN \/ n = Whole(c)
      BY ONLY <2>3, <2>4, <3>4, BufferSizes
    <3> QED
      BY <3>5
  <2>11. ValueWhole(c, r2)
    BY <2>8, <2>10 DEF ValueWhole
  <2>12. ReadsWell(c, r2)
    BY <2>8, <2>9, <2>11 DEF ReadsWell, BeforeValue
  <2> QED
    BY <1>1, <1>3, <2>12, BodyGoes
<1> QED
  BY <1>1, <1>2, <1>3

\* Handlers do not touch what was read.
LEMMA HandlersBody ==
    ASSUME ReadingInv, BodyInv, NEW c \in Conns, Handle(c) \/ Lock(c) \/ Stat(c) \/ Fetch(c)
    PROVE  BodyInv'
<1>1. Types /\ InputInv /\ ReadyInv
  BY DEF ReadingInv
<1>2. PICK r : /\ Set(c, r) /\ SameInput(c, r) /\ load' = load /\ load[c] # NULL
               /\ r.pc \notin BeforeValue /\ conn[c].pc \notin BeforeValue \cup {"closed"}
  <2>1. CASE Handle(c)
    <3>1. PICK r : ReadsOn(c, r) /\ Asks(c, r)
      BY <1>1, <2>1, HandleReads
    <3>2. conn[c].pc = "handler"
      BY <2>1 DEF Handle, At
    <3>3. /\ Set(c, r) /\ SameInput(c, r) /\ load' = load /\ load[c] # NULL
          /\ r.pc \in {"open", "stat", "lock", "closed"}
      BY <3>1 DEF ReadsOn, Asks
    <3> QED
      BY <3>2, <3>3 DEF BeforeValue
  <2>2. CASE Lock(c) \/ Stat(c) \/ Fetch(c)
    <3>1. PICK r : MovesOn(c, r)
      BY <2>2, MovingMoves
    <3>2. conn[c].pc \in {"lock", "stat", "fetch"}
      BY <2>2 DEF Lock, Stat, Fetch, At
    <3>3. /\ Set(c, r) /\ SameInput(c, r) /\ load' = load /\ load[c] # NULL
          /\ r.pc \in {"stat", "fetch", "open", "closed"}
      BY <3>1 DEF MovesOn
    <3> QED
      BY <3>2, <3>3 DEF BeforeValue
  <2> QED
    BY <2>1, <2>2
<1>3. ReadsWell(c, conn[c])
  BY <1>2 DEF BodyInv
<1>4. ReadsWell(c, r)
  BY <1>2, <1>3, SeenStays
<1> QED
  BY <1>1, <1>2, <1>4, BodyGoes

\* Nor do writes, of this or of another connection.
LEMMA WritesBody ==
    ASSUME Types, BodyInv, NEW c \in Conns, Open(c) \/ OpenFails(c) \/ Flush(c) \/ FlushFails(c)
    PROVE  BodyInv'
<1>1. /\ load' = load /\ conn[c].pc \in {"open", "flush"} /\ load[c] # NULL
      /\ conn \in [Conns -> Connection]
  BY DEF Open, OpenFails, Flush, FlushFails, At, Types
<1>2. PICK r \in {Going(c, "flush"), Answer(c, "written")} :
         Set(c, r) \/ \E file : DiskIs(c, file, r)
  <2>1. CASE Open(c)
    BY <2>1 DEF Open
  <2>2. CASE OpenFails(c)
    BY <2>2 DEF OpenFails
  <2>3. CASE Flush(c)
    BY <2>3 DEF Flush
  <2>4. CASE FlushFails(c)
    BY <2>4 DEF FlushFails
  <2> QED
    BY <2>1, <2>2, <2>3, <2>4
<1>3. conn[c] \in Connection
  BY <1>1
<1>4. r.pc \in {"flush", "closed"} /\ SameInput(c, r)
  <2>1. CASE r = Going(c, "flush")
    BY ONLY <1>3, <2>1 DEF Going, Connection, SameInput
  <2>2. CASE r = Answer(c, "written")
    BY ONLY <1>3, <2>2 DEF Answer, Connection, SameInput
  <2> QED
    BY <2>1, <2>2
<1>5. /\ conn'[c] = r
      /\ \A d \in Conns \ {c} :
            \/ conn'[d] = conn[d]
            \/ \E saw : conn[d].pc = "fetch" /\ conn'[d] = [conn[d] EXCEPT !.saw = saw]
  <2>1. CASE Set(c, r)
    BY <1>1, <2>1 DEF Set
  <2>2. CASE \E file : DiskIs(c, file, r)
    BY <2>2 DEF DiskIs, At
  <2> QED
    BY <1>2, <2>1, <2>2
<1>6. ASSUME NEW d \in Conns, load[d] # NULL PROVE ReadsWell(d, conn'[d])
  <2>1. ReadsWell(d, conn[d]) /\ conn[d] \in Connection
    BY <1>1, <1>6 DEF BodyInv
  <2>2. CASE d = c
    <3>1. conn[c].pc \notin BeforeValue \cup {"closed"} /\ r.pc \notin BeforeValue
      BY <1>1, <1>4 DEF BeforeValue
    <3> QED
      BY <1>4, <1>5, <2>1, <2>2, <3>1, SeenStays
  <2>3. CASE conn'[d] = conn[d]
    BY <2>1, <2>3
  <2>4. ASSUME NEW saw, conn[d].pc = "fetch", conn'[d] = [conn[d] EXCEPT !.saw = saw]
        PROVE  ReadsWell(d, conn'[d])
    <3> DEFINE q == [conn[d] EXCEPT !.saw = saw]
    <3>1. q.pc = conn[d].pc /\ SameInput(d, q)
      BY ONLY <2>1 DEF Connection, SameInput
    <3> HIDE DEF q
    <3>2. conn[d].pc \notin BeforeValue \cup {"closed"} /\ q.pc \notin BeforeValue
      BY <2>4, <3>1 DEF BeforeValue
    <3>3. ReadsWell(d, q)
      BY <1>6, <2>1, <3>1, <3>2, SeenStays
    <3> QED
      BY <2>4, <3>3 DEF q
  <2> QED
    BY <1>5, <1>6, <2>2, <2>3, <2>4
<1> QED
  BY <1>1, <1>6, BodyAfter

\* What was cut off by the server's end is not looked at.
LEMMA RestartBody ==
    ASSUME Types, BodyInv, Restart
    PROVE  BodyInv'
<1>1. load' = load
  BY DEF Restart
<1>2. ASSUME NEW d \in Conns, load[d] # NULL PROVE ReadsWell(d, conn'[d])
  <2>1. ReadsWell(d, conn[d]) /\ conn[d] \in Connection
    BY <1>2 DEF BodyInv, Types
  <2>2. CASE conn'[d] = conn[d]
    BY <2>1, <2>2
  <2>3. CASE conn'[d] = Answer(d, "cut off")
    <3> DEFINE r == Answer(d, "cut off")
    <3>1. r.pc = "closed" /\ r.answer = "cut off"
      BY ONLY <2>1 DEF Answer, Connection
    <3> HIDE DEF r
    <3>2. ReadsWell(d, r)
      BY <3>1 DEF ReadsWell, Ended, BeforeValue
    <3> QED
      BY <2>3, <3>2 DEF r
  <2> QED
    BY <1>2, <2>2, <2>3 DEF Restart
<1> QED
  BY <1>1, <1>2, BodyAfter

SentInv == ReadingInv /\ BodyInv

LEMMA InitSent == Init => SentInv
<1> SUFFICES ASSUME Init PROVE SentInv
  OBVIOUS
<1>1. ReadingInv
  BY InitReading
<1>2. ASSUME NEW c \in Conns PROVE ReadsWell(c, conn[c])
  <2>1. conn[c] = Fresh
    BY <1>2 DEF Init
  <2> QED
    BY <2>1, FreshIs DEF ReadsWell, BeforeValue
<1> QED
  BY <1>1, <1>2 DEF SentInv, BodyInv

LEMMA NextSent == SentInv /\ [Next]_vars => SentInv'
<1> SUFFICES ASSUME SentInv, [Next]_vars PROVE SentInv'
  OBVIOUS
<1>0. ReadingInv /\ BodyInv /\ Types /\ InputInv
  BY DEF SentInv, ReadingInv
<1>1. ReadingInv'
  BY <1>0, NextReading
<1>2. CASE UNCHANGED vars
  <2>1. load' = load /\ conn' = conn
    BY <1>2 DEF vars
  <2>2. BodyInv'
    BY <1>0, <2>1, BodyAfter DEF BodyInv
  <2> QED
    BY <1>1, <2>2 DEF SentInv
<1>3. CASE Restart
  BY <1>0, <1>1, <1>3, RestartBody DEF SentInv
<1>4. ASSUME NEW c \in Conns, Connect(c) \/ BreakOff(c) \/ Serve(c) \/ Lock(c)
      PROVE  SentInv'
  <2>1. CASE Connect(c) \/ BreakOff(c) \/ ReadRequest(c) \/ RemoteClosed(c) \/ Parse(c)
             \/ ReadBody(c) \/ ReadReturns(c)
    <3>1. BodyInv'
      BY <1>0, <2>1, ConnectBody, BreakBody, RequestBody, ClosedBody, ParseBody, MoreBody,
         ReturnsBody
    <3> QED
      BY <1>1, <3>1 DEF SentInv
  <2>2. CASE Handle(c) \/ Lock(c) \/ Stat(c) \/ Fetch(c)
    BY <1>0, <1>1, <2>2, HandlersBody DEF SentInv
  <2>3. CASE Open(c) \/ OpenFails(c) \/ Flush(c) \/ FlushFails(c)
    BY <1>0, <1>1, <2>3, WritesBody DEF SentInv
  <2> QED
    BY <1>4, <2>1, <2>2, <2>3 DEF Serve
<1> QED
  BY <1>2, <1>3, <1>4 DEF Next

LEMMA SentIsInvariant == Spec => []SentInv
BY InitSent, NextSent, PTL DEF Spec

\* A sequence that begins as another does is a prefix of it.
LEMMA BeginsIsPrefix ==
    ASSUME NEW s \in Seq(Chars), NEW t \in Seq(Chars), Begins(s, t)
    PROVE  IsPrefix(s, t)
<1> DEFINE p == SubSeq(s, 1, Len(s))
           q == SubSeq(t, 1, Len(s))
<1>1. Len(s) \in Nat /\ Len(t) \in Nat /\ Len(s) <= Len(t)
  BY LenProperties DEF Begins
<1>2. p \in Seq(Chars) /\ Len(p) = Len(s) /\ \A i \in 1 .. Len(s) : p[i] = s[i]
  BY <1>1, PrefixIs
<1>3. q \in Seq(Chars) /\ Len(q) = Len(s) /\ \A i \in 1 .. Len(s) : q[i] = t[i]
  BY <1>1, PrefixIs
<1> HIDE DEF p, q
<1>4. \A i \in 1 .. Len(s) : s[i] = t[i]
  BY DEF Begins
<1>5. Len(p) = Len(q) /\ \A i \in 1 .. Len(p) : p[i] = q[i]
  BY <1>2, <1>3, <1>4
<1>6. p = q
  BY ONLY <1>2, <1>3, <1>5, SeqEqual
<1> QED
  BY <1>1, <1>6 DEF p, q, IsPrefix

\* However its bytes arrive, a handler sees the body from its first byte on, as far as
\* Content-Length and the buffer go, and it is cut short only by a connection that broke
\* (mongoose.c:1368-1416, util.c:223-240).
THEOREM BodiesAsSent == Spec => []BodyAsSent
<1>1. SentInv => BodyAsSent
  <2> SUFFICES ASSUME SentInv,
                      NEW c \in Conns, Started(c), conn[c].answer # "cut off",
                      conn[c].pc \notin {"request", "parse", "body"}
               PROVE  LET sent == load[c].body
                          n == Min({Len(sent), BUFF_LEN, Max({0, load[c].content_len})})
                      IN  /\ IsPrefix(conn[c].value, sent)
                          /\ Len(conn[c].value) <= n
                          /\ IsForm(c) /\ conn[c].request_len > 0 /\ conn[c].answer # "400"
                             /\ ~conn[c].gone => Len(conn[c].value) = n
    BY DEF BodyAsSent
  <2> DEFINE sent == load[c].body
             v == conn[c].value
             m == Max({0, load[c].content_len})
             n == Min({Len(sent), BUFF_LEN, m})
  <2>1. Types /\ load[c] # NULL /\ conn[c] \in Connection /\ ReadsWell(c, conn[c])
    BY DEF SentInv, ReadingInv, Types, BodyInv, Started
  <2>2. conn[c].pc \notin BeforeValue
    BY DEF Started, BeforeValue
  <2>3. ValuePart(c, conn[c]) /\ (conn[c].answer # "400" => ValueWhole(c, conn[c]))
    BY <2>1, <2>2 DEF ReadsWell, Ended
  <2>4. v \in Seq(Chars)
    BY ONLY <2>1 DEF Connection
  <2>5. /\ sent \in Seq(Chars) /\ Len(sent) \in Nat /\ Whole(c) \in Nat
        /\ load[c].content_len \in Int
    BY <2>1, RequestParts
  <2>6. m = Whole(c)
    <3> DEFINE cl == load[c].content_len
    <3>1. m = Max({0, cl})
      OBVIOUS
    <3>2. Whole(c) = IF cl >= 0 THEN cl ELSE 0
      BY DEF Whole
    <3>3. cl \in Int
      BY <2>5
    <3> HIDE DEF m, cl
    <3>4. Max({0, cl}) = IF 0 >= cl THEN 0 ELSE cl
      BY ONLY <3>3, MaxOfTwo
    <3> QED
      BY ONLY <3>1, <3>2, <3>3, <3>4
  <2>7. n \in {Len(sent), BUFF_LEN, Whole(c)} /\ n <= Len(sent) /\ n <= BUFF_LEN /\ n <= Whole(c)
    <3> DEFINE a == Len(sent)
               k == Whole(c)
    <3>1. n = Min({a, BUFF_LEN, m})
      OBVIOUS
    <3>2. a \in Nat /\ BUFF_LEN \in Nat /\ k \in Nat
      BY <2>5, BufferSizes
    <3> HIDE DEF a, k, n, m
    <3>3. a \in Int /\ BUFF_LEN \in Int /\ k \in Int
      BY ONLY <3>2
    <3>4. LET l == Min({a, BUFF_LEN, k})
          IN  l \in {a, BUFF_LEN, k} /\ l <= a /\ l <= BUFF_LEN /\ l <= k
      BY ONLY <3>3, MinOfThree
    <3>5. m = k
      BY <2>6 DEF k
    <3> QED
      BY <3>1, <3>4, <3>5 DEF a, k
  <2>8. Len(v) \in Nat
    BY <2>4, LenProperties
  <2>9. /\ Begins(v, sent) /\ Len(v) <= Len(sent) /\ Len(v) <= BUFF_LEN /\ Len(v) <= Whole(c)
    BY <2>3 DEF ValuePart, Begins
  <2>10. IsPrefix(v, sent)
    BY <2>4, <2>5, <2>9, BeginsIsPrefix
  <2>11. IsForm(c) /\ conn[c].request_len > 0 /\ conn[c].answer # "400" /\ ~conn[c].gone =>
            Len(v) \in {BUFF_LEN, Whole(c)}
    BY <2>3 DEF ValueWhole
  <2> HIDE DEF sent, v, n
  <2>12. Len(v) <= n
    BY ONLY <2>5, <2>7, <2>8, <2>9, BufferSizes
  <2>13. Len(v) \in {BUFF_LEN, Whole(c)} => Len(v) = n
    BY ONLY <2>5, <2>7, <2>8, <2>9, BufferSizes
  <2> QED
    BY <2>10, <2>11, <2>12, <2>13 DEF sent, v, n
<1> QED
  BY <1>1, SentIsInvariant, PTL
=============================================================================
