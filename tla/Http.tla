-------------------------------- MODULE Http --------------------------------
(***************************************************************************)
(* How Mongoose takes a request apart (mongoose.c) and how the server      *)
(* reads its body and its parameters (util.c).                             *)
(*                                                                         *)
(* A byte is one of "h" (any printable byte of the head), "c" (a control   *)
(* character), "r", "n" (the ends of lines), and, in a body, a key such    *)
(* as "contents=", "&", or a letter.  An escape "%.." is one letter here,  *)
(* so it is never cut in two.                                              *)
(*                                                                         *)
(* The operators named Bug... are the next definition with a bug in it;    *)
(* nothing here uses them (see EventRing).                                 *)
(***************************************************************************)
EXTENDS Integers, SequencesExt

CONSTANTS
    BUF_SIZE,          \* max_request_size: the bytes of conn->buf
    BUFF_LEN,          \* util.c: the bytes of a body that are read at a time
    Chars              \* the bytes there are

ASSUME HttpAssumption == BUF_SIZE \in Nat \ {0} /\ BUFF_LEN \in Nat \ {0}
ASSUME CharsAssumption == {" ", "+"} \subseteq Chars

-----------------------------------------------------------------------------
(* The head.                                                               *)

\* The head ends with an empty line: "\n\n", or "\n\r\n"
BugEndsAt(buf, k) ==
    \/ buf[k] = "n" /\ buf[k + 1] = "n"
    \/ buf[k] = "n" /\ k + 2 < Len(buf) /\ buf[k + 1] = "r" /\ buf[k + 2] = "n"
EndsAt(buf, k) ==
    \/ buf[k] = "n" /\ buf[k + 1] = "n"
    \/ buf[k] = "n" /\ k + 2 <= Len(buf) /\ buf[k + 1] = "r" /\ buf[k + 2] = "n"

\* -1 if it is malformed, 0 if it is not yet complete, or its length
get_request_len(buf) ==
    LET looked == 1 .. Len(buf) - 1
        ends == {k \in looked : EndsAt(buf, k)}
    IN CASE ends # {} -> LET k == Min(ends) IN IF buf[k + 1] = "n" THEN k + 1 ELSE k + 2
         [] ends = {} /\ (\E k \in looked : buf[k] = "c") -> -1
         [] OTHER -> 0

-----------------------------------------------------------------------------
(* The body.                                                               *)

\* How much of its len bytes mg_read will return at most
BugToRead(len, content_len, consumed) == len
ToRead(len, content_len, consumed) == Min({len, Max({0, content_len - consumed})})

\* The part of the body that came with the head and was not returned yet
LeftOver(buf, request_len, consumed) == SubSeq(buf, request_len + consumed + 1, Len(buf))

FromBuffer(buf, request_len, consumed, n) ==
    LET rest == LeftOver(buf, request_len, consumed) IN SubSeq(rest, 1, Min({n, Len(rest)}))

-----------------------------------------------------------------------------
(* Parameters: mg_get_var with url_decode, and the browser's encoding.      *)

NOT_FOUND == <<"not found">>

Decode(s) == [i \in DOMAIN s |-> CASE s[i] = "+" -> " " [] s[i] = "%2B" -> "+" [] OTHER -> s[i]]
Encode(s) == [i \in DOMAIN s |-> CASE s[i] = " " -> "+" [] s[i] = "+" -> "%2B" [] OTHER -> s[i]]

\* The value after the last "key=" at the start of a parameter, up to "&" or the end
mg_get_var(body, key) ==
    LET at == {i \in DOMAIN body : body[i] = key /\ (i = 1 \/ body[i - 1] = "&")}
        from == Max(at) + 1
        stops == {j \in from .. Len(body) : body[j] = "&"}
        to == IF stops = {} THEN Len(body) ELSE Min(stops) - 1
    IN IF at = {} THEN NOT_FOUND ELSE Decode(SubSeq(body, from, to))
=============================================================================
