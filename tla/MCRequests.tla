----------------------------- MODULE MCRequests -----------------------------
(* Model values for TLC's runs of Requests.                                *)
EXTENDS Requests

CONSTANTS c1, c2, c3

ThreeConns == {c1, c2, c3}

SomeChars == {"h", "c", "r", "n", "x", "y", "f", " ", "+", "%2B", "&",
              "file=", "contents=", "newpassword=", "password="}

HeadTo(end) == <<"h">> \o end
CRLF == <<"n", "r", "n">>
LFLF == <<"n", "n">>

Form(kind, head, body) ==
    [kind |-> kind, method |-> "POST", form |-> TRUE, head |-> head, body |-> body,
     content_len |-> Len(body), text |-> <<>>, in_pieces |-> FALSE]
Get(kind) ==
    [kind |-> kind, method |-> "GET", form |-> FALSE, head |-> HeadTo(CRLF), body |-> <<>>,
     content_len |-> -1, text |-> <<>>, in_pieces |-> FALSE]
Write(head, text) ==
    [Form("write", head, <<"file=", "f", "&", "contents=">> \o Encode(text)) EXCEPT !.text = text]
Passwd(p) == Form("passwd", HeadTo(LFLF), <<"newpassword=">> \o p)
Login(p) == Form("login", HeadTo(LFLF), <<"password=">> \o p)

Alone(r) == [c \in Conns |-> IF c = c1 THEN [r EXCEPT !.in_pieces = TRUE] ELSE NULL]
Three(r1, r2, r3) == [c \in Conns |-> CASE c = c1 -> r1 [] c = c2 -> r2 [] c = c3 -> r3]

\* Requests of every shape, alone: they come in any pieces, with CRLF or LF, too long for
\* BUF_SIZE or BUFF_LEN, with control characters, with more after the body than its length
Shapes == {
    Alone(Write(HeadTo(CRLF), <<"x">>)),
    Alone(Write(HeadTo(LFLF), <<"x", " ", "+", "y", "x", "y">>)),
    Alone([Write(HeadTo(LFLF), <<"x", "y">>) EXCEPT !.content_len = 5]),
    Alone([Write(HeadTo(CRLF), <<"x">>) EXCEPT !.form = FALSE]),
    Alone([Write(HeadTo(CRLF), <<"x">>) EXCEPT !.method = "PATCH"]),
    Alone(Write([i \in 1 .. 9 |-> "h"] \o LFLF, <<"x">>)),
    Alone(Write(<<"h", "c">> \o CRLF, <<"x">>)) }

\* Requests that meet at a file
Meetings == {
    Three(Write(HeadTo(LFLF), <<"x">>), Write(HeadTo(LFLF), <<"y", " ">>), Get("read")),
    Three(Write(HeadTo(LFLF), <<>>), Write(HeadTo(LFLF), <<"y">>), Write(HeadTo(LFLF), <<"y", "x">>)),
    Three(Passwd(<<"y">>), Login(<<"x">>), Login(<<"y">>)),
    Three(Get("guest"), Get("guest"), Get("guest")) }

AllLoads == Shapes \cup Meetings
LongBody == {Alone(Write(HeadTo(LFLF), <<"x", " ", "+", "y", "x", "y">>))}
=============================================================================
