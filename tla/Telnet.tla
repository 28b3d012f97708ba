------------------------------- MODULE Telnet -------------------------------
(***************************************************************************)
(* What net.c makes of the bytes of a MUD's connection: raw_read takes     *)
(* them one at a time, text goes into the world's line buffer, telnet      *)
(* commands are answered; net_send writes a line to the MUD.               *)
(*                                                                         *)
(* raw_read runs under the net mutex and the user's, and a byte that       *)
(* arrives while it runs is as good as one that came before, so a call is  *)
(* a function of the bytes that have arrived.  Bytes are strings: the      *)
(* telnet codes and options by name, anything else is text.                *)
(*                                                                         *)
(* The operators named Bug... are the next definition with a bug in it;    *)
(* nothing here uses them (see EventRing).                                 *)
(***************************************************************************)
EXTENDS Integers, SequencesExt

CONSTANTS
    MAX_LINES,         \* lines a call of raw_read takes
    SendLen            \* BUFFER_LEN - 8: net_send writes when it has so many bytes

ASSUME TelnetAssumption ==
    /\ MAX_LINES \in Nat \ {0}
    /\ SendLen \in Nat \ {0}

-----------------------------------------------------------------------------
(* Receiving.  A reading is one call of raw_read at work:                  *)
(*   mode     what the next byte is: "text", or the place in handle_iac    *)
(*   need     how many bytes are to be skipped there                       *)
(*   buff     w->buff[0 .. lbp-1], which outlives the call                 *)
(*   tried    w->tried_iac                                                 *)
(*   name     the charset being read, charset: w->charset                  *)
(*   lines    lines[0 .. nlines-1], as convert_to_json gets them               *)
(*   prompt   is there a prompt?  replies: what was sent back              *)
(*   used     bytes taken, end: why the call stops before EAGAIN, or ""    *)

StartReading(buff, tried, charset) ==
    [mode |-> "text", need |-> 0, buff |-> buff, tried |-> tried, name |-> "",
     charset |-> charset, lines |-> <<>>, prompt |-> FALSE, replies |-> <<>>,
     used |-> 0, end |-> ""]

Reply(rd, answers) == [rd EXCEPT !.replies = @ \o answers, !.mode = "text"]

\* iac_do and iac_will: the answers to DO and WILL, none for any other option
IacDo(option) ==
    CASE option = "LINEMODE" -> <<"WONT LINEMODE">>
      [] option = "TTYPE"    -> <<"WILL TTYPE">>
      [] option = "NAWS"     -> <<"WILL NAWS", "SB NAWS">>
      [] option = "CHARSET"  -> <<"SB CHARSET REQUEST">>
      [] OTHER               -> <<>>

IacWill(option) ==
    CASE option = "EOR"     -> <<"DO EOR">>
      [] option = "MSSP"    -> <<"DO MSSP">>
      [] option = "NAWS"    -> <<"DO NAWS", "SB NAWS">>
      [] option = "CHARSET" -> <<"DO CHARSET">>
      [] OTHER              -> <<>>

\* A byte that raw_read reads itself
EndLine(rd) ==
    [rd EXCEPT !.lines = Append(@, [text |-> rd.buff, charset |-> rd.charset]), !.buff = <<>>,
               !.end = IF Len(rd.lines) + 1 >= MAX_LINES THEN "full" ELSE ""]

OnText(rd, b) ==
    CASE b = "CR"  -> rd
      [] b = "LF"  -> EndLine(rd)
      [] b = "IAC" -> [rd EXCEPT !.mode = "iac"]
      [] OTHER     -> [rd EXCEPT !.buff = Append(@, b)]

\* try_iac: what the first command of a connection is answered with
Greet(rd) ==
    IF rd.tried THEN rd
    ELSE [rd EXCEPT !.tried = TRUE, !.replies = Append(@, "WILL CHARSET")]

BugEscapedIAC(rd) == [rd EXCEPT !.mode = "text"]
EscapedIAC(rd) == [rd EXCEPT !.mode = "text", !.buff = Append(@, "IAC")]

\* The byte after IAC: an escaped IAC is text, else it is handle_iac's
OnIac(rd, b) ==
    IF b = "IAC" THEN EscapedIAC(rd)
    ELSE LET g == Greet(rd) IN
         CASE b \in {"DO", "WILL", "SB"} -> [g EXCEPT !.mode = b]
           [] b \in {"DONT", "WONT"}     -> [g EXCEPT !.mode = "skip", !.need = 1]
           [] b \in {"EOR", "GA"}        -> [g EXCEPT !.mode = "text", !.prompt = TRUE,
                                                      !.end = "prompt"]
           [] OTHER                      -> [g EXCEPT !.mode = "text"]

\* iac_sb.  Its array for the charset's name has no end of its own: what follows the
\* name is whatever the stack held, so w->charset is the name or the name and junk.
Junk == "junk"
OnSb(rd, b) ==
    CASE b = "TTYPE"   -> [rd EXCEPT !.mode = "ttype", !.need = 3]
      [] b = "MSSP"    -> [rd EXCEPT !.mode = "mssp"]
      [] b = "CHARSET" -> [rd EXCEPT !.mode = "charset"]
      [] OTHER         -> [rd EXCEPT !.mode = "text"]

OnSkip(rd) ==
    IF rd.need > 1 THEN [rd EXCEPT !.need = @ - 1]
    ELSE Reply([rd EXCEPT !.need = 0],
               IF rd.mode = "ttype" THEN <<"SB TTYPE Banana">> ELSE <<>>)

MsspIac(rd, b) == [rd EXCEPT !.mode = IF b = "IAC" THEN "mssp" ELSE "text"]

OnCharset(rd, b) ==
    IF b = "ACCEPTED" THEN [rd EXCEPT !.mode = "name", !.name = ""]
    ELSE [rd EXCEPT !.mode = "skip", !.need = 2]

OnName(rd, b, junk) ==
    IF b = "IAC" THEN [rd EXCEPT !.mode = "named"]
    ELSE IF rd.mode = "name" THEN [rd EXCEPT !.name = b]
    ELSE [rd EXCEPT !.mode = "text", !.charset = IF junk THEN Junk ELSE rd.name]

OnByte(rd, b, junk) ==
    CASE rd.mode = "text"             -> OnText(rd, b)
      [] rd.mode = "iac"              -> OnIac(rd, b)
      [] rd.mode = "DO"               -> Reply(rd, IacDo(b))
      [] rd.mode = "WILL"             -> Reply(rd, IacWill(b))
      [] rd.mode = "SB"               -> OnSb(rd, b)
      [] rd.mode \in {"skip", "ttype"} -> OnSkip(rd)
      [] rd.mode = "mssp"             -> [rd EXCEPT !.mode = IF b = "IAC" THEN "mssp2" ELSE "mssp"]
      [] rd.mode = "mssp2"            -> MsspIac(rd, b)
      [] rd.mode = "charset"          -> OnCharset(rd, b)
      [] rd.mode \in {"name", "named"} -> OnName(rd, b, junk)

\* A call of raw_read on the bytes that have arrived: it stops at EAGAIN or the end of
\* the connection, at a prompt, or when it has MAX_LINES lines
RawRead(rd0, bytes, junk) ==
    FoldLeft(LAMBDA rd, b : IF rd.end # "" THEN rd
                            ELSE OnByte([rd EXCEPT !.used = @ + 1], b, junk),
             rd0, bytes)

\* What is left of a command when recv has no byte for it: nothing.  mode is a local of
\* the C stack, so the next call takes the rest of the command for text.
Split(rd) == rd.end = "" /\ rd.mode # "text"

\* raw_read's result: recv returned 0 to raw_read itself, not to handle_iac
SawTheEnd(rd, ended) == ended /\ rd.end = "" /\ rd.mode \in {"text", "iac"}

-----------------------------------------------------------------------------
(* Sending.                                                                *)

\* write_stoppers
Stoppers == {"CR", "LF", "IAC"}

\* The bytes net_send buffers for character c of a text that starts with first, and
\* whether it writes the buffer then
Buffered(first, c) ==
    IF first \notin Stoppers THEN <<c>>
    ELSE CASE c = "IAC" -> <<"IAC", "IAC">>
           [] c = "LF"  -> <<"CR", "LF">>
           [] OTHER     -> <<>>

BugFlush(st) == [st EXCEPT !.buff = <<>>]
Flush(st) == [buff |-> <<>>, out |-> st.out \o st.buff]

NetSend(text) ==
    LET Put(st, c) ==
          LET more == [st EXCEPT !.buff = @ \o Buffered(text[1], c)]
          IN  IF Len(more.buff) >= SendLen \/ (c = "LF" /\ text[1] \in Stoppers)
              THEN Flush(more) ELSE more
        end == FoldLeft(Put, [buff |-> <<>>, out |-> <<>>], text)
    IN  Flush([end EXCEPT !.buff = @ \o <<"CR", "LF">>]).out
=============================================================================
