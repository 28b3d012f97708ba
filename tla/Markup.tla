------------------------------- MODULE Markup -------------------------------
(***************************************************************************)
(* mudparser.c: a line of the MUD, with ANSI escapes and in the charset    *)
(* agreed on, becomes HTML inside a JSON string; remove_markup makes plain *)
(* text of it again for the log.                                           *)
(*                                                                         *)
(* A line is a sequence of characters, an escape sequence with all its     *)
(* codes counting as one.  HTML is a sequence of <<"text", c>>,            *)
(* <<"open", tag, ...>> and <<"close", tag>>.                              *)
(*                                                                         *)
(* The operators named Bug... are the next definition with a bug in it;    *)
(* nothing here uses them (see EventRing).                                 *)
(***************************************************************************)
EXTENDS Integers, SequencesExt

\* struct markupdata: a colour is the code that sets it, 0 is none
Plain == [f |-> 0, b |-> 0, flags |-> {}]

-----------------------------------------------------------------------------
(* convert_charset: iconv stops for good at a character that the charset   *)
(* does not have, and what it has converted so far is taken for the line;  *)
(* a name that iconv does not know leaves the line as it is.               *)

High == "e'"                    \* a letter beyond ASCII
Mojibake == "?"                 \* its byte, taken for UTF-8
Charsets == {"UTF-8", "ISO-8859-1", "US-ASCII"}

Legible(charset, line) ==
    \/ charset \in {"UTF-8", "ISO-8859-1"}
    \/ \A i \in DOMAIN line : line[i] # High

ConvertCharset(charset, line) ==
    IF Legible(charset, line) THEN line
    ELSE IF charset \in Charsets THEN SubSeq(line, 1, SelectInSeq(line, LAMBDA t : t = High) - 1)
    ELSE [i \in DOMAIN line |-> IF line[i] = High THEN Mojibake ELSE line[i]]

-----------------------------------------------------------------------------
(* ansi2html                                                               *)

\* Escape sequences and their codes; 38;5;n and 48;5;n are one code each
Colour256(ground, n) == 1000 * ground + n
CodesOf == [
    red    |-> <<31>>,               \* ESC [ 31 m
    bold   |-> <<1>>,
    fancy  |-> <<4, 7, 44>>,         \* ESC [ 4 ; 7 ; 44 m
    orange |-> <<5, Colour256(38, 208)>>,
    reset  |-> <<0>>,
    redden |-> <<0, 31>>,
    odd    |-> <<99>> ]
Escapes == DOMAIN CodesOf

FlagTag == [underline |-> <<"u">>, flash |-> <<"em">>, hilite |-> <<"strong">>,
            invert |-> <<"span", "invert">>]
FlagOrder == <<"underline", "flash", "hilite", "invert">>

\* One code of an escape sequence; one it does not know changes nothing
SetCode(md, code) ==
    CASE code = 0                                -> Plain
      [] code \in 30..37 \/ code \div 1000 = 38 -> [md EXCEPT !.f = code]
      [] code \in 40..47 \/ code \div 1000 = 48 -> [md EXCEPT !.b = code]
      [] code = 1                                -> [md EXCEPT !.flags = @ \cup {"hilite"}]
      [] code = 4                                -> [md EXCEPT !.flags = @ \cup {"underline"}]
      [] code = 7                                -> [md EXCEPT !.flags = @ \cup {"invert"}]
      [] code \in {3, 5, 6}                      -> [md EXCEPT !.flags = @ \cup {"flash"}]
      [] OTHER                                   -> md

SetCodes(md, esc) == FoldLeft(SetCode, md, CodesOf[esc])

FlagsInOrder(md) ==
    FoldLeft(LAMBDA s, flag : IF flag \in md.flags THEN Append(s, flag) ELSE s, <<>>, FlagOrder)
Coloured(md) == md.f # 0 \/ md.b # 0
OpenTags(flags) == [i \in DOMAIN flags |-> <<"open">> \o FlagTag[flags[i]]]
CloseTags(flags) == [i \in DOMAIN flags |-> <<"close", FlagTag[flags[i]][1]>>]
CloseColour(md) == IF Coloured(md) THEN << <<"close", "span">> >> ELSE <<>>

StartSpan(md) ==
    OpenTags(FlagsInOrder(md))
      \o (IF Coloured(md) THEN << <<"open", "span", md.b, md.f>> >> ELSE <<>>)

BugEndSpan(md) == CloseColour(md) \o CloseTags(FlagsInOrder(md))
EndSpan(md) == CloseColour(md) \o CloseTags(Reverse(FlagsInOrder(md)))

\* A blank that ends a run of text would be lost next to a tag
FixBlank(html) ==
    IF html # <<>> /\ Last(html) = <<"text", " ">>
    THEN Append(Front(html), <<"text", "&nbsp;">>) ELSE html

Entity(c) ==
    CASE c = "<" -> "&lt;"
      [] c = ">" -> "&gt;"
      [] c = "&" -> "&amp;"
      [] c = "'" -> "\\'"
      [] OTHER   -> c

BugNextDonbsp(donbsp) == FALSE
NextDonbsp(donbsp) == ~donbsp

\* A character: every other blank of a row becomes &nbsp;, or a browser would show one
PutChar(st, c) ==
    CASE c = "TAB" -> [st EXCEPT !.html = @ \o << <<"text", "&nbsp;">>, <<"text", " ">> >>,
                                 !.donbsp = TRUE]
      [] c = " "   -> [st EXCEPT !.html = Append(@, <<"text", IF st.donbsp THEN "&nbsp;" ELSE " ">>),
                                 !.donbsp = NextDonbsp(@)]
      [] OTHER     -> [st EXCEPT !.html = Append(@, <<"text", Entity(c)>>)]

\* The first escape sequence after a text closes the span around that text
CloseText(st) ==
    IF st.inspan THEN [st EXCEPT !.html = FixBlank(@) \o EndSpan(st.md), !.donbsp = TRUE,
                                 !.inspan = FALSE]
    ELSE st

\* The first character after escape sequences opens the span for what they say
OpenText(st) ==
    IF st.afterEsc
    THEN [st EXCEPT !.html = FixBlank(@) \o StartSpan(st.md), !.donbsp = TRUE,
                    !.inspan = (StartSpan(st.md) # <<>>), !.afterEsc = FALSE]
    ELSE st

PutToken(st, t) ==
    IF t \in Escapes
    THEN LET closed == CloseText(st)
         IN  [closed EXCEPT !.md = SetCodes(@, t), !.afterEsc = TRUE]
    ELSE PutChar(OpenText(st), t)

\* The HTML of a line and the markup it leaves for the next.  An empty line is opened
\* but never closed: the loop that would close it is not entered.
Ansi2Html(md, line) ==
    LET start == [html |-> StartSpan(md), md |-> md, donbsp |-> TRUE,
                  inspan |-> (StartSpan(md) # <<>>), afterEsc |-> FALSE]
        end == FoldLeft(PutToken, start, line)
    IN  IF line = <<>> THEN end ELSE CloseText(end)

ConvertToJson(md, charset, line) == Ansi2Html(md, ConvertCharset(charset, line))

-----------------------------------------------------------------------------
(* remove_markup and json_escape: what the log, and world_echo, make of text. *)

\* json_escape of a character; what is not printable is escaped by its number
JsonEscape(c) ==
    CASE c = "TAB" -> "\\t"
      [] c = "'"   -> "\\'"
      [] c = High  -> "\\x"
      [] OTHER     -> c

\* A character of HTML in the log: entities are undone, of an escape only the
\* backslash is taken away
BugPlainText(t) == IF t = "&lt;" THEN t ELSE IF t = "&nbsp;" THEN " " ELSE t
PlainText(t) ==
    CASE t = "&nbsp;" -> " "
      [] t = "&lt;"   -> "<"
      [] t = "&gt;"   -> ">"
      [] t = "&amp;"  -> "&"
      [] t = "\\'"    -> "'"
      [] t = "\\t"    -> "t"
      [] t = "\\x"    -> "x"
      [] OTHER        -> t

RemoveMarkup(html) ==
    FoldLeft(LAMBDA s, t : IF t[1] = "text" THEN Append(s, PlainText(t[2])) ELSE s, <<>>, html)

\* What HTML and JSON make of a character
Entities == {"&nbsp;", "&lt;", "&gt;", "&amp;", "\\'", "\\t", "\\x"}
=============================================================================
