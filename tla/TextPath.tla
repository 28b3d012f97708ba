------------------------------ MODULE TextPath ------------------------------
(***************************************************************************)
(* The way of text through one world: the bytes of its MUD arrive in       *)
(* pieces, net_read reads them (Telnet), every line becomes HTML (Markup), *)
(* an event for the pages and a line of the world's log (Logger); what the *)
(* user types goes the other way.  The connection comes and goes, the      *)
(* world is closed and opened again, days pass.                            *)
(*                                                                         *)
(* Every handler runs under the user's mutex, net_read and the handlers    *)
(* that touch the connection under the net mutex too: each is one step.    *)
(* How events reach the pages is EventRing's matter, how connections are   *)
(* made WorldNet's.                                                        *)
(*                                                                         *)
(* The operators named Bug... are the next definition with a bug in it;    *)
(* nothing here uses them (see EventRing).                                 *)
(***************************************************************************)
EXTENDS Telnet, Markup, Logger, FiniteSets

CONSTANTS
    Scenarios,         \* bound: <<what the MUD says, what else may happen>>.  It says units, a
                       \* unit is a sequence of bytes [b: the byte, say: the text it stands
                       \* for, ask: the command that it completes], or Bye when it hangs up;
                       \* else there may be "pieces" (a unit does not arrive at once),
                       \* "disconnect", "send", "echo", "midnight", "close" and "nofile"
                       \* (fopen of a log file fails)
    Typed,             \* what the user may send
    Echoes,            \* what a page may echo
    MaxEchoes,         \* bound: echoes
    MaxLives           \* bound: times the world is opened

\* A character is neither what HTML or JSON makes of one nor a whole line of the log, and no
\* charset has the name that stands for none
NoCharset == "none"
Characters == {c \in STRING : c \notin Entities \cup {NoCharset} /\ <<c>> \notin Marks}
Bytes == [b : Characters, say : STRING, ask : STRING \X STRING]

Bye == << >>
Nothing == ""
NoCommand == <<Nothing, Nothing>>

\* What a MUD says is text, with every IAC doubled, and the telnet commands that this client
\* knows how to end.  Follow is the place in them after byte x: "text" between two of them,
\* "nowhere" after what a MUD does not say.
Verbs == {"DO", "DONT", "WILL", "WONT", "SB"}
Follow(at, x) ==
    LET mute == x.say = Nothing /\ x.ask = NoCommand
        means(c) == c # Nothing /\ x.say = c /\ x.ask = NoCommand
        completes(verb, option) == x.say = Nothing /\ x.ask = <<verb, option>>
        Go(fits, place) == IF fits THEN place ELSE "nowhere"
    IN CASE at = "text" ->
              IF x.b = "IAC" THEN Go(mute, "IAC")
              ELSE Go(IF x.b = "CR" THEN mute ELSE means(x.b), "text")
         [] at = "IAC" ->
              IF x.b \in Verbs THEN Go(mute, x.b)
              ELSE Go(IF x.b = "IAC" THEN means("IAC")
                      ELSE x.b # Nothing /\ completes(x.b, Nothing), "text")
         [] at \in {"DO", "DONT", "WILL", "WONT"} -> Go(completes(at, x.b), "text")
         [] at = "SB" -> Go(mute /\ x.b \in {"TTYPE", "MSSP", "CHARSET"}, x.b)
         [] at = "TTYPE" -> Go(mute, "SEND")
         [] at = "SEND" -> Go(mute, "SEND IAC")
         [] at = "SEND IAC" -> Go(completes("SB", "TTYPE"), "text")
         [] at = "MSSP" -> Go(mute, IF x.b = "IAC" THEN "MSSP IAC" ELSE "MSSP")
         [] at = "MSSP IAC" ->
              IF x.b = "IAC" THEN Go(mute, "MSSP") ELSE Go(completes("SB", "MSSP"), "text")
         [] at = "CHARSET" -> Go(mute, IF x.b = "ACCEPTED" THEN "ACCEPTED" ELSE "REJECTED")
         [] at = "ACCEPTED" -> Go(mute, IF x.b = "IAC" THEN "ACCEPTED IAC" ELSE "ACCEPTED")
         [] at = "ACCEPTED IAC" -> Go(completes("SB", "CHARSET") /\ x.b # "IAC", "text")
         [] at = "REJECTED" -> Go(mute, "REJECTED IAC")
         [] at = "REJECTED IAC" -> Go(completes("SB", "CHARSET"), "text")
         [] OTHER -> "nowhere"
PlaceAfter(at, bytes) == FoldLeft(Follow, at, bytes)

ASSUME TextPathAssumption ==
    /\ \A s \in Scenarios :
          s[1] \in Seq(Seq(Bytes)) /\ \A i \in DOMAIN s[1] : PlaceAfter("text", s[1][i]) = "text"
    /\ Typed \subseteq Seq(Characters) /\ Echoes \subseteq Seq(Characters)

VARIABLES
    may,               \* what else may happen
    todo,              \* the units the MUD has still to say
    coming, wire,      \* bytes on their way, bytes in the socket's buffer
    link,              \* world->fd: "none", "up", or "ended" by the MUD
    world,             \* w->buff, lbp, tried_iac, charset and mdata, or NoWorld
    lives,             \* how often the world was opened
    today,
    lg,                \* w->logger and its files
    events,            \* the RECEIVE and PROMPT events queued since the world was opened
    replies,           \* telnet commands sent on this connection
    sent, typed,       \* history: the bytes of the last net_send, and its text
    said,              \* history: the text in the bytes read since the world was opened
    asked,             \* history: the commands read on this connection
    garbled,           \* history: a command was split over two reads
    logged             \* history: <<day, text>> of what went to the log, in order

streamVars == <<todo, coming, wire, link>>
historyVars == <<sent, typed, said, asked, garbled>>
vars == <<may, streamVars, world, lives, today, lg, events, replies, historyVars, logged>>

Opens == IF "nofile" \in may THEN BOOLEAN ELSE {TRUE}
Says(bytes) ==
    FoldLeft(LAMBDA s, x : IF x.say = Nothing THEN s ELSE Append(s, x.say), <<>>, bytes)
Asks(bytes) ==
    FoldLeft(LAMBDA s, x : IF x.ask = NoCommand THEN s ELSE Append(s, x.ask), <<>>, bytes)
BytesOf(bytes) == [i \in DOMAIN bytes |-> bytes[i].b]

NoWorld == [buff |-> <<>>, tried |-> FALSE, charset |-> NoCharset, mdata |-> Plain]
NewWorld == [NoWorld EXCEPT !.charset = "ISO-8859-1"]

-----------------------------------------------------------------------------
(* The log.                                                                *)

\* llog of several lines in a row, each <<text, what it ought to say>>; history: what
\* was written, and when
LogAll(l0, h0, lines, opens) ==
    FoldLeft(LAMBDA st, line :
                [lg |-> Vllog(st.lg, today, line[1], opens),
                 h |-> IF HasFile(st.lg, today, opens) THEN Append(st.h, <<today, line[2]>>)
                       ELSE st.h],
             [lg |-> l0, h |-> h0], lines)

Midnight ==
    /\ "midnight" \in may /\ today < MaxDay
    /\ today' = today + 1
    /\ UNCHANGED <<may, streamVars, world, lives, lg, events, replies, historyVars, logged>>

-----------------------------------------------------------------------------
(* The MUD and the network in between.                                     *)

Say ==
    /\ link = "up" /\ coming = <<>> /\ todo # <<>>
    /\ todo' = Tail(todo)
    /\ IF Head(todo) = Bye THEN link' = "ended" /\ UNCHANGED <<coming, wire>>
       ELSE IF "pieces" \in may THEN coming' = Head(todo) /\ UNCHANGED <<wire, link>>
       ELSE wire' = wire \o Head(todo) /\ UNCHANGED <<coming, link>>
    /\ UNCHANGED <<may, world, lives, today, lg, events, replies, historyVars, logged>>

Arrive ==
    /\ coming # <<>>
    /\ \E n \in DOMAIN coming :
          /\ wire' = wire \o SubSeq(coming, 1, n)
          /\ coming' = SubSeq(coming, n + 1, Len(coming))
    /\ UNCHANGED <<may, todo, link, world, lives, today, lg, events, replies, historyVars, logged>>

-----------------------------------------------------------------------------
(* net_read, called when epoll reports the socket: it does so as long as   *)
(* there is something to read, the socket is not edge-triggered.           *)

BugReadable == wire # <<>>
Readable == wire # <<>> \/ link = "ended"

\* convert_to_json for one line, and what the line's event holds
Convert(st, line) ==
    LET conv == ConvertToJson(st.mdata, line.charset, line.text)
    IN  [mdata |-> conv.md,
         events |-> Append(st.events, [kind |-> "line", html |-> conv.html, charset |-> line.charset])]

LogLine(l) == RemoveMarkup(l.html)

\* What a terminal in this charset would show, blanks for tabs
Seen(s, c) ==
    IF c \in Escapes THEN s ELSE IF c = "TAB" THEN s \o <<" ", " ">> ELSE Append(s, c)
TerminalText(charset, text) == FoldLeft(Seen, <<>>, ConvertCharset(charset, text))

CanRead == link \in {"up", "ended"} /\ Readable
NetRead ==
    /\ CanRead
    /\ \E junk \in BOOLEAN, opens \in Opens :
          LET rd == RawRead(StartReading(world.buff, world.tried, world.charset),
                            BytesOf(wire), junk)
              taken == SubSeq(wire, 1, rd.used)
              lines == FoldLeft(Convert, [mdata |-> world.mdata, events |-> <<>>], rd.lines)
              prompt == ConvertToJson(lines.mdata, rd.charset, rd.buff)
              log == LogAll(lg, logged,
                            [i \in DOMAIN rd.lines |->
                               <<LogLine(lines.events[i]),
                                 TerminalText(rd.lines[i].charset, rd.lines[i].text)>>], opens)
          IN  /\ junk => rd.charset = Junk
              /\ world' = [buff |-> rd.buff, tried |-> rd.tried, charset |-> rd.charset,
                           mdata |-> IF rd.prompt THEN prompt.md ELSE lines.mdata]
              /\ wire' = SubSeq(wire, rd.used + 1, Len(wire))
              /\ events' = events \o lines.events
                             \o (IF rd.prompt
                                 THEN << [kind |-> "prompt", html |-> prompt.html,
                                          charset |-> rd.charset] >>
                                 ELSE <<>>)
              /\ replies' = replies \o rd.replies
              /\ lg' = log.lg /\ logged' = log.h
              /\ said' = said \o Says(taken)
              /\ asked' = asked \o Asks(taken)
              /\ garbled' = (garbled \/ Split(rd))
              /\ link' = IF SawTheEnd(rd, link = "ended") THEN "none" ELSE link
    /\ UNCHANGED <<may, todo, coming, lives, today, sent, typed>>

-----------------------------------------------------------------------------
(* The user's handlers.                                                    *)

\* world_connect: only tried_iac is reset; an unfinished line, its markup and the charset
\* stay for the next connection
BugConnected == world
Connected == [world EXCEPT !.tried = FALSE]
WorldConnect ==
    /\ world # NoWorld /\ link = "none"
    /\ link' = "up"
    /\ world' = Connected
    /\ replies' = <<>> /\ asked' = <<>>
    /\ UNCHANGED <<may, todo, coming, wire, lives, today, lg, events, sent, typed, said, garbled,
                   logged>>

\* net_disconnect; what was not read is lost
WorldDisconnect ==
    /\ "disconnect" \in may /\ link # "none"
    /\ link' = "none" /\ coming' = <<>> /\ wire' = <<>>
    /\ UNCHANGED <<may, todo, world, lives, today, lg, events, replies, historyVars, logged>>

WorldSend(text) ==
    /\ "send" \in may /\ link # "none"
    /\ sent' = NetSend(text) /\ typed' = text
    /\ UNCHANGED <<may, streamVars, world, lives, today, lg, events, replies, said, asked, garbled,
                   logged>>

\* A character that world_echo escapes stays escaped in the log, without the backslash
Escaped(c) == CASE c = "TAB" -> "t"
                [] c = High  -> "x"
                [] OTHER     -> c

\* world_echo: an event and a log line, of JSON that was not made by ansi2html
WorldEcho(text, opens) ==
    LET html == [i \in DOMAIN text |-> <<"text", JsonEscape(text[i])>>]
        log == LogAll(lg, logged, << <<RemoveMarkup(html), [i \in DOMAIN text |-> Escaped(text[i])]>> >>,
                      opens)
    IN  /\ "echo" \in may /\ world # NoWorld
        /\ Cardinality({i \in DOMAIN events : events[i].kind = "echo"}) < MaxEchoes
        /\ events' = Append(events, [kind |-> "echo", html |-> html, charset |-> "UTF-8"])
        /\ lg' = log.lg /\ logged' = log.h
        /\ UNCHANGED <<may, streamVars, world, lives, today, replies, historyVars>>

\* world_open: a fresh world, the same log file if it is still the same day
WorldOpen(opens) ==
    LET started == LoggerNew(lg, today, opens)
        noted == IF opens THEN Append(logged, <<today, LogStarted>>) ELSE logged
        log == LogAll(started, noted, << << <<"-- WORLD OPENED --">>, <<"-- WORLD OPENED --">> >> >>,
                      opens)
    IN  /\ world = NoWorld /\ lives < MaxLives
        /\ world' = NewWorld
        /\ lives' = lives + 1
        /\ lg' = log.lg /\ logged' = log.h
        /\ events' = <<>> /\ replies' = <<>>
        /\ said' = <<>> /\ asked' = <<>> /\ garbled' = FALSE
        /\ UNCHANGED <<may, streamVars, today, sent, typed>>

\* world_free: the event that ends the connection, the log's last lines, all memory cleared
WorldClose(opens) ==
    LET log == LogAll(lg, logged, << << <<"-- WORLD CLOSED --">>, <<"-- WORLD CLOSED --">> >> >>,
                      opens)
        free == HasFile(log.lg, today, opens)
    IN  /\ "close" \in may /\ world # NoWorld
        /\ world' = NoWorld
        /\ link' = "none" /\ coming' = <<>> /\ wire' = <<>>
        /\ lg' = LoggerFree(log.lg, today, opens)
        /\ logged' = IF free THEN Append(log.h, <<today, LogEnded>>) ELSE log.h
        /\ UNCHANGED <<may, todo, lives, today, events, replies, historyVars>>

-----------------------------------------------------------------------------
Init ==
    /\ \E s \in Scenarios : todo = s[1] /\ may = s[2]
    /\ coming = <<>> /\ wire = <<>> /\ link = "none"
    /\ world = NoWorld /\ lives = 0 /\ today = 0
    /\ lg = NoLog /\ logged = <<>>
    /\ events = <<>> /\ replies = <<>>
    /\ sent = <<>> /\ typed = <<>>
    /\ said = <<>> /\ asked = <<>> /\ garbled = FALSE

Next ==
    \/ Say \/ Arrive \/ NetRead
    \/ WorldConnect \/ WorldDisconnect \/ Midnight
    \/ \E text \in Typed : WorldSend(text)
    \/ \E text \in Echoes, opens \in Opens : WorldEcho(text, opens)
    \/ \E opens \in Opens : WorldOpen(opens) \/ WorldClose(opens)

Spec == Init /\ [][Next]_vars

\* The network delivers, and the network thread reads what epoll reports: WF_vars(NetRead)
\* with its ENABLED written out, which is a lot quicker to evaluate
FairSpec ==
    /\ Spec
    /\ WF_vars(Arrive)
    /\ []<>~CanRead \/ []<><<NetRead>>_vars

-----------------------------------------------------------------------------
(* Properties.                                                             *)

\* The lines received, and whether there was a prompt in the middle of each
ToRows(st, e) ==
    CASE e.kind = "line"   ->
           [rows |-> Append(st.rows, [html |-> e.html, charset |-> e.charset,
                                      prompted |-> st.prompted]),
            prompted |-> FALSE]
      [] e.kind = "prompt" -> [st EXCEPT !.prompted = TRUE]
      [] OTHER             -> st
LinesReceived == FoldLeft(ToRows, [rows |-> <<>>, prompted |-> FALSE], events).rows

\* the lines in what the MUD said, and the unfinished one
ToLines(st, c) ==
    IF c = "LF" THEN [lines |-> Append(st.lines, st.rest), rest |-> <<>>]
    ELSE [st EXCEPT !.rest = Append(@, c)]
SaidLines == FoldLeft(ToLines, [lines |-> <<>>, rest |-> <<>>], said)

\* Telnet commands between, in and around the text neither lose a character of it nor add
\* one, wherever the network cuts it in pieces and also over the end of a connection; a
\* command that was itself cut is where that ends (raw_read, handle_iac, net.c:501-564)
TextIsKept ==
    world # NoWorld /\ ~garbled =>
        /\ Len(LinesReceived) = Len(SaidLines.lines)
        /\ world.buff = SaidLines.rest

\* A terminal: every character with the style in force, blanks for tabs
ShowChar(st, c) ==
    CASE c \in Escapes -> [st EXCEPT !.md = SetCodes(@, c)]
      [] c = "TAB"     -> [st EXCEPT !.shown = @ \o << <<" ", st.md>>, <<" ", st.md>> >>]
      [] OTHER         -> [st EXCEPT !.shown = Append(@, <<c, st.md>>)]
Terminal(md0, text) == FoldLeft(ShowChar, [md |-> md0, shown |-> <<>>], text)

\* A browser: the tags that are open when a character comes are its style, a blank that
\* follows a blank or starts the line is not shown; fits: every tag closed the last open one
StyleOf(tags) ==
    LET Has(t) == \E i \in DOMAIN tags : tags[i] = t
        colours == {i \in DOMAIN tags : Len(tags[i]) = 3}
    IN  [f |-> IF colours = {} THEN 0 ELSE tags[Max(colours)][3],
         b |-> IF colours = {} THEN 0 ELSE tags[Max(colours)][2],
         flags |-> {flag \in DOMAIN FlagTag : Has(FlagTag[flag])}]

Render(st, t) ==
    CASE t[1] = "open"  -> [st EXCEPT !.tags = Append(@, Tail(t))]
      [] t[1] = "close" -> IF st.tags # <<>> /\ Last(st.tags)[1] = t[2]
                           THEN [st EXCEPT !.tags = Front(@)] ELSE [st EXCEPT !.fits = FALSE]
      [] OTHER          -> IF t[2] = " " /\ st.blank THEN st
                           ELSE [st EXCEPT !.shown = Append(@, <<PlainText(t[2]), StyleOf(st.tags)>>),
                                           !.blank = (t[2] = " ")]
Browser(html) ==
    FoldLeft(Render, [tags |-> <<>>, shown |-> <<>>, fits |-> TRUE, blank |-> TRUE], html)

\* the style in force after some lines
StyleAfter(lines) == FoldLeft(LAMBDA md, text : Terminal(md, text).md, Plain, lines)

\* What a page shows for a line is what a terminal would show: every character, every
\* blank, in the style that is in force, also when the style was set lines ago.  Not
\* claimed of a line that had a prompt in it, which is converted twice, and from the first
\* letter on that the charset agreed on does not have: convert_charset drops the rest of
\* that line, with the escapes in it, which also later lines then lack (mudparser.c:116-263)
ShownAsSaid ==
    world # NoWorld /\ ~garbled =>
        LET rows == LinesReceived
            lines == SaidLines.lines
        IN  \A i \in DOMAIN rows :
              ~rows[i].prompted /\ (\A j \in 1 .. i : Legible(rows[j].charset, lines[j])) =>
                  Browser(rows[i].html).shown
                    = Terminal(StyleAfter(SubSeq(lines, 1, i - 1)), lines[i]).shown

\* Tags are closed in the reverse order of their opening, and all of them, so that a line's
\* style does not reach the rest of the page ("in reverse", mudparser.c:98).  An empty line
\* after a style was set is the exception: its span stays open.
WellNested ==
    \A i \in DOMAIN events :
        LET b == Browser(events[i].html)
        IN  b.fits /\ (b.tags = <<>> \/ b.shown = <<>>)

\* Every command of the MUD is answered once, the first one with a greeting before it, on
\* each connection anew (handle_iac, tried_iac)
Answer(ask) ==
    CASE ask = <<"DO", "TTYPE">>     -> <<"WILL TTYPE">>
      [] ask = <<"DO", "NAWS">>      -> <<"WILL NAWS", "SB NAWS">>
      [] ask = <<"DO", "LINEMODE">>  -> <<"WONT LINEMODE">>
      [] ask = <<"DO", "CHARSET">>   -> <<"SB CHARSET REQUEST">>
      [] ask = <<"WILL", "NAWS">>    -> <<"DO NAWS", "SB NAWS">>
      [] ask = <<"WILL", "MSSP">>    -> <<"DO MSSP">>
      [] ask = <<"WILL", "EOR">>     -> <<"DO EOR">>
      [] ask = <<"WILL", "CHARSET">> -> <<"DO CHARSET">>
      [] ask = <<"SB", "TTYPE">>     -> <<"SB TTYPE Banana">>
      [] OTHER                       -> <<>>
NegotiationAnswered ==
    ~garbled =>
        replies = FoldLeft(LAMBDA s, ask : s \o Answer(ask),
                           IF asked = <<>> THEN <<>> ELSE <<"WILL CHARSET">>, asked)

\* The files of the log, without their rollover marks, hold what was said or echoed on their
\* day, in order and without markup, apart from lines that came while a file could not be
\* opened; what world_echo escapes stays escaped (llog, remove_markup)
LogIsWhatWasSaid ==
    \A d \in Days :
        LET due == FoldLeft(LAMBDA s, e : IF e[1] = d THEN Append(s, e[2]) ELSE s, <<>>, logged)
        IN  FoldLeft(LAMBDA s, line : IF line \in Marks THEN s ELSE Append(s, line), <<>>, lg.disk[d])
              = due

\* A log that goes over midnight says so at the end of one file and at the start of the next,
\* and nothing is written after the end (vllog)
RolloverMarked ==
    LET flat == FoldLeft(LAMBDA s, d : s \o lg.disk[d], <<>>, [d \in 1 .. MaxDay + 1 |-> d - 1])
    IN  /\ \A i \in DOMAIN flat : flat[i] = Opening0 => i > 1 /\ flat[i - 1] = Closing
        /\ \A d \in Days : \A i \in DOMAIN lg.disk[d] :
              lg.disk[d][i] = Closing => i = Len(lg.disk[d])

\* What the user sends arrives whole, as one line, however long; a text that starts with a
\* line's end or an IAC is the exception: net_send then drops everything else
SentWhole ==
    typed # <<>> /\ typed[1] \notin Stoppers => sent = typed \o <<"CR", "LF">>

\* Everything that has arrived is read, also what a call of raw_read had to leave for the
\* next one, and the end of the connection is noticed
AllIsRead == wire # <<>> \/ link = "ended" ~> wire = <<>> /\ link # "ended"
=============================================================================
