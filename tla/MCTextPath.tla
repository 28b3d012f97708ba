----------------------------- MODULE MCTextPath -----------------------------
(* What MUDs say and users type in TLC's run of TextPath.                  *)
EXTENDS TextPath

Byte(b, say) == [b |-> b, say |-> say, ask |-> NoCommand]
Text(c) == << Byte(c, c) >>
Command(bytes, ask) ==
    [i \in DOMAIN bytes |->
       [b |-> bytes[i], say |-> Nothing, ask |-> IF i = Len(bytes) THEN ask ELSE NoCommand]]

AskNaws == Command(<<"IAC", "DO", "NAWS">>, <<"DO", "NAWS">>)
AgreeOnAscii == Command(<<"IAC", "SB", "CHARSET", "ACCEPTED", "US-ASCII", "IAC", "SE">>,
                        <<"SB", "CHARSET">>)
EndOfRecord == Command(<<"IAC", "EOR">>, <<"EOR", Nothing>>)

Units == {
    Text("a"), Text("LF"),
    Text(High) \o << Byte("CR", Nothing) >> \o Text("LF"),
    << Byte("IAC", Nothing), Byte("IAC", "IAC") >>,
    AskNaws,
    Command(<<"IAC", "WILL", "MSSP">>, <<"WILL", "MSSP">>),
    Command(<<"IAC", "DONT", "TTYPE">>, <<"DONT", "TTYPE">>),
    Command(<<"IAC", "SB", "TTYPE", "SEND", "IAC", "SE">>, <<"SB", "TTYPE">>),
    Command(<<"IAC", "SB", "MSSP", "a", "IAC", "IAC", "a", "IAC", "SE">>, <<"SB", "MSSP">>),
    AgreeOnAscii, EndOfRecord }

\* Two units in pieces and a hang-up, then a unit on the next connection
TelnetScenarios ==
    {<< <<u, v, Bye, w>>, {"pieces", "disconnect"} >> :
        u \in Units, v \in Units, w \in {Text("LF"), AskNaws}}

\* A world that is closed in the middle of a command, and opened again
ReopenScenarios ==
    {<< <<u, Text("a"), AskNaws>>, {"pieces", "close"} >> : u \in {AskNaws, EndOfRecord}}

\* Two lines and their styles, at once
Line(cs) == FoldLeft(LAMBDA s, c : s \o Text(c), <<>>, Append(cs, "LF"))
Chars == {"a", " ", "<", "LF", "red", "fancy", "reset"}
StyledScenarios ==
    {<< << Line(cs) >>, {} >> : cs \in [1 .. 4 -> Chars]}
      \cup {<< << Line(<<"orange", "TAB", "odd", " ", "LF">>),
                  Line(<<"redden", " ", "bold", " ", "&">>) >>, {} >>,
             << << AgreeOnAscii, Line(<<High, "red">>), Line(<<"a">>) >>, {} >>,
             << << Line(<<"red">>) \o Text("fancy") \o Text("a"), EndOfRecord,
                  Text("orange") \o Text("LF"), Line(<<"a">>) >>, {} >>}

\* Days pass, files cannot be opened, the world is closed and opened again
LogScenarios ==
    {<< <<Text("a") \o Text("LF"), Line(<<" ", "<">>)>>,
        {"midnight", "close", "nofile", "echo"} >>,
     << <<Text("LF")>>, {"send", "echo", "close", "midnight"} >>}

AllScenarios == TelnetScenarios \cup ReopenScenarios \cup StyledScenarios \cup LogScenarios
SomeTyped == {<<"a", "b", "c">>, <<"a", "b">>, <<"LF", "a">>, <<"IAC", "LF">>}
SomeEchoes == {<<"a", "'", "TAB">>}
=============================================================================
