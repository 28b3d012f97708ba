------------------------------- MODULE Logger -------------------------------
(***************************************************************************)
(* logger.c: a log of one file per day.  A logger is a record: logday, the *)
(* day it believes it is; logout, the day whose file it has open, or NONE; *)
(* disk, for every day the lines of its file.                              *)
(*                                                                         *)
(* The operators named Bug... are the next definition with a bug in it;    *)
(* nothing here uses them (see EventRing).                                 *)
(***************************************************************************)
EXTENDS Integers, Sequences

CONSTANTS
    MaxDay,            \* bound: days are 0 .. MaxDay
    YearLen            \* days in a year

ASSUME LoggerAssumption ==
    /\ MaxDay \in Nat
    /\ YearLen \in Nat \ {0}

Days == 0 .. MaxDay
NONE == -1

Closing == <<"23:59:59 -- LOG ROLLOVER --">>
Opening0 == <<"00:00:00 -- LOG ROLLOVER --">>
Marks == {Closing, Opening0}

NoLog == [logday |-> 0, logout |-> NONE, disk |-> [d \in Days |-> <<>>]]

Write(lg, day, line) == [lg EXCEPT !.disk[day] = Append(@, line)]

\* struct tm has no year in tm_yday: the same day a year later is no rollover
Rolls(lg, today) == today % YearLen # lg.logday % YearLen

\* The old day's file gets its mark and is closed
Rollover(lg, today) ==
    LET marked == IF lg.logout = NONE THEN lg ELSE Write(lg, lg.logout, Closing)
    IN  [marked EXCEPT !.logday = today, !.logout = NONE]

\* fopen may fail: then this line is lost, and a mark that was due, too
OpenFile(lg, mark) ==
    LET opened == [lg EXCEPT !.logout = lg.logday]
    IN  IF mark THEN Write(opened, lg.logday, Opening0) ELSE opened

\* vllog: the logger after a line, and whether the line was written
BugMark(lg, today, line, opens) ==
    LET rolls == Rolls(lg, today)
        day == IF rolls THEN Rollover(lg, today) ELSE lg
        ready == IF day.logout # NONE \/ ~opens THEN day ELSE OpenFile(day, rolls)
    IN  IF ready.logout = NONE THEN ready ELSE Write(ready, ready.logout, line)
Vllog(lg, today, line, opens) ==
    LET rolls == Rolls(lg, today)
        day == IF rolls THEN Rollover(lg, today) ELSE lg
        ready == IF day.logout # NONE \/ ~opens THEN day
                 ELSE OpenFile(day, rolls /\ lg.logout # NONE)
    IN  IF ready.logout = NONE THEN ready ELSE Write(ready, ready.logout, line)

\* Is there a file for the next line?
HasFile(lg, today, opens) == (lg.logout # NONE /\ ~Rolls(lg, today)) \/ opens

LogStarted == <<"-- LOG STARTED --">>
LogEnded == <<"-- LOG ENDED --">>

\* logger_new and logger_free; the files stay
LoggerNew(lg, today, opens) ==
    Vllog([lg EXCEPT !.logday = today, !.logout = NONE], today, LogStarted, opens)
LoggerFree(lg, today, opens) ==
    [Vllog(lg, today, LogEnded, opens) EXCEPT !.logout = NONE]
=============================================================================
