----------------------------- MODULE MCWorldNet -----------------------------
(* Model values for TLC's runs of WorldNet.                                *)
EXTENDS WorldNet, TLC

CONSTANTS w1, w2, t1, t2

TwoWorlds == {w1, w2}
TwoThreads == {t1, t2}

\* one who waits, with two worlds, and one who does not, with a world and a descriptor
AllUsers == {[opens |-> TwoWorlds, impatient |-> FALSE, fds |-> Fds],
             [opens |-> {w1}, impatient |-> TRUE, fds |-> {3}]}
ImpatientUser == {[opens |-> TwoWorlds, impatient |-> TRUE, fds |-> Fds]}
=============================================================================
