----------------------------- MODULE MCLongPoll -----------------------------
(* Model values for TLC's runs of LongPoll.                                *)
EXTENDS LongPoll, TLC

CONSTANTS w1, p1, p2, g1

OneWorld == {w1}
TwoPolls == {p1, p2}
OnePage == {g1}
=============================================================================
