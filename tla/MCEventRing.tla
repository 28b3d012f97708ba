---------------------------- MODULE MCEventRing ----------------------------
(* Model values and symmetry for TLC's run of EventRing.                   *)
EXTENDS EventRing, TLC

CONSTANTS w1, w2, p1

TwoWorlds == {w1, w2}
OnePoll == {p1}

Symmetric == Permutations(Worlds)
=============================================================================
