------------------------------ MODULE MCServer ------------------------------
(* Model values for TLC's runs of Server.                                  *)
EXTENDS Server, TLC

CONSTANTS c1, c2, c3, w1, w2, u1, k1

OneConn == {c1}
TwoConns == {c1, c2}
ThreeConns == {c1, c2, c3}
TwoWorkers == {w1, w2}
OneUser == {u1}
OneConnector == {k1}
\* Three browsers queue for the two workers; two wait for events and act on worlds; one
\* connects worlds, each with a thread of its own; one does the rest
AllLoads == {
    [conns |-> ThreeConns, kinds |-> {"page"}],
    [conns |-> TwoConns, kinds |-> {"wait", "world"}],
    [conns |-> OneConn, kinds |-> {"connect"}],
    [conns |-> OneConn, kinds |-> {"startup", "open", "login", "logout"}] }
=============================================================================
