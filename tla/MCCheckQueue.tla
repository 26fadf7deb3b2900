---------------------------- MODULE MCCheckQueue ----------------------------
(* Instance of CheckQueue for TLC: two workers and the master, and as many *)
(* checks as it takes for a batch of more than one.                        *)
EXTENDS CheckQueue

CONSTANTS w1, w2, m, c1, c2, c3, c4, none

MCWorkers == {w1, w2}
MCChecks  == {c1, c2, c3, c4}
MCValid   == {c1, c2, c4}
=============================================================================
