---------------------------- MODULE MCCheckQueue ----------------------------
(* A small instance of CheckQueue for TLC.                                 *)
EXTENDS CheckQueue

CONSTANTS w1, w2, m, c1, c2, c3, c4

=============================================================================
