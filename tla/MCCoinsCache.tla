---------------------------- MODULE MCCoinsCache ----------------------------
(* Small instances of CoinsCache for TLC.                                  *)
EXTENDS CoinsCache

CONSTANTS t1, t2, b1, b2

=============================================================================
