---------------------------- MODULE MCAliasService --------------------------
(* A small instance of AliasService for TLC.                               *)
EXTENDS AliasService, TLC

CONSTANT ab   \* a name that is too short

Lengths == [n \in Name |-> IF n = ab THEN 2 ELSE 3]

(* Threads and addresses can be exchanged; no property is about liveness.  *)
Exchanges == Permutations(Thread) \cup Permutations(Address)

=============================================================================
