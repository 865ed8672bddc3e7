-------------------------- MODULE MCNicknameLedger --------------------------
(* Small instances of NicknameLedger for TLC.                              *)
EXTENDS NicknameLedgerInv, TLC

CONSTANTS n1, n2, a, b, o1, o2, o3, o4, p1, p2

Lengths == [n \in Name |-> IF n = n1 THEN 8 ELSE 4]

Symmetry == Permutations(Outpoint) \cup Permutations(Owner) \cup Permutations(Payout)

=============================================================================
