---------------------------- MODULE MCNicknamePool ----------------------------
(* Small instances of NicknamePool for TLC.                                *)
EXTENDS NicknamePool, TLC

CONSTANTS n1, a, b, o1, o2, o3, p1, p2

Lengths == [n \in Name |-> 8]

Amounts == 11 .. 13

Symmetry == Permutations(Outpoint)

=============================================================================
