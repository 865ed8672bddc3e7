-------------------------- MODULE MCNicknameRestart --------------------------
(* Small instances of NicknameRestart for TLC.                             *)
EXTENDS NicknameRestart, TLC

CONSTANTS n1, a, b, o1, o2, o3, p1

Lengths == [n \in Name |-> 8]

Amounts == 11 .. 14

Symmetry == Permutations(Outpoint)

=============================================================================
