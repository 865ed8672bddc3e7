--------------------------- MODULE MCChainSelection ---------------------------
(* Small instances of ChainSelection for TLC.                              *)
(*                                                                         *)
(*      g - a1 - a2 - a3        b2 is rejected when it is connected, c1    *)
(*        - b1 - b2 - b3        before it is stored                        *)
(*        - c1                                                             *)
EXTENDS ChainSelection, TLC

CONSTANTS g, a1, a2, a3, b1, b2, b3, c1

Tree ==
  [b \in Block \ {Genesis} |->
     CASE b \in {a1, b1, c1} -> g [] b = a2 -> a1 [] b = a3 -> a2
       [] b = b2 -> b1 [] b = b3 -> b2]

Depth == [b \in Block |->
            CASE b = g -> 0 [] b \in {a1, b1, c1} -> 1 [] b \in {a2, b2} -> 2
              [] b \in {a3, b3} -> 3]

(* a1 is below b1 and a2 above b2, so ties go both ways.                   *)
Pointers == [b \in Block |->
               CASE b = g -> 0 [] b = a1 -> 1 [] b = b1 -> 2 [] b = c1 -> 3
                 [] b = b2 -> 4 [] b = a2 -> 5 [] b = b3 -> 6 [] b = a3 -> 7]

(* Bound: at a time, at most two blocks whose data is missing, two that    *)
(* are marked invalid, and one that is precious.  Two missing blocks let   *)
(* b3 wait for its two ancestors, and two marks let a block be invalidated *)
(* while another is rejected.                                              *)
Few ==
  /\ Cardinality(known \ data) <= 2
  /\ Cardinality(invalid) <= 2
  /\ Cardinality({b \in Block : seq[b] < 0}) <= 1

=============================================================================
