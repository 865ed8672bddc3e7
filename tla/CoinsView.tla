----------------------------- MODULE CoinsView ------------------------------
(***************************************************************************)
(* What the node relies on when it uses coins views (the interface         *)
(* CCoinsView of src/coins.h): the set of unspent outputs is a plain map   *)
(* with a best block.  There is one on disk, one at the tip, and a scratch *)
(* copy while a block is connected or disconnected, which is either        *)
(* pushed to the tip as a whole or dropped.                                *)
(***************************************************************************)
CONSTANTS Txid, Out, Block

VARIABLES
  disk,     \* coins and best block on disk
  tip,      \* coins and best block of the active chain
  scratch,  \* the same while a view is open
  open      \* a view on the tip is open

vars == <<disk, tip, scratch, open>>

Coins == [Txid -> SUBSET Out]
Contents == [coins : Coins, best : Block]

Init ==
  /\ disk \in [coins : {[t \in Txid |-> {}]}, best : Block]
  /\ tip = disk
  /\ scratch = tip
  /\ open = FALSE

Open ==
  /\ ~open /\ open' = TRUE
  /\ scratch' = tip
  /\ UNCHANGED <<disk, tip>>

Write(t, c) ==
  /\ open
  /\ scratch' = [scratch EXCEPT !.coins[t] = c]
  /\ UNCHANGED <<disk, tip, open>>

SetBest(b) ==
  /\ open
  /\ scratch' = [scratch EXCEPT !.best = b]
  /\ UNCHANGED <<disk, tip, open>>

Push ==
  /\ open /\ open' = FALSE
  /\ tip' = scratch
  /\ UNCHANGED <<disk, scratch>>

Drop ==
  /\ open /\ open' = FALSE
  /\ scratch' = tip
  /\ UNCHANGED <<disk, tip>>

Save ==
  /\ ~open
  /\ disk' = tip
  /\ UNCHANGED <<tip, scratch, open>>

Restart ==
  /\ open' = FALSE
  /\ tip' = disk
  /\ scratch' = disk
  /\ UNCHANGED disk

Next ==
  \/ Open \/ Push \/ Drop \/ Save \/ Restart
  \/ \E t \in Txid, c \in SUBSET Out : Write(t, c)
  \/ \E b \in Block : SetBest(b)

Spec == Init /\ [][Next]_vars

=============================================================================
