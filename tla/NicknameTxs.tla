----------------------------- MODULE NicknameTxs -----------------------------
(***************************************************************************)
(* Transactions as values.  In NicknameLedger a transaction is an action;  *)
(* here it is a record that can be kept in the memory pool or in a block   *)
(* file and be processed later, against whatever the state is then.  So it *)
(* also says what its outputs pay and what fee it leaves, which were right *)
(* when it was made.                                                       *)
(*                                                                         *)
(* n is the name of the operation; o its bond output, which pays amount to *)
(* ow; P and S are the inputs as in NicknameLedger.                        *)
(***************************************************************************)
EXTENDS NicknameLedger

CONSTANTS
  Amount,  \* bound: the amounts a bond output may have
  Fee      \* bound: the fees a registration may leave

ASSUME AmountAssumption == Amount \subseteq Nat /\ Fee \subseteq Nat

Inputs == [P : SUBSET Owner, S : SUBSET Outpoint]

(* ExtractNicknameOperationFromTx: a transaction has one operation or none.*)
Tx ==
  [type : {"NONE"}, in : Inputs]
    \cup [type : {"REGISTER"}, n : Name, p : Payout, fee : Fee,
          o : Outpoint, ow : Owner, amount : Amount, in : Inputs]
    \cup [type : {"UPDATE"}, n : Name, p : Payout, in : Inputs]
    \cup [type : {"TRANSFER", "RENEW"}, n : Name,
          o : Outpoint, ow : Owner, amount : Amount, in : Inputs]
    \cup [type : {"RELEASE", "CLAIM_BOND"}, n : Name, in : Inputs]

(* The outputs of d that are nickname bonds, and what they pay.            *)
Creates(d) == IF d.type \in {"REGISTER", "TRANSFER", "RENEW"} THEN {d.o} ELSE {}

Paid(d) == BondOutput(d.ow, d.amount)

(* FindUniqueBondOutput finds a bond output of d that pays amount to owner.*)
FindsBondOutput(d, owner, amount) == Paid(d) = BondOutput(owner, amount)

(* One iteration of the loop of BuildNicknameBlockUpdates: what it checks, *)
(* and the working state that it leaves.                                   *)
BlockRules(d) ==
  \/ d.type = "NONE" /\ MayEnter(d.in.S)
  \/ /\ d.type = "REGISTER"
     /\ MayRegister(d.n, d.ow, d.o, d.in.P, d.in.S)
     /\ d.fee >= Price(d.n).fee
     /\ FindsBondOutput(d, d.ow, Price(d.n).bond)
  \/ d.type \in {"UPDATE", "RELEASE"} /\ MayAmend(d.n, d.in.P, d.in.S)
  \/ /\ d.type = "TRANSFER"
     /\ MayTransfer(d.n, d.o, d.in.P, d.in.S)
     /\ FindsBondOutput(d, d.ow, blk.current[d.n].bondAmount)
  \/ /\ d.type = "RENEW"
     /\ MayRenew(d.n, d.o, d.in.P, d.in.S)
     /\ FindsBondOutput(d, blk.current[d.n].owner, RenewedAmount(d.n))
  \/ d.type = "CLAIM_BOND" /\ MayClaimCurrent(d.n, d.in.P, d.in.S)
  \/ d.type = "CLAIM_BOND" /\ \E o \in d.in.S : MayClaimOld(d.n, o, d.in.S)

Result(d) ==
  CASE d.type = "NONE"     -> Enter(d.in.S, {})
    [] d.type = "REGISTER" -> Registered(d.n, d.ow, d.p, d.o, d.in.S)
    [] d.type = "UPDATE"   -> Updated(d.n, d.p, d.in.S)
    [] d.type = "TRANSFER" -> Transferred(d.n, d.ow, d.o, d.in.S)
    [] d.type = "RENEW"    -> Renewed(d.n, d.o, d.in.S)
    [] d.type = "RELEASE"  -> Released(d.n, d.in.S)
    [] d.type = "CLAIM_BOND" ->
         IF SpendsCurrentBond(d.n, d.in.S) THEN CurrentClaimed(d.n, d.in.S)
                                           ELSE OldClaimed(d.n, d.in.S)

Does(d) ==
  /\ BlockRules(d)
  /\ blk' = Result(d)
  /\ Processed(d.type, d.in.S)

=============================================================================
