----------------------------- MODULE AliasState -----------------------------
(***************************************************************************)
(* The alias registry (state/alias.go) and what a transaction does to it   *)
(* and to the balances (kubu-tx/core/tx_processor.go), each transaction in *)
(* one step: "ProcessTransaction executes alias resolution and balance     *)
(* updates atomically".                                                    *)
(*                                                                         *)
(* AccountState is not in the repository: a transfer moves the value if    *)
(* the sender has it and fails otherwise, and the block number grows.      *)
(***************************************************************************)
EXTENDS Integers

CONSTANTS
  Name,      \* the text of a handle in lower case without its leading "@"s
  Length,    \* the length of a name
  MaxAts,    \* bound: the leading "@"s of a handle
  Address,
  Amount,    \* amounts and fees
  Width,     \* of the unsigned integers: 64 in the code
  Supply,    \* the balance of every address at the start
  MaxBlock,  \* bound: the block number
  Nothing

ASSUME LengthAssumption == Length \in [Name -> Nat]
ASSUME BoundAssumption == MaxAts \in Nat /\ MaxBlock \in Nat /\ Width \in Nat
ASSUME AmountAssumption == Amount \subseteq 0 .. 2^Width - 1 /\ Supply \in 0 .. 2^Width - 1

VARIABLES
  records,   \* AliasState.records: a record for each normalized handle in use
  printed,   \* the last line printed: a transaction and its resolved recipient
  balance,   \* AccountState: external
  block      \* AccountState.CurrentBlock(): external

state == <<records, printed, balance, block>>

Handle == [ats : 0 .. MaxAts, upper : BOOLEAN, name : Name]

Transaction ==
  [type : {"standard"}, sender : Address, recipient : Address, amount : Amount, fee : Amount]
  \cup [type : {"alias"}, sender : Address, recipient : Handle, amount : Amount, fee : Amount]
  \cup [type : {"register"}, sender : Address, recipient : Handle]

(* strings.ToLower(strings.TrimPrefix(handle, "@")): one "@" is removed.   *)
Normal(h) ==
  [ats |-> IF h.ats = 0 THEN 0 ELSE h.ats - 1, upper |-> FALSE, name |-> h.name]

(* The length check of RegisterAlias, on a normalized handle.              *)
Fits(k) == Length[k.name] + k.ats \in 3 .. 20

(* tx.Amount + tx.Fee, in uint64.                                          *)
Total(tx) == (tx.amount + tx.fee) % 2^Width

Registered(h) == Normal(h) \in DOMAIN records

Owner(h) == records[Normal(h)].owner

(* Mutant: a handle that is taken is bound again. *)
MutMayRegister(h) == Fits(Normal(h))

MayRegister(h) == Fits(Normal(h)) /\ ~Registered(h)

(* RegisterAlias, when it succeeds.                                        *)
RegisterAlias(h, o, n) ==
  /\ MayRegister(h)
  /\ records' = [k \in DOMAIN records \cup {Normal(h)} |->
                   IF k = Normal(h) THEN [handle |-> k, owner |-> o, num |-> n]
                   ELSE records[k]]

(* AccountState.Transfer, when it succeeds.                                *)
Transfer(s, r, v) ==
  LET paid == [balance EXCEPT ![s] = @ - v]
  IN  /\ v <= balance[s]
      /\ balance' = [paid EXCEPT ![r] = @ + v]

(* The end of an alias transfer to r, when it succeeds.                    *)
AliasTransfer(tx, r) ==
  /\ Transfer(tx.sender, r, Total(tx))
  /\ printed' = [tx |-> tx, to |-> r]

NewBlock ==
  /\ block < MaxBlock
  /\ block' = block + 1
  /\ UNCHANGED <<records, printed, balance>>

Init ==
  /\ records = [k \in {} |-> Nothing]
  /\ printed = Nothing
  /\ balance = [a \in Address |-> Supply]
  /\ block = 0

-----------------------------------------------------------------------------
(* Every transaction takes effect in one step.                             *)

ProcessTransaction(tx) ==
  /\ UNCHANGED block
  /\ \/ /\ tx.type = "standard"
        /\ Transfer(tx.sender, tx.recipient, Total(tx))
        /\ UNCHANGED <<records, printed>>
     \/ /\ tx.type = "alias"
        /\ Registered(tx.recipient)
        /\ AliasTransfer(tx, Owner(tx.recipient))
        /\ UNCHANGED records
     \/ /\ tx.type = "register"
        /\ RegisterAlias(tx.recipient, tx.sender, block)
        /\ UNCHANGED <<printed, balance>>

AtomicNext == NewBlock \/ \E tx \in Transaction : ProcessTransaction(tx)

AtomicSpec == Init /\ [][AtomicNext]_state

=============================================================================
