---------------------------- MODULE AliasService ----------------------------
(***************************************************************************)
(* Threads that process transactions (kubu-tx/core/tx_processor.go).       *)
(* AliasState and AccountState have a lock each, and ProcessTransaction    *)
(* holds none: a handle is resolved in one step and the value transferred  *)
(* in a later one, and the block number of a registration is read before   *)
(* the lock of the registry is taken.                                      *)
(***************************************************************************)
EXTENDS AliasState

CONSTANTS Thread, Idle

VARIABLES
  call,    \* per thread: Idle, or the transaction and what was read for it
  height   \* checking only: the block in which each record was made

vars == <<state, call, height>>

Reading == [tx : Transaction, num : Nat] \cup [tx : Transaction, to : Address]
ASSUME IdleAssumption == Idle \notin Reading

ServiceInit ==
  /\ Init
  /\ call = [t \in Thread |-> Idle]
  /\ height = [k \in {} |-> Nothing]

Return(t) == call' = [call EXCEPT ![t] = Idle]

(* A standard transfer makes one call.                                     *)
StandardTransfer(tx) ==
  /\ tx.type = "standard"
  /\ Transfer(tx.sender, tx.recipient, Total(tx))
  /\ UNCHANGED <<records, printed, block, call, height>>

(* The block number of a registration is read.                             *)
BeginRegister(t, tx) ==
  /\ call[t] = Idle /\ tx.type = "register"
  /\ call' = [call EXCEPT ![t] = [tx |-> tx, num |-> block]]
  /\ UNCHANGED <<state, height>>

(* ResolveAlias finds the handle of an alias transfer.                     *)
ResolveAlias(t, tx) ==
  /\ call[t] = Idle /\ tx.type = "alias"
  /\ Registered(tx.recipient)
  /\ call' = [call EXCEPT ![t] = [tx |-> tx, to |-> Owner(tx.recipient)]]
  /\ UNCHANGED <<state, height>>

(* The call that was begun succeeds.                                       *)
Finish(t) ==
  /\ call[t] # Idle
  /\ LET tx == call[t].tx IN
     \/ /\ tx.type = "register"
        /\ RegisterAlias(tx.recipient, tx.sender, call[t].num)
        /\ height' = [k \in DOMAIN records' |->
                        IF k = Normal(tx.recipient) THEN block ELSE height[k]]
        /\ UNCHANGED <<printed, balance, block>>
     \/ /\ tx.type = "alias"
        /\ AliasTransfer(tx, call[t].to)
        /\ UNCHANGED <<records, block, height>>
  /\ Return(t)

(* It fails: the handle is taken or does not fit, or the sender is short.  *)
Fail(t) ==
  /\ call[t] # Idle
  /\ LET tx == call[t].tx IN
     \/ tx.type = "register" /\ ~MayRegister(tx.recipient)
     \/ tx.type = "alias" /\ Total(tx) > balance[tx.sender]
  /\ Return(t)
  /\ UNCHANGED <<state, height>>

ServiceNext ==
  \/ NewBlock /\ UNCHANGED <<call, height>>
  \/ \E tx \in Transaction : StandardTransfer(tx)
  \/ \E t \in Thread :
       \/ \E tx \in Transaction : BeginRegister(t, tx) \/ ResolveAlias(t, tx)
       \/ Finish(t) \/ Fail(t)

ServiceSpec == ServiceInit /\ [][ServiceNext]_vars

-----------------------------------------------------------------------------
(* What a call c holds agrees with the registry r and block number n.      *)
Agrees(c, r, n) ==
  LET k == Normal(c.tx.recipient) IN
  /\ c.tx \in Transaction /\ c.tx.type # "standard"
  /\ c.tx.type = "register" => c.num \in 0 .. n
  /\ c.tx.type = "alias" => k \in DOMAIN r /\ c.to = r[k].owner

(* What a thread read is still right when it is used: a resolved handle    *)
(* still has the owner that was found, and the block number read is not    *)
(* in the future.                                                          *)
PendingIsRight ==
  \A t \in Thread : call[t] # Idle => Agrees(call[t], records, block)

(* The registry with the block in which each record was made in the place  *)
(* of the block number that was read for it.                               *)
Dated ==
  [k \in DOMAIN records |->
     [handle |-> records[k].handle, owner |-> records[k].owner, num |-> height[k]]]

Atomic == INSTANCE AliasState WITH records <- Dated

(* "ProcessTransaction executes alias resolution and balance updates       *)
(* atomically": but for the block numbers in the records, the steps of the *)
(* threads are those of transactions that take effect at once.             *)
TransactionsAreAtomic == Atomic!AtomicSpec

(* AliasRecord.BlockNum is the "Registration block height": the block in   *)
(* which the handle became registered.  ProcessTransaction reads it before *)
(* RegisterAlias takes its lock.                                           *)
BlockNumIsHeight == \A k \in DOMAIN records : records[k].num = height[k]

(* AliasRecord.Handle is a "Normalized handle": resolving it finds the     *)
(* record.                                                                 *)
HandleFindsRecord ==
  \A k \in DOMAIN records :
    LET h == records[k].handle IN Registered(h) /\ Owner(h) = records[k].owner

(* "Transferred %d KUBU from %s to @%s" reports tx.Amount: the balance of  *)
(* the sender went down by at least that, unless the sender is the owner   *)
(* of the handle.                                                          *)
ReportedIsMoved ==
  [][LET s == printed'.tx.sender IN
     printed' # printed /\ printed'.to # s =>
       balance[s] - balance'[s] >= printed'.tx.amount]_vars

=============================================================================
