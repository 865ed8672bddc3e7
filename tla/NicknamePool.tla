---------------------------- MODULE NicknamePool ----------------------------
(***************************************************************************)
(* The memory pool beside the nickname ledger: AcceptToMemoryPoolWorker    *)
(* with its own copy of the nickname rules, replacement, eviction, what    *)
(* connecting a block removes from the pool, and what disconnecting one    *)
(* puts back.                                                              *)
(*                                                                         *)
(* cs_main is held while a block is connected or disconnected, so the pool *)
(* takes transactions only between blocks.  Bond outputs have identities;  *)
(* ordinary inputs do not, only owners: two transactions with ordinary     *)
(* inputs of the same owner may or may not spend the same one.             *)
(***************************************************************************)
EXTENDS NicknameTxs, Sequences, FiniteSets

CONSTANT MaxPool   \* bound: transactions in the pool

ASSUME MaxPoolAssumption == MaxPool \in Nat

VARIABLES
  pool,    \* the transactions in the memory pool
  filling, \* the transactions of the block being connected
  blocks,  \* the transactions of the connected block at each height
  returning \* of a block being disconnected, those to be put back

poolVars == <<vars, pool, filling, blocks, returning>>

PoolInit ==
  /\ Init
  /\ pool = {}
  /\ filling = <<>>
  /\ blocks = [h \in 1 .. MaxHeight |-> <<>>]
  /\ returning = <<>>

CreatedBy(T) == UNION {Creates(d) : d \in T}

(* CCoinsViewMemPool: the outputs of pool transactions over the coins.     *)
View(T) ==
  [o \in Outpoint |-> IF o \in CreatedBy(T)
                      THEN Paid(CHOOSE d \in T : o \in Creates(d))
                      ELSE utxo[o]]

-----------------------------------------------------------------------------
(* CheckNicknameOperationForMempool, for a block at height h, with the     *)
(* inputs in the view v.  It reads the database: operations that are       *)
(* pending in the pool are not applied.                                    *)

BondInputs(d) == {o \in d.in.S : db.bondIdx[o] # NoName}

PoolStatus(n, h) ==
  IF db.rec[n] = NoInfo THEN "EXPIRED_AVAILABLE" ELSE GetStatus(db.rec[n], h)

PoolMutable(n, h) ==
  db.rec[n] # NoInfo /\ PoolStatus(n, h) \in {"ACTIVE", "EXPIRED_GRACE"}

(* TxHasOwnerAuthorizationInputFromView                                    *)
PoolAuthorized(d, owner, v) == owner \in d.in.P \cup {v[o].owner : o \in d.in.S}

PoolSpendsBond(d) ==
  \E o \in Outpoint : BondInputs(d) = {o} /\ db.bondIdx[o] = d.n /\ BondOf(db.rec[d.n]) = o

PoolRegister(d, h, v) ==
  /\ BondInputs(d) = {}
  /\ d.fee >= Price(d.n).fee
  /\ PoolAuthorized(d, d.ow, v)
  /\ PoolStatus(d.n, h) \in {"EXPIRED_AVAILABLE", "RELEASED", "BOND_CLAIMABLE"}
  /\ d.amount = Price(d.n).bond

PoolUpdateOrRelease(d, h, v) ==
  /\ BondInputs(d) = {}
  /\ PoolMutable(d.n, h)
  /\ PoolAuthorized(d, db.rec[d.n].owner, v)

PoolTransfer(d, h, v) ==
  /\ PoolSpendsBond(d)
  /\ PoolMutable(d.n, h)
  /\ PoolAuthorized(d, db.rec[d.n].owner, v)
  /\ d.amount = db.rec[d.n].bondAmount

PoolRenew(d, h, v) ==
  /\ PoolSpendsBond(d)
  /\ PoolMutable(d.n, h)
  /\ PoolAuthorized(d, db.rec[d.n].owner, v)
  /\ LET renewed == db.rec[d.n].bondAmount
                      + GetRenewalBondIncrease(NameLen[d.n], db.pricing.multiplier)
     IN  renewed <= MaxMoney /\ d.amount = renewed /\ d.ow = db.rec[d.n].owner

(* Mutant: the bond of a live name may be claimed. *)
MutPoolClaim(d, h, v) == \E o \in Outpoint : BondInputs(d) = {o} /\ db.bondIdx[o] = d.n

PoolClaim(d, h, v) ==
  \E o \in Outpoint :
    /\ BondInputs(d) = {o} /\ db.bondIdx[o] = d.n
    /\ BondOf(db.rec[d.n]) = o =>
         /\ PoolStatus(d.n, h) = "BOND_CLAIMABLE"
         /\ PoolAuthorized(d, db.rec[d.n].owner, v)

PoolRules(d, h, v) ==
  \/ d.type = "NONE" /\ BondInputs(d) = {}
  \/ d.type = "REGISTER" /\ PoolRegister(d, h, v)
  \/ d.type \in {"UPDATE", "RELEASE"} /\ PoolUpdateOrRelease(d, h, v)
  \/ d.type = "TRANSFER" /\ PoolTransfer(d, h, v)
  \/ d.type = "RENEW" /\ PoolRenew(d, h, v)
  \/ d.type = "CLAIM_BOND" /\ PoolClaim(d, h, v)

-----------------------------------------------------------------------------
(* The pool's own structure.                                               *)

SameName(d, e) == d.type # "NONE" /\ e.type # "NONE" /\ d.n = e.n

(* The transactions of T that spend an input of d: those that spend the    *)
(* same bond output, and any that may spend the same ordinary one.         *)
BondConflicts(T, d) == {e \in T : e.in.S \cap d.in.S # {}}

Conflicts(T, d) ==
  {C \in SUBSET (T \ {d}) :
     /\ BondConflicts(T, d) \ {d} \subseteq C
     /\ \A e \in C : e.in.S \cap d.in.S # {} \/ e.in.P \cap d.in.P # {}}

Children(T, C) == {e \in T : e.in.S \cap CreatedBy(C) # {}}

(* C and all that depends on it: the least set that has C and, with a      *)
(* transaction, those that spend its outputs.                              *)
CalculateDescendants(T, C) ==
  {e \in T \cup C :
     \A D \in SUBSET (T \cup C) : C \subseteq D /\ Children(T, D) \subseteq D => e \in D}

(* removeRecursive: also when the transactions of C are not in the pool.   *)
RemoveRecursive(T, C) == T \ CalculateDescendants(T, C)

IsAncestor(T, c, d) ==
  \E e \in CalculateDescendants(T, {c}) : d.in.S \cap Creates(e) # {}

(* Mutant: a pending operation on the name is no obstacle. *)
MutNoPending(T, C, d) == TRUE

(* A pending operation on the same name is refused, unless the new one     *)
(* replaces it.                                                            *)
NoPending(T, C, d) == \A e \in T \ C : ~SameName(d, e)

Acceptable(T, C, d, h) ==
  /\ d \notin T
  /\ Creates(d) \cap (used \cup CreatedBy(T)) = {}
  /\ \A o \in d.in.S : View(T)[o] # NoCoin
  /\ PoolRules(d, h, View(T))
  /\ NoPending(T, C, d)
  /\ \A c \in C : ~IsAncestor(T, c, d)
  /\ C # {} => \A o \in d.in.S \cap CreatedBy(T) : \E e \in C : o \in e.in.S

(* Mutant: the descendants of a replaced transaction stay. *)
MutReplaced(T, C, d) == (T \ C) \cup {d}

Replaced(T, C, d) == RemoveRecursive(T, C) \cup {d}

(* The pools that accepting d may lead to.                                 *)
Accepted(T, d, h) ==
  {Replaced(T, C, d) : C \in {K \in Conflicts(T, d) : Acceptable(T, K, d, h)}}

AcceptToMemoryPool(d) ==
  /\ blk = NoBlock /\ returning = <<>>
  /\ pool' \in Accepted(pool, d, height + 1)
  /\ Cardinality(pool') <= MaxPool
  /\ UNCHANGED <<vars, filling, blocks, returning>>

(* Expire and TrimToSize                                                   *)
Evict(d) ==
  /\ blk = NoBlock /\ returning = <<>>
  /\ pool' = RemoveRecursive(pool, {d})
  /\ UNCHANGED <<vars, filling, blocks, returning>>

-----------------------------------------------------------------------------
(* Blocks.                                                                 *)

NewBlock ==
  /\ returning = <<>>
  /\ BeginBlock
  /\ UNCHANGED <<pool, filling, blocks, returning>>

(* Any transaction, from the pool or not.  Different transactions do not   *)
(* have the same output.                                                   *)
NewTx(d) ==
  /\ \A e \in pool : Creates(d) \cap Creates(e) # {} => d = e
  /\ Does(d)
  /\ filling' = Append(filling, d)
  /\ UNCHANGED <<pool, blocks, returning>>

NewAbandon ==
  /\ AbandonBlock
  /\ filling' = <<>>
  /\ UNCHANGED <<pool, blocks, returning>>

(* The pools left after one transaction of a connected block.              *)
Mined(T, d) == {RemoveRecursive(T \ {d}, C) : C \in Conflicts(T \ {d}, d)}

(* The pools after each transaction of the block.                          *)
Removals(T, block) ==
  {pools \in [0 .. Len(block) -> SUBSET T] :
     /\ pools[0] = T
     /\ \A i \in 1 .. Len(block) : pools[i] \in Mined(pools[i - 1], block[i])}

RemoveForBlock(T, block) == {pools[Len(block)] : pools \in Removals(T, block)}

NewCommit ==
  /\ CommitBlock
  /\ pool' \in RemoveForBlock(pool, filling)
  /\ blocks' = [blocks EXCEPT ![BlockHeight] = filling]
  /\ filling' = <<>>
  /\ UNCHANGED returning

(* DisconnectTip: the coins and the database become those of the previous  *)
(* block, then the transactions are put back into the pool one by one.     *)
Disconnect ==
  /\ returning = <<>>
  /\ DisconnectBlock
  /\ returning' = blocks[height]
  /\ blocks' = [blocks EXCEPT ![height] = <<>>]
  /\ UNCHANGED <<pool, filling>>

Refused(T, d) == RemoveRecursive(T, {d})

(* A transaction that is not accepted again (for a reason modelled here or *)
(* another) is removed with all that depends on it.  chainActive is moved  *)
(* by UpdateTip, after this: until then it has the disconnected block, at  *)
(* height + 1, as its tip.                                                 *)
PutBack ==
  /\ returning # <<>>
  /\ LET d == Head(returning)
     IN  pool' \in Accepted(pool, d, height + 2) \cup {Refused(pool, d)}
  /\ returning' = Tail(returning)
  /\ UNCHANGED <<vars, filling, blocks>>

PoolNext ==
  \/ \E d \in Tx : AcceptToMemoryPool(d)
  \/ \E d \in pool : Evict(d)
  \/ NewBlock \/ NewAbandon \/ NewCommit
  \/ \E d \in Tx : NewTx(d)
  \/ Disconnect \/ PutBack

PoolSpec == PoolInit /\ [][PoolNext]_poolVars

-----------------------------------------------------------------------------
Settled == blk = NoBlock /\ returning = <<>>

(* The pool never holds two operations on one name, whatever is replaced,  *)
(* mined or put back by a reorganisation: the check against pending        *)
(* operations that CheckNicknameOperationForMempool makes on entry is      *)
(* enough.                                                                 *)
OnePendingPerName == \A d, e \in pool : SameName(d, e) => d = e

(* The pool can always be mined as far as coins go (CTxMemPool::check):    *)
(* every bond input is unspent on the chain or an output of another pool   *)
(* transaction, none is spent twice, and nothing in it is on the chain     *)
(* already.  Replacement, mined conflicts and reorganisations must remove  *)
(* what depends on what they remove.                                       *)
PoolConsistent ==
  Settled =>
    /\ \A d \in pool : \A o \in d.in.S : View(pool)[o] # NoCoin
    /\ \A d, e \in pool : d # e => d.in.S \cap e.in.S = {}
    /\ CreatedBy(pool) \cap used = {}

Minable(d) ==
  /\ Creates(d) \cap used = {}
  /\ \A o \in d.in.S : utxo[o] # NoCoin

(* The nickname rules are written twice, for the pool and for blocks.  On  *)
(* the same database they agree: for a transaction whose coins are on the  *)
(* chain, CheckNicknameOperationForMempool accepts it for the next block   *)
(* exactly if BuildNicknameBlockUpdates accepts it as the first            *)
(* transaction of that block.                                              *)
RulesAgree ==
  blk # NoBlock /\ filling = <<>> =>
    \A d \in Tx : Minable(d) => (PoolRules(d, height + 1, utxo) <=> BlockRules(d))

(* TestBlockValidity, of a block with the transaction d: ConnectBlock with *)
(* fJustCheck, which returns before the nickname rules.                    *)
TestBlockValidity(d) == Minable(d)

(* "Check a block is completely valid from start to finish (only works on  *)
(* top of our current best block, with cs_main held)" (validation.h): a    *)
(* block made of a pool transaction that TestBlockValidity lets through is *)
(* one that ConnectBlock connects.                                         *)
TestedBlockConnects ==
  blk # NoBlock /\ filling = <<>> =>
    \A d \in pool : TestBlockValidity(d) => BlockRules(d)

-----------------------------------------------------------------------------
(* The inductive invariant behind these, beside that of the ledger.        *)

Txs(s) == {s[i] : i \in 1 .. Len(s)}

(* The working state against the transactions that made it: the outputs it *)
(* has created are theirs, the bonds it misses were spent by them, and one *)
(* that shares an output with a pool transaction is that transaction.      *)
FillingGood ==
  /\ filling = <<>> => blk = Begun
  /\ blk.used \ used \subseteq CreatedBy(Txs(filling))
  /\ \A o \in Outpoint :
       utxo[o] # NoCoin \/ o \in CreatedBy(Txs(filling)) =>
         blk.view[o] # NoCoin \/ \E d \in Txs(filling) : o \in d.in.S
  /\ \A d \in Txs(filling), e \in pool : Creates(d) \cap Creates(e) # {} => d = e

(* What disconnecting a block will take from the coins was created by its  *)
(* transactions.                                                           *)
BlocksGood ==
  \A h \in 1 .. MaxHeight :
    chain[h] # NoBlock =>
      /\ chain[h].created \subseteq CreatedBy(Txs(blocks[h]))
      /\ \A o \in DOMAIN chain[h].spent : chain[h].spent[o] # NoCoin

(* At every step, also while a block is connected or its transactions are  *)
(* put back: a bond input of a pool transaction is an output of another, or*)
(* unspent on the chain, or an output of a transaction still to be put     *)
(* back; and the block in progress and the kept ones are what their        *)
(* transactions say.                                                       *)
PoolInv ==
  /\ pool \subseteq Tx
  /\ filling \in Seq(Tx) /\ returning \in Seq(Tx)
  /\ blocks \in [1 .. MaxHeight -> Seq(Tx)]
  /\ blk = NoBlock => filling = <<>>
  /\ blk # NoBlock => returning = <<>> /\ FillingGood
  /\ OnePendingPerName
  /\ \A d \in pool : \A o \in d.in.S :
       o \in CreatedBy(pool \cup Txs(returning)) \/ utxo[o] # NoCoin
  /\ \A d, e \in pool : d # e => d.in.S \cap e.in.S = {}
  /\ CreatedBy(pool) \cap used = {}
  /\ BlocksGood

=============================================================================
