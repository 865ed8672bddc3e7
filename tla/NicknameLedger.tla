--------------------------- MODULE NicknameLedger ---------------------------
(***************************************************************************)
(* The consensus side of the nickname system: how the node applies the     *)
(* nickname operations of a block (BuildNicknameBlockUpdates and           *)
(* ConnectBlock in src/validation.cpp), commits them to the database, and  *)
(* takes them back when the block is disconnected (DisconnectBlock).       *)
(*                                                                         *)
(* A block is processed one transaction at a time: BeginBlock copies the   *)
(* coins view, each transaction action is one iteration of the loop of     *)
(* BuildNicknameBlockUpdates together with the coins that transaction      *)
(* moves, and CommitBlock is the database batch.  Nothing is persisted     *)
(* before CommitBlock, so a block that fails any check is AbandonBlock.    *)
(*                                                                         *)
(* A transaction is its operation, the set P of owners of its ordinary     *)
(* inputs, and the set S of bond outputs it spends.  Only outputs created  *)
(* as nickname bonds are in the coins view: no check looks at others.      *)
(***************************************************************************)
EXTENDS NicknameDB

CONSTANTS
  NameLen,   \* length of each name, which sets its price
  MaxMoney,  \* MAX_MONEY
  MaxReorg,  \* bound: blocks kept with their undo data, the deepest reorganisation
  NoCoin,    \* the output does not exist or is spent
  NoBlock    \* no block is being connected, or is kept at a height

ASSUME NameLenAssumption == NameLen \in [Name -> 4 .. 16]
ASSUME LedgerBoundAssumption == MaxMoney \in Nat /\ MaxReorg \in Nat \ {0}

Coin == [owner : Owner, amount : Nat]

ASSUME NoCoinAssumption == NoCoin \notin Coin

Coins == [Outpoint -> Coin \cup {NoCoin}]

(* The working state of a block: see Begun.                                *)
Block ==
  [view : Coins, used : SUBSET Outpoint,
   current : [Name -> Info \cup {NoInfo}], dirty : SUBSET Name,
   loaded : SUBSET Name, nickBond : [Name -> Outpoint \cup {NoBond}],
   bondUp : [Outpoint -> Name \cup {NoName}], bondErase : SUBSET Outpoint,
   registered : Nat, txs : 0 .. MaxBlockTxs]

ASSUME NoBlockAssumption == NoBlock \notin Block

VARIABLES
  db,      \* the nickname database
  utxo,    \* bond outputs of the coins view: a coin, or NoCoin
  used,    \* outpoints created on the active chain, spent or not
  height,  \* height of the tip
  chain,   \* undo data of the active block at each height, or NoBlock
  blk,     \* the block being connected, or NoBlock
  tx       \* checking only: the transaction processed last

vars == <<db, utxo, used, height, chain, blk, tx>>

NoTx == [type |-> "NONE", spends |-> {}]

Init ==
  /\ db = EmptyDB
  /\ utxo = [o \in Outpoint |-> NoCoin]
  /\ used = {}
  /\ height = 0
  /\ chain = [h \in 1 .. MaxHeight |-> NoBlock]
  /\ blk = NoBlock
  /\ tx = NoTx

-----------------------------------------------------------------------------
(* The working state of BuildNicknameBlockUpdates.  The records a block    *)
(* sees (NicknameWorkingState.current) start as the database's and are     *)
(* loaded on first use; loading also enters the name's bond in the         *)
(* in-memory maps nicknameBondOutpoints / bondOutpointOwners, which are    *)
(* inverse to each other and kept here as nickBond.                        *)

Begun ==
  [view       |-> utxo,
   used       |-> used,
   current    |-> db.rec,
   dirty      |-> {},
   loaded     |-> {},
   nickBond   |-> [n \in Name |-> NoBond],
   bondUp     |-> [o \in Outpoint |-> NoName],
   bondErase  |-> {},
   registered |-> 0,
   txs        |-> 0]

BeginBlock ==
  /\ blk = NoBlock
  /\ height < MaxHeight
  /\ blk' = Begun
  /\ UNCHANGED <<db, utxo, used, height, chain, tx>>

AbandonBlock ==
  /\ blk # NoBlock
  /\ blk' = NoBlock
  /\ tx' = NoTx
  /\ UNCHANGED <<db, utxo, used, height, chain>>

Cached(o) == \E n \in Name : blk.nickBond[n] = o

LookupBond(o) ==
  IF Cached(o) THEN CHOOSE n \in Name : blk.nickBond[n] = o ELSE db.bondIdx[o]

(* spentBondOutpoints: the inputs among S that are nickname bonds.         *)
SpentBonds(S) == {o \in S : LookupBond(o) # NoName}

(* The names the transaction makes the loop load, and nickBond after that. *)
LoadedBy(S, N) == N \cup ({db.bondIdx[o] : o \in {p \in S : ~Cached(p)}} \ {NoName})

LoadState(N) ==
  [n \in Name |-> IF n \in N \ blk.loaded THEN BondOf(db.rec[n])
                  ELSE blk.nickBond[n]]

(* Mutant: the height is advanced twice. *)
MutBlockHeight == height + 2

BlockHeight == height + 1

Status(n) ==
  IF blk.current[n] = NoInfo THEN "EXPIRED_AVAILABLE"
  ELSE GetStatus(blk.current[n], BlockHeight)

IsMutable(n) ==
  blk.current[n] # NoInfo /\ Status(n) \in {"ACTIVE", "EXPIRED_GRACE"}

(* The owners of all inputs of the transaction.                            *)
Signers(P, S) == P \cup {blk.view[o].owner : o \in S}

OwnerAuthorized(n, P, S) == blk.current[n].owner \in Signers(P, S)

(* The transaction spends exactly one bond, and it is the current bond of n*)
SpendsCurrentBond(n, S) ==
  \E o \in S : SpentBonds(S) = {o} /\ LookupBond(o) = n /\ BondOf(blk.current[n]) = o

(* FindUniqueBondOutput: the output of the transaction, at the fresh       *)
(* outpoint o, that pays amount to owner's key.                            *)
BondOutput(owner, amount) == [owner |-> owner, amount |-> amount]

Fresh == Outpoint \ blk.used

(* The coins view after the transaction.                                   *)
SpendCoins(S) == [o \in Outpoint |-> IF o \in S THEN NoCoin ELSE blk.view[o]]

Price(n) == GetPricing(NameLen[n], db.pricing.multiplier)

(* What every iteration of the loop does to the working state for the      *)
(* inputs S and the names N: it loads the names and spends the inputs.     *)
Enter(S, N) ==
  [blk EXCEPT !.view     = SpendCoins(S),
              !.loaded   = @ \cup LoadedBy(S, N),
              !.nickBond = LoadState(LoadedBy(S, N)),
              !.txs      = @ + 1]

CanEnter(S) ==
  /\ blk # NoBlock
  /\ blk.txs < MaxBlockTxs
  /\ S \subseteq Outpoint
  /\ \A o \in S : blk.view[o] # NoCoin

Processed(type, S) ==
  /\ tx' = [type |-> type, spends |-> S]
  /\ UNCHANGED <<db, utxo, used, height, chain>>

-----------------------------------------------------------------------------
(* The transactions of a block.                                            *)

(* Each operation is the checks that BuildNicknameBlockUpdates makes of it *)
(* (May...), and what it then makes of the working state.                  *)

(* A transaction without a nickname operation.                             *)
MayEnter(S) == CanEnter(S) /\ SpentBonds(S) = {}

PlainTx(S) ==
  /\ MayEnter(S)
  /\ blk' = Enter(S, {})
  /\ Processed("NONE", S)

(* Mutant: registering again forgets the old bond. *)
MutKeepOldBond(n) == blk.bondUp

(* The old bond of a name that is registered again stays in the index, so  *)
(* that its owner can still claim it.                                      *)
KeepOldBond(n) ==
  LET old == BondOf(blk.current[n])
  IN  [o \in Outpoint |->
         IF o = old /\ Status(n) \in {"RELEASED", "BOND_CLAIMABLE"} THEN n
         ELSE blk.bondUp[o]]

Registration(n, ow, p, o) ==
  [owner       |-> ow,
   payout      |-> p,
   activeUntil |-> BlockHeight + ActiveBlocks,
   graceUntil  |-> BlockHeight + ActiveBlocks + GraceBlocks,
   bondAmount  |-> Price(n).bond,
   bond        |-> o,
   released    |-> FALSE,
   bondClaimed |-> FALSE]

MayRegister(n, ow, o, P, S) ==
  /\ CanEnter(S) /\ o \in Fresh
  /\ SpentBonds(S) = {}
  /\ ow \in Signers(P, S)
  /\ Status(n) \in {"EXPIRED_AVAILABLE", "RELEASED", "BOND_CLAIMABLE"}

Registered(n, ow, p, o, S) ==
  [Enter(S, {n}) EXCEPT
     !.view[o]     = BondOutput(ow, Price(n).bond),
     !.used        = @ \cup {o},
     !.current[n]  = Registration(n, ow, p, o),
     !.dirty       = @ \cup {n},
     !.nickBond[n] = o,
     !.bondUp      = KeepOldBond(n),
     !.registered  = @ + 1]

Register(n, ow, p, o, P, S) ==
  /\ MayRegister(n, ow, o, P, S)
  /\ blk' = Registered(n, ow, p, o, S)
  /\ Processed("REGISTER", S)

MayAmend(n, P, S) ==
  /\ CanEnter(S)
  /\ SpentBonds(S) = {}
  /\ IsMutable(n)
  /\ OwnerAuthorized(n, P, S)

Updated(n, p, S) ==
  [Enter(S, {n}) EXCEPT !.current[n].payout = p, !.dirty = @ \cup {n}]

Update(n, p, P, S) ==
  /\ MayAmend(n, P, S)
  /\ blk' = Updated(n, p, S)
  /\ Processed("UPDATE", S)

MayTransfer(n, o, P, S) ==
  /\ CanEnter(S) /\ o \in Fresh
  /\ SpendsCurrentBond(n, S)
  /\ IsMutable(n)
  /\ OwnerAuthorized(n, P, S)

Transferred(n, new, o, S) ==
  [Enter(S, {n}) EXCEPT
     !.view[o]     = BondOutput(new, blk.current[n].bondAmount),
     !.used        = @ \cup {o},
     !.current[n]  = [@ EXCEPT !.owner = new, !.bond = o, !.bondClaimed = FALSE],
     !.dirty       = @ \cup {n},
     !.nickBond[n] = o]

Transfer(n, new, o, P, S) ==
  /\ MayTransfer(n, o, P, S)
  /\ blk' = Transferred(n, new, o, S)
  /\ Processed("TRANSFER", S)

RenewedAmount(n) ==
  blk.current[n].bondAmount
    + GetRenewalBondIncrease(NameLen[n], db.pricing.multiplier)

(* Renewal extends from the old expiry, or from now if that has passed.    *)
RenewedUntil(n) ==
  (IF blk.current[n].activeUntil > BlockHeight THEN blk.current[n].activeUntil
                                               ELSE BlockHeight) + ActiveBlocks

(* Mutant: the sum is not checked against MAX_MONEY. *)
MutMayRenew(n, o, P, S) ==
  /\ CanEnter(S) /\ o \in Fresh
  /\ SpendsCurrentBond(n, S)
  /\ IsMutable(n)
  /\ OwnerAuthorized(n, P, S)

MayRenew(n, o, P, S) ==
  /\ CanEnter(S) /\ o \in Fresh
  /\ SpendsCurrentBond(n, S)
  /\ IsMutable(n)
  /\ OwnerAuthorized(n, P, S)
  /\ RenewedAmount(n) <= MaxMoney

Renewed(n, o, S) ==
  [Enter(S, {n}) EXCEPT
     !.view[o]     = BondOutput(blk.current[n].owner, RenewedAmount(n)),
     !.used        = @ \cup {o},
     !.current[n]  = [@ EXCEPT !.activeUntil = RenewedUntil(n),
                               !.graceUntil  = RenewedUntil(n) + GraceBlocks,
                               !.bondAmount  = RenewedAmount(n),
                               !.bond        = o,
                               !.bondClaimed = FALSE,
                               !.released    = FALSE],
     !.dirty       = @ \cup {n},
     !.nickBond[n] = o]

Renew(n, o, P, S) ==
  /\ MayRenew(n, o, P, S)
  /\ blk' = Renewed(n, o, S)
  /\ Processed("RENEW", S)

Released(n, S) ==
  [Enter(S, {n}) EXCEPT
     !.current[n] = [@ EXCEPT !.released = TRUE, !.bondClaimed = FALSE],
     !.dirty      = @ \cup {n}]

Release(n, P, S) ==
  /\ MayAmend(n, P, S)
  /\ blk' = Released(n, S)
  /\ Processed("RELEASE", S)

IsClaimable(n) == Status(n) = "BOND_CLAIMABLE"

MayClaimCurrent(n, P, S) ==
  /\ CanEnter(S)
  /\ SpendsCurrentBond(n, S)
  /\ IsClaimable(n)
  /\ OwnerAuthorized(n, P, S)

CurrentClaimed(n, S) ==
  [Enter(S, {n}) EXCEPT
     !.current[n]  = [@ EXCEPT !.bondClaimed = TRUE, !.bond = NoBond],
     !.dirty       = @ \cup {n},
     !.nickBond[n] = NoBond]

ClaimCurrentBond(n, P, S) ==
  /\ MayClaimCurrent(n, P, S)
  /\ blk' = CurrentClaimed(n, S)
  /\ Processed("CLAIM_BOND", S)

(* The bond of an earlier registration of n: only its index entry goes.    *)
MayClaimOld(n, o, S) ==
  /\ CanEnter(S)
  /\ SpentBonds(S) = {o}
  /\ LookupBond(o) = n
  /\ blk.current[n] # NoInfo
  /\ BondOf(blk.current[n]) # o

OldClaimed(n, S) == [Enter(S, {n}) EXCEPT !.bondErase = @ \cup SpentBonds(S)]

ClaimOldBond(n, o, S) ==
  /\ MayClaimOld(n, o, S)
  /\ blk' = OldClaimed(n, S)
  /\ Processed("CLAIM_BOND", S)

-----------------------------------------------------------------------------
(* The end of ConnectBlock: the batch, then the coins view and the tip.    *)

Spent == [o \in {p \in Outpoint : utxo[p] # NoCoin /\ blk.view[p] = NoCoin} |-> utxo[o]]

(* The nickname undo is stored in the nickname database, the coins' in the *)
(* undo file.  "before" is for checking only: what was there before.       *)
UndoData ==
  [undo |-> UndoOf(db, blk), spent |-> Spent, created |-> blk.used \ used,
   before |-> [db |-> db, utxo |-> utxo, used |-> used]]

CommitBlock ==
  /\ blk # NoBlock
  /\ db' = WriteNicknameBatch(db, blk, BlockHeight)
  /\ utxo' = blk.view
  /\ used' = blk.used
  /\ height' = BlockHeight
  /\ chain' = [h \in 1 .. MaxHeight |->
                 IF h = BlockHeight THEN UndoData
                 ELSE IF h <= BlockHeight - MaxReorg THEN NoBlock
                 ELSE chain[h]]
  /\ blk' = NoBlock
  /\ tx' = NoTx

UndoCoins(u, e) ==
  [o \in Outpoint |-> IF o \in e.created THEN NoCoin
                      ELSE IF o \in DOMAIN e.spent THEN e.spent[o]
                      ELSE u[o]]

DisconnectBlock ==
  /\ blk = NoBlock
  /\ height > 0
  /\ chain[height] # NoBlock
  /\ db' = ApplyNicknameUndo(db, chain[height].undo, height)
  /\ utxo' = UndoCoins(utxo, chain[height])
  /\ used' = used \ chain[height].created
  /\ height' = height - 1
  /\ chain' = [chain EXCEPT ![height] = NoBlock]
  /\ UNCHANGED <<blk, tx>>

-----------------------------------------------------------------------------
NameTx(n, P, S) ==
  \/ \E ow \in Owner, p \in Payout, o \in Outpoint : Register(n, ow, p, o, P, S)
  \/ \E p \in Payout : Update(n, p, P, S)
  \/ \E new \in Owner, o \in Outpoint : Transfer(n, new, o, P, S)
  \/ \E o \in Outpoint : Renew(n, o, P, S)
  \/ Release(n, P, S)
  \/ ClaimCurrentBond(n, P, S)
  \/ \E o \in Outpoint : ClaimOldBond(n, o, S)

Next ==
  \/ BeginBlock
  \/ \E S \in SUBSET Outpoint : PlainTx(S)
  \/ \E n \in Name, P \in SUBSET Owner, S \in SUBSET Outpoint : NameTx(n, P, S)
  \/ CommitBlock
  \/ AbandonBlock
  \/ DisconnectBlock

Spec == Init /\ [][Next]_vars

-----------------------------------------------------------------------------
(* Properties.  Those of the committed state are stated of a database d and *)
(* coins u at a tip of height h, since they must hold again after a block  *)
(* is disconnected.                                                        *)

TypeOK ==
  /\ db \in DB
  /\ utxo \in Coins
  /\ used \subseteq Outpoint
  /\ height \in 0 .. MaxHeight
  /\ blk = NoBlock \/ blk \in Block

BondBackedIn(d, u) ==
  \A n \in Name :
    LET o == BondOf(d.rec[n])
    IN  o # NoBond =>
          /\ u[o] = [owner |-> d.rec[n].owner, amount |-> d.rec[n].bondAmount]
          /\ d.bondIdx[o] = n

(* The bond of a name is real money: while a record names a bond, that     *)
(* output is unspent, belongs to the recorded owner, holds exactly the     *)
(* recorded amount, and is indexed under the name (so that only a nickname *)
(* operation may spend it).  Several operations on the name in one block,  *)
(* and the undo of blocks, must keep the three in step.                    *)
BondBacked == BondBackedIn(db, utxo)

BondTrackedIn(d, u) ==
  \A o \in Outpoint :
    u[o] # NoCoin => d.bondIdx[o] \in Name /\ d.rec[d.bondIdx[o]] # NoInfo

(* No bond is orphaned: every unspent bond output on the chain, the bonds  *)
(* of earlier registrations included, is indexed under a name that has a   *)
(* record, so a CLAIM_BOND can find it.                                    *)
BondTracked == BondTrackedIn(db, utxo)

LiveNameHasBondIn(d, h) ==
  \A n \in Name :
    d.rec[n] # NoInfo
      /\ ~d.rec[n].released
      /\ (h <= d.rec[n].activeUntil \/ h <= d.rec[n].graceUntil)
      => BondOf(d.rec[n]) # NoBond

(* A name that was not released keeps its bond through the last block of   *)
(* its grace period: no block up to that height, that one included, may    *)
(* give the bond back.  Stated by the recorded heights, not by GetStatus,  *)
(* so that an off-by-one in the life cycle would show.                     *)
LiveNameHasBond == LiveNameHasBondIn(db, height)

(* However often names are renewed, a recorded bond is a possible output   *)
(* value: RENEW adds to the bond for ever, and the sum stays in MoneyRange *)
(* (as long as prices themselves do).                                      *)
BondsAreMoney ==
  \A n \in Name : db.rec[n] # NoInfo => db.rec[n].bondAmount <= MaxMoney

(* The owner index lists exactly the current records: a lookup by owner    *)
(* gives the same answer as the rebuild of EnsureOwnerIndexReady.          *)
OwnerIndexExact == db.ownerIdx = RebuildOwnerIndex(db)

RollingExactIn(d, h) ==
  h > 0 => /\ d.pricing.lastHeight = h
           /\ d.pricing.rolling = RebuildRolling(d, h)

(* The rolling count that drives prices is the number of registrations in  *)
(* the last PricingWindow blocks of the active chain, across               *)
(* disconnections and the rebuild path of ComputeNextPricingState.         *)
RollingExact == RollingExactIn(db, height)

(* Prices follow demand, slowly: a block changes the multiplier only at an *)
(* epoch boundary, by at most a tenth, and towards the registrations in    *)
(* the window that ends with that block (the price it paid is the old one).*)
PricesFollowDemand ==
  [][height' > height =>
       LET p   == db.pricing.multiplier
           q   == db'.pricing.multiplier
           raw == RawMultiplier(RebuildRolling(db', height'))
       IN  /\ 100 * q >= 90 * p /\ 100 * q <= 110 * p
           /\ height' % PricingEpoch # 0 => q = p
           /\ (raw >= p => q >= p) /\ (raw <= p => q <= p)]_vars

(* What the state was right after the block at height h was connected.     *)
After(h) ==
  IF h = height THEN [db |-> db, utxo |-> utxo, used |-> used]
                ELSE chain[h + 1].before

(* Undoing the block with undo data e, at height h, in the state a.        *)
Undoes(e, a, h) ==
  /\ ApplyNicknameUndo(a.db, e.undo, h) = e.before.db
  /\ UndoCoins(a.utxo, e) = e.before.utxo
  /\ a.used \ e.created = e.before.used

UndoExactAt(h) == Undoes(chain[h], After(h), h)

(* Disconnecting the tip brings back the whole database (records, both     *)
(* indexes, counts, pricing) and the coins exactly as they were before the *)
(* block was connected, and so on down the chain.                          *)
UndoExact == \A h \in 1 .. MaxHeight : chain[h] # NoBlock => UndoExactAt(h)

(* The documented rule: "nickname bond outpoint may only be spent by       *)
(* transfer, renew, or claim transaction" (validation.cpp).                *)
BondSpentByNicknameOp ==
  tx.spends # {} => tx.type \in {"TRANSFER", "RENEW", "CLAIM_BOND"}

=============================================================================
