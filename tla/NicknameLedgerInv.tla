-------------------------- MODULE NicknameLedgerInv --------------------------
(***************************************************************************)
(* The inductive invariant of NicknameLedger.  The properties of the       *)
(* committed state are not inductive alone: a block is applied to a        *)
(* working copy over several steps, and a disconnection returns to a state *)
(* that is only remembered.  So the invariant also says how the working    *)
(* copy relates to the committed state, and that every remembered state    *)
(* was good when it was left.                                              *)
(***************************************************************************)
EXTENDS NicknameLedger

(* No price exceeds the largest amount of money, whatever the multiplier.  *)
(* In the code the highest one is 3 * 48 coins, far below MAX_MONEY.       *)
PricesAreMoney ==
  \A n \in Name, m \in MinMultiplier .. MaxMultiplier :
    GetPricing(NameLen[n], m).bond <= MaxMoney

(* A record whose bond was given back can no longer be used at height h or *)
(* later, and a record whose bond was not given back has one.  A recorded  *)
(* bond is within the range of money if prices are.                        *)
InfoGood(i, h) ==
  /\ i.bondClaimed => i.released \/ (i.activeUntil < h /\ i.graceUntil < h)
  /\ ~i.bondClaimed => i.bond # NoBond
  /\ PricesAreMoney => i.bondAmount <= MaxMoney

RollingGood(d, h) ==
  /\ h > 0 => d.pricing.lastHeight = h
  /\ d.pricing.lastHeight = h => d.pricing.rolling = RebuildRolling(d, h)

Snapshot == [db : DB, utxo : Coins, used : SUBSET Outpoint]

(* The committed state s = [db, utxo, used] at a tip of height h.          *)
Good(s, h) ==
  /\ s \in Snapshot
  /\ BondBackedIn(s.db, s.utxo)
  /\ BondTrackedIn(s.db, s.utxo)
  /\ \A n \in Name : s.db.rec[n] # NoInfo => InfoGood(s.db.rec[n], h)
  /\ s.db.ownerIdx = RebuildOwnerIndex(s.db)
  /\ RollingGood(s.db, h)
  /\ \A x \in 0 .. MaxHeight : x > h => s.db.regCount[x] = 0
  /\ \A o \in Outpoint \ s.used : s.utxo[o] = NoCoin /\ s.db.bondIdx[o] = NoName

Committed == [db |-> db, utxo |-> utxo, used |-> used]

-----------------------------------------------------------------------------
(* The working copy b of a block on top of the committed state.            *)

Frame(b) ==
  /\ b.dirty \subseteq b.loaded
  /\ used \subseteq b.used
  /\ b.registered <= b.txs
  /\ \A n \in Name : n \notin b.dirty => b.current[n] = db.rec[n]
  /\ \A n \in Name : b.current[n] = NoInfo => db.rec[n] = NoInfo

(* The in-memory bond maps hold exactly the loaded names' current bonds.   *)
NickBondExact(b) ==
  \A n \in Name :
    b.nickBond[n] = IF n \in b.loaded THEN BondOf(b.current[n]) ELSE NoBond

RecordsGood(b) ==
  \A n \in Name : b.current[n] # NoInfo => InfoGood(b.current[n], BlockHeight)

ViewGood(b) ==
  /\ \A o \in Outpoint \ b.used : b.view[o] = NoCoin
  /\ \A o \in used : b.view[o] \in {utxo[o], NoCoin}

(* The bonds of the records, those of the names X apart, are backed; a     *)
(* bond that is older than the block is the one its name had before it; no *)
(* two names share one.                                                    *)
BondsGoodBut(b, X) ==
  /\ \A n \in Name \ X :
       LET o == BondOf(b.current[n])
       IN  o # NoBond => b.view[o] = [owner |-> b.current[n].owner,
                                      amount |-> b.current[n].bondAmount]
  /\ \A n \in Name :
       BondOf(b.current[n]) \in used => BondOf(db.rec[n]) = BondOf(b.current[n])
  /\ \A n, m \in Name :
       BondOf(b.current[n]) # NoBond /\ BondOf(b.current[n]) = BondOf(b.current[m])
         => n = m

(* Entries the block keeps belong to bonds it has replaced; entries it     *)
(* drops belong to bonds it has spent.                                     *)
KeptGood(b) ==
  /\ \A o \in Outpoint :
       b.bondUp[o] # NoName =>
         /\ o \in b.used
         /\ b.current[b.bondUp[o]] # NoInfo
         /\ \A n \in Name : BondOf(b.current[n]) # o
  /\ \A o \in b.bondErase : o \in b.used /\ b.view[o] = NoCoin

(* Every unspent bond will be indexed once the block is committed.         *)
TrackedGood(b) ==
  \A o \in Outpoint :
    b.view[o] # NoCoin =>
      \/ b.bondUp[o] # NoName
      \/ \E n \in Name : BondOf(b.current[n]) = o
      \/ db.bondIdx[o] # NoName /\ \A n \in Name : BondOf(db.rec[n]) # o

(* X holds the name whose bond the transaction in progress has spent.      *)
BlockGoodBut(b, X) ==
  /\ b \in Block
  /\ Frame(b)
  /\ NickBondExact(b)
  /\ RecordsGood(b)
  /\ ViewGood(b)
  /\ BondsGoodBut(b, X)
  /\ KeptGood(b)
  /\ TrackedGood(b)

BlockGood(b) == height < MaxHeight /\ BlockGoodBut(b, {})

-----------------------------------------------------------------------------
(* The remembered states: each was good, and its block is undone exactly.  *)
ChainGood ==
  /\ DOMAIN chain = 1 .. MaxHeight
  /\ \A h \in 1 .. MaxHeight :
       chain[h] # NoBlock =>
         /\ h <= height
         /\ Good(chain[h].before, h - 1)
         /\ UndoExactAt(h)

IInv ==
  /\ height \in 0 .. MaxHeight
  /\ Good(Committed, height)
  /\ blk # NoBlock => BlockGood(blk)
  /\ ChainGood

=============================================================================
