------------------------ MODULE NicknameLedgerProofs ------------------------
(***************************************************************************)
(* The safety properties of NicknameLedger, for any set of names, owners,  *)
(* outpoints, any block length and any reorganisation depth: each follows  *)
(* from the inductive invariant IInv of NicknameLedgerInv.                 *)
(*                                                                         *)
(* First the block in progress: what spending the inputs of a transaction, *)
(* and each kind of write to a name, does to a good working copy on top of *)
(* a good committed state, and that every transaction leaves a good one.   *)
(* Then the commit and the disconnection, the invariant, the theorems, and *)
(* what modules that keep transactions as values need.                     *)
(***************************************************************************)
EXTENDS NicknameLedgerInv, NicknameTxs, NicknameDBProofs, WellFoundedInduction

(* What holds at a tip on which a block is being built.                    *)
Base == height \in 0 .. MaxHeight /\ Good(Committed, height)

(* The facts Base packs together, one by one.                              *)
LEMMA BaseFacts ==
  ASSUME Base
  PROVE  /\ db \in DB /\ utxo \in Coins /\ used \in SUBSET Outpoint
         /\ BondBackedIn(db, utxo)
         /\ BondTrackedIn(db, utxo)
         /\ \A n \in Name : db.rec[n] # NoInfo => InfoGood(db.rec[n], height)
         /\ db.ownerIdx = RebuildOwnerIndex(db)
         /\ RollingGood(db, height)
         /\ \A x \in 0 .. MaxHeight : x > height => db.regCount[x] = 0
         /\ \A o \in Outpoint \ used : utxo[o] = NoCoin /\ db.bondIdx[o] = NoName
  BY Zenon DEF Base, Good, Committed, Snapshot

(* The fields of a block in progress have their types.                     *)
LEMMA BlockTypes ==
  ASSUME NEW b \in Block
  PROVE  /\ b.view \in Coins
         /\ b.used \in SUBSET Outpoint
         /\ b.current \in [Name -> Info \cup {NoInfo}]
         /\ b.dirty \in SUBSET Name
         /\ b.loaded \in SUBSET Name
         /\ b.nickBond \in [Name -> Outpoint \cup {NoBond}]
         /\ b.bondUp \in [Outpoint -> Name \cup {NoName}]
         /\ b.bondErase \in SUBSET Outpoint
         /\ b.registered \in Nat
         /\ b.txs \in 0 .. MaxBlockTxs
         /\ \A n \in Name : BondOf(b.current[n]) \in Outpoint \cup {NoBond}
  BY BondOfType, Zenon DEF Block

(* The fields of a database have their types.                              *)
LEMMA DBTypes ==
  ASSUME NEW d \in DB
  PROVE  /\ d.rec \in [Name -> Info \cup {NoInfo}]
         /\ d.bondIdx \in [Outpoint -> Name \cup {NoName}]
         /\ d.ownerIdx \in SUBSET (Owner \X Name)
         /\ d.regCount \in [0 .. MaxHeight -> 0 .. MaxBlockTxs]
         /\ d.pricing \in Pricing
         /\ \A n \in Name : BondOf(d.rec[n]) \in Outpoint \cup {NoBond}
  BY BondOfType, Zenon DEF DB

(* A record that is good for the block at a height is good for the next.   *)
LEMMA GoodLater ==
  ASSUME NEW i \in Info, NEW h \in 0 .. MaxHeight, InfoGood(i, h)
  PROVE  InfoGood(i, h + 1)
<1>1. i.activeUntil \in Nat /\ i.graceUntil \in Nat /\ h \in Int
  BY BoundAssumption DEF Info
<1> QED
  BY <1>1 DEF InfoGood

(* lookupBondNicknameByOutpoint finds the name of every current bond, in   *)
(* memory or in the database.                                              *)
LEMMA LookupCurrent ==
  ASSUME Base, BlockGood(blk), NEW m \in Name, BondOf(blk.current[m]) # NoBond
  PROVE  LookupBond(BondOf(blk.current[m])) = m
<1> DEFINE o == BondOf(blk.current[m])
<1>0. blk \in Block /\ Frame(blk) /\ NickBondExact(blk) /\ BondsGoodBut(blk, {})
  BY Zenon DEF BlockGood, BlockGoodBut
<1>1. o \in Outpoint /\ o # NoBond
  BY <1>0, BlockTypes, Zenon
<1>2. ASSUME NEW k \in Name, blk.nickBond[k] = o
      PROVE  k = m /\ m \in blk.loaded
  <2>1. k \in blk.loaded /\ BondOf(blk.current[k]) = o
    BY <1>0, <1>1, <1>2, Zenon DEF NickBondExact
  <2> QED
    BY <1>0, <1>1, <2>1, Zenon DEF BondsGoodBut
<1>3. CASE Cached(o)
  BY <1>2, <1>3, Zenon DEF Cached, LookupBond
<1>4. CASE ~Cached(o)
  <2>1. m \notin blk.loaded
    BY <1>0, <1>4, Zenon DEF NickBondExact, Cached
  <2>2. blk.current[m] = db.rec[m]
    BY <1>0, <2>1, Zenon DEF Frame
  <2>3. db.bondIdx[o] = m
    BY <1>1, <2>2, BaseFacts, Zenon DEF BondBackedIn
  <2> QED
    BY <1>4, <2>3, Zenon DEF LookupBond
<1> QED
  BY <1>3, <1>4, Zenon

-----------------------------------------------------------------------------
(* Entering a transaction: loading names and spending inputs.              *)

(* What the loop changes before it looks at the operation: the spent coins *)
(* and the loaded names; nothing else.                                     *)
LEMMA EnterFields ==
  ASSUME NEW S, NEW N, blk \in Block
  PROVE  /\ Enter(S, N).view = SpendCoins(S)
         /\ Enter(S, N).used = blk.used
         /\ Enter(S, N).current = blk.current
         /\ Enter(S, N).dirty = blk.dirty
         /\ Enter(S, N).loaded = blk.loaded \cup LoadedBy(S, N)
         /\ Enter(S, N).nickBond = LoadState(LoadedBy(S, N))
         /\ Enter(S, N).bondUp = blk.bondUp
         /\ Enter(S, N).bondErase = blk.bondErase
         /\ Enter(S, N).registered = blk.registered
         /\ Enter(S, N).txs = blk.txs + 1
  BY Zenon DEF Enter, Block

(* A transaction that spends the current bonds of no name outside X keeps  *)
(* the block good but for the bonds of X.                                  *)
LEMMA EnterGood ==
  ASSUME Base, BlockGood(blk), NEW S, CanEnter(S), NEW N \in SUBSET Name, NEW X,
         \A m \in Name \ X : BondOf(blk.current[m]) \notin S
  PROVE  BlockGoodBut(Enter(S, N), X) /\ N \subseteq Enter(S, N).loaded
<1> DEFINE e == Enter(S, N)
<1>1. /\ blk \in Block /\ Frame(blk) /\ NickBondExact(blk) /\ RecordsGood(blk)
      /\ ViewGood(blk) /\ BondsGoodBut(blk, {}) /\ KeptGood(blk) /\ TrackedGood(blk)
  BY Zenon DEF BlockGood, BlockGoodBut
<1>2. S \subseteq Outpoint /\ blk.txs < MaxBlockTxs
  BY Zenon DEF CanEnter
<1>3. db \in DB
  BY BaseFacts, Zenon
<1>4. LoadedBy(S, N) \in SUBSET Name
  <2>1. \A o \in S : db.bondIdx[o] \in Name \cup {NoName}
    BY <1>2, <1>3, DBTypes, Zenon
  <2> QED
    BY <2>1, Zenon DEF LoadedBy
<1>5. LoadState(LoadedBy(S, N)) \in [Name -> Outpoint \cup {NoBond}]
  BY <1>1, <1>3, BlockTypes, DBTypes DEF LoadState
<1>6. SpendCoins(S) \in Coins
  BY <1>1, BlockTypes, Zenon DEF SpendCoins, Coins
<1>7. e \in Block
  <2>1. blk.txs + 1 \in 0 .. MaxBlockTxs
    BY <1>1, <1>2, BlockTypes, BoundAssumption
  <2>2. blk.loaded \cup LoadedBy(S, N) \in SUBSET Name
    BY <1>1, <1>4, BlockTypes, Zenon
  <2> QED
    BY <1>1, <1>5, <1>6, <2>1, <2>2, Zenon DEF Enter, Block
<1>8. /\ e.view = SpendCoins(S) /\ e.used = blk.used /\ e.current = blk.current
      /\ e.dirty = blk.dirty /\ e.loaded = blk.loaded \cup LoadedBy(S, N)
      /\ e.nickBond = LoadState(LoadedBy(S, N)) /\ e.bondUp = blk.bondUp
      /\ e.bondErase = blk.bondErase /\ e.registered = blk.registered
      /\ e.txs = blk.txs + 1
  BY <1>1, EnterFields
<1> HIDE DEF e
<1>9. \A o \in Outpoint : e.view[o] = IF o \in S THEN NoCoin ELSE blk.view[o]
  BY <1>8, Zenon DEF SpendCoins
<1>10. Frame(e)
  <2>1. blk.registered <= blk.txs + 1
    BY <1>1, BlockTypes, BoundAssumption DEF Frame
  <2> QED
    BY <1>1, <1>8, <2>1, Zenon DEF Frame
<1>11. NickBondExact(e)
  <2> SUFFICES ASSUME NEW n \in Name
               PROVE  e.nickBond[n] = IF n \in e.loaded THEN BondOf(e.current[n]) ELSE NoBond
    BY Zenon DEF NickBondExact
  <2>1. e.nickBond[n] = IF n \in LoadedBy(S, N) \ blk.loaded THEN BondOf(db.rec[n])
                        ELSE blk.nickBond[n]
    BY <1>8, Zenon DEF LoadState
  <2>2. n \notin blk.loaded => blk.current[n] = db.rec[n]
    BY <1>1, Zenon DEF Frame
  <2> QED
    BY <1>1, <1>8, <2>1, <2>2, Zenon DEF NickBondExact
<1>12. RecordsGood(e)
  BY <1>1, <1>8, Zenon DEF RecordsGood
<1>13. ViewGood(e)
  <2>1. used \subseteq Outpoint
    BY BaseFacts, Zenon
  <2> QED
    BY <1>1, <1>8, <1>9, <2>1, Zenon DEF ViewGood
<1>14. BondsGoodBut(e, X)
  <2>1. \A n \in Name : BondOf(blk.current[n]) \in Outpoint \cup {NoBond}
    BY <1>1, BlockTypes, Zenon
  <2> QED
    BY <1>1, <1>8, <1>9, <2>1 DEF BondsGoodBut
<1>15. KeptGood(e)
  BY <1>1, <1>8, <1>9, BlockTypes DEF KeptGood
<1>16. TrackedGood(e)
  BY <1>1, <1>8, <1>9 DEF TrackedGood
<1>17. N \subseteq e.loaded
  BY <1>8, Zenon DEF LoadedBy
<1> QED
  BY Zenon, <1>7, <1>10, <1>11, <1>12, <1>13, <1>14, <1>15, <1>16, <1>17
     DEF BlockGoodBut, e

(* A transaction that spends no bond, or only the bond o of a name n,      *)
(* spends no other name's current bond.                                    *)
LEMMA SpendsNone ==
  ASSUME Base, BlockGood(blk), NEW S, S \subseteq Outpoint, SpentBonds(S) = {}
  PROVE  \A m \in Name : BondOf(blk.current[m]) \notin S
<1> SUFFICES ASSUME NEW m \in Name, BondOf(blk.current[m]) \in S
             PROVE  FALSE
  OBVIOUS
<1>1. LookupBond(BondOf(blk.current[m])) = m
  BY LookupCurrent, SentinelAssumption, Zenon
<1> QED
  BY <1>1, SentinelAssumption, Zenon DEF SpentBonds

(* A transaction whose only bond is o spends the current bond of no name   *)
(* but the one o is found under.                                           *)
LEMMA SpendsOne ==
  ASSUME Base, BlockGood(blk), NEW S, S \subseteq Outpoint, NEW o,
         SpentBonds(S) = {o}
  PROVE  \A m \in Name \ {LookupBond(o)} : BondOf(blk.current[m]) \notin S
<1> SUFFICES ASSUME NEW m \in Name, BondOf(blk.current[m]) \in S
             PROVE  m = LookupBond(o)
  OBVIOUS
<1>1. LookupBond(BondOf(blk.current[m])) = m
  BY LookupCurrent, SentinelAssumption, Zenon
<1>2. BondOf(blk.current[m]) = o
  BY <1>1, SentinelAssumption, Zenon DEF SpentBonds
<1> QED
  BY <1>1, <1>2, Zenon

-----------------------------------------------------------------------------
(* What a nickname operation does next to the working copy b of the block. *)

(* UPDATE and RELEASE: the record changes, its bond does not.              *)
LEMMA AmendGood ==
  ASSUME Base, NEW b, BlockGoodBut(b, {}), NEW n \in Name, n \in b.loaded,
         b.current[n] # NoInfo,
         NEW i \in Info, InfoGood(i, BlockHeight), BondOf(i) = BondOf(b.current[n]),
         i.owner = b.current[n].owner, i.bondAmount = b.current[n].bondAmount,
         NEW c, c = [b EXCEPT !.current[n] = i, !.dirty = @ \cup {n}]
  PROVE  BlockGoodBut(c, {})
<1>1. /\ b \in Block /\ Frame(b) /\ NickBondExact(b) /\ RecordsGood(b)
      /\ ViewGood(b) /\ BondsGoodBut(b, {}) /\ KeptGood(b) /\ TrackedGood(b)
  BY Zenon DEF BlockGoodBut
<1>2. c \in Block
  BY <1>1, Zenon DEF Block
<1>3. /\ c.view = b.view /\ c.used = b.used /\ c.current = [b.current EXCEPT ![n] = i]
      /\ c.dirty = b.dirty \cup {n} /\ c.loaded = b.loaded /\ c.nickBond = b.nickBond
      /\ c.bondUp = b.bondUp /\ c.bondErase = b.bondErase
      /\ c.registered = b.registered /\ c.txs = b.txs
  BY <1>1, Zenon DEF Block
<1>4. \A m \in Name : c.current[m] = IF m = n THEN i ELSE b.current[m]
  BY <1>1, <1>3, BlockTypes
<1>5. \A m \in Name : /\ BondOf(c.current[m]) = BondOf(b.current[m])
                      /\ c.current[m] = NoInfo <=> b.current[m] = NoInfo
  BY <1>4, NoInfoAssumption, Zenon
<1>6. Frame(c)
  BY <1>1, <1>3, <1>4, <1>5 DEF Frame
<1>7. NickBondExact(c)
  BY <1>1, <1>3, <1>5 DEF NickBondExact
<1>8. RecordsGood(c)
  BY <1>1, <1>4, Zenon DEF RecordsGood
<1>9. ViewGood(c)
  BY <1>1, <1>3, Zenon DEF ViewGood
<1>10. BondsGoodBut(c, {})
  BY <1>1, <1>3, <1>4, <1>5 DEF BondsGoodBut
<1>11. KeptGood(c)
  <2>1. \A o \in Outpoint : b.bondUp[o] \in Name \cup {NoName}
    BY <1>1, BlockTypes, Zenon
  <2> QED
    BY <1>1, <1>3, <1>5, <2>1 DEF KeptGood
<1>12. TrackedGood(c)
  BY <1>1, <1>3, <1>5 DEF TrackedGood
<1> QED
  BY <1>2, <1>6, <1>7, <1>8, <1>9, <1>10, <1>11, <1>12, Zenon DEF BlockGoodBut

(* CLAIM_BOND of the current bond, which the transaction has spent.        *)
LEMMA ClaimGood ==
  ASSUME Base, NEW n \in Name, NEW b, BlockGoodBut(b, {n}), n \in b.loaded,
         b.current[n] # NoInfo, b.view[BondOf(b.current[n])] = NoCoin,
         NEW i \in Info, InfoGood(i, BlockHeight), BondOf(i) = NoBond,
         NEW c, c = [b EXCEPT !.current[n] = i, !.dirty = @ \cup {n},
                              !.nickBond[n] = NoBond]
  PROVE  BlockGoodBut(c, {})
<1>1. /\ b \in Block /\ Frame(b) /\ NickBondExact(b) /\ RecordsGood(b)
      /\ ViewGood(b) /\ BondsGoodBut(b, {n}) /\ KeptGood(b) /\ TrackedGood(b)
  BY Zenon DEF BlockGoodBut
<1>2. c \in Block
  BY <1>1, Zenon DEF Block
<1>3. /\ c.view = b.view /\ c.used = b.used /\ c.current = [b.current EXCEPT ![n] = i]
      /\ c.dirty = b.dirty \cup {n} /\ c.loaded = b.loaded
      /\ c.nickBond = [b.nickBond EXCEPT ![n] = NoBond]
      /\ c.bondUp = b.bondUp /\ c.bondErase = b.bondErase
      /\ c.registered = b.registered /\ c.txs = b.txs
  BY <1>1, Zenon DEF Block
<1>4. \A m \in Name : c.current[m] = IF m = n THEN i ELSE b.current[m]
  BY <1>1, <1>3, BlockTypes
<1>5. \A m \in Name :
        /\ BondOf(c.current[m]) = IF m = n THEN NoBond ELSE BondOf(b.current[m])
        /\ c.current[m] = NoInfo <=> b.current[m] = NoInfo
  BY <1>4, NoInfoAssumption
<1>6. Frame(c)
  BY <1>1, <1>3, <1>4, <1>5 DEF Frame
<1>7. NickBondExact(c)
  <2>1. \A m \in Name : c.nickBond[m] = IF m = n THEN NoBond ELSE b.nickBond[m]
    BY <1>1, <1>3, BlockTypes
  <2> QED
    BY <1>1, <1>3, <1>5, <2>1 DEF NickBondExact
<1>8. RecordsGood(c)
  BY <1>1, <1>4, Zenon DEF RecordsGood
<1>9. ViewGood(c)
  BY <1>1, <1>3, Zenon DEF ViewGood
<1>10. BondsGoodBut(c, {})
  <2>1. NoBond \notin used
    BY BaseFacts, SentinelAssumption, Zenon
  <2> QED
    BY <1>1, <1>3, <1>4, <1>5, <2>1 DEF BondsGoodBut
<1>11. KeptGood(c)
  <2>1. \A o \in Outpoint : b.bondUp[o] \in Name \cup {NoName} /\ o # NoBond
    BY <1>1, BlockTypes, SentinelAssumption, Zenon
  <2> QED
    BY <1>1, <1>3, <1>5, <2>1 DEF KeptGood
<1>12. TrackedGood(c)
  BY <1>1, <1>3, <1>5 DEF TrackedGood
<1> QED
  BY <1>2, <1>6, <1>7, <1>8, <1>9, <1>10, <1>11, <1>12, Zenon DEF BlockGoodBut

(* CLAIM_BOND of an older bond, which the transaction has spent.           *)
LEMMA EraseGood ==
  ASSUME Base, NEW b, BlockGoodBut(b, {}), NEW o \in b.used, b.view[o] = NoCoin,
         NEW c, c = [b EXCEPT !.bondErase = @ \cup {o}]
  PROVE  BlockGoodBut(c, {})
<1>1. b \in Block
  BY Zenon DEF BlockGoodBut
<1>2. c \in Block
  BY <1>1, Zenon DEF Block
<1>3. /\ c.view = b.view /\ c.used = b.used /\ c.current = b.current
      /\ c.dirty = b.dirty /\ c.loaded = b.loaded /\ c.nickBond = b.nickBond
      /\ c.bondUp = b.bondUp /\ c.bondErase = b.bondErase \cup {o}
      /\ c.registered = b.registered /\ c.txs = b.txs
  BY <1>1, Zenon DEF Block
<1>4. Frame(c) /\ NickBondExact(c) /\ RecordsGood(c) /\ ViewGood(c)
  BY <1>3 DEF BlockGoodBut, Frame, NickBondExact, RecordsGood, ViewGood
<1>5. BondsGoodBut(c, {}) /\ TrackedGood(c)
  BY <1>3 DEF BlockGoodBut, BondsGoodBut, TrackedGood
<1>6. KeptGood(c)
  BY <1>3, Zenon DEF BlockGoodBut, KeptGood
<1> QED
  BY <1>2, <1>4, <1>5, <1>6, Zenon DEF BlockGoodBut

(* REGISTER, TRANSFER and RENEW: name n gets the record i with the fresh   *)
(* bond o.  Its previous bond is spent, or kept in the index.              *)
Rebonded(b, c, n, o, i) ==
  /\ c \in Block
  /\ c.view = [b.view EXCEPT ![o] = [owner |-> i.owner, amount |-> i.bondAmount]]
  /\ c.used = b.used \cup {o}
  /\ c.current = [b.current EXCEPT ![n] = i]
  /\ c.dirty = b.dirty \cup {n}
  /\ c.loaded = b.loaded
  /\ c.nickBond = [b.nickBond EXCEPT ![n] = o]
  /\ c.bondErase = b.bondErase
  /\ c.registered <= b.txs
  /\ c.txs = b.txs
  /\ \A x \in Outpoint :
       /\ c.bondUp[x] # b.bondUp[x] =>
            x = BondOf(b.current[n]) /\ c.bondUp[x] = n /\ b.view[x] # NoCoin
       /\ x = BondOf(b.current[n]) /\ b.view[x] # NoCoin => c.bondUp[x] = n

(* Giving a name whose bond is spent a fresh bond, backed by the output    *)
(* that pays it, makes the copy good again.                                *)
LEMMA RebondGood ==
  ASSUME Base, NEW n \in Name, NEW b, BlockGoodBut(b, {n}), n \in b.loaded,
         NEW o \in Outpoint, o \notin b.used,
         NEW i \in Info, InfoGood(i, BlockHeight), BondOf(i) = o,
         NEW c, Rebonded(b, c, n, o, i)
  PROVE  BlockGoodBut(c, {})
<1> DEFINE coin == [owner |-> i.owner, amount |-> i.bondAmount]
           up == c.bondUp
<1> USE DEF Rebonded
<1>0. up \in [Outpoint -> Name \cup {NoName}]
  BY BlockTypes, Zenon
<1>1. /\ b \in Block /\ Frame(b) /\ NickBondExact(b) /\ RecordsGood(b)
      /\ ViewGood(b) /\ BondsGoodBut(b, {n}) /\ KeptGood(b) /\ TrackedGood(b)
  BY Zenon DEF BlockGoodBut
<1>2. o # NoBond /\ o \notin used /\ b.view[o] = NoCoin
  BY <1>1, SentinelAssumption, Zenon DEF Frame, ViewGood
<1>3. \A x \in Outpoint : c.view[x] = IF x = o THEN coin ELSE b.view[x]
  BY <1>1, BlockTypes DEF Coins
<1>4. \A m \in Name : c.current[m] = IF m = n THEN i ELSE b.current[m]
  BY <1>1, BlockTypes
<1>5. \A m \in Name : BondOf(c.current[m]) = IF m = n THEN o ELSE BondOf(b.current[m])
  BY <1>4, Zenon
<1>6. i # NoInfo
  BY NoInfoAssumption, Zenon
<1>7. \A m \in Name \ {n} : BondOf(b.current[m]) # o
  <2> SUFFICES ASSUME NEW m \in Name \ {n}, BondOf(b.current[m]) = o
               PROVE  FALSE
    OBVIOUS
  <2>1. b.view[o] = [owner |-> b.current[m].owner, amount |-> b.current[m].bondAmount]
    BY <1>1, <1>2, Zenon DEF BondsGoodBut
  <2>2. b.current[m] \in Info
    BY <1>1, <1>2, BlockTypes DEF BondOf
  <2>3. b.view[o] \in Coin
    BY <2>1, <2>2 DEF Info, Coin
  <2> QED
    BY <1>2, <2>3, NoCoinAssumption, Zenon
<1>8. Frame(c)
  BY <1>1, <1>4, <1>6, Zenon DEF Frame
<1>9. NickBondExact(c)
  <2>1. \A m \in Name : c.nickBond[m] = IF m = n THEN o ELSE b.nickBond[m]
    BY <1>1, BlockTypes
  <2> QED
    BY <1>1, <1>5, <2>1, Zenon DEF NickBondExact
<1>10. RecordsGood(c)
  BY <1>1, <1>4, Zenon DEF RecordsGood
<1>11. ViewGood(c)
  <2>1. used \subseteq Outpoint
    BY BaseFacts, Zenon
  <2> QED
    BY <1>1, <1>2, <1>3, <2>1, Zenon DEF ViewGood
<1>12. BondsGoodBut(c, {})
  <2>1. \A m \in Name : BondOf(b.current[m]) \in Outpoint \cup {NoBond}
    BY <1>1, BlockTypes, Zenon
  <2>2. ASSUME NEW m \in Name, BondOf(c.current[m]) # NoBond
        PROVE  c.view[BondOf(c.current[m])] = [owner |-> c.current[m].owner,
                                               amount |-> c.current[m].bondAmount]
    <3>1. CASE m = n
      BY <1>3, <1>4, <1>5, <3>1, Zenon
    <3>2. CASE m # n
      <4>1. c.current[m] = b.current[m] /\ BondOf(b.current[m]) \in Outpoint \ {o}
        BY <1>4, <1>5, <1>7, <2>1, <2>2, <3>2
      <4> QED
        BY <1>1, <1>3, <2>2, <3>2, <4>1 DEF BondsGoodBut
    <3> QED
      BY <3>1, <3>2, Zenon
  <2>3. \A m \in Name :
          BondOf(c.current[m]) \in used => BondOf(db.rec[m]) = BondOf(c.current[m])
    BY <1>1, <1>2, <1>5, Zenon DEF BondsGoodBut
  <2>4. \A m, k \in Name :
          BondOf(c.current[m]) # NoBond /\ BondOf(c.current[m]) = BondOf(c.current[k])
            => m = k
    BY <1>1, <1>5, <1>7 DEF BondsGoodBut
  <2> QED
    BY <2>2, <2>3, <2>4, Zenon DEF BondsGoodBut
<1>13. KeptGood(c)
  <2>1. ASSUME NEW x \in Outpoint, up[x] # NoName
        PROVE  /\ x \in c.used
               /\ c.current[up[x]] # NoInfo
               /\ \A m \in Name : BondOf(c.current[m]) # x
    <3>1. CASE up[x] = b.bondUp[x]
      <4>1. /\ x \in b.used /\ b.current[up[x]] # NoInfo /\ up[x] \in Name
            /\ \A m \in Name : BondOf(b.current[m]) # x
        BY <1>0, <1>1, <2>1, <3>1, Zenon DEF KeptGood
      <4> QED
        BY <1>4, <1>5, <1>6, <4>1
    <3>2. CASE up[x] # b.bondUp[x]
      <4>1. x = BondOf(b.current[n]) /\ up[x] = n /\ b.view[x] # NoCoin
        BY <3>2, Zenon
      <4>2. x \in b.used
        BY <1>1, <4>1, Zenon DEF ViewGood
      <4>3. \A m \in Name \ {n} : BondOf(b.current[m]) # x
        BY <1>1, <4>1, SentinelAssumption DEF BondsGoodBut
      <4> QED
        BY <1>4, <1>5, <1>6, <4>1, <4>2, <4>3, Zenon
    <3> QED
      BY <3>1, <3>2, Zenon
  <2>2. \A x \in c.bondErase : x \in c.used /\ c.view[x] = NoCoin
    <3>1. b.bondErase \subseteq Outpoint
      BY <1>1, BlockTypes, Zenon
    <3> QED
      BY <1>1, <1>3, <3>1, Zenon DEF KeptGood
  <2> QED
    BY <2>1, <2>2, Zenon DEF KeptGood
<1>14. TrackedGood(c)
  <2> SUFFICES ASSUME NEW x \in Outpoint, c.view[x] # NoCoin
               PROVE  \/ up[x] # NoName
                      \/ \E m \in Name : BondOf(c.current[m]) = x
                      \/ db.bondIdx[x] # NoName /\ \A m \in Name : BondOf(db.rec[m]) # x
    BY Zenon DEF TrackedGood
  <2>1. CASE x = o
    BY <1>5, <2>1, Zenon
  <2>2. CASE x # o
    <3>1. b.view[x] # NoCoin
      BY <1>3, <2>2, Zenon
    <3>2. CASE b.bondUp[x] # NoName
      BY <1>0, <3>2, SentinelAssumption, Zenon
    <3>3. ASSUME NEW m \in Name, BondOf(b.current[m]) = x
          PROVE  up[x] # NoName \/ \E k \in Name : BondOf(c.current[k]) = x
      BY <1>5, <3>1, <3>3, SentinelAssumption
    <3> QED
      BY <1>1, <3>1, <3>2, <3>3, Zenon DEF TrackedGood
  <2> QED
    BY <2>1, <2>2, Zenon
<1> QED
  BY <1>8, <1>9, <1>10, <1>11, <1>12, <1>13, <1>14, Zenon DEF BlockGoodBut

-----------------------------------------------------------------------------
(* The transactions of a block, one lemma each.                            *)

(* The bond of a registration and the increase of a renewal are natural    *)
(* numbers.                                                                *)
LEMMA PriceType ==
  ASSUME Base, NEW n \in Name
  PROVE  /\ Price(n).bond \in Nat
         /\ GetRenewalBondIncrease(NameLen[n], db.pricing.multiplier) \in Nat
<1>1. NameLen[n] \in Nat
  BY NameLenAssumption
<1>2. db.pricing.multiplier \in Int
  <2>1. db.pricing.multiplier \in MinMultiplier .. MaxMultiplier
    BY BaseFacts, Zenon DEF DB, Pricing
  <2> QED
    BY <2>1, BoundsInt, Zenon
<1> QED
  BY <1>1, <1>2, PriceBounds, RenewalIncreaseType, Zenon DEF Price

(* A name that can be changed has its bond.                                *)
LEMMA MutableFacts ==
  ASSUME Base, BlockGood(blk), NEW n \in Name, IsMutable(n)
  PROVE  /\ blk.current[n] \in Info /\ InfoGood(blk.current[n], BlockHeight)
         /\ ~blk.current[n].bondClaimed /\ ~blk.current[n].released
         /\ blk.current[n].bond # NoBond
         /\ BondOf(blk.current[n]) = blk.current[n].bond
<1>1. blk.current[n] # NoInfo /\ GetStatus(blk.current[n], BlockHeight) \in {"ACTIVE", "EXPIRED_GRACE"}
  BY Zenon DEF IsMutable, Status
<1>2. blk.current[n] \in Info /\ InfoGood(blk.current[n], BlockHeight)
  BY <1>1, BlockTypes, Zenon DEF BlockGood, BlockGoodBut, RecordsGood
<1>3. BlockHeight \in Int
  BY BoundAssumption DEF Base, BlockHeight
<1>4. ~blk.current[n].bondClaimed /\ ~blk.current[n].released
  BY <1>1, <1>2, <1>3 DEF GetStatus, InfoGood, Info
<1> QED
  BY <1>1, <1>2, <1>4, Zenon DEF InfoGood, BondOf, HasBondOutpoint

(* A transaction without an operation spends no current bond.              *)
LEMMA PlainTxGood ==
  ASSUME Base, BlockGood(blk), NEW S \in SUBSET Outpoint, PlainTx(S)
  PROVE  BlockGood(blk')
<1>1. \A m \in Name \ {} : BondOf(blk.current[m]) \notin S
  BY SpendsNone, Zenon DEF PlainTx, MayEnter
<1>2. BlockGoodBut(Enter(S, {}), {})
  BY <1>1, EnterGood, Zenon DEF PlainTx, MayEnter
<1> QED
  BY <1>2, Zenon DEF PlainTx, MayEnter, BlockGood

(* UPDATE changes the payout address only.                                 *)
LEMMA UpdateGood ==
  ASSUME Base, BlockGood(blk), NEW n \in Name, NEW P, NEW S \in SUBSET Outpoint,
         NEW p \in Payout, Update(n, p, P, S)
  PROVE  BlockGood(blk')
<1> DEFINE e == Enter(S, {n})
           i == [blk.current[n] EXCEPT !.payout = p]
<1>1. \A m \in Name \ {} : BondOf(blk.current[m]) \notin S
  BY SpendsNone, Zenon DEF Update, MayAmend, Updated
<1>2. BlockGoodBut(e, {}) /\ n \in e.loaded
  BY <1>1, EnterGood, Zenon DEF Update, MayAmend, Updated
<1>3. blk \in Block
  BY Zenon DEF BlockGood, BlockGoodBut
<1>4. e.current = blk.current
  BY <1>3, EnterFields
<1>5. /\ blk.current[n] \in Info /\ InfoGood(blk.current[n], BlockHeight)
      /\ BondOf(blk.current[n]) = blk.current[n].bond
      /\ ~blk.current[n].bondClaimed /\ blk.current[n].bond # NoBond
  BY MutableFacts, Zenon DEF Update, MayAmend, Updated
<1>6. blk.current[n] # NoInfo
  BY <1>5, NoInfoAssumption, Zenon
<1>7. i \in Info /\ InfoGood(i, BlockHeight) /\ i.owner = blk.current[n].owner
      /\ i.bondAmount = blk.current[n].bondAmount
  BY <1>5, Zenon DEF Info, InfoGood
<1>8. BondOf(i) = BondOf(blk.current[n])
  <2>1. i # NoInfo
    BY <1>7, NoInfoAssumption, Zenon
  <2> QED
    BY <1>5, <2>1, Zenon DEF BondOf, HasBondOutpoint, Info
<1>9. blk' = [e EXCEPT !.current[n] = i, !.dirty = @ \cup {n}]
  BY <1>4, Zenon DEF Update, MayAmend, Updated
<1> HIDE DEF e, i
<1>10. BlockGoodBut(blk', {})
  BY <1>2, <1>4, <1>6, <1>7, <1>8, <1>9, AmendGood, Zenon
<1> QED
  BY <1>10, Zenon DEF BlockGood

(* RELEASE keeps the bond of the name.                                     *)
LEMMA ReleaseGood ==
  ASSUME Base, BlockGood(blk), NEW n \in Name, NEW P, NEW S \in SUBSET Outpoint,
         Release(n, P, S)
  PROVE  BlockGood(blk')
<1> DEFINE e == Enter(S, {n})
           i == [blk.current[n] EXCEPT !.released = TRUE, !.bondClaimed = FALSE]
<1>1. \A m \in Name \ {} : BondOf(blk.current[m]) \notin S
  BY SpendsNone, Zenon DEF Release, MayAmend, Released
<1>2. BlockGoodBut(e, {}) /\ n \in e.loaded
  BY <1>1, EnterGood, Zenon DEF Release, MayAmend, Released
<1>3. blk \in Block
  BY Zenon DEF BlockGood, BlockGoodBut
<1>4. e.current = blk.current
  BY <1>3, EnterFields
<1>5. /\ blk.current[n] \in Info /\ InfoGood(blk.current[n], BlockHeight)
      /\ BondOf(blk.current[n]) = blk.current[n].bond
      /\ ~blk.current[n].bondClaimed /\ blk.current[n].bond # NoBond
  BY MutableFacts, Zenon DEF Release, MayAmend, Released
<1>6. blk.current[n] # NoInfo
  BY <1>5, NoInfoAssumption, Zenon
<1>7. i \in Info /\ InfoGood(i, BlockHeight) /\ i.owner = blk.current[n].owner
      /\ i.bondAmount = blk.current[n].bondAmount
  BY <1>5, Zenon DEF Info, InfoGood
<1>8. BondOf(i) = BondOf(blk.current[n])
  <2>1. i # NoInfo
    BY <1>7, NoInfoAssumption, Zenon
  <2> QED
    BY <1>5, <2>1, Zenon DEF BondOf, HasBondOutpoint, Info
<1>9. blk' = [e EXCEPT !.current[n] = i, !.dirty = @ \cup {n}]
  BY <1>4, Zenon DEF Release, MayAmend, Released
<1> HIDE DEF e, i
<1>10. BlockGoodBut(blk', {})
  BY <1>2, <1>4, <1>6, <1>7, <1>8, <1>9, AmendGood, Zenon
<1> QED
  BY <1>10, Zenon DEF BlockGood

(* A transaction that spends the current bond of n and no other.           *)
LEMMA EnterWithBond ==
  ASSUME Base, BlockGood(blk), NEW n \in Name, NEW S \in SUBSET Outpoint,
         CanEnter(S), SpendsCurrentBond(n, S)
  PROVE  /\ BlockGoodBut(Enter(S, {n}), {n}) /\ n \in Enter(S, {n}).loaded
         /\ BondOf(blk.current[n]) \in Outpoint
         /\ Enter(S, {n}).view[BondOf(blk.current[n])] = NoCoin
<1>1. PICK o \in S : SpentBonds(S) = {o} /\ LookupBond(o) = n /\ BondOf(blk.current[n]) = o
  BY Zenon DEF SpendsCurrentBond
<1>2. \A m \in Name \ {n} : BondOf(blk.current[m]) \notin S
  BY <1>1, SpendsOne, Zenon
<1>3. BlockGoodBut(Enter(S, {n}), {n}) /\ n \in Enter(S, {n}).loaded
  BY <1>2, EnterGood, Zenon
<1>4. Enter(S, {n}).view = SpendCoins(S)
  BY EnterFields, Zenon DEF BlockGood, BlockGoodBut
<1> QED
  BY <1>1, <1>3, <1>4, Zenon DEF SpendCoins

(* TRANSFER and RENEW: the new record i has the bond o in place of the one *)
(* the transaction spends.                                                 *)
LEMMA ReplaceBondGood ==
  ASSUME Base, BlockGood(blk), NEW n \in Name, NEW S \in SUBSET Outpoint,
         CanEnter(S), SpendsCurrentBond(n, S), NEW o \in Fresh,
         NEW i \in Info, InfoGood(i, BlockHeight), i.bond = o, ~i.bondClaimed,
         blk' = [Enter(S, {n}) EXCEPT
                   !.view[o]     = BondOutput(i.owner, i.bondAmount),
                   !.used        = @ \cup {o},
                   !.current[n]  = i,
                   !.dirty       = @ \cup {n},
                   !.nickBond[n] = o]
  PROVE  BlockGood(blk')
<1> DEFINE e == Enter(S, {n})
           coin == [owner |-> i.owner, amount |-> i.bondAmount]
<1>1. blk \in Block
  BY Zenon DEF BlockGood, BlockGoodBut
<1>2. BlockGoodBut(e, {n}) /\ n \in e.loaded /\ e.view[BondOf(blk.current[n])] = NoCoin
  BY EnterWithBond, Zenon
<1>3. /\ e.current = blk.current /\ e.used = blk.used
      /\ e.registered = blk.registered /\ e.bondUp = blk.bondUp
  BY <1>1, EnterFields
<1>4. e \in Block /\ e.registered <= e.txs
  BY <1>2, Zenon DEF BlockGoodBut, Frame
<1>5. coin \in Coin /\ o \in Outpoint \ e.used
  BY <1>3, Zenon DEF Info, Coin, Fresh
<1>6. BondOf(i) = o
  BY SentinelAssumption, NoInfoAssumption, Zenon DEF BondOf, HasBondOutpoint, Fresh
<1>7. blk' = [e EXCEPT !.view[o] = coin, !.used = @ \cup {o}, !.current[n] = i,
                       !.dirty = @ \cup {n}, !.nickBond[n] = o]
  BY Zenon DEF BondOutput
<1> HIDE DEF e, coin
<1>8. blk' \in Block
  <2>1. /\ e.view \in Coins /\ e.current \in [Name -> Info \cup {NoInfo}]
        /\ e.nickBond \in [Name -> Outpoint \cup {NoBond}]
        /\ e.used \in SUBSET Outpoint /\ e.dirty \in SUBSET Name
    BY <1>4, BlockTypes, Zenon
  <2>2. /\ [e.view EXCEPT ![o] = coin] \in Coins
        /\ [e.current EXCEPT ![n] = i] \in [Name -> Info \cup {NoInfo}]
        /\ [e.nickBond EXCEPT ![n] = o] \in [Name -> Outpoint \cup {NoBond}]
        /\ e.used \cup {o} \in SUBSET Outpoint /\ e.dirty \cup {n} \in SUBSET Name
    BY <1>5, <2>1, Zenon DEF Coins
  <2> QED
    BY <1>4, <1>7, <2>2, ZenonT(40) DEF Block
<1>9. /\ blk'.view = [e.view EXCEPT ![o] = coin] /\ blk'.used = e.used \cup {o}
      /\ blk'.current = [e.current EXCEPT ![n] = i] /\ blk'.dirty = e.dirty \cup {n}
      /\ blk'.loaded = e.loaded /\ blk'.nickBond = [e.nickBond EXCEPT ![n] = o]
      /\ blk'.bondUp = e.bondUp /\ blk'.bondErase = e.bondErase
      /\ blk'.registered = e.registered /\ blk'.txs = e.txs
  BY <1>4, <1>7, Zenon DEF Block
<1>10. e.bondUp \in [Outpoint -> Name \cup {NoName}] /\ e.registered \in Nat
  BY <1>4, BlockTypes, Zenon
<1>11. \A x \in Outpoint :
         /\ blk'.bondUp[x] = e.bondUp[x]
         /\ x = BondOf(e.current[n]) /\ e.view[x] # NoCoin => blk'.bondUp[x] = n
  BY <1>2, <1>3, <1>9, Zenon
<1>12. Rebonded(e, blk', n, o, i)
  BY <1>4, <1>8, <1>9, <1>11, Zenon DEF Rebonded, coin
<1>13. BlockGoodBut(blk', {})
  BY <1>2, <1>5, <1>6, <1>12, RebondGood, Zenon
<1> QED
  BY <1>13, Zenon DEF BlockGood

(* TRANSFER moves the bond to an output of the new owner.                  *)
LEMMA TransferGood ==
  ASSUME Base, BlockGood(blk), NEW n \in Name, NEW P, NEW S \in SUBSET Outpoint,
         NEW new \in Owner, NEW o \in Outpoint, Transfer(n, new, o, P, S)
  PROVE  BlockGood(blk')
<1> DEFINE i == [blk.current[n] EXCEPT !.owner = new, !.bond = o, !.bondClaimed = FALSE]
<1>1. blk.current[n] \in Info /\ InfoGood(blk.current[n], BlockHeight)
  BY MutableFacts, Zenon DEF Transfer, MayTransfer, Transferred
<1>2. o # NoBond
  BY SentinelAssumption, Zenon
<1>3. /\ i \in Info /\ InfoGood(i, BlockHeight) /\ i.bond = o /\ ~i.bondClaimed
      /\ i.owner = new /\ i.bondAmount = blk.current[n].bondAmount
  BY <1>1, <1>2, Zenon DEF Info, InfoGood
<1>4. Enter(S, {n}).current = blk.current
  BY EnterFields DEF BlockGood, BlockGoodBut
<1>5. blk' = [Enter(S, {n}) EXCEPT
                !.view[o]     = BondOutput(i.owner, i.bondAmount),
                !.used        = @ \cup {o},
                !.current[n]  = i,
                !.dirty       = @ \cup {n},
                !.nickBond[n] = o]
  BY <1>3, <1>4, Zenon DEF Transfer, MayTransfer, Transferred
<1>6. CanEnter(S) /\ SpendsCurrentBond(n, S) /\ o \in Fresh
  BY Zenon DEF Transfer, MayTransfer, Transferred
<1> HIDE DEF i
<1> QED
  BY <1>3, <1>5, <1>6, ReplaceBondGood, Zenon

(* RENEW replaces the bond by a larger one and extends the name.           *)
LEMMA RenewGood ==
  ASSUME Base, BlockGood(blk), NEW n \in Name, NEW P, NEW S \in SUBSET Outpoint,
         NEW o \in Outpoint, Renew(n, o, P, S)
  PROVE  BlockGood(blk')
<1> DEFINE until == RenewedUntil(n)
           amount == RenewedAmount(n)
           i == [blk.current[n] EXCEPT !.activeUntil = until,
                                       !.graceUntil  = until + GraceBlocks,
                                       !.bondAmount  = amount,
                                       !.bond        = o,
                                       !.bondClaimed = FALSE,
                                       !.released    = FALSE]
<1>1. blk.current[n] \in Info
  BY MutableFacts, Zenon DEF Renew, MayRenew, Renewed
<1>2. o # NoBond
  BY SentinelAssumption, Zenon
<1>3. until \in Nat /\ until + GraceBlocks \in Nat
  BY <1>1, PeriodAssumption, BoundAssumption
     DEF RenewedUntil, Info, Base, BlockHeight
<1>4. amount \in Nat
  <2>1. GetRenewalBondIncrease(NameLen[n], db.pricing.multiplier) \in Nat
    BY PriceType, Zenon
  <2>2. blk.current[n].bondAmount \in Nat
    BY <1>1, Zenon DEF Info
  <2> QED
    BY <2>1, <2>2 DEF RenewedAmount
<1>5. Enter(S, {n}).current = blk.current
  BY EnterFields DEF BlockGood, BlockGoodBut
<1>6. blk' = [Enter(S, {n}) EXCEPT
                !.view[o]     = BondOutput(blk.current[n].owner, amount),
                !.used        = @ \cup {o},
                !.current[n]  = i,
                !.dirty       = @ \cup {n},
                !.nickBond[n] = o]
  BY <1>5, Zenon DEF Renew, MayRenew, Renewed
<1> HIDE DEF until, amount
<1>7. /\ i \in Info /\ InfoGood(i, BlockHeight) /\ i.bond = o /\ ~i.bondClaimed
      /\ i.owner = blk.current[n].owner /\ i.bondAmount = amount
  <2>1. amount <= MaxMoney
    BY Zenon DEF Renew, MayRenew, amount
  <2> QED
    BY <1>1, <1>2, <1>3, <1>4, <2>1, Zenon DEF Info, InfoGood
<1> HIDE DEF i
<1>8. blk' = [Enter(S, {n}) EXCEPT
                !.view[o]     = BondOutput(i.owner, i.bondAmount),
                !.used        = @ \cup {o},
                !.current[n]  = i,
                !.dirty       = @ \cup {n},
                !.nickBond[n] = o]
  BY <1>6, <1>7, Zenon
<1>9. CanEnter(S) /\ SpendsCurrentBond(n, S) /\ o \in Fresh
  BY Zenon DEF Renew, MayRenew, Renewed
<1> QED
  BY <1>7, <1>8, <1>9, ReplaceBondGood, Zenon

(* CLAIM_BOND of the current bond leaves a name that can no longer be used *)
(* without a bond.                                                         *)
LEMMA ClaimCurrentBondGood ==
  ASSUME Base, BlockGood(blk), NEW n \in Name, NEW P, NEW S \in SUBSET Outpoint,
         ClaimCurrentBond(n, P, S)
  PROVE  BlockGood(blk')
<1> DEFINE e == Enter(S, {n})
           i == [blk.current[n] EXCEPT !.bondClaimed = TRUE, !.bond = NoBond]
<1>1. blk \in Block
  BY DEF BlockGood, BlockGoodBut
<1>2. /\ BlockGoodBut(e, {n}) /\ n \in e.loaded
      /\ e.view[BondOf(blk.current[n])] = NoCoin /\ BondOf(blk.current[n]) \in Outpoint
  BY EnterWithBond, Zenon DEF ClaimCurrentBond, MayClaimCurrent, CurrentClaimed
<1>3. e.current = blk.current
  BY <1>1, EnterFields
<1>4. blk.current[n] # NoInfo /\ blk.current[n] \in Info
  BY <1>1, <1>2, BlockTypes, SentinelAssumption DEF BondOf
<1>5. GetStatus(blk.current[n], BlockHeight) = "BOND_CLAIMABLE"
  BY <1>4, Zenon DEF ClaimCurrentBond, MayClaimCurrent, CurrentClaimed, IsClaimable, Status
<1>6. BlockHeight \in Int
  BY BoundAssumption DEF Base, BlockHeight
<1>7. i \in Info /\ InfoGood(i, BlockHeight) /\ i.bondClaimed
  <2>1. /\ blk.current[n].activeUntil \in Int /\ blk.current[n].graceUntil \in Int
    BY <1>4 DEF Info
  <2>2. \/ blk.current[n].released
        \/ blk.current[n].activeUntil < BlockHeight /\ blk.current[n].graceUntil < BlockHeight
    BY <1>5, <1>6, <2>1 DEF GetStatus
  <2>3. /\ i \in Info /\ i.bondClaimed /\ i.released = blk.current[n].released
        /\ i.activeUntil = blk.current[n].activeUntil
        /\ i.graceUntil = blk.current[n].graceUntil
        /\ i.bondAmount = blk.current[n].bondAmount
    BY <1>4, Zenon DEF Info
  <2>4. InfoGood(blk.current[n], BlockHeight)
    BY <1>4, NoInfoAssumption, Zenon DEF BlockGood, BlockGoodBut, RecordsGood
  <2> QED
    BY <2>2, <2>3, <2>4, Zenon DEF InfoGood
<1>8. BondOf(i) = NoBond
  BY <1>7, Zenon DEF BondOf, HasBondOutpoint
<1>9. blk' = [e EXCEPT !.current[n] = i, !.dirty = @ \cup {n}, !.nickBond[n] = NoBond]
  BY <1>3, Zenon DEF ClaimCurrentBond, MayClaimCurrent, CurrentClaimed
<1> HIDE DEF e, i
<1>10. BlockGoodBut(blk', {})
  BY <1>2, <1>3, <1>4, <1>7, <1>8, <1>9, ClaimGood, Zenon
<1> QED
  BY <1>10 DEF BlockGood

(* CLAIM_BOND of an earlier registration's bond touches no current bond.   *)
LEMMA ClaimOldBondGood ==
  ASSUME Base, BlockGood(blk), NEW n \in Name, NEW S \in SUBSET Outpoint,
         NEW o \in Outpoint, ClaimOldBond(n, o, S)
  PROVE  BlockGood(blk')
<1> DEFINE e == Enter(S, {n})
<1>1. blk \in Block /\ ViewGood(blk)
  BY Zenon DEF BlockGood, BlockGoodBut
<1>2. CanEnter(S) /\ SpentBonds(S) = {o} /\ LookupBond(o) = n /\ BondOf(blk.current[n]) # o
  BY Zenon DEF ClaimOldBond, MayClaimOld, OldClaimed
<1>3. \A m \in Name \ {} : BondOf(blk.current[m]) \notin S
  <2>1. \A m \in Name \ {n} : BondOf(blk.current[m]) \notin S
    BY <1>2, SpendsOne, Zenon
  <2>2. BondOf(blk.current[n]) \notin S
    <3> SUFFICES ASSUME BondOf(blk.current[n]) \in S
                 PROVE  FALSE
      OBVIOUS
    <3>1. LookupBond(BondOf(blk.current[n])) = n
      BY LookupCurrent, SentinelAssumption, Zenon
    <3> QED
      BY <1>2, <3>1, SentinelAssumption, Zenon DEF SpentBonds
  <2> QED
    BY <2>1, <2>2, Zenon
<1>4. BlockGoodBut(e, {})
  BY <1>2, <1>3, EnterGood, Zenon
<1>5. o \in S
  BY <1>2, Zenon DEF SpentBonds
<1>6. o \in blk.used
  BY <1>1, <1>2, <1>5, Zenon DEF CanEnter, ViewGood
<1>7. e.used = blk.used /\ e.view[o] = NoCoin
  <2>1. e.used = blk.used /\ e.view = SpendCoins(S)
    BY <1>1, EnterFields
  <2> HIDE DEF e
  <2> QED
    BY <1>5, <2>1, Zenon DEF SpendCoins
<1>8. blk' = [e EXCEPT !.bondErase = @ \cup {o}]
  BY Zenon DEF ClaimOldBond, MayClaimOld, OldClaimed
<1> HIDE DEF e
<1>9. BlockGoodBut(blk', {})
  BY <1>4, <1>6, <1>7, <1>8, EraseGood, Zenon
<1> QED
  BY <1>9, Zenon DEF BlockGood

(* REGISTER over a record whose bond is still unclaimed keeps that bond in *)
(* the index.                                                              *)
LEMMA RegisterGood ==
  ASSUME Base, BlockGood(blk), NEW n \in Name, NEW P, NEW S \in SUBSET Outpoint,
         NEW ow \in Owner, NEW p \in Payout, NEW o \in Outpoint,
         Register(n, ow, p, o, P, S)
  PROVE  BlockGood(blk')
<1> DEFINE e == Enter(S, {n})
           i == Registration(n, ow, p, o)
           old == BondOf(blk.current[n])
           coin == [owner |-> i.owner, amount |-> i.bondAmount]
<1>1. blk \in Block /\ BondsGoodBut(blk, {})
  BY Zenon DEF BlockGood, BlockGoodBut
<1>2. \A m \in Name \ {} : BondOf(blk.current[m]) \notin S
  BY SpendsNone, Zenon DEF Register, MayRegister, Registered
<1>3. BlockGoodBut(e, {}) /\ n \in e.loaded
  BY <1>2, EnterGood, Zenon DEF Register, MayRegister, Registered
<1>4. /\ e.current = blk.current /\ e.used = blk.used /\ e.view = SpendCoins(S)
      /\ e.registered = blk.registered /\ e.bondUp = blk.bondUp /\ e.txs = blk.txs + 1
  BY <1>1, EnterFields
<1>5. e \in Block /\ BondsGoodBut(e, {}) /\ e.registered <= e.txs
  BY <1>3, Zenon DEF BlockGoodBut, Frame
<1>6. BlockGoodBut(e, {n})
  BY <1>3, Zenon DEF BlockGoodBut, BondsGoodBut
<1>7. i \in Info /\ InfoGood(i, BlockHeight) /\ i.bond = o /\ ~i.bondClaimed
      /\ i.owner = ow /\ i.bondAmount = Price(n).bond
  <2>1. Price(n).bond \in Nat
    BY PriceType, Zenon
  <2>2. BlockHeight + ActiveBlocks \in Nat /\ BlockHeight + ActiveBlocks + GraceBlocks \in Nat
    BY PeriodAssumption, BoundAssumption DEF Base, BlockHeight
  <2>3. o # NoBond
    BY SentinelAssumption, Zenon
  <2>4. PricesAreMoney => Price(n).bond <= MaxMoney
    <3>1. db.pricing.multiplier \in MinMultiplier .. MaxMultiplier
      BY BaseFacts, DBTypes, Zenon DEF Pricing
    <3> QED
      BY <3>1, Zenon DEF PricesAreMoney, Price
  <2> QED
    BY <2>1, <2>2, <2>3, <2>4, Zenon DEF Registration, Info, InfoGood
<1>8. BondOf(i) = o
  BY <1>7, SentinelAssumption, NoInfoAssumption, Zenon DEF BondOf, HasBondOutpoint
<1>9. o \in Outpoint \ e.used
  BY <1>4, Zenon DEF Register, MayRegister, Registered, Fresh
<1>10. blk' = [e EXCEPT !.view[o] = coin, !.used = @ \cup {o}, !.current[n] = i,
                        !.dirty = @ \cup {n}, !.nickBond[n] = o,
                        !.bondUp = KeepOldBond(n), !.registered = @ + 1]
  BY <1>7, Zenon DEF Register, MayRegister, Registered, BondOutput
<1>11. old \in Outpoint => Status(n) \in {"RELEASED", "BOND_CLAIMABLE"}
  <2> SUFFICES ASSUME old \in Outpoint
               PROVE  Status(n) \in {"RELEASED", "BOND_CLAIMABLE"}
    OBVIOUS
  <2>1. blk.current[n] # NoInfo /\ ~blk.current[n].bondClaimed
    BY SentinelAssumption, Zenon DEF BondOf, HasBondOutpoint
  <2>2. Status(n) # "EXPIRED_AVAILABLE"
    BY <2>1, Zenon DEF Status, GetStatus
  <2> QED
    BY <2>2, Zenon DEF Register, MayRegister, Registered
<1>12. \A x \in Outpoint : KeepOldBond(n)[x] = IF x = old THEN n ELSE blk.bondUp[x]
  BY <1>11, Zenon DEF KeepOldBond
<1>13. old \in Outpoint => e.view[old] # NoCoin
  <2> SUFFICES ASSUME old \in Outpoint
               PROVE  e.view[old] # NoCoin
    OBVIOUS
  <2>1. old # NoBond /\ blk.current[n] \in Info
    BY <1>1, BlockTypes, SentinelAssumption DEF BondOf
  <2>2. e.view[old] = [owner |-> blk.current[n].owner, amount |-> blk.current[n].bondAmount]
    BY <1>4, <1>5, <2>1, Zenon DEF BondsGoodBut
  <2>3. e.view[old] \in Coin
    BY <2>1, <2>2 DEF Info, Coin
  <2> QED
    BY <2>3, NoCoinAssumption, Zenon
<1>14. KeepOldBond(n) \in [Outpoint -> Name \cup {NoName}]
  BY <1>1, BlockTypes, Zenon DEF KeepOldBond
<1>15. coin \in Coin
  BY <1>7, Zenon DEF Info, Coin
<1>16. e.registered + 1 \in Nat /\ e.registered + 1 <= e.txs
  <2>1. /\ blk.registered \in Nat /\ blk.txs \in Nat /\ blk.registered <= blk.txs
    BY <1>1, BlockTypes, BoundAssumption DEF BlockGood, BlockGoodBut, Frame
  <2>2. e.registered = blk.registered /\ e.txs = blk.txs + 1
    BY <1>4, Zenon
  <2> HIDE DEF e
  <2> QED
    BY <2>1, <2>2
<1> HIDE DEF e, i, coin
<1>17. blk' \in Block
  <2>1. /\ e.view \in Coins /\ e.current \in [Name -> Info \cup {NoInfo}]
        /\ e.nickBond \in [Name -> Outpoint \cup {NoBond}]
        /\ e.used \in SUBSET Outpoint /\ e.dirty \in SUBSET Name
    BY <1>5, BlockTypes, Zenon
  <2>2. /\ [e.view EXCEPT ![o] = coin] \in Coins
        /\ [e.current EXCEPT ![n] = i] \in [Name -> Info \cup {NoInfo}]
        /\ [e.nickBond EXCEPT ![n] = o] \in [Name -> Outpoint \cup {NoBond}]
        /\ e.used \cup {o} \in SUBSET Outpoint /\ e.dirty \cup {n} \in SUBSET Name
    BY <1>7, <1>15, <2>1, Zenon DEF Coins
  <2> QED
    BY <1>5, <1>10, <1>14, <1>16, <2>2, Zenon DEF Block
<1>18. /\ blk'.view = [e.view EXCEPT ![o] = coin] /\ blk'.used = e.used \cup {o}
       /\ blk'.current = [e.current EXCEPT ![n] = i] /\ blk'.dirty = e.dirty \cup {n}
       /\ blk'.loaded = e.loaded /\ blk'.nickBond = [e.nickBond EXCEPT ![n] = o]
       /\ blk'.bondUp = KeepOldBond(n) /\ blk'.bondErase = e.bondErase
       /\ blk'.registered = e.registered + 1 /\ blk'.txs = e.txs
  BY <1>5, <1>10, Zenon DEF Block
<1>19. \A x \in Outpoint :
         /\ blk'.bondUp[x] # e.bondUp[x] =>
              x = BondOf(e.current[n]) /\ blk'.bondUp[x] = n /\ e.view[x] # NoCoin
         /\ x = BondOf(e.current[n]) /\ e.view[x] # NoCoin => blk'.bondUp[x] = n
  BY <1>4, <1>12, <1>13, <1>18, Zenon
<1>20. Rebonded(e, blk', n, o, i)
  BY <1>16, <1>17, <1>18, <1>19, Zenon DEF Rebonded, coin
<1>21. BlockGoodBut(blk', {})
  BY <1>3, <1>6, <1>7, <1>8, <1>9, <1>20, RebondGood, Zenon
<1> QED
  BY <1>21, Zenon DEF BlockGood

(* Any transaction of a block.                                             *)
LEMMA NameTxGood ==
  ASSUME Base, BlockGood(blk), NEW n \in Name, NEW P \in SUBSET Owner,
         NEW S \in SUBSET Outpoint, NameTx(n, P, S)
  PROVE  BlockGood(blk')
<1>1. CASE \E ow \in Owner, p \in Payout, o \in Outpoint : Register(n, ow, p, o, P, S)
  BY <1>1, RegisterGood, Zenon
<1>2. CASE \E p \in Payout : Update(n, p, P, S)
  BY <1>2, UpdateGood, Zenon
<1>3. CASE \E new \in Owner, o \in Outpoint : Transfer(n, new, o, P, S)
  BY <1>3, TransferGood, Zenon
<1>4. CASE \E o \in Outpoint : Renew(n, o, P, S)
  BY <1>4, RenewGood, Zenon
<1>5. CASE Release(n, P, S)
  BY <1>5, ReleaseGood, Zenon
<1>6. CASE ClaimCurrentBond(n, P, S)
  BY <1>6, ClaimCurrentBondGood, Zenon
<1>7. CASE \E o \in Outpoint : ClaimOldBond(n, o, S)
  BY <1>7, ClaimOldBondGood, Zenon
<1> QED
  BY <1>1, <1>2, <1>3, <1>4, <1>5, <1>6, <1>7, Zenon DEF NameTx

(* An empty working copy of a good tip is good.                            *)
LEMMA BeginBlockGood ==
  ASSUME Base, BeginBlock
  PROVE  BlockGood(blk')
<1>1. /\ db \in DB /\ utxo \in Coins /\ used \in SUBSET Outpoint
      /\ BondBackedIn(db, utxo) /\ BondTrackedIn(db, utxo)
      /\ \A n \in Name : db.rec[n] # NoInfo => InfoGood(db.rec[n], height)
      /\ \A o \in Outpoint \ used : utxo[o] = NoCoin /\ db.bondIdx[o] = NoName
  BY BaseFacts, Zenon
<1>2. /\ db.rec \in [Name -> Info \cup {NoInfo}]
      /\ \A n \in Name : BondOf(db.rec[n]) \in Outpoint \cup {NoBond}
  BY <1>1, DBTypes, Zenon
<1>3. /\ blk'.view = utxo /\ blk'.used = used /\ blk'.current = db.rec
      /\ blk'.dirty = {} /\ blk'.loaded = {} /\ blk'.nickBond = [n \in Name |-> NoBond]
      /\ blk'.bondUp = [o \in Outpoint |-> NoName] /\ blk'.bondErase = {}
      /\ blk'.registered = 0 /\ blk'.txs = 0
  BY Zenon DEF BeginBlock, Begun
<1>4. blk' \in Block
  <2>1. 0 \in 0 .. MaxBlockTxs /\ 0 \in Nat
    BY BoundAssumption
  <2>2. /\ [n \in Name |-> NoBond] \in [Name -> Outpoint \cup {NoBond}]
        /\ [o \in Outpoint |-> NoName] \in [Outpoint -> Name \cup {NoName}]
    OBVIOUS
  <2> QED
    BY <1>1, <1>2, <2>1, <2>2, ZenonT(40) DEF BeginBlock, Begun, Block
<1>5. Frame(blk') /\ NickBondExact(blk') /\ RecordsGood(blk') /\ ViewGood(blk')
  <2>1. Frame(blk')
    BY <1>3 DEF Frame
  <2>2. NickBondExact(blk')
    BY <1>3, Zenon DEF NickBondExact
  <2>3. RecordsGood(blk')
    <3>1. \A n \in Name : db.rec[n] # NoInfo => InfoGood(db.rec[n], height + 1)
      BY <1>1, <1>2, GoodLater, Zenon DEF Base
    <3> QED
      BY <1>3, <3>1, Zenon DEF RecordsGood, BlockHeight, BeginBlock, Begun
  <2>4. ViewGood(blk')
    BY <1>1, <1>3, Zenon DEF ViewGood
  <2> QED
    BY <2>1, <2>2, <2>3, <2>4, Zenon
<1>6. BondsGoodBut(blk', {})
  <2>1. \A n \in Name :
          BondOf(db.rec[n]) # NoBond =>
            /\ utxo[BondOf(db.rec[n])] = [owner |-> db.rec[n].owner,
                                          amount |-> db.rec[n].bondAmount]
            /\ db.bondIdx[BondOf(db.rec[n])] = n
    BY <1>1, Zenon DEF BondBackedIn
  <2>2. \A n, m \in Name :
          BondOf(db.rec[n]) # NoBond /\ BondOf(db.rec[n]) = BondOf(db.rec[m]) => n = m
    BY <2>1, Zenon
  <2> QED
    BY <1>3, <2>1, <2>2 DEF BondsGoodBut
<1>7. KeptGood(blk')
  BY <1>3, Zenon DEF KeptGood
<1>8. TrackedGood(blk')
  BY <1>1, <1>3, SentinelAssumption, Zenon DEF TrackedGood, BondTrackedIn
<1> QED
  BY <1>4, <1>5, <1>6, <1>7, <1>8, Zenon DEF BlockGood, BlockGoodBut, BeginBlock, Begun

-----------------------------------------------------------------------------
(* Committing the block.                                                   *)

(* The committed database satisfies what the undo theorem asks of it.      *)
LEMMA DBConsistent ==
  ASSUME Base
  PROVE  Consistent(db)
  BY BaseFacts, Zenon DEF Consistent, BondBackedIn

(* A good working copy is an update the undo theorem speaks of.            *)
LEMMA BlockProper ==
  ASSUME Base, BlockGood(blk)
  PROVE  ProperUpdate(db, blk)
<1>1. blk \in Block /\ Frame(blk) /\ BondsGoodBut(blk, {})
  BY Zenon DEF BlockGood, BlockGoodBut
<1>2. blk.registered \in 0 .. MaxBlockTxs
  BY <1>1, BlockTypes, BoundAssumption DEF Frame
<1>3. ASSUME NEW n \in Name, BondOf(blk.current[n]) # NoBond
      PROVE  db.bondIdx[BondOf(blk.current[n])] = NoName
               \/ BondOf(db.rec[n]) = BondOf(blk.current[n])
  <2>1. BondOf(blk.current[n]) \in Outpoint
    BY <1>1, <1>3, BlockTypes, Zenon
  <2>2. CASE BondOf(blk.current[n]) \in used
    BY <1>1, <2>2, Zenon DEF BondsGoodBut
  <2>3. CASE BondOf(blk.current[n]) \notin used
    BY <2>1, <2>3, BaseFacts, Zenon
  <2> QED
    BY <2>2, <2>3, Zenon
<1> QED
  BY <1>1, <1>2, <1>3, BlockTypes, Zenon DEF ProperUpdate, Frame

(* Connecting a block leaves a good committed state one higher.            *)
LEMMA CommitGood ==
  ASSUME Base, blk # NoBlock, BlockGood(blk), CommitBlock
  PROVE  Base' /\ height' = height + 1
<1> DEFINE w == WriteNicknameBatch(db, blk, BlockHeight)
<1>1. /\ blk \in Block /\ Frame(blk) /\ RecordsGood(blk) /\ ViewGood(blk)
      /\ BondsGoodBut(blk, {}) /\ KeptGood(blk) /\ TrackedGood(blk) /\ height < MaxHeight
  BY Zenon DEF BlockGood, BlockGoodBut
<1>2. /\ db \in DB /\ used \in SUBSET Outpoint /\ BondTrackedIn(db, utxo)
      /\ RollingGood(db, height)
      /\ \A x \in 0 .. MaxHeight : x > height => db.regCount[x] = 0
      /\ \A o \in Outpoint \ used : utxo[o] = NoCoin /\ db.bondIdx[o] = NoName
  BY BaseFacts, Zenon
<1>3. Consistent(db) /\ ProperUpdate(db, blk)
  BY DBConsistent, BlockProper, Zenon
<1>4. height \in Nat /\ BlockHeight = height + 1 /\ BlockHeight \in 1 .. MaxHeight
      /\ BlockHeight - 1 = height /\ MaxHeight \in Nat
  BY <1>1, BoundAssumption DEF Base, BlockHeight
<1>5. db.pricing.lastHeight = height => db.pricing.rolling = RebuildRolling(db, height)
  BY <1>2, Zenon DEF RollingGood
<1>6. /\ w \in DB
      /\ w.ownerIdx = RebuildOwnerIndex(w)
      /\ w.regCount = [db.regCount EXCEPT ![BlockHeight] = blk.registered]
      /\ w.pricing.lastHeight = BlockHeight
      /\ w.pricing.rolling = RebuildRolling(w, BlockHeight)
  BY <1>3, <1>4, <1>5, BatchGood
<1>7. w.rec = blk.current
  BY <1>2, <1>3, BatchRecords, Zenon
<1>8. \A o \in Outpoint : EntryAfter(db, blk, o, w.bondIdx[o])
  BY <1>3, BatchBondIndex, Zenon
<1>9. /\ blk.view \in Coins /\ blk.used \in SUBSET Outpoint
      /\ blk.current \in [Name -> Info \cup {NoInfo}]
      /\ blk.bondUp \in [Outpoint -> Name \cup {NoName}]
      /\ \A n \in Name : BondOf(blk.current[n]) \in Outpoint \cup {NoBond}
  BY <1>1, BlockTypes, Zenon
<1>10. \A n \in Name :
         BondOf(blk.current[n]) # NoBond =>
           /\ blk.view[BondOf(blk.current[n])] = [owner |-> blk.current[n].owner,
                                                  amount |-> blk.current[n].bondAmount]
           /\ blk.view[BondOf(blk.current[n])] # NoCoin
  <2> SUFFICES ASSUME NEW n \in Name, BondOf(blk.current[n]) # NoBond
               PROVE  /\ blk.view[BondOf(blk.current[n])] =
                           [owner |-> blk.current[n].owner,
                            amount |-> blk.current[n].bondAmount]
                      /\ blk.view[BondOf(blk.current[n])] # NoCoin
    OBVIOUS
  <2>1. blk.view[BondOf(blk.current[n])] = [owner |-> blk.current[n].owner,
                                            amount |-> blk.current[n].bondAmount]
    BY <1>1, Zenon DEF BondsGoodBut
  <2>2. blk.current[n] \in Info
    BY <1>9, Zenon DEF BondOf
  <2>3. [owner |-> blk.current[n].owner, amount |-> blk.current[n].bondAmount] \in Coin
    BY <2>2, Zenon DEF Info, Coin
  <2> QED
    BY <2>1, <2>3, NoCoinAssumption, Zenon
<1> HIDE DEF w
<1>11. BondBackedIn(w, blk.view)
  <2> SUFFICES ASSUME NEW n \in Name, BondOf(w.rec[n]) # NoBond
               PROVE  /\ blk.view[BondOf(w.rec[n])] = [owner |-> w.rec[n].owner,
                                                       amount |-> w.rec[n].bondAmount]
                      /\ w.bondIdx[BondOf(w.rec[n])] = n
    BY Zenon DEF BondBackedIn
  <2> DEFINE o == BondOf(blk.current[n])
  <2>1. o \in Outpoint /\ o # NoBond
    BY <1>7, <1>9, Zenon
  <2>2. blk.bondUp[o] = NoName
    BY <1>1, <2>1, Zenon DEF KeptGood
  <2>3. o \notin blk.bondErase
    BY <1>1, <1>10, <2>1, Zenon DEF KeptGood
  <2>4. w.bondIdx[o] \in Name /\ BondOf(blk.current[w.bondIdx[o]]) = o
    BY <1>8, <2>1, <2>2, <2>3, Zenon DEF EntryAfter
  <2>5. w.bondIdx[o] = n
    BY <1>1, <2>1, <2>4, Zenon DEF BondsGoodBut
  <2> QED
    BY <1>7, <1>10, <2>1, <2>5, Zenon
<1>12. BondTrackedIn(w, blk.view)
  <2> SUFFICES ASSUME NEW o \in Outpoint, blk.view[o] # NoCoin
               PROVE  w.bondIdx[o] \in Name /\ blk.current[w.bondIdx[o]] # NoInfo
    BY <1>7, Zenon DEF BondTrackedIn
  <2>1. o \notin blk.bondErase
    BY <1>1, Zenon DEF KeptGood
  <2>2. CASE blk.bondUp[o] # NoName
    BY <1>1, <1>8, <1>9, <2>2 DEF EntryAfter, KeptGood
  <2>3. CASE blk.bondUp[o] = NoName /\ \E n \in Name : BondOf(blk.current[n]) = o
    <3>1. w.bondIdx[o] \in Name /\ BondOf(blk.current[w.bondIdx[o]]) = o
      BY <1>8, <2>1, <2>3, Zenon DEF EntryAfter
    <3> QED
      BY <3>1, SentinelAssumption, Zenon DEF BondOf
  <2>4. CASE /\ blk.bondUp[o] = NoName /\ \A n \in Name : BondOf(blk.current[n]) # o
             /\ db.bondIdx[o] # NoName /\ \A n \in Name : BondOf(db.rec[n]) # o
    <3>1. w.bondIdx[o] = db.bondIdx[o]
      BY <1>8, <2>1, <2>4, Zenon DEF EntryAfter
    <3>2. o \in used
      BY <1>2, <2>4, Zenon
    <3>3. utxo[o] # NoCoin
      BY <1>1, <3>2, Zenon DEF ViewGood
    <3>4. db.bondIdx[o] \in Name /\ db.rec[db.bondIdx[o]] # NoInfo
      BY <1>2, <3>3, Zenon DEF BondTrackedIn
    <3> QED
      BY <1>1, <3>1, <3>4, Zenon DEF Frame
  <2> QED
    BY <1>1, <2>2, <2>3, <2>4, Zenon DEF TrackedGood
<1>13. \A n \in Name : w.rec[n] # NoInfo => InfoGood(w.rec[n], BlockHeight)
  BY <1>1, <1>7, Zenon DEF RecordsGood
<1>14. RollingGood(w, BlockHeight)
  BY <1>6, Zenon DEF RollingGood
<1>15. \A x \in 0 .. MaxHeight : x > BlockHeight => w.regCount[x] = 0
  <2> SUFFICES ASSUME NEW x \in 0 .. MaxHeight, x > BlockHeight
               PROVE  w.regCount[x] = 0
    OBVIOUS
  <2>1. x # BlockHeight /\ x > height
    BY <1>4
  <2>2. db.regCount \in [0 .. MaxHeight -> 0 .. MaxBlockTxs]
    BY <1>2, DBTypes, Zenon
  <2> QED
    BY <1>2, <1>6, <2>1, <2>2, Zenon
<1>16. \A o \in Outpoint \ blk.used : blk.view[o] = NoCoin /\ w.bondIdx[o] = NoName
  <2> SUFFICES ASSUME NEW o \in Outpoint \ blk.used
               PROVE  blk.view[o] = NoCoin /\ w.bondIdx[o] = NoName
    OBVIOUS
  <2>1. blk.view[o] = NoCoin
    BY <1>1, Zenon DEF ViewGood
  <2>2. blk.bondUp[o] = NoName /\ o \notin blk.bondErase
    BY <1>1, Zenon DEF KeptGood
  <2>3. db.bondIdx[o] = NoName
    BY <1>1, <1>2, Zenon DEF Frame
  <2>4. \A n \in Name : BondOf(blk.current[n]) # o
    BY <1>10, <2>1, SentinelAssumption, Zenon
  <2> QED
    BY <1>8, <2>1, <2>2, <2>3, <2>4, Zenon DEF EntryAfter
<1>17. /\ db' = w /\ utxo' = blk.view /\ used' = blk.used /\ height' = BlockHeight
  BY Zenon DEF CommitBlock, w
<1> DEFINE s == [db |-> w, utxo |-> blk.view, used |-> blk.used]
<1>18. s \in Snapshot
  BY <1>6, <1>9, Zenon DEF Snapshot
<1>19. Good(s, BlockHeight)
  BY <1>6, <1>11, <1>12, <1>13, <1>14, <1>15, <1>16, <1>18, Zenon DEF Good
<1>20. Committed' = s
  BY <1>17, Zenon DEF Committed
<1>21. (Good(Committed, height))'
  BY <1>17, <1>19, <1>20, Zenon DEF Good
<1> QED
  BY <1>4, <1>17, <1>21 DEF Base

(* The undo data of the block takes the coins back as well.                *)
LEMMA CoinsUndone ==
  ASSUME Base, BlockGood(blk)
  PROVE  /\ UndoCoins(blk.view, UndoData) = utxo
         /\ blk.used \ UndoData.created = used
<1>1. blk \in Block /\ Frame(blk) /\ ViewGood(blk)
  BY Zenon DEF BlockGood, BlockGoodBut
<1>2. /\ utxo \in Coins /\ used \in SUBSET Outpoint
      /\ \A o \in Outpoint \ used : utxo[o] = NoCoin
  BY BaseFacts, Zenon
<1>3. /\ UndoData.created = blk.used \ used
      /\ DOMAIN UndoData.spent = {p \in Outpoint : utxo[p] # NoCoin /\ blk.view[p] = NoCoin}
      /\ \A o \in DOMAIN UndoData.spent : UndoData.spent[o] = utxo[o]
  BY Zenon DEF UndoData, Spent
<1>4. \A o \in Outpoint : UndoCoins(blk.view, UndoData)[o] = utxo[o]
  <2> SUFFICES ASSUME NEW o \in Outpoint
               PROVE  UndoCoins(blk.view, UndoData)[o] = utxo[o]
    OBVIOUS
  <2>1. UndoCoins(blk.view, UndoData)[o] =
          IF o \in blk.used \ used THEN NoCoin
          ELSE IF utxo[o] # NoCoin /\ blk.view[o] = NoCoin THEN utxo[o]
          ELSE blk.view[o]
    BY <1>3, Zenon DEF UndoCoins
  <2>2. CASE o \in used
    BY <1>1, <2>1, <2>2, Zenon DEF ViewGood
  <2>3. CASE o \notin used
    BY <1>1, <1>2, <2>1, <2>3, Zenon DEF ViewGood
  <2> QED
    BY <2>2, <2>3, Zenon
<1>5. UndoCoins(blk.view, UndoData) = utxo
  BY <1>2, <1>4, Zenon DEF UndoCoins, Coins
<1>6. blk.used \ UndoData.created = used
  BY <1>1, <1>3, Zenon DEF Frame
<1> QED
  BY <1>5, <1>6, Zenon

(* Connecting a block keeps every remembered state good and exactly        *)
(* undone, the new one included.                                           *)
LEMMA CommitChain ==
  ASSUME Base, ChainGood, blk # NoBlock, BlockGood(blk), CommitBlock
  PROVE  ChainGood'
<1>1. /\ height \in Nat /\ BlockHeight = height + 1 /\ BlockHeight \in 1 .. MaxHeight
      /\ MaxHeight \in Nat /\ MaxReorg \in Nat
  BY BoundAssumption, LedgerBoundAssumption DEF Base, BlockGood, BlockHeight
<1>2. /\ db' = WriteNicknameBatch(db, blk, BlockHeight) /\ utxo' = blk.view
      /\ used' = blk.used /\ height' = BlockHeight
      /\ chain' = [h \in 1 .. MaxHeight |->
                     IF h = BlockHeight THEN UndoData
                     ELSE IF h <= BlockHeight - MaxReorg THEN NoBlock
                     ELSE chain[h]]
  BY Zenon DEF CommitBlock
<1>3. /\ UndoData.before = Committed /\ UndoData.undo = UndoOf(db, blk)
  BY Zenon DEF UndoData, Committed
<1>4. Undoes(UndoData, Committed', BlockHeight)
  <2>1. db.regCount[BlockHeight] = 0
    BY <1>1, BaseFacts
  <2>2. ApplyNicknameUndo(db', UndoData.undo, BlockHeight) = db
    BY <1>1, <1>2, <1>3, <2>1, DBConsistent, BlockProper, UndoRestores
  <2>3. UndoCoins(utxo', UndoData) = utxo /\ used' \ UndoData.created = used
    BY <1>2, CoinsUndone, Zenon
  <2> HIDE DEF UndoData
  <2> QED
    BY <1>3, <2>2, <2>3 DEF Undoes, Committed
<1>5. ASSUME NEW h \in 1 .. MaxHeight, chain'[h] # NoBlock
      PROVE  /\ h <= height'
             /\ Good(chain'[h].before, h - 1)
             /\ Undoes(chain'[h], (After(h))', h)
  <2>1. CASE h = BlockHeight
    <3>1. chain'[h] = UndoData /\ (After(h))' = Committed' /\ h - 1 = height
      BY <1>1, <1>2, <2>1 DEF After, Committed
    <3>2. Good(Committed, height)
      BY Zenon DEF Base
    <3> HIDE DEF UndoData
    <3>3. Good(chain'[h].before, h - 1)
      BY <1>3, <3>1, <3>2, Zenon
    <3> QED
      BY <1>1, <1>2, <1>4, <2>1, <3>1, <3>3
  <2>2. CASE h # BlockHeight
    <3>1. chain'[h] = chain[h] /\ chain[h] # NoBlock /\ ~(h <= BlockHeight - MaxReorg)
      BY <1>2, <1>5, <2>2, Zenon
    <3>2. h <= height /\ Good(chain[h].before, h - 1) /\ Undoes(chain[h], After(h), h)
      BY <3>1, Zenon DEF ChainGood, UndoExactAt
    <3>3. h # height' /\ (After(h))' = chain'[h + 1].before
      <4>1. h # height'
        BY <1>1, <1>2, <3>2
      <4> QED
        BY <4>1, Zenon DEF After
    <3>4. CASE h = height
      <4>1. chain'[h + 1] = UndoData
        BY <1>1, <1>2, <3>4, Zenon
      <4>2. After(h) = Committed
        BY <3>4, Zenon DEF After, Committed
      <4> QED
        BY <1>1, <1>2, <1>3, <3>1, <3>2, <3>3, <4>1, <4>2
    <3>5. CASE h # height
      <4>1. h + 1 \in 1 .. MaxHeight /\ h + 1 # BlockHeight /\ ~(h + 1 <= BlockHeight - MaxReorg)
        BY <1>1, <3>1, <3>2, <3>5
      <4>2. chain'[h + 1] = chain[h + 1]
        BY <1>2, <4>1, Zenon
      <4>3. After(h) = chain[h + 1].before
        BY <3>5, Zenon DEF After
      <4> QED
        BY <1>1, <1>2, <3>1, <3>2, <3>3, <4>2, <4>3
    <3> QED
      BY <3>4, <3>5, Zenon
  <2> QED
    BY <2>1, <2>2, Zenon
<1>6. DOMAIN chain' = 1 .. MaxHeight
  BY <1>2, Zenon
<1> QED
  BY <1>5, <1>6, Zenon DEF ChainGood, UndoExactAt

-----------------------------------------------------------------------------
(* Disconnecting the tip goes back to the remembered state.                *)
LEMMA DisconnectGood ==
  ASSUME Base, ChainGood, DisconnectBlock
  PROVE  Base' /\ ChainGood'
<1>1. /\ height \in Nat /\ height \in 1 .. MaxHeight /\ MaxHeight \in Nat
      /\ height' = height - 1 /\ height' \in 0 .. MaxHeight
      /\ chain[height] # NoBlock
  BY BoundAssumption DEF DisconnectBlock, Base
<1> DEFINE e == chain[height]
<1>2. Good(e.before, height - 1) /\ Undoes(e, Committed, height)
  BY <1>1, Zenon DEF ChainGood, UndoExactAt, After, Committed
<1>3. /\ db' = ApplyNicknameUndo(db, e.undo, height)
      /\ utxo' = UndoCoins(utxo, e)
      /\ used' = used \ e.created
      /\ chain' = [chain EXCEPT ![height] = NoBlock]
  BY Zenon DEF DisconnectBlock
<1> HIDE DEF e
<1>4. db' = e.before.db /\ utxo' = e.before.utxo /\ used' = e.before.used
  BY <1>2, <1>3, Zenon DEF Undoes, Committed
<1>5. e.before \in Snapshot
  BY <1>2, Zenon DEF Good
<1>6. Committed' = e.before
  BY <1>4, <1>5, Zenon DEF Committed, Snapshot
<1>7. Base'
  BY <1>1, <1>2, <1>6, Zenon DEF Base, Good
<1>8. ASSUME NEW h \in 1 .. MaxHeight, chain'[h] # NoBlock
      PROVE  /\ h <= height'
             /\ Good(chain'[h].before, h - 1)
             /\ Undoes(chain'[h], (After(h))', h)
  <2>1. h # height /\ chain'[h] = chain[h]
    BY <1>1, <1>3, <1>8, Zenon DEF ChainGood
  <2>2. h <= height /\ Good(chain[h].before, h - 1) /\ Undoes(chain[h], After(h), h)
    BY <1>8, <2>1, Zenon DEF ChainGood, UndoExactAt
  <2>3. After(h) = chain[h + 1].before
    BY <2>1, Zenon DEF After
  <2>4. CASE h = height - 1
    <3>1. (After(h))' = e.before
      BY <1>1, <1>6, <2>4, Zenon DEF After, Committed
    <3>2. h + 1 = height
      BY <1>1, <2>4
    <3> QED
      BY <1>1, <2>1, <2>2, <2>3, <2>4, <3>1, <3>2 DEF e
  <2>5. CASE h # height - 1
    <3>1. h + 1 # height /\ h + 1 \in 1 .. MaxHeight /\ h <= height'
      BY <1>1, <2>1, <2>2, <2>5
    <3>2. chain'[h + 1] = chain[h + 1]
      BY <1>3, <3>1, Zenon DEF ChainGood
    <3>3. (After(h))' = chain[h + 1].before
      BY <1>1, <2>5, <3>2, Zenon DEF After
    <3> QED
      BY <2>1, <2>2, <2>3, <3>1, <3>3, Zenon
  <2> QED
    BY <2>4, <2>5, Zenon
<1>9. DOMAIN chain' = 1 .. MaxHeight
  BY <1>3, Zenon DEF ChainGood
<1> QED
  BY <1>7, <1>8, <1>9, Zenon DEF ChainGood, UndoExactAt

-----------------------------------------------------------------------------
(* The invariant holds of an empty database at the genesis block.          *)
LEMMA InitIInv ==
  ASSUME Init
  PROVE  IInv
<1>1. db \in DB
  BY BoundAssumption
     DEF Init, EmptyDB, DB, Pricing, DefaultPricing, DefaultMultiplier,
         MinMultiplier, MaxMultiplier
<1>2. Committed \in Snapshot
  BY <1>1, Zenon DEF Init, Committed, Snapshot, Coins
<1>3. /\ \A n \in Name : db.rec[n] = NoInfo
      /\ \A o \in Outpoint : db.bondIdx[o] = NoName /\ utxo[o] = NoCoin
      /\ db.ownerIdx = {} /\ db.pricing.lastHeight = -1
      /\ \A x \in 0 .. MaxHeight : db.regCount[x] = 0
  BY Zenon DEF Init, EmptyDB, DefaultPricing
<1>4. \A n \in Name : BondOf(db.rec[n]) = NoBond
  BY <1>3, Zenon DEF BondOf
<1>5. db.ownerIdx = RebuildOwnerIndex(db)
  BY <1>3, Zenon DEF RebuildOwnerIndex, OwnerEntries
<1>6. BondBackedIn(db, utxo) /\ BondTrackedIn(db, utxo)
  BY <1>3, <1>4, Zenon DEF BondBackedIn, BondTrackedIn
<1>7. height = 0 /\ RollingGood(db, height)
  <2>1. height = 0 /\ db.pricing.lastHeight = -1
    BY <1>3, Zenon DEF Init
  <2> QED
    BY <2>1 DEF RollingGood
<1>8. Good(Committed, height)
  BY <1>2, <1>3, <1>5, <1>6, <1>7, Zenon DEF Good, Committed
<1>9. ChainGood /\ blk = NoBlock
  BY Zenon DEF Init, ChainGood
<1> QED
  BY <1>7, <1>8, <1>9, BoundAssumption DEF IInv

(* Steps that leave the committed state alone.                             *)
LEMMA SameBase ==
  ASSUME Base, ChainGood, UNCHANGED <<db, utxo, used, height, chain>>
  PROVE  Base' /\ ChainGood'
  BY Zenon DEF Base, Good, Committed, ChainGood, UndoExactAt, Undoes, After

(* The working copy stays good while the committed state is unchanged.     *)
LEMMA SameBlock ==
  ASSUME BlockGood(blk'), UNCHANGED <<db, utxo, used, height>>
  PROVE  BlockGood(blk)'
  BY Zenon DEF BlockGood, BlockGoodBut, Frame, NickBondExact, RecordsGood, ViewGood,
         BondsGoodBut, KeptGood, TrackedGood, BlockHeight

(* Every step preserves the invariant.                                     *)
LEMMA NextIInv ==
  ASSUME IInv, [Next]_vars
  PROVE  IInv'
<1>1. Base /\ ChainGood /\ (blk # NoBlock => BlockGood(blk))
  BY Zenon DEF IInv, Base
<1>2. SUFFICES Base' /\ ChainGood' /\ (blk' # NoBlock => BlockGood(blk)')
  BY Zenon DEF IInv, Base
<1>3. CASE BeginBlock
  <2>1. UNCHANGED <<db, utxo, used, height, chain>>
    BY <1>3, Zenon DEF BeginBlock
  <2> QED
    BY <1>1, <1>3, <2>1, BeginBlockGood, SameBase, SameBlock, Zenon
<1>4. ASSUME NEW S \in SUBSET Outpoint, PlainTx(S)
      PROVE  Base' /\ ChainGood' /\ (blk' # NoBlock => BlockGood(blk)')
  <2>1. UNCHANGED <<db, utxo, used, height, chain>> /\ blk # NoBlock
    BY <1>4, Zenon DEF PlainTx, MayEnter, Processed, CanEnter
  <2> QED
    BY <1>1, <1>4, <2>1, PlainTxGood, SameBase, SameBlock, Zenon
<1>5. ASSUME NEW n \in Name, NEW P \in SUBSET Owner, NEW S \in SUBSET Outpoint,
             NameTx(n, P, S)
      PROVE  Base' /\ ChainGood' /\ (blk' # NoBlock => BlockGood(blk)')
  <2>1. UNCHANGED <<db, utxo, used, height, chain>> /\ blk # NoBlock
    BY <1>5, Zenon DEF NameTx, Register, Update, Transfer, Renew, Release,
                ClaimCurrentBond, ClaimOldBond, Processed, CanEnter, MayRegister,
                MayAmend, MayTransfer, MayRenew, MayClaimCurrent, MayClaimOld
  <2> QED
    BY <1>1, <1>5, <2>1, NameTxGood, SameBase, SameBlock, Zenon
<1>6. CASE CommitBlock
  <2>1. blk # NoBlock /\ blk' = NoBlock
    BY <1>6, Zenon DEF CommitBlock
  <2> QED
    BY <1>1, <1>6, <2>1, CommitGood, CommitChain, Zenon
<1>7. CASE AbandonBlock
  <2>1. blk' = NoBlock /\ UNCHANGED <<db, utxo, used, height, chain>>
    BY <1>7, Zenon DEF AbandonBlock
  <2> QED
    BY <1>1, <2>1, SameBase, Zenon
<1>8. CASE DisconnectBlock
  <2>1. blk = NoBlock /\ blk' = blk
    BY <1>8, Zenon DEF DisconnectBlock
  <2> QED
    BY <1>1, <1>8, <2>1, DisconnectGood, Zenon
<1>9. CASE UNCHANGED vars
  <2>1. UNCHANGED <<db, utxo, used, height, chain>> /\ blk' = blk
    BY <1>9, Zenon DEF vars
  <2> QED
    BY <1>1, <2>1, SameBase, SameBlock, Zenon
<1> QED
  BY <1>3, <1>4, <1>5, <1>6, <1>7, <1>8, <1>9, Zenon DEF Next

(* IInv is an invariant of the ledger.                                     *)
THEOREM LedgerInvariant == Spec => []IInv
<1>1. Init => IInv
  BY InitIInv, Zenon
<1>2. IInv /\ [Next]_vars => IInv'
  BY NextIInv, Zenon
<1> QED
  BY <1>1, <1>2, PTL DEF Spec

-----------------------------------------------------------------------------
(* Every state of the ledger is well-formed: the database, the coins and   *)
(* the working copy of the block being connected keep their types whatever *)
(* operations the blocks hold.                                             *)
THEOREM TypeCorrect == Spec => []TypeOK
<1>1. IInv => TypeOK
  BY Zenon DEF IInv, Good, Committed, Snapshot, BlockGood, BlockGoodBut, TypeOK
<1> QED
  BY <1>1, LedgerInvariant, PTL

(* The bond of every record is an unspent output of the recorded owner and *)
(* amount, indexed under the name, after any blocks and reorganisations.   *)
THEOREM BondsAreBacked == Spec => []BondBacked
<1>1. IInv => BondBacked
  BY Zenon DEF IInv, Good, Committed, BondBacked
<1> QED
  BY <1>1, LedgerInvariant, PTL

(* Every unspent bond output is indexed under a name that has a record, so *)
(* CLAIM_BOND can find the bonds of earlier registrations too.             *)
THEOREM BondsAreTracked == Spec => []BondTracked
<1>1. IInv => BondTracked
  BY Zenon DEF IInv, Good, Committed, BondTracked
<1> QED
  BY <1>1, LedgerInvariant, PTL

(* A name that was not released keeps its bond through the last block of   *)
(* its grace period.                                                       *)
THEOREM LiveNamesHaveBonds == Spec => []LiveNameHasBond
<1>1. ASSUME IInv
      PROVE  LiveNameHasBond
  <2> SUFFICES ASSUME NEW n \in Name, db.rec[n] # NoInfo,
                      ~db.rec[n].released,
                      height <= db.rec[n].activeUntil \/ height <= db.rec[n].graceUntil
               PROVE  BondOf(db.rec[n]) # NoBond
    BY Zenon DEF LiveNameHasBond, LiveNameHasBondIn
  <2>1. Base
    BY <1>1, Zenon DEF IInv, Base
  <2>2. db \in DB /\ InfoGood(db.rec[n], height)
    BY <2>1, BaseFacts, Zenon
  <2>3. db.rec[n] \in Info
    BY <2>2, DBTypes, Zenon
  <2>4. /\ db.rec[n].activeUntil \in Int /\ db.rec[n].graceUntil \in Int
        /\ height \in Int
    BY <2>1, <2>3, BoundAssumption DEF Info, Base
  <2>5. ~db.rec[n].bondClaimed
    BY <2>2, <2>4 DEF InfoGood
  <2> QED
    BY <2>2, <2>5, Zenon DEF InfoGood, BondOf, HasBondOutpoint
<1>2. IInv => LiveNameHasBond
  BY <1>1, Zenon
<1> QED
  BY <1>2, LedgerInvariant, PTL

(* If no price exceeds MAX_MONEY, no sequence of renewals, blocks and      *)
(* reorganisations brings a recorded bond above it.                        *)
THEOREM BondsStayMoney ==
  ASSUME PricesAreMoney
  PROVE  Spec => []BondsAreMoney
<1>1. IInv => BondsAreMoney
  BY BaseFacts, Zenon DEF IInv, Base, InfoGood, BondsAreMoney
<1> QED
  BY <1>1, LedgerInvariant, PTL

(* The owner index always equals the one EnsureOwnerIndexReady rebuilds.   *)
THEOREM OwnerIndexIsExact == Spec => []OwnerIndexExact
<1>1. IInv => OwnerIndexExact
  BY Zenon DEF IInv, Good, Committed, OwnerIndexExact
<1> QED
  BY <1>1, LedgerInvariant, PTL

(* The rolling count behind the prices is the number of registrations in   *)
(* the window, across disconnections, for any window and any chain.        *)
THEOREM RollingIsExact == Spec => []RollingExact
<1>1. IInv => RollingExact
  BY Zenon DEF IInv, Good, Committed, RollingGood, RollingExact, RollingExactIn
<1> QED
  BY <1>1, LedgerInvariant, PTL

(* Disconnecting blocks brings back exactly the database and the coins     *)
(* that were there before they were connected.                             *)
THEOREM UndoIsExact == Spec => []UndoExact
<1>1. IInv => UndoExact
  BY Zenon DEF IInv, ChainGood, UndoExact
<1> QED
  BY <1>1, LedgerInvariant, PTL

(* Every block moves the price multiplier by at most a tenth, only at an   *)
(* epoch boundary and only towards the demand in the window.               *)
THEOREM PricesAreGradual == Spec => PricesFollowDemand
<1> DEFINE Gradual ==
      height' > height =>
        LET p   == db.pricing.multiplier
            q   == db'.pricing.multiplier
            raw == RawMultiplier(RebuildRolling(db', height'))
        IN  /\ 100 * q >= 90 * p /\ 100 * q <= 110 * p
            /\ height' % PricingEpoch # 0 => q = p
            /\ (raw >= p => q >= p) /\ (raw <= p => q <= p)
<1>1. ASSUME IInv, [Next]_vars, height' > height
      PROVE  CommitBlock
  <2>1. height \in Int
    BY <1>1, BoundAssumption DEF IInv
  <2>2. ASSUME NEW n, NEW P, NEW S, NameTx(n, P, S)
        PROVE  height' = height
    BY <2>2, Zenon DEF NameTx, Register, Update, Transfer, Renew, Release,
                ClaimCurrentBond, ClaimOldBond, Processed
  <2>3. ASSUME NEW S, PlainTx(S)
        PROVE  height' = height
    BY <2>3, Zenon DEF PlainTx, Processed
  <2>4. BeginBlock \/ AbandonBlock \/ UNCHANGED vars => height' = height
    BY Zenon DEF BeginBlock, AbandonBlock, vars
  <2>5. DisconnectBlock => height' = height - 1
    BY Zenon DEF DisconnectBlock
  <2>6. height' # height /\ height' # height - 1
    BY <1>1, <2>1
  <2> QED
    BY <1>1, <2>2, <2>3, <2>4, <2>5, <2>6, Zenon DEF Next
<1>2. ASSUME IInv, CommitBlock, height' > height
      PROVE  Gradual
  <2>1. Base /\ blk # NoBlock /\ BlockGood(blk)
    BY <1>2, Zenon DEF IInv, Base, CommitBlock
  <2>2. Base' /\ height' = height + 1
    BY <1>2, <2>1, CommitGood, Zenon
  <2>3. db \in DB /\ db' \in DB /\ height' \in 1 .. MaxHeight
    <3>1. db \in DB
      BY <2>1, BaseFacts, Zenon
    <3>2. Committed' \in Snapshot
      BY <2>2, Zenon DEF Base, Good
    <3>3. db' \in DB
      BY <3>2, Zenon DEF Committed, Snapshot
    <3>4. height \in 0 .. MaxHeight /\ height' \in 0 .. MaxHeight
      BY <2>1, <2>2, Zenon DEF Base
    <3>5. height' \in 1 .. MaxHeight
      BY <2>2, <3>4, BoundAssumption
    <3> QED
      BY <3>1, <3>3, <3>5, Zenon
  <2>4. db'.pricing = ComputeNextPricing(db, height', blk.registered)
    BY <1>2, Zenon DEF CommitBlock, WriteNicknameBatch
  <2>5. db'.pricing.rolling = RebuildRolling(db', height') /\ db'.pricing.rolling \in Nat
    <3>1. RollingGood(db', height')
      BY <2>2, Zenon DEF Base, Good, Committed
    <3>2. db'.pricing.lastHeight = height'
      BY <2>3, <3>1, BoundAssumption DEF RollingGood
    <3> QED
      BY <2>3, <3>1, <3>2, Zenon DEF RollingGood, DB, Pricing
  <2> QED
    BY <2>3, <2>4, <2>5, NextMultiplier
<1>3. IInv /\ [Next]_vars => [Gradual]_vars
  BY <1>1, <1>2, Zenon
<1> QED
  BY <1>3, LedgerInvariant, PTL DEF Spec, PricesFollowDemand

-----------------------------------------------------------------------------
(* Induction over the transactions of a block, as a fact about sets.       *)

(* A nonempty set of natural numbers has a least element.                  *)
LEMMA LeastNumber ==
  ASSUME NEW T \in SUBSET Nat, T # {}
  PROVE  \E m \in T : \A k \in T : m <= k
<1>1. IsWellFoundedOn(OpToRel(<, Nat), Nat)
  BY NatLessThanWellFounded, Zenon
<1>2. PICK m \in T : \A k \in T : ~(<<k, m>> \in OpToRel(<, Nat))
  BY <1>1, WFMin, Zenon
<1>3. \A k \in T : ~(k < m)
  BY <1>2, Zenon DEF OpToRel
<1> QED
  BY <1>3

(* What holds before the first of k steps, and after each if it held       *)
(* before it, holds after the last.                                        *)
LEMMA AfterAllSteps ==
  ASSUME NEW k \in Nat, NEW S, 0 \in S, \A i \in 1 .. k : i - 1 \in S => i \in S
  PROVE  k \in S
<1> DEFINE T == {i \in 0 .. k : i \notin S}
<1> SUFFICES ASSUME T # {}
             PROVE  FALSE
  OBVIOUS
<1>1. T \in SUBSET Nat
  OBVIOUS
<1>2. PICK m \in T : \A j \in T : m <= j
  <2> HIDE DEF T
  <2> QED
    BY <1>1, LeastNumber, Zenon
<1>3. m \in 1 .. k /\ m - 1 \notin T
  BY <1>2
<1> QED
  BY <1>2, <1>3

-----------------------------------------------------------------------------
(* Transactions.                                                           *)

(* The fields of a transaction, by its type.                               *)
LEMMA TxFields ==
  ASSUME NEW d \in Tx
  PROVE  /\ d.in.P \in SUBSET Owner /\ d.in.S \in SUBSET Outpoint
         /\ d.type \in {"NONE", "REGISTER", "UPDATE", "TRANSFER", "RENEW",
                        "RELEASE", "CLAIM_BOND"}
         /\ d.type # "NONE" => d.n \in Name
         /\ d.type \in {"REGISTER", "TRANSFER", "RENEW"} =>
              d.o \in Outpoint /\ d.ow \in Owner /\ d.amount \in Nat
         /\ d.type \in {"REGISTER", "UPDATE"} => d.p \in Payout
         /\ d.type = "REGISTER" => d.fee \in Nat
  BY AmountAssumption, Zenon DEF Tx, Inputs

(* What a bond output pays is a coin.                                      *)
LEMMA PaidIsCoin ==
  ASSUME NEW d \in Tx, Creates(d) # {}
  PROVE  Paid(d) # NoCoin
<1>1. Paid(d) \in Coin
  BY TxFields, Zenon DEF Creates, Paid, BondOutput, Coin
<1> QED
  BY <1>1, NoCoinAssumption, Zenon

(* A bond output is an outpoint.                                           *)
LEMMA CreatesOutpoints ==
  ASSUME NEW d \in Tx
  PROVE  Creates(d) \in SUBSET Outpoint
  BY TxFields, Zenon DEF Creates

(* A transaction of a block is one of the ledger's steps.                  *)
LEMMA DoesLedgerTx ==
  ASSUME NEW d \in Tx, Does(d)
  PROVE  PlainTx(d.in.S) \/ (d.type # "NONE" /\ NameTx(d.n, d.in.P, d.in.S))
<1> DEFINE n == d.n
           P == d.in.P
           S == d.in.S
<1>1. P \in SUBSET Owner /\ S \in SUBSET Outpoint
  BY TxFields, Zenon
<1>2. CASE d.type = "NONE"
  BY <1>2, Zenon DEF Does, BlockRules, Result, PlainTx
<1>4. CASE d.type = "REGISTER"
  <2>1. Register(n, d.ow, d.p, d.o, P, S)
    BY <1>4, Zenon DEF Does, BlockRules, Result, Register
  <2> QED
    BY <1>4, <2>1, TxFields, Zenon DEF NameTx
<1>5. CASE d.type = "UPDATE"
  <2>1. Update(n, d.p, P, S)
    BY <1>5, Zenon DEF Does, BlockRules, Result, Update
  <2> QED
    BY <1>5, <2>1, TxFields, Zenon DEF NameTx
<1>6. CASE d.type = "TRANSFER"
  <2>1. Transfer(n, d.ow, d.o, P, S)
    BY <1>6, Zenon DEF Does, BlockRules, Result, Transfer
  <2> QED
    BY <1>6, <2>1, TxFields, Zenon DEF NameTx
<1>7. CASE d.type = "RENEW"
  <2>1. Renew(n, d.o, P, S)
    BY <1>7, Zenon DEF Does, BlockRules, Result, Renew
  <2> QED
    BY <1>7, <2>1, TxFields, Zenon DEF NameTx
<1>8. CASE d.type = "RELEASE"
  <2>1. Release(n, P, S)
    BY <1>8, Zenon DEF Does, BlockRules, Result, Release
  <2> QED
    BY <1>8, <2>1, Zenon DEF NameTx
<1>9. CASE d.type = "CLAIM_BOND"
  <2>1. CASE MayClaimCurrent(n, P, S)
    <3>1. ClaimCurrentBond(n, P, S)
      BY <1>9, <2>1, Zenon DEF Does, Result, ClaimCurrentBond, MayClaimCurrent
    <3> QED
      BY <1>9, <3>1, Zenon DEF NameTx
  <2>2. ASSUME NEW o \in S, MayClaimOld(n, o, S)
        PROVE  NameTx(n, P, S)
    <3>1. ~SpendsCurrentBond(n, S)
      BY <2>2, Zenon DEF MayClaimOld, SpendsCurrentBond
    <3>2. ClaimOldBond(n, o, S)
      BY <1>9, <2>2, <3>1, Zenon DEF Does, Result, ClaimOldBond
    <3> QED
      BY <1>1, <1>9, <3>2, Zenon DEF NameTx
  <2> QED
    BY <1>9, <2>1, <2>2, Zenon DEF Does, BlockRules
<1> QED
  BY <1>2, <1>4, <1>5, <1>6, <1>7, <1>8, <1>9, TxFields, Zenon

(* So it is a step of the ledger, and leaves a good working copy.          *)
LEMMA DoesIsNext ==
  ASSUME NEW d \in Tx, Does(d)
  PROVE  /\ Next
         /\ IInv /\ blk # NoBlock => blk' \in Block
<1>1. d.in.P \in SUBSET Owner /\ d.in.S \in SUBSET Outpoint
  BY TxFields, Zenon
<1>2. CASE PlainTx(d.in.S)
  <2>1. Next
    BY <1>1, <1>2, Zenon DEF Next
  <2>2. IInv /\ blk # NoBlock => BlockGood(blk')
    BY <1>1, <1>2, PlainTxGood, Zenon DEF IInv, Base
  <2> QED
    BY <2>1, <2>2, Zenon DEF BlockGood, BlockGoodBut
<1>3. CASE d.type # "NONE" /\ NameTx(d.n, d.in.P, d.in.S)
  <2>1. d.n \in Name
    BY <1>3, TxFields, Zenon
  <2>2. Next
    BY <1>1, <1>3, <2>1, Zenon DEF Next
  <2>3. IInv /\ blk # NoBlock => BlockGood(blk')
    BY <1>1, <1>3, <2>1, NameTxGood, Zenon DEF IInv, Base
  <2> QED
    BY <2>2, <2>3 DEF BlockGood, BlockGoodBut
<1> QED
  BY <1>2, <1>3, DoesLedgerTx, Zenon

=============================================================================
