----------------------------- MODULE NicknameDB -----------------------------
(***************************************************************************)
(* The nickname database of src/nicknamedb.{h,cpp}: the records, the bond  *)
(* and owner indexes, the registration counts per height and the pricing   *)
(* state, with the batch that connects a block and the one that undoes it. *)
(*                                                                         *)
(* A database is a value; both batches are functions from a database to a  *)
(* database, because each is one atomic leveldb batch computed from reads  *)
(* that precede it.  registrationHeight and lastUpdateTxid are left out of *)
(* the records: the node only displays them.                               *)
(***************************************************************************)
EXTENDS Nicknames, FiniteSets

CONSTANTS
  Name,           \* normalised nicknames
  Owner,          \* owner public keys (their CKeyID is the key itself here)
  Payout,         \* payout addresses
  Outpoint,       \* transaction outputs that can be nickname bonds
  NoInfo,         \* no record is stored under a name
  NoName,         \* no index entry is stored under an outpoint
  NoBond,         \* the null outpoint of a record whose bond was claimed
  PricingWindow,  \* PRICING_WINDOW_BLOCKS
  PricingEpoch,   \* PRICING_EPOCH_BLOCKS
  MaxHeight,      \* bound: highest block of the model
  MaxBlockTxs     \* bound: transactions in one block

ASSUME SentinelAssumption == NoName \notin Name /\ NoBond \notin Outpoint
ASSUME WindowAssumption == PricingWindow \in Nat \ {0} /\ PricingEpoch \in Nat \ {0}
ASSUME BoundAssumption == MaxHeight \in Nat /\ MaxBlockTxs \in Nat \ {0}

Info ==
  [owner : Owner, payout : Payout, activeUntil : Nat, graceUntil : Nat,
   bondAmount : Nat, bond : Outpoint \cup {NoBond},
   released : BOOLEAN, bondClaimed : BOOLEAN]

ASSUME NoInfoAssumption == NoInfo \notin Info

HasBondOutpoint(info) == ~info.bondClaimed /\ info.bond # NoBond

(* The outpoint a stored value contributes to the bond index, if any.      *)
BondOf(info) ==
  IF info # NoInfo /\ HasBondOutpoint(info) THEN info.bond ELSE NoBond

-----------------------------------------------------------------------------
(* Pricing state.  The default is what a reader sees when none is stored;  *)
(* a stored one has lastHeight >= 1, so the default also stands for        *)
(* "absent".  A height without a stored count reads as 0.                  *)

DefaultPricing ==
  [lastHeight |-> -1, rolling |-> 0, multiplier |-> DefaultMultiplier]

RegistrationCount(db, h) == IF h < 0 THEN 0 ELSE db.regCount[h]

(* The registrations at heights from..to, counted one by one.              *)
Registrations(regCount, from, to) ==
  {p \in (from .. to) \X (1 .. MaxBlockTxs) : p[2] <= regCount[p[1]]}

RebuildRolling(db, tip) ==
  IF tip < 0 THEN 0
  ELSE LET from == IF tip - PricingWindow + 1 > 0
                   THEN tip - PricingWindow + 1 ELSE 0
       IN  Cardinality(Registrations(db.regCount, from, tip))

(* Mutant: the window is one block too long. *)
MutDroppedHeight(h) == h - PricingWindow - 1

(* The height that leaves the window when block h enters it.               *)
DroppedHeight(h) == h - PricingWindow

ComputeNextPricing(db, h, registered) ==
  LET prev    == db.pricing
      base    == IF prev.lastHeight + 1 # h THEN RebuildRolling(db, h - 1)
                                            ELSE prev.rolling
      sum     == base - RegistrationCount(db, DroppedHeight(h)) + registered
      rolling == IF sum < 0 THEN 0 ELSE sum
  IN  [lastHeight |-> h,
       rolling    |-> rolling,
       multiplier |->
         ClampMultiplier(IF h > 0 /\ h % PricingEpoch = 0
                         THEN ComputeNextMultiplier(prev.multiplier, rolling)
                         ELSE prev.multiplier)]

-----------------------------------------------------------------------------
Pricing ==
  [lastHeight : Int, rolling : Nat, multiplier : MinMultiplier .. MaxMultiplier]

DB ==
  [rec      : [Name -> Info \cup {NoInfo}],
   bondIdx  : [Outpoint -> Name \cup {NoName}],
   ownerIdx : SUBSET (Owner \X Name),
   regCount : [0 .. MaxHeight -> 0 .. MaxBlockTxs],
   pricing  : Pricing]

EmptyDB ==
  [rec      |-> [n \in Name |-> NoInfo],
   bondIdx  |-> [o \in Outpoint |-> NoName],
   ownerIdx |-> {},
   regCount |-> [h \in 0 .. MaxHeight |-> 0],
   pricing  |-> DefaultPricing]

(* The owner-index entries of the records that rec stores under names S.   *)
OwnerEntries(rec, S) == {<<rec[n].owner, n>> : n \in {m \in S : rec[m] # NoInfo}}

(* Mutant: the entry of the previous owner is not erased. *)
MutReowned(ownerIdx, old, new, S) == ownerIdx \cup OwnerEntries(new, S)

(* The owner index after the entries of the records old[n] are erased and  *)
(* those of new[n] written, for n in S.                                    *)
Reowned(ownerIdx, old, new, S) ==
  (ownerIdx \ OwnerEntries(old, S)) \cup OwnerEntries(new, S)

(* Mutant: the new entry is written before the old one is erased. *)
MutReindexed(bondIdx, old, new, S) ==
  [o \in Outpoint |->
     IF \E n \in S : BondOf(old[n]) = o THEN NoName
     ELSE IF \E n \in S : BondOf(new[n]) = o THEN CHOOSE n \in S : BondOf(new[n]) = o
     ELSE bondIdx[o]]

(* The bond index after the entries of the records old[n] are erased and   *)
(* those of new[n] written, for n in S.                                    *)
Reindexed(bondIdx, old, new, S) ==
  [o \in Outpoint |->
     IF \E n \in S : BondOf(new[n]) = o THEN CHOOSE n \in S : BondOf(new[n]) = o
     ELSE IF \E n \in S : BondOf(old[n]) = o THEN NoName
     ELSE bondIdx[o]]

(* upd is what a block changes: the names it dirtied, the records after it,*)
(* the bond-index entries to keep (bondUp) and to drop (bondErase), and    *)
(* the number of registrations.  The drops are batched before the keeps.   *)
WriteNicknameBatch(db, upd, h) ==
  [rec      |-> [n \in Name |-> IF n \in upd.dirty THEN upd.current[n] ELSE db.rec[n]],
   bondIdx  |-> [o \in Outpoint |->
                   IF upd.bondUp[o] # NoName THEN upd.bondUp[o]
                   ELSE IF o \in upd.bondErase THEN NoName
                   ELSE Reindexed(db.bondIdx, db.rec, upd.current, upd.dirty)[o]],
   ownerIdx |-> Reowned(db.ownerIdx, db.rec, upd.current, upd.dirty),
   regCount |-> [db.regCount EXCEPT ![h] = upd.registered],
   pricing  |-> ComputeNextPricing(db, h, upd.registered)]

(* Mutant: only dropped entries are remembered. *)
MutTouched(upd) == upd.bondErase

(* The index entries whose previous value the batch remembers.             *)
Touched(upd) == upd.bondErase \cup {o \in Outpoint : upd.bondUp[o] # NoName}

(* What the same batch stores under the block's hash.                      *)
UndoOf(db, upd) ==
  [dirty   |-> upd.dirty,
   rec     |-> [n \in upd.dirty |-> db.rec[n]],
   bondIdx |-> [o \in Touched(upd) |-> db.bondIdx[o]],
   pricing |-> db.pricing]

ApplyNicknameUndo(db, undo, h) ==
  [rec      |-> [n \in Name |-> IF n \in undo.dirty THEN undo.rec[n] ELSE db.rec[n]],
   bondIdx  |-> [o \in Outpoint |->
                   IF o \in DOMAIN undo.bondIdx THEN undo.bondIdx[o]
                   ELSE Reindexed(db.bondIdx, db.rec, undo.rec, undo.dirty)[o]],
   ownerIdx |-> Reowned(db.ownerIdx, db.rec, undo.rec, undo.dirty),
   regCount |-> [db.regCount EXCEPT ![h] = 0],
   pricing  |-> undo.pricing]

(* The owner index as EnsureOwnerIndexReady rebuilds it from the records.  *)
RebuildOwnerIndex(db) == OwnerEntries(db.rec, Name)

=============================================================================
