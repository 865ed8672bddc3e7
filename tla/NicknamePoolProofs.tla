------------------------- MODULE NicknamePoolProofs -------------------------
(***************************************************************************)
(* The memory pool beside the ledger, for any set of transactions, any     *)
(* pool size and any block length: the pool keeps one operation per name   *)
(* and no dangling input, and its copy of the nickname rules agrees with   *)
(* the one for blocks.                                                     *)
(***************************************************************************)
EXTENDS NicknamePool, NicknameLedgerProofs

-----------------------------------------------------------------------------
(* Removing transactions with all that depends on them.                    *)

(* CalculateDescendants gives back what it was given, takes the rest from  *)
(* the pool, and leaves nothing out.                                       *)
LEMMA DescendantsClosed ==
  ASSUME NEW T, NEW C
  PROVE  LET D == CalculateDescendants(T, C)
         IN  C \subseteq D /\ D \subseteq T \cup C /\ Children(T, D) \subseteq D
<1> DEFINE D == CalculateDescendants(T, C)
<1>1. C \subseteq D /\ D \subseteq T \cup C
  BY DEF CalculateDescendants
<1>2. ASSUME NEW e \in Children(T, D)
      PROVE  e \in D
  <2>1. ASSUME NEW E \in SUBSET (T \cup C), C \subseteq E, Children(T, E) \subseteq E
        PROVE  e \in E
    <3>1. D \subseteq E
      BY <2>1 DEF CalculateDescendants
    <3>2. CreatedBy(D) \subseteq CreatedBy(E)
      BY <3>1 DEF CreatedBy
    <3> QED
      BY <2>1, <3>2 DEF Children
  <2>2. e \in T
    BY DEF Children
  <2> QED
    BY <2>1, <2>2 DEF CalculateDescendants
<1> QED
  BY <1>1, <1>2

(* A descendant of several transactions is one of some of them.            *)
LEMMA DescendantOfOne ==
  ASSUME NEW T, NEW C \in SUBSET T, NEW e \in CalculateDescendants(T, C)
  PROVE  \E c \in C : e \in CalculateDescendants(T, {c})
<1> DEFINE One(c) == CalculateDescendants(T, {c})
           E == UNION {One(c) : c \in C}
<1>1. \A c \in C : c \in One(c) /\ One(c) \subseteq T /\ Children(T, One(c)) \subseteq One(c)
  BY DescendantsClosed
<1> HIDE DEF One
<1>2. E \in SUBSET (T \cup C) /\ C \subseteq E
  BY <1>1
<1>3. Children(T, E) \subseteq E
  <2> SUFFICES ASSUME NEW x \in Children(T, E)
               PROVE  x \in E
    OBVIOUS
  <2>1. x \in T /\ x.in.S \cap CreatedBy(E) # {}
    BY DEF Children
  <2>2. PICK o \in x.in.S : o \in CreatedBy(E)
    BY <2>1
  <2>3. PICK y \in E : o \in Creates(y)
    BY <2>2 DEF CreatedBy
  <2>4. PICK c \in C : y \in One(c)
    BY <2>3
  <2>5. x \in Children(T, One(c))
    BY <2>1, <2>2, <2>3, <2>4 DEF Children, CreatedBy
  <2> QED
    BY <1>1, <2>4, <2>5
<1>4. e \in E
  <2> HIDE DEF E
  <2> QED
    BY <1>2, <1>3 DEF CalculateDescendants
<1> QED
  BY <1>4 DEF One

(* removeRecursive takes C away, and a transaction it leaves still finds   *)
(* every output it had from the pool, and needs none of C.                 *)
LEMMA RemovedWithChildren ==
  ASSUME NEW T, NEW C
  PROVE  LET U == RemoveRecursive(T, C)
         IN  /\ U \subseteq T \ C
             /\ \A e \in U : \A o \in e.in.S :
                  o \in CreatedBy(T \cup C) => o \in CreatedBy(U)
<1> DEFINE D == CalculateDescendants(T, C)
           U == RemoveRecursive(T, C)
<1>1. C \subseteq D /\ D \subseteq T \cup C /\ Children(T, D) \subseteq D
  BY DescendantsClosed
<1>2. U = T \ D
  BY DEF RemoveRecursive
<1> HIDE DEF U, D
<1>3. ASSUME NEW e \in U, NEW o \in e.in.S, o \in CreatedBy(T \cup C)
      PROVE  o \in CreatedBy(U)
  <2>1. PICK y \in T \cup C : o \in Creates(y)
    BY <1>3 DEF CreatedBy
  <2>2. y \notin D
    BY <1>1, <1>2, <2>1 DEF Children, CreatedBy
  <2> QED
    BY <1>1, <1>2, <2>1, <2>2 DEF CreatedBy
<1> QED
  BY <1>1, <1>2, <1>3, Zenon DEF U

-----------------------------------------------------------------------------
(* A sound pool.                                                           *)

(* The pool T beside the coins u and the outpoints x of the chain, while   *)
(* the outputs A are to be given back to it.                               *)
SoundAt(T, A, u, x) ==
  /\ T \subseteq Tx
  /\ \A d, e \in T : SameName(d, e) => d = e
  /\ \A d \in T : \A o \in d.in.S : o \in CreatedBy(T) \cup A \/ u[o] # NoCoin
  /\ \A d, e \in T : d # e => d.in.S \cap e.in.S = {}
  /\ CreatedBy(T) \cap x = {}

Sound(T, A) == SoundAt(T, A, utxo, used)

(* Removing transactions with all that depends on them leaves a sound      *)
(* pool, which no longer waits for their outputs.                          *)
LEMMA RemovedSound ==
  ASSUME NEW T, NEW A, NEW C, Sound(T, A)
  PROVE  Sound(RemoveRecursive(T, C), A \ CreatedBy(C))
<1> DEFINE U == RemoveRecursive(T, C)
<1>1. /\ U \subseteq T \ C
      /\ \A e \in U : \A o \in e.in.S : o \in CreatedBy(T \cup C) => o \in CreatedBy(U)
  BY RemovedWithChildren, Zenon
<1> HIDE DEF U
<1>2. CreatedBy(U) \subseteq CreatedBy(T)
  BY <1>1 DEF CreatedBy
<1>3. CreatedBy(T) \cup CreatedBy(C) \subseteq CreatedBy(T \cup C)
  BY DEF CreatedBy
<1>4. \A d \in U : \A o \in d.in.S :
        o \in CreatedBy(U) \cup (A \ CreatedBy(C)) \/ utxo[o] # NoCoin
  BY <1>1, <1>3, Zenon DEF Sound, SoundAt
<1>5. Sound(U, A \ CreatedBy(C))
  BY <1>1, <1>2, <1>4 DEF Sound, SoundAt
<1> QED
  BY <1>5 DEF U

(* The outputs that CCoinsViewMemPool finds.                               *)
LEMMA ViewFinds ==
  ASSUME NEW T \in SUBSET Tx, NEW o \in Outpoint
  PROVE  View(T)[o] # NoCoin <=> o \in CreatedBy(T) \/ utxo[o] # NoCoin
<1>1. CASE o \in CreatedBy(T)
  <2>1. \E d \in T : o \in Creates(d)
    BY <1>1 DEF CreatedBy
  <2> DEFINE d == CHOOSE d \in T : o \in Creates(d)
  <2>2. d \in T /\ o \in Creates(d)
    BY <2>1
  <2>3. View(T)[o] = Paid(d)
    BY <1>1 DEF View
  <2> HIDE DEF d
  <2>4. Paid(d) # NoCoin
    BY <2>2, PaidIsCoin
  <2> QED
    BY <1>1, <2>3, <2>4
<1>2. CASE o \notin CreatedBy(T)
  BY <1>2 DEF View
<1> QED
  BY <1>1, <1>2

(* A transaction that is accepted leaves a sound pool, and its outputs     *)
(* need no longer be waited for.                                           *)
LEMMA AcceptedSound ==
  ASSUME NEW T, NEW A, NEW d \in Tx, NEW h, NEW U \in Accepted(T, d, h),
         Sound(T, A)
  PROVE  Sound(U, A \ Creates(d))
<1>1. PICK C \in Conflicts(T, d) : Acceptable(T, C, d, h) /\ U = Replaced(T, C, d)
  BY DEF Accepted
<1> DEFINE R == RemoveRecursive(T, C)
<1>2. /\ C \subseteq T \ {d}
      /\ \A e \in T \ {d} : e.in.S \cap d.in.S # {} => e \in C
  BY DEF Conflicts, BondConflicts
<1>3. U = R \cup {d} /\ d \notin T
  BY <1>1 DEF Replaced, Acceptable
<1>4. R \subseteq T \ C /\ Sound(R, A \ CreatedBy(C))
  BY RemovedWithChildren, RemovedSound, Zenon
<1>5. R = T \ CalculateDescendants(T, C)
  BY DEF RemoveRecursive
<1> HIDE DEF R
<1>6. CreatedBy(U) = CreatedBy(R) \cup Creates(d)
  BY <1>3 DEF CreatedBy
<1>7. \A e, f \in U : SameName(e, f) => e = f
  <2>1. \A e \in R : ~SameName(d, e) /\ ~SameName(e, d)
    BY <1>1, <1>4 DEF Acceptable, NoPending, SameName
  <2> QED
    BY <1>3, <1>4, <2>1 DEF Sound, SoundAt
<1>8. ASSUME NEW o \in d.in.S
      PROVE  o \in CreatedBy(U) \/ utxo[o] # NoCoin
  <2>1. o \in Outpoint /\ T \in SUBSET Tx
    BY TxFields DEF Sound, SoundAt
  <2>2. o \in CreatedBy(T) \/ utxo[o] # NoCoin
    BY <1>1, <2>1, ViewFinds DEF Acceptable
  <2>3. ASSUME o \in CreatedBy(T)
        PROVE  o \in CreatedBy(R)
    <3>1. PICK y \in T : o \in Creates(y)
      BY <2>3 DEF CreatedBy
    <3>2. y \notin CalculateDescendants(T, C)
      <4> SUFFICES ASSUME y \in CalculateDescendants(T, C)
                   PROVE  FALSE
        OBVIOUS
      <4>1. PICK c \in C : y \in CalculateDescendants(T, {c})
        BY <1>2, DescendantOfOne, Zenon
      <4> QED
        BY <1>1, <3>1, <4>1 DEF Acceptable, IsAncestor
    <3> QED
      BY <1>5, <3>1, <3>2 DEF CreatedBy
  <2> QED
    BY <1>6, <2>2, <2>3
<1>9. \A e \in U : \A o \in e.in.S : o \in CreatedBy(U) \cup (A \ Creates(d)) \/ utxo[o] # NoCoin
  BY <1>3, <1>4, <1>6, <1>8, Zenon DEF Sound, SoundAt
<1>10. \A e, f \in U : e # f => e.in.S \cap f.in.S = {}
  BY <1>2, <1>3, <1>4 DEF Sound, SoundAt
<1>11. CreatedBy(U) \cap used = {}
  BY <1>1, <1>4, <1>6 DEF Sound, SoundAt, Acceptable
<1> QED
  BY <1>3, <1>4, <1>7, <1>9, <1>10, <1>11, Zenon DEF Sound, SoundAt

-----------------------------------------------------------------------------
(* Connecting a block.                                                     *)

(* The pool U after the transactions M of a block, from the pool T: none   *)
(* of M is left, nor what spends an input of one.                          *)
Left(T, U, M) ==
  /\ U \subseteq T
  /\ \A e \in U, m \in M : e # m /\ e.in.S \cap m.in.S = {}
  /\ \A e \in U : \A o \in e.in.S : o \in CreatedBy(U \cup M) \/ utxo[o] # NoCoin

(* One transaction of the block.                                           *)
LEMMA MinedOne ==
  ASSUME NEW T, NEW U, NEW M, NEW d, NEW V \in Mined(U, d), Left(T, U, M)
  PROVE  Left(T, V, M \cup {d})
<1>1. PICK C \in Conflicts(U \ {d}, d) : V = RemoveRecursive(U \ {d}, C)
  BY DEF Mined
<1>2. /\ V \subseteq (U \ {d}) \ C
      /\ \A e \in V : \A o \in e.in.S :
           o \in CreatedBy((U \ {d}) \cup C) => o \in CreatedBy(V)
  BY <1>1, RemovedWithChildren, Zenon
<1>3. \A e \in U \ {d} : e.in.S \cap d.in.S # {} => e \in C
  BY DEF Conflicts, BondConflicts
<1>4. \A e \in V, m \in M \cup {d} : e # m /\ e.in.S \cap m.in.S = {}
  BY <1>2, <1>3 DEF Left
<1>5. ASSUME NEW e \in V, NEW o \in e.in.S, utxo[o] = NoCoin
      PROVE  o \in CreatedBy(V \cup (M \cup {d}))
  <2>1. o \in CreatedBy(U \cup M)
    BY <1>2, <1>5, Zenon DEF Left
  <2>2. PICK y \in U \cup M : o \in Creates(y)
    BY <2>1 DEF CreatedBy
  <2>3. CASE y \in M \cup {d}
    BY <2>2, <2>3 DEF CreatedBy
  <2>4. CASE y \in U \ {d}
    <3>1. o \in CreatedBy((U \ {d}) \cup C)
      BY <2>2, <2>4 DEF CreatedBy
    <3>2. o \in CreatedBy(V)
      BY <1>2, <3>1
    <3> QED
      BY <3>2 DEF CreatedBy
  <2> QED
    BY <2>2, <2>3, <2>4
<1> QED
  BY <1>2, <1>4, <1>5, Zenon DEF Left

(* The whole block.                                                        *)
LEMMA MinedAll ==
  ASSUME NEW T, Sound(T, {}), NEW block \in Seq(Tx), NEW U \in RemoveForBlock(T, block)
  PROVE  Left(T, U, Txs(block))
<1>1. PICK pools \in Removals(T, block) : U = pools[Len(block)]
  BY DEF RemoveForBlock
<1> DEFINE k == Len(block)
           Prefix(i) == {block[j] : j \in 1 .. i}
           Right == {i \in 0 .. k : Left(T, pools[i], Prefix(i))}
<1>2. k \in Nat
  OBVIOUS
<1>3. pools[0] = T /\ \A i \in 1 .. k : pools[i] \in Mined(pools[i - 1], block[i])
  BY DEF Removals
<1>4. 0 \in Right
  <2>1. Prefix(0) = {}
    OBVIOUS
  <2>2. \A e \in T : \A o \in e.in.S : o \in CreatedBy(T \cup {}) \/ utxo[o] # NoCoin
    BY DEF Sound, SoundAt
  <2>3. Left(T, pools[0], {})
    BY <1>3, <2>2 DEF Left
  <2> HIDE DEF Prefix
  <2>4. Left(T, pools[0], Prefix(0))
    BY <2>1, <2>3, Zenon
  <2> QED
    BY <1>2, <2>4
<1>5. ASSUME NEW i \in 1 .. k, i - 1 \in Right
      PROVE  i \in Right
  <2>1. Prefix(i) = Prefix(i - 1) \cup {block[i]}
    <3>1. \A j : j \in 1 .. i <=> j \in 1 .. i - 1 \/ j = i
      BY <1>2
    <3> QED
      BY <3>1
  <2> HIDE DEF Prefix
  <2>2. Left(T, pools[i - 1], Prefix(i - 1))
    BY <1>5
  <2>3. Left(T, pools[i], Prefix(i))
    BY <1>3, <2>1, <2>2, MinedOne
  <2> QED
    BY <1>2, <2>3
<1>6. k \in Right
  <2> HIDE DEF Right, k
  <2> QED
    BY <1>2, <1>4, <1>5, AfterAllSteps
<1> QED
  BY <1>1, <1>6 DEF Txs

(* What a transaction does to the coins of the block in progress: it       *)
(* spends its inputs and creates what it pays.                             *)
LEMMA ResultCoins ==
  ASSUME NEW d \in Tx, blk \in Block, BlockRules(d)
  PROVE  /\ Result(d).used = blk.used \cup Creates(d)
         /\ Result(d).view =
              [o \in Outpoint |-> IF o \in Creates(d) THEN Paid(d)
                                  ELSE IF o \in d.in.S THEN NoCoin ELSE blk.view[o]]
<1> DEFINE S == d.in.S
           n == d.n
           e == Enter(S, {n})
<1>1. \A N : Enter(S, N).view = SpendCoins(S) /\ Enter(S, N).used = blk.used
  BY EnterFields
<1>2. {"view", "used", "current", "dirty", "nickBond", "bondUp", "bondErase",
       "registered"} \subseteq DOMAIN e
  BY DEF Enter, Block
<1>3. e.view = SpendCoins(S) /\ e.used = blk.used /\ DOMAIN e.view = Outpoint
  BY <1>1 DEF SpendCoins
<1>4. CASE d.type = "NONE"
  BY <1>1, <1>4 DEF Result, Creates, SpendCoins
<1> HIDE DEF e
<1>5. CASE d.type \in {"UPDATE", "RELEASE", "CLAIM_BOND"}
  <2>1. Result(d).used = e.used /\ Result(d).view = e.view
    BY <1>2, <1>5 DEF Result, Updated, Released, CurrentClaimed, OldClaimed, e
  <2> QED
    BY <1>3, <1>5, <2>1 DEF Creates, SpendCoins
<1>6. CASE d.type \in {"REGISTER", "TRANSFER", "RENEW"}
  <2>1. Result(d).used = e.used \cup {d.o} /\ Result(d).view = [e.view EXCEPT ![d.o] = Paid(d)]
    BY <1>2, <1>6, Zenon DEF Result, Registered, Transferred, Renewed, BlockRules, FindsBondOutput, e
  <2> QED
    BY <1>3, <1>6, <2>1, TxFields DEF Creates, SpendCoins
<1> QED
  BY <1>4, <1>5, <1>6, TxFields

-----------------------------------------------------------------------------
(* The two copies of the nickname rules.                                   *)

(* On a working state that is still the committed one, the terms in which  *)
(* the two copies are written mean the same.                               *)
LEMMA SameTerms ==
  ASSUME IInv, blk # NoBlock, blk = Begun, NEW d \in Tx, Minable(d)
  PROVE  LET n == d.n
             P == d.in.P
             S == d.in.S
         IN  /\ blk.current = db.rec
             /\ CanEnter(S)
             /\ Creates(d) \subseteq Fresh
             /\ SpentBonds(S) = BondInputs(d)
             /\ \A o \in S : LookupBond(o) = db.bondIdx[o]
             /\ Signers(P, S) = P \cup {utxo[o].owner : o \in S}
             /\ Status(n) = PoolStatus(n, height + 1)
             /\ IsMutable(n) <=> PoolMutable(n, height + 1)
             /\ SpendsCurrentBond(n, S) <=> PoolSpendsBond(d)
<1> DEFINE n == d.n
           P == d.in.P
           S == d.in.S
<1>1. /\ blk.view = utxo /\ blk.used = used /\ blk.current = db.rec /\ blk.txs = 0
      /\ blk.nickBond = [m \in Name |-> NoBond]
  BY DEF Begun
<1>2. S \in SUBSET Outpoint
  BY TxFields
<1>3. CanEnter(S)
  BY <1>1, <1>2, BoundAssumption DEF CanEnter, Minable
<1>4. Creates(d) \subseteq Fresh
  BY <1>1, CreatesOutpoints DEF Fresh, Minable
<1>5. \A o \in S : LookupBond(o) = db.bondIdx[o]
  BY <1>1, <1>2, SentinelAssumption DEF LookupBond, Cached
<1>6. SpentBonds(S) = BondInputs(d)
  BY <1>5 DEF SpentBonds, BondInputs
<1>7. Signers(P, S) = P \cup {utxo[o].owner : o \in S}
  BY <1>1 DEF Signers
<1>8. Status(n) = PoolStatus(n, height + 1)
  BY <1>1 DEF Status, PoolStatus, BlockHeight
<1>9. IsMutable(n) <=> PoolMutable(n, height + 1)
  BY <1>1, <1>8 DEF IsMutable, PoolMutable
<1>10. SpendsCurrentBond(n, S) <=> PoolSpendsBond(d)
  <2>1. \A o : SpentBonds(S) = {o} => o \in S /\ o \in Outpoint
    BY <1>2 DEF SpentBonds
  <2> QED
    BY <1>1, <1>5, <1>6, <2>1 DEF SpendsCurrentBond, PoolSpendsBond
<1> QED
  BY <1>1, <1>3, <1>4, <1>5, <1>6, <1>7, <1>8, <1>9, <1>10

(* A bond that a transaction with coins on the chain spends is that of a   *)
(* name with a record.                                                     *)
LEMMA BondOfRecord ==
  ASSUME IInv, NEW d \in Tx, Minable(d), NEW o \in d.in.S, db.bondIdx[o] # NoName
  PROVE  db.rec[db.bondIdx[o]] # NoInfo
<1>1. BondTrackedIn(db, utxo)
  BY BaseFacts DEF IInv, Base
<1> QED
  BY <1>1, TxFields DEF BondTrackedIn, Minable

(* CheckNicknameOperationForMempool and BuildNicknameBlockUpdates decide   *)
(* alike about the first transaction of a block.                           *)
LEMMA FirstTxRules ==
  ASSUME IInv, blk # NoBlock, blk = Begun, NEW d \in Tx, Minable(d)
  PROVE  PoolRules(d, height + 1, utxo) <=> BlockRules(d)
<1> DEFINE n == d.n
           P == d.in.P
           S == d.in.S
           h == height + 1
<1>1. /\ blk.current = db.rec
      /\ CanEnter(S)
      /\ Creates(d) \subseteq Fresh
      /\ SpentBonds(S) = BondInputs(d)
      /\ \A o \in S : LookupBond(o) = db.bondIdx[o]
      /\ Signers(P, S) = P \cup {utxo[o].owner : o \in S}
      /\ Status(n) = PoolStatus(n, h)
      /\ IsMutable(n) <=> PoolMutable(n, h)
      /\ SpendsCurrentBond(n, S) <=> PoolSpendsBond(d)
  BY SameTerms
<1>2. \A owner : owner \in Signers(P, S) <=> PoolAuthorized(d, owner, utxo)
  BY <1>1 DEF PoolAuthorized
<1>3. OwnerAuthorized(n, P, S) <=> PoolAuthorized(d, db.rec[n].owner, utxo)
  BY <1>1, <1>2 DEF OwnerAuthorized
<1>4. CASE d.type = "NONE"
  BY <1>1, <1>4, Zenon DEF PoolRules, BlockRules, MayEnter
<1>5. CASE d.type = "REGISTER"
  <2>1. d.o \in Fresh
    BY <1>1, <1>5 DEF Creates
  <2>2. FindsBondOutput(d, d.ow, Price(n).bond) <=> d.amount = Price(n).bond
    BY DEF FindsBondOutput, Paid, BondOutput
  <2>3. MayRegister(n, d.ow, d.o, P, S) <=>
          /\ BondInputs(d) = {}
          /\ PoolAuthorized(d, d.ow, utxo)
          /\ PoolStatus(n, h) \in {"EXPIRED_AVAILABLE", "RELEASED", "BOND_CLAIMABLE"}
    BY <1>1, <1>2, <2>1 DEF MayRegister
  <2> QED
    BY <1>5, <2>2, <2>3, Zenon DEF PoolRules, BlockRules, PoolRegister
<1>6. CASE d.type \in {"UPDATE", "RELEASE"}
  BY <1>1, <1>3, <1>6, Zenon DEF PoolRules, BlockRules, MayAmend, PoolUpdateOrRelease
<1>7. CASE d.type = "TRANSFER"
  <2>1. d.o \in Fresh
    BY <1>1, <1>7, Zenon DEF Creates
  <2>2. FindsBondOutput(d, d.ow, blk.current[n].bondAmount)
          <=> d.amount = db.rec[n].bondAmount
    BY <1>1 DEF FindsBondOutput, Paid, BondOutput
  <2> QED
    BY <1>1, <1>3, <1>7, <2>1, <2>2, Zenon DEF PoolRules, BlockRules, MayTransfer, PoolTransfer
<1>8. CASE d.type = "RENEW"
  <2>1. d.o \in Fresh
    BY <1>1, <1>8, Zenon DEF Creates
  <2>2. FindsBondOutput(d, blk.current[n].owner, RenewedAmount(n))
          <=> d.amount = RenewedAmount(n) /\ d.ow = db.rec[n].owner
    BY <1>1 DEF FindsBondOutput, Paid, BondOutput
  <2>3. RenewedAmount(n) = db.rec[n].bondAmount
                             + GetRenewalBondIncrease(NameLen[n], db.pricing.multiplier)
    BY <1>1 DEF RenewedAmount
  <2> QED
    BY <1>1, <1>3, <1>8, <2>1, <2>2, <2>3, Zenon DEF PoolRules, BlockRules, MayRenew, PoolRenew
<1>9. CASE d.type = "CLAIM_BOND"
  <2>1. \A o : BondInputs(d) = {o} =>
          o \in S /\ o \in Outpoint /\ db.rec[db.bondIdx[o]] # NoInfo
    BY BondOfRecord, TxFields DEF BondInputs
  <2>2. MayClaimCurrent(n, P, S) <=>
          \E o \in Outpoint :
            /\ BondInputs(d) = {o} /\ db.bondIdx[o] = n /\ BondOf(db.rec[n]) = o
            /\ PoolStatus(n, h) = "BOND_CLAIMABLE"
            /\ PoolAuthorized(d, db.rec[n].owner, utxo)
    BY <1>1, <1>3, Zenon DEF MayClaimCurrent, IsClaimable, PoolSpendsBond
  <2>3. (\E o \in S : MayClaimOld(n, o, S)) <=>
          \E o \in Outpoint :
            BondInputs(d) = {o} /\ db.bondIdx[o] = n /\ BondOf(db.rec[n]) # o
    BY <1>1, <2>1 DEF MayClaimOld
  <2> QED
    BY <1>9, <2>2, <2>3, Zenon DEF PoolRules, BlockRules, PoolClaim
<1> QED
  BY <1>4, <1>5, <1>6, <1>7, <1>8, <1>9, TxFields

-----------------------------------------------------------------------------
(* The invariant.                                                          *)

(* The outputs of an empty sequence, of one with a transaction added, and  *)
(* of one that is taken apart.                                             *)
LEMMA TxsFacts ==
  /\ Txs(<<>>) = {} /\ CreatedBy({}) = {}
  /\ \A s \in Seq(Tx) : Txs(s) \in SUBSET Tx
  /\ \A s \in Seq(Tx), d \in Tx : Txs(Append(s, d)) = Txs(s) \cup {d}
  /\ \A s \in Seq(Tx) : s # <<>> => Txs(s) = {Head(s)} \cup Txs(Tail(s))
<1>1. Txs(<<>>) = {} /\ CreatedBy({}) = {}
  BY DEF Txs, CreatedBy
<1>2. ASSUME NEW s \in Seq(Tx)
      PROVE  Txs(s) \in SUBSET Tx
  BY DEF Txs
<1>3. ASSUME NEW s \in Seq(Tx), NEW d \in Tx
      PROVE  Txs(Append(s, d)) = Txs(s) \cup {d}
  <2>1. /\ Len(Append(s, d)) = Len(s) + 1 /\ Append(s, d)[Len(s) + 1] = d
        /\ \A i \in 1 .. Len(s) : Append(s, d)[i] = s[i]
    OBVIOUS
  <2>2. \A i : i \in 1 .. Len(s) + 1 <=> i \in 1 .. Len(s) \/ i = Len(s) + 1
    OBVIOUS
  <2> QED
    BY <2>1, <2>2 DEF Txs
<1>4. ASSUME NEW s \in Seq(Tx), s # <<>>
      PROVE  Txs(s) = {Head(s)} \cup Txs(Tail(s))
  <2>1. /\ Len(s) \in Nat /\ Len(s) > 0 /\ Len(Tail(s)) = Len(s) - 1 /\ Head(s) = s[1]
        /\ \A i \in 1 .. Len(s) - 1 : Tail(s)[i] = s[i + 1]
    BY <1>4
  <2>2. ASSUME NEW i \in 1 .. Len(s)
        PROVE  s[i] \in {Head(s)} \cup Txs(Tail(s))
    <3>1. CASE i = 1
      BY <2>1, <3>1
    <3>2. CASE i # 1
      <4>1. i - 1 \in 1 .. Len(s) - 1 /\ (i - 1) + 1 = i
        BY <2>1, <3>2
      <4> QED
        BY <2>1, <4>1, Zenon DEF Txs
    <3> QED
      BY <3>1, <3>2
  <2>3. ASSUME NEW i \in 1 .. Len(s) - 1
        PROVE  Tail(s)[i] \in Txs(s)
    <3>1. i + 1 \in 1 .. Len(s)
      BY <2>1
    <3> QED
      BY <2>1, <3>1 DEF Txs
  <2>4. Head(s) \in Txs(s)
    BY <2>1 DEF Txs
  <2> QED
    BY <2>1, <2>2, <2>3, <2>4, Zenon DEF Txs
<1> QED
  BY <1>1, <1>2, <1>3, <1>4

(* The outputs of two sets of transactions.                                *)
LEMMA CreatedByUnion ==
  ASSUME NEW T, NEW U
  PROVE  CreatedBy(T \cup U) = CreatedBy(T) \cup CreatedBy(U)
  BY DEF CreatedBy

Control ==
  /\ filling \in Seq(Tx) /\ returning \in Seq(Tx)
  /\ blocks \in [1 .. MaxHeight -> Seq(Tx)]
  /\ blk = NoBlock => filling = <<>>
  /\ blk # NoBlock => returning = <<>>

Awaited == CreatedBy(Txs(returning))

(* The parts of the invariant.                                             *)
LEMMA PoolInvParts ==
  /\ PoolInv <=> /\ Control
                 /\ blk # NoBlock => FillingGood
                 /\ Sound(pool, Awaited)
                 /\ BlocksGood
  /\ PoolInv' <=> /\ Control'
                  /\ blk' # NoBlock => FillingGood'
                  /\ SoundAt(pool', Awaited', utxo', used')
                  /\ BlocksGood'
<1>1. CreatedBy(pool \cup Txs(returning)) = CreatedBy(pool) \cup Awaited
  BY CreatedByUnion DEF Awaited
<1>2. CreatedBy(pool' \cup Txs(returning')) = CreatedBy(pool') \cup Awaited'
  BY CreatedByUnion DEF Awaited
<1>3. PoolInv <=> /\ Control
                  /\ blk # NoBlock => FillingGood
                  /\ Sound(pool, Awaited)
                  /\ BlocksGood
  BY <1>1, Zenon DEF PoolInv, Control, Sound, SoundAt, OnePendingPerName
<1>4. PoolInv' <=> /\ Control'
                   /\ blk' # NoBlock => FillingGood'
                   /\ SoundAt(pool', Awaited', utxo', used')
                   /\ BlocksGood'
  BY <1>2, Zenon DEF PoolInv, Control, SoundAt, OnePendingPerName
<1> QED
  BY <1>3, <1>4

(* Nothing but the pool and what is to be put back changes.                *)
LEMMA SameChain ==
  ASSUME PoolInv, UNCHANGED <<vars, filling, blocks>>
  PROVE  /\ FillingGood /\ pool' = pool => FillingGood'
         /\ BlocksGood'
<1>1. BlocksGood' = BlocksGood
  BY DEF BlocksGood, vars
<1>2. FillingGood /\ pool' = pool => FillingGood'
  BY Zenon DEF FillingGood, vars, Begun
<1> QED
  BY <1>1, <1>2, PoolInvParts

(* AcceptToMemoryPool keeps the invariant.                                 *)
LEMMA AcceptGood ==
  ASSUME PoolInv, NEW d \in Tx, AcceptToMemoryPool(d)
  PROVE  PoolInv'
<1>1. /\ blk = NoBlock /\ returning = <<>> /\ pool' \in Accepted(pool, d, height + 1)
      /\ UNCHANGED <<vars, filling, blocks, returning>>
  BY DEF AcceptToMemoryPool
<1>2. Awaited = {} /\ Awaited' = {}
  BY <1>1, TxsFacts, Zenon DEF Awaited
<1>3. Sound(pool, {})
  BY <1>2, PoolInvParts
<1>4. Sound(pool', {} \ Creates(d))
  BY <1>1, <1>3, AcceptedSound
<1>5. SoundAt(pool', {}, utxo', used')
  BY <1>1, <1>4 DEF Sound, vars
<1>6. Control' /\ BlocksGood' /\ blk' = NoBlock
  BY <1>1, SameChain, PoolInvParts DEF Control, vars
<1> QED
  BY <1>2, <1>5, <1>6, PoolInvParts

(* Expire and TrimToSize keep the invariant.                               *)
LEMMA EvictGood ==
  ASSUME PoolInv, NEW d, Evict(d)
  PROVE  PoolInv'
<1>1. /\ blk = NoBlock /\ returning = <<>> /\ pool' = RemoveRecursive(pool, {d})
      /\ UNCHANGED <<vars, filling, blocks, returning>>
  BY DEF Evict
<1>2. Awaited = {} /\ Awaited' = {}
  BY <1>1, TxsFacts, Zenon DEF Awaited
<1>3. Sound(pool', {} \ CreatedBy({d}))
  BY <1>1, <1>2, RemovedSound, PoolInvParts
<1>4. SoundAt(pool', {}, utxo', used')
  BY <1>1, <1>3 DEF Sound, vars
<1>5. Control' /\ BlocksGood' /\ blk' = NoBlock
  BY <1>1, SameChain, PoolInvParts DEF Control, vars
<1> QED
  BY <1>2, <1>4, <1>5, PoolInvParts

(* A block is begun: nothing is in it.                                     *)
LEMMA NewBlockGood ==
  ASSUME IInv, PoolInv, NewBlock
  PROVE  PoolInv'
<1>1. /\ returning = <<>> /\ blk = NoBlock /\ blk' = Begun
      /\ UNCHANGED <<db, utxo, used, height, chain, pool, filling, blocks, returning>>
  BY DEF NewBlock, BeginBlock
<1>2. filling = <<>>
  BY <1>1 DEF PoolInv
<1>3. Begun' = Begun
  BY <1>1 DEF Begun
<1>4. blk'.used = used /\ blk'.view = utxo
  BY <1>1 DEF Begun
<1>5. Txs(filling') = {} /\ CreatedBy({}) = {}
  BY <1>1, <1>2, TxsFacts
<1>6. FillingGood'
  BY <1>1, <1>3, <1>4, <1>5 DEF FillingGood
<1>7. Control' /\ BlocksGood' /\ Awaited' = Awaited
  BY <1>1, PoolInvParts DEF Control, BlocksGood, Awaited
<1> QED
  BY <1>1, <1>6, <1>7, PoolInvParts DEF Sound

(* A block is given up.                                                    *)
LEMMA NewAbandonGood ==
  ASSUME PoolInv, NewAbandon
  PROVE  PoolInv'
<1>1. /\ blk # NoBlock /\ blk' = NoBlock /\ filling' = <<>>
      /\ UNCHANGED <<db, utxo, used, height, chain, pool, blocks, returning>>
  BY DEF NewAbandon, AbandonBlock
<1>2. Control' /\ BlocksGood' /\ Awaited' = Awaited
  BY <1>1, PoolInvParts, Zenon DEF Control, BlocksGood, Awaited
<1> QED
  BY <1>1, <1>2, PoolInvParts DEF Sound

(* A transaction is added to the block: the coins it spends and creates    *)
(* are accounted for.                                                      *)
LEMMA NewTxGood ==
  ASSUME IInv, PoolInv, NEW d \in Tx, NewTx(d)
  PROVE  PoolInv'
<1>1. /\ \A e \in pool : Creates(d) \cap Creates(e) # {} => d = e
      /\ BlockRules(d) /\ blk' = Result(d) /\ filling' = Append(filling, d)
      /\ UNCHANGED <<db, utxo, used, height, chain, pool, blocks, returning>>
  BY DEF NewTx, Does, Processed
<1>2. blk # NoBlock
  BY <1>1, Zenon DEF BlockRules, MayEnter, MayRegister, MayAmend, MayTransfer, MayRenew,
              MayClaimCurrent, MayClaimOld, CanEnter
<1>3. blk \in Block /\ returning = <<>> /\ FillingGood /\ filling \in Seq(Tx)
  BY <1>2, Zenon DEF IInv, BlockGood, BlockGoodBut, PoolInv
<1>4. /\ blk'.used = blk.used \cup Creates(d)
      /\ blk'.view = [o \in Outpoint |-> IF o \in Creates(d) THEN Paid(d)
                                         ELSE IF o \in d.in.S THEN NoCoin ELSE blk.view[o]]
  BY <1>1, <1>3, ResultCoins
<1>5. filling' \in Seq(Tx) /\ filling' # <<>>
  BY <1>1, <1>3
<1>6. Txs(filling') = Txs(filling) \cup {d}
  BY <1>1, <1>3, TxsFacts
<1>7. CreatedBy(Txs(filling')) = CreatedBy(Txs(filling)) \cup Creates(d)
  BY <1>6 DEF CreatedBy
<1>8. blk'.used \ used' \subseteq CreatedBy(Txs(filling'))
  BY <1>1, <1>3, <1>4, <1>7 DEF FillingGood
<1>9. ASSUME NEW o \in Outpoint, utxo[o] # NoCoin \/ o \in CreatedBy(Txs(filling'))
      PROVE  blk'.view[o] # NoCoin \/ \E e \in Txs(filling') : o \in e.in.S
  <2>1. CASE o \in Creates(d)
    BY <1>4, <2>1, PaidIsCoin
  <2>2. CASE o \notin Creates(d)
    BY <1>3, <1>4, <1>6, <1>7, <1>9, <2>2 DEF FillingGood
  <2> QED
    BY <2>1, <2>2
<1>10. \A f \in Txs(filling'), e \in pool : Creates(f) \cap Creates(e) # {} => f = e
  BY <1>1, <1>3, <1>6 DEF FillingGood
<1>11. FillingGood'
  BY <1>1, <1>5, <1>8, <1>9, <1>10, Zenon DEF FillingGood
<1>12. blk' # NoBlock
  BY <1>2, NoBlockAssumption, DoesIsNext DEF NewTx
<1>13. Control' /\ BlocksGood' /\ Awaited' = Awaited
  <2>1. BlocksGood' /\ Awaited' = Awaited
    BY <1>1, PoolInvParts, Zenon DEF BlocksGood, Awaited
  <2>2. Control'
    BY <1>1, <1>3, <1>5, <1>12, PoolInvParts DEF Control
  <2> QED
    BY <2>1, <2>2
<1> QED
  BY <1>1, <1>11, <1>13, PoolInvParts DEF Sound

(* The block is committed: what removeForBlock leaves in the pool neither  *)
(* spends what the block has spent nor repeats what it has created, and    *)
(* finds on the chain what it had from transactions of the block.          *)
LEMMA NewCommitGood ==
  ASSUME IInv, PoolInv, NewCommit
  PROVE  PoolInv'
<1>1. /\ blk # NoBlock /\ blk' = NoBlock /\ utxo' = blk.view /\ used' = blk.used
      /\ chain' = [h \in 1 .. MaxHeight |->
                     IF h = BlockHeight THEN UndoData
                     ELSE IF h <= BlockHeight - MaxReorg THEN NoBlock
                     ELSE chain[h]]
      /\ pool' \in RemoveForBlock(pool, filling)
      /\ blocks' = [blocks EXCEPT ![BlockHeight] = filling]
      /\ filling' = <<>> /\ returning' = returning
  BY DEF NewCommit, CommitBlock
<1>2. /\ returning = <<>> /\ FillingGood /\ filling \in Seq(Tx) /\ Control /\ BlocksGood
  BY <1>1, PoolInvParts DEF Control
<1>3. Awaited = {} /\ Awaited' = {}
  BY <1>1, <1>2, TxsFacts, Zenon DEF Awaited
<1>4. Sound(pool, {})
  BY <1>3, PoolInvParts
<1>5. Left(pool, pool', Txs(filling))
  BY <1>1, <1>2, <1>4, MinedAll
<1>6. CreatedBy(pool') \subseteq CreatedBy(pool)
  BY <1>5 DEF Left, CreatedBy
<1>7. ASSUME NEW e \in pool', NEW o \in e.in.S
      PROVE  o \in CreatedBy(pool') \/ utxo'[o] # NoCoin
  <2>1. e \in Tx /\ o \in Outpoint
    BY <1>4, <1>5, TxFields DEF Sound, SoundAt, Left
  <2>2. \A m \in Txs(filling) : o \notin m.in.S
    BY <1>5 DEF Left
  <2>3. o \in CreatedBy(pool') \/ o \in CreatedBy(Txs(filling)) \/ utxo[o] # NoCoin
    BY <1>5, CreatedByUnion DEF Left
  <2> QED
    BY <1>1, <1>2, <2>1, <2>2, <2>3 DEF FillingGood
<1>8. CreatedBy(pool') \cap used' = {}
  <2> SUFFICES ASSUME NEW o \in CreatedBy(pool'), o \in used'
               PROVE  FALSE
    OBVIOUS
  <2>1. o \notin used
    BY <1>4, <1>6 DEF Sound, SoundAt
  <2>2. o \in CreatedBy(Txs(filling))
    BY <1>1, <1>2, <2>1 DEF FillingGood
  <2>3. PICK e \in pool' : o \in Creates(e)
    BY DEF CreatedBy
  <2>4. PICK m \in Txs(filling) : o \in Creates(m)
    BY <2>2 DEF CreatedBy
  <2>5. m = e
    BY <1>2, <1>5, <2>3, <2>4 DEF FillingGood, Left
  <2> QED
    BY <1>5, <2>5 DEF Left
<1>9. SoundAt(pool', {}, utxo', used')
  BY <1>4, <1>5, <1>7, <1>8 DEF Sound, SoundAt, Left
<1>10. BlockHeight \in 1 .. MaxHeight
  BY <1>1, BoundAssumption DEF IInv, BlockGood, BlockHeight
<1>11. Control'
  BY <1>1, <1>2, <1>10 DEF Control
<1>12. ASSUME NEW h \in 1 .. MaxHeight, chain'[h] # NoBlock
       PROVE  /\ chain'[h].created \subseteq CreatedBy(Txs(blocks'[h]))
              /\ \A o \in DOMAIN chain'[h].spent : chain'[h].spent[o] # NoCoin
  <2>1. CASE h = BlockHeight
    <3>1. chain'[h] = UndoData /\ blocks'[h] = filling
      BY <1>1, <1>2, <2>1 DEF Control
    <3>2. UndoData.created = blk.used \ used /\ UndoData.spent = Spent
      BY DEF UndoData
    <3>3. \A o \in DOMAIN Spent : Spent[o] # NoCoin
      BY DEF Spent
    <3> QED
      BY <1>2, <3>1, <3>2, <3>3 DEF FillingGood
  <2>2. CASE h # BlockHeight
    <3>1. chain'[h] = chain[h] /\ blocks'[h] = blocks[h]
      BY <1>1, <1>2, <1>12, <2>2 DEF Control
    <3> QED
      BY <1>2, <1>12, <3>1 DEF BlocksGood
  <2> QED
    BY <2>1, <2>2
<1>13. BlocksGood'
  BY <1>12 DEF BlocksGood
<1> QED
  BY <1>1, <1>3, <1>9, <1>11, <1>13, PoolInvParts

(* The tip is disconnected: what the pool had from its transactions is now *)
(* to be put back.                                                         *)
LEMMA PoolDisconnectGood ==
  ASSUME IInv, PoolInv, Disconnect
  PROVE  PoolInv'
<1>1. /\ returning = <<>> /\ blk = NoBlock /\ height > 0 /\ chain[height] # NoBlock
      /\ utxo' = UndoCoins(utxo, chain[height]) /\ used' = used \ chain[height].created
      /\ chain' = [chain EXCEPT ![height] = NoBlock] /\ blk' = blk
      /\ returning' = blocks[height] /\ blocks' = [blocks EXCEPT ![height] = <<>>]
      /\ pool' = pool /\ filling' = filling
  BY DEF Disconnect, DisconnectBlock
<1>2. height \in 1 .. MaxHeight /\ DOMAIN chain = 1 .. MaxHeight
  BY <1>1, BoundAssumption DEF IInv, ChainGood
<1>3. Control /\ BlocksGood
  BY PoolInvParts
<1>4. /\ chain[height].created \subseteq Awaited'
      /\ \A o \in DOMAIN chain[height].spent : chain[height].spent[o] # NoCoin
  BY <1>1, <1>2, <1>3 DEF BlocksGood, Awaited
<1>5. Sound(pool, {})
  BY <1>1, TxsFacts, PoolInvParts, Zenon DEF Awaited
<1>6. ASSUME NEW d \in pool, NEW o \in d.in.S
      PROVE  o \in CreatedBy(pool) \cup Awaited' \/ utxo'[o] # NoCoin
  <2>1. o \in Outpoint
    BY <1>5, TxFields DEF Sound, SoundAt
  <2>2. o \in CreatedBy(pool) \/ utxo[o] # NoCoin
    BY <1>5 DEF Sound, SoundAt
  <2> QED
    BY <1>1, <1>4, <2>1, <2>2 DEF UndoCoins
<1>7. SoundAt(pool', Awaited', utxo', used')
  BY <1>1, <1>5, <1>6, Zenon DEF Sound, SoundAt
<1>8. Control'
  BY <1>1, <1>2, <1>3 DEF Control
<1>9. BlocksGood'
  BY <1>1, <1>2, <1>3 DEF BlocksGood, Control
<1> QED
  BY <1>1, <1>7, <1>8, <1>9, PoolInvParts

(* A transaction is put back, or removed with all that depends on it: in   *)
(* both cases no other waits for its outputs any more.                     *)
LEMMA PutBackGood ==
  ASSUME PoolInv, PutBack
  PROVE  PoolInv'
<1> DEFINE d == Head(returning)
<1>1. /\ returning # <<>> /\ returning' = Tail(returning)
      /\ pool' \in Accepted(pool, d, height + 2) \cup {Refused(pool, d)}
      /\ UNCHANGED <<vars, filling, blocks>>
  BY DEF PutBack
<1>2. Control /\ Sound(pool, Awaited)
  BY PoolInvParts
<1>3. blk = NoBlock /\ blk' = NoBlock /\ returning \in Seq(Tx)
  BY <1>1, <1>2 DEF Control, vars
<1>4. d \in Tx /\ returning' \in Seq(Tx)
  BY <1>1, <1>3
<1>5. Txs(returning) = {d} \cup Txs(returning')
  BY <1>1, <1>3, TxsFacts
<1>6. Awaited = Creates(d) \cup Awaited'
  BY <1>5 DEF Awaited, CreatedBy
<1>7. Sound(pool', Awaited \ Creates(d))
  <2>1. CASE pool' \in Accepted(pool, d, height + 2)
    BY <1>2, <1>4, <2>1, AcceptedSound
  <2>2. CASE pool' = Refused(pool, d)
    <3>1. CreatedBy({d}) = Creates(d)
      BY DEF CreatedBy
    <3> QED
      BY <1>2, <2>2, <3>1, RemovedSound DEF Refused
  <2> QED
    BY <1>1, <2>1, <2>2
<1>8. SoundAt(pool', Awaited', utxo', used')
  BY <1>1, <1>6, <1>7, Zenon DEF Sound, SoundAt, vars
<1>9. Control' /\ BlocksGood'
  BY <1>1, <1>2, <1>3, <1>4, SameChain DEF Control, vars
<1> QED
  BY <1>3, <1>8, <1>9, PoolInvParts

-----------------------------------------------------------------------------
(* The theorems.                                                           *)

(* The initial state has the invariant of the ledger and of the pool.      *)
LEMMA PoolInitInv == PoolInit => IInv /\ PoolInv
<1> SUFFICES ASSUME PoolInit
             PROVE  IInv /\ PoolInv
  OBVIOUS
<1>1. IInv
  BY InitIInv DEF PoolInit
<1>2. /\ pool = {} /\ filling = <<>> /\ returning = <<>> /\ blk = NoBlock
      /\ blocks = [h \in 1 .. MaxHeight |-> <<>>]
      /\ chain = [h \in 1 .. MaxHeight |-> NoBlock]
  BY DEF PoolInit, Init
<1>3. Control /\ BlocksGood
  BY <1>2 DEF Control, BlocksGood
<1>4. Sound(pool, Awaited)
  BY <1>2, TxsFacts DEF Sound, SoundAt
<1> QED
  BY <1>1, <1>2, <1>3, <1>4, PoolInvParts

(* Every step of the ledger and the pool keeps both.                       *)
LEMMA PoolNextInv ==
  ASSUME IInv, PoolInv, [PoolNext]_poolVars
  PROVE  IInv' /\ PoolInv'
<1>1. ASSUME NEW d \in Tx, AcceptToMemoryPool(d)
      PROVE  IInv' /\ PoolInv'
  <2>1. UNCHANGED vars
    BY <1>1 DEF AcceptToMemoryPool
  <2> QED
    BY <1>1, <2>1, AcceptGood, NextIInv
<1>2. ASSUME NEW d \in pool, Evict(d)
      PROVE  IInv' /\ PoolInv'
  <2>1. UNCHANGED vars
    BY <1>2 DEF Evict
  <2> QED
    BY <1>2, <2>1, EvictGood, NextIInv
<1>3. ASSUME NewBlock
      PROVE  IInv' /\ PoolInv'
  <2>1. Next
    BY <1>3 DEF NewBlock, Next
  <2> QED
    BY <1>3, <2>1, NewBlockGood, NextIInv
<1>4. ASSUME NewAbandon
      PROVE  IInv' /\ PoolInv'
  <2>1. Next
    BY <1>4 DEF NewAbandon, Next
  <2> QED
    BY <1>4, <2>1, NewAbandonGood, NextIInv
<1>5. ASSUME NewCommit
      PROVE  IInv' /\ PoolInv'
  <2>1. Next
    BY <1>5 DEF NewCommit, Next
  <2> QED
    BY <1>5, <2>1, NewCommitGood, NextIInv
<1>6. ASSUME NEW d \in Tx, NewTx(d)
      PROVE  IInv' /\ PoolInv'
  <2>1. Next
    BY <1>6, DoesIsNext DEF NewTx
  <2> QED
    BY <1>6, <2>1, NewTxGood, NextIInv
<1>7. ASSUME Disconnect
      PROVE  IInv' /\ PoolInv'
  <2>1. Next
    BY <1>7 DEF Disconnect, Next
  <2> QED
    BY <1>7, <2>1, PoolDisconnectGood, NextIInv
<1>8. ASSUME PutBack
      PROVE  IInv' /\ PoolInv'
  <2>1. UNCHANGED vars
    BY <1>8 DEF PutBack
  <2> QED
    BY <1>8, <2>1, PutBackGood, NextIInv
<1>9. ASSUME UNCHANGED poolVars
      PROVE  IInv' /\ PoolInv'
  <2>1. UNCHANGED <<vars, filling, blocks, pool, returning>>
    BY <1>9 DEF poolVars
  <2>2. Control' /\ Awaited' = Awaited /\ UNCHANGED <<blk, utxo, used>>
    BY <2>1, PoolInvParts DEF Control, Awaited, vars
  <2>3. PoolInv'
    BY <2>1, <2>2, SameChain, PoolInvParts DEF Sound
  <2> QED
    BY <2>1, <2>3, NextIInv
<1> QED
  BY <1>1, <1>2, <1>3, <1>4, <1>5, <1>6, <1>7, <1>8, <1>9 DEF PoolNext

(* The pool's invariant holds throughout, together with the ledger's.      *)
THEOREM PoolInvariant == PoolSpec => [](IInv /\ PoolInv)
<1>1. IInv /\ PoolInv /\ [PoolNext]_poolVars => (IInv /\ PoolInv)'
  BY PoolNextInv
<1> QED
  BY PoolInitInv, <1>1, PTL DEF PoolSpec

(* The check against pending operations on entry is enough: the pool never *)
(* holds two operations on one name.                                       *)
THEOREM OneOperationPerName == PoolSpec => []OnePendingPerName
<1>1. PoolInv => OnePendingPerName
  BY DEF PoolInv
<1> QED
  BY PoolInvariant, <1>1, PTL

(* Between blocks, when nothing is to be put back, the pool can be mined   *)
(* as far as coins go.                                                     *)
THEOREM PoolIsConsistent == PoolSpec => []PoolConsistent
<1>1. ASSUME PoolInv
      PROVE  PoolConsistent
  <2> SUFFICES ASSUME Settled
               PROVE  /\ \A d \in pool : \A o \in d.in.S : View(pool)[o] # NoCoin
                      /\ \A d, e \in pool : d # e => d.in.S \cap e.in.S = {}
                      /\ CreatedBy(pool) \cap used = {}
    BY DEF PoolConsistent
  <2>1. Sound(pool, {})
    BY <1>1, TxsFacts, PoolInvParts, Zenon DEF Settled, Awaited
  <2>2. ASSUME NEW d \in pool, NEW o \in d.in.S
        PROVE  View(pool)[o] # NoCoin
    <3>1. pool \in SUBSET Tx /\ o \in Outpoint
      BY <2>1, TxFields DEF Sound, SoundAt
    <3> QED
      BY <2>1, <3>1, ViewFinds DEF Sound, SoundAt
  <2> QED
    BY <2>1, <2>2 DEF Sound, SoundAt
<1> QED
  BY PoolInvariant, <1>1, PTL

(* The rules that are written twice agree: on the database at the tip, the *)
(* pool accepts for the next block what that block accepts first.          *)
THEOREM PoolAndBlockRulesAgree == PoolSpec => []RulesAgree
<1>1. ASSUME IInv, PoolInv
      PROVE  RulesAgree
  <2> SUFFICES ASSUME blk # NoBlock, filling = <<>>, NEW d \in Tx, Minable(d)
               PROVE  PoolRules(d, height + 1, utxo) <=> BlockRules(d)
    BY DEF RulesAgree
  <2>1. blk = Begun
    BY <1>1 DEF PoolInv, FillingGood
  <2> QED
    BY <1>1, <2>1, FirstTxRules
<1> QED
  BY PoolInvariant, <1>1, PTL

=============================================================================
