------------------------ MODULE NicknameRestartProofs ------------------------
(***************************************************************************)
(* Without crashes, the databases are a function of the active chain, and  *)
(* a stored block is accepted again: for any names, owners and outpoints,  *)
(* any block length and any sequence of restarts, reindexes and            *)
(* reorganisations.                                                        *)
(*                                                                         *)
(* What a block does depends only on the state below it and on its         *)
(* transactions.  So the invariant says of every stored block that it ran  *)
(* from the state first recorded below it to the state first recorded      *)
(* above it, and of a block in progress that it is somewhere on that run.  *)
(***************************************************************************)
EXTENDS NicknameRestart, NicknameLedgerProofs

(* The block rules on a given state: database d, coins u, outpoints x,     *)
(* height h, working state b.                                              *)
On(d0, u0, x0, h0, b0) ==
  INSTANCE NicknameTxs
    WITH db <- d0, utxo <- u0, used <- x0, height <- h0, blk <- b0

RulesOn(s, h, b, d) == On(s.db, s.utxo, s.used, h, b)!BlockRules(d)
ResultOn(s, h, b, d) == On(s.db, s.utxo, s.used, h, b)!Result(d)
BegunOn(s, h) == On(s.db, s.utxo, s.used, h, NoBlock)!Begun

(* On the present state they are the rules of the ledger.                  *)
LEMMA RulesHere ==
  ASSUME NEW s, s = State, NEW d
  PROVE  RulesOn(s, height, blk, d) <=> BlockRules(d)
<1>1. On(db, utxo, used, height, blk)!BlockRules(d) <=> BlockRules(d)
  BY DEF On!BlockRules, On!MayEnter, On!CanEnter, On!SpentBonds,
         On!LookupBond, On!Cached, On!MayRegister, On!Fresh, On!Signers,
         On!Status, On!GetStatus, On!BlockHeight, On!Price, On!GetPricing,
         On!ScaleByMultiplier, On!GetBasePricing, On!ClampMultiplier,
         On!MinMultiplier, On!MaxMultiplier, On!FindsBondOutput, On!Paid,
         On!BondOutput, On!MayAmend, On!IsMutable, On!OwnerAuthorized,
         On!MayTransfer, On!SpendsCurrentBond, On!BondOf,
         On!HasBondOutpoint, On!MayRenew, On!RenewedAmount,
         On!GetRenewalBondIncrease, On!RenewalPercent, On!MayClaimCurrent,
         On!IsClaimable, On!MayClaimOld, BlockRules, MayEnter, CanEnter,
         SpentBonds, LookupBond, Cached, MayRegister, Fresh, Signers,
         Status, GetStatus, BlockHeight, Price, GetPricing,
         ScaleByMultiplier, GetBasePricing, ClampMultiplier, MinMultiplier,
         MaxMultiplier, FindsBondOutput, Paid, BondOutput, MayAmend,
         IsMutable, OwnerAuthorized, MayTransfer, SpendsCurrentBond, BondOf,
         HasBondOutpoint, MayRenew, RenewedAmount, GetRenewalBondIncrease,
         RenewalPercent, MayClaimCurrent, IsClaimable, MayClaimOld
<1> QED
  BY <1>1 DEF RulesOn, State

(* On the present state they leave the working state of the ledger.        *)
LEMMA ResultHere ==
  ASSUME NEW s, s = State, NEW d
  PROVE  ResultOn(s, height, blk, d) = Result(d)
<1>1. ASSUME NEW n
      PROVE  /\ On(db, utxo, used, height, blk)!Price(n) = Price(n)
             /\ On(db, utxo, used, height, blk)!RenewedAmount(n) = RenewedAmount(n)
  <2>1. ASSUME NEW len
        PROVE  On(db, utxo, used, height, blk)!GetBasePricing(len) = GetBasePricing(len)
    BY Zenon DEF On!GetBasePricing, GetBasePricing
  <2>2. ASSUME NEW m
        PROVE  On(db, utxo, used, height, blk)!ClampMultiplier(m) = ClampMultiplier(m)
    BY DEF On!ClampMultiplier, On!MinMultiplier, On!MaxMultiplier,
           ClampMultiplier, MinMultiplier, MaxMultiplier
  <2>3. ASSUME NEW len, NEW m
        PROVE  On(db, utxo, used, height, blk)!GetPricing(len, m) = GetPricing(len, m)
    BY <2>1, <2>2 DEF On!GetPricing, On!ScaleByMultiplier, GetPricing, ScaleByMultiplier
  <2> QED
    BY <2>3 DEF On!Price, On!RenewedAmount, On!GetRenewalBondIncrease, On!RenewalPercent,
           Price, RenewedAmount, GetRenewalBondIncrease, RenewalPercent
<1>2. \A i : On(db, utxo, used, height, blk)!BondOf(i) = BondOf(i)
  BY DEF On!BondOf, On!HasBondOutpoint, BondOf, HasBondOutpoint
<1>3. \A n : On(db, utxo, used, height, blk)!Status(n) = Status(n)
  BY DEF On!Status, On!GetStatus, On!BlockHeight, Status, GetStatus, BlockHeight
<1>4. \A o : /\ On(db, utxo, used, height, blk)!Cached(o) <=> Cached(o)
             /\ On(db, utxo, used, height, blk)!LookupBond(o) = LookupBond(o)
  BY Zenon DEF On!Cached, On!LookupBond, Cached, LookupBond
<1>5. \A S, N : On(db, utxo, used, height, blk)!Enter(S, N) = Enter(S, N)
  BY Zenon DEF On!Enter, On!SpendCoins, On!LoadedBy, On!LoadState, On!Cached, On!BondOf,
         On!HasBondOutpoint, Enter, SpendCoins, LoadedBy, LoadState, Cached, BondOf,
         HasBondOutpoint
<1>6. \A n : On(db, utxo, used, height, blk)!KeepOldBond(n) = KeepOldBond(n)
  BY <1>2, <1>3 DEF On!KeepOldBond, KeepOldBond
<1>7. \A n, S : On(db, utxo, used, height, blk)!SpendsCurrentBond(n, S)
                  <=> SpendsCurrentBond(n, S)
  BY Zenon DEF On!SpendsCurrentBond, On!SpentBonds, On!LookupBond, On!Cached, On!BondOf,
         On!HasBondOutpoint, SpendsCurrentBond, SpentBonds, LookupBond, Cached, BondOf,
         HasBondOutpoint
<1>8. ASSUME NEW n, NEW ow, NEW p, NEW o, NEW S
      PROVE  On(db, utxo, used, height, blk)!Registered(n, ow, p, o, S) = Registered(n, ow, p, o, S)
  BY <1>1, <1>5, <1>6, Zenon DEF On!Registered, On!Registration, On!BlockHeight, On!BondOutput,
         Registered, Registration, BlockHeight, BondOutput
<1>9. ASSUME NEW n, NEW new, NEW o, NEW S
      PROVE  On(db, utxo, used, height, blk)!Transferred(n, new, o, S) = Transferred(n, new, o, S)
  BY <1>5, Zenon DEF On!Transferred, On!BondOutput, Transferred, BondOutput
<1>10. ASSUME NEW n, NEW o, NEW S
       PROVE  On(db, utxo, used, height, blk)!Renewed(n, o, S) = Renewed(n, o, S)
  BY <1>1, <1>5, Zenon DEF On!Renewed, On!RenewedUntil, On!BlockHeight, On!BondOutput,
         Renewed, RenewedUntil, BlockHeight, BondOutput
<1>11. ASSUME NEW n, NEW p, NEW S
       PROVE
         /\ On(db, utxo, used, height, blk)!Updated(n, p, S) = Updated(n, p, S)
         /\ On(db, utxo, used, height, blk)!Released(n, S) = Released(n, S)
         /\ On(db, utxo, used, height, blk)!CurrentClaimed(n, S) = CurrentClaimed(n, S)
         /\ On(db, utxo, used, height, blk)!OldClaimed(n, S) = OldClaimed(n, S)
  BY <1>5, Zenon DEF On!Updated, On!Released, On!CurrentClaimed, On!OldClaimed,
         On!SpentBonds, On!LookupBond, On!Cached, Updated, Released, CurrentClaimed,
         OldClaimed, SpentBonds, LookupBond, Cached
<1>12. On(db, utxo, used, height, blk)!Result(d) = Result(d)
  BY <1>5, <1>7, <1>8, <1>9, <1>10, <1>11, Zenon DEF On!Result, Result
<1> QED
  BY <1>12 DEF ResultOn, State

(* On the present state they begin a block as the ledger does.             *)
LEMMA BegunHere ==
  ASSUME NEW s, s = State
  PROVE  BegunOn(s, height) = Begun
  BY DEF BegunOn, On!Begun, Begun, State

-----------------------------------------------------------------------------
(* The run of a block.                                                     *)

(* w holds the working states of the block with these transactions, on the *)
(* state s at height h.                                                    *)
Runs(s, h, block, w) ==
  /\ w[0] = BegunOn(s, h)
  /\ \A i \in 0 .. Len(block) : w[i].txs = i
  /\ \A i \in 1 .. Len(block) :
       /\ RulesOn(s, h, w[i - 1], block[i])
       /\ w[i] = ResultOn(s, h, w[i - 1], block[i])

(* The state that committing the working state b leaves.                   *)
CommittedOn(s, h, b) ==
  [db |-> WriteNicknameBatch(s.db, b, h + 1), utxo |-> b.view, used |-> b.used]

(* The block leads from the state s at height h to the state t.            *)
Leads(s, h, block, t) ==
  \E w : Runs(s, h, block, w) /\ t = CommittedOn(s, h, w[Len(block)])

(* A new block in progress has run so far.                                 *)
NewInProgress(s, h, block, b) == \E w : Runs(s, h, block, w) /\ b = w[Len(block)]

(* A stored block in progress is on a run that leads to the state t.       *)
StoredInProgress(s, h, block, b, t) ==
  \E w : /\ Runs(s, h, block, w)
         /\ b.txs \in 0 .. Len(block) /\ b = w[b.txs]
         /\ t = CommittedOn(s, h, w[Len(block)])

InitialState == [db |-> EmptyDB, utxo |-> [o \in Outpoint |-> NoCoin], used |-> {}]

RestartInv ==
  /\ files \in [1 .. MaxHeight -> Seq(Tx)] /\ filling \in Seq(Tx)
  /\ best \in 0 .. MaxHeight /\ height <= best
  /\ DOMAIN first = 0 .. MaxHeight /\ first[0] = InitialState
  /\ State = first[height]
  /\ blk = NoBlock \/ height < best => filling = <<>>
  /\ \A h \in 1 .. best : Leads(first[h - 1], h - 1, files[h], first[h])
  /\ \A h \in 1 .. MaxHeight : chain[h] # NoBlock => chain[h].before = first[h - 1]
  /\ blk # NoBlock /\ height = best => NewInProgress(State, height, filling, blk)
  /\ blk # NoBlock /\ height < best =>
       StoredInProgress(State, height, Stored, blk, first[height + 1])

(* A transaction counts itself.                                            *)
LEMMA ResultCounts ==
  ASSUME NEW d \in Tx, blk \in Block
  PROVE  Result(d).txs = blk.txs + 1
<1>1. \A S, N : Enter(S, N).txs = blk.txs + 1 /\ "txs" \in DOMAIN Enter(S, N)
  BY DEF Enter, Block
<1> QED
  BY <1>1, TxFields DEF Result, Registered, Updated, Transferred, Renewed, Released,
         CurrentClaimed, OldClaimed

(* A run of no transactions.                                               *)
LEMMA RunBegins ==
  ASSUME NEW s, s = State
  PROVE  /\ NewInProgress(s, height, <<>>, Begun)
         /\ \A block, t : block \in Seq(Tx) /\ Leads(s, height, block, t) =>
                            StoredInProgress(s, height, block, Begun, t)
<1>1. BegunOn(s, height) = Begun /\ Begun.txs = 0
  BY BegunHere DEF Begun
<1>2. NewInProgress(s, height, <<>>, Begun)
  <2> DEFINE w == [i \in {0} |-> Begun]
  <2>1. w[0] = Begun /\ w[0].txs = 0
    BY <1>1
  <2> HIDE DEF w
  <2>2. Runs(s, height, <<>>, w)
    BY <1>1, <2>1 DEF Runs
  <2> QED
    BY <2>1, <2>2 DEF NewInProgress
<1>3. ASSUME NEW block \in Seq(Tx), NEW t, Leads(s, height, block, t)
      PROVE  StoredInProgress(s, height, block, Begun, t)
  <2>1. PICK w : Runs(s, height, block, w) /\ t = CommittedOn(s, height, w[Len(block)])
    BY <1>3 DEF Leads
  <2>2. w[0] = Begun /\ Begun.txs \in 0 .. Len(block)
    BY <1>1, <2>1 DEF Runs
  <2> QED
    BY <1>1, <2>1, <2>2 DEF StoredInProgress
<1> QED
  BY <1>2, <1>3

(* A run is extended by a transaction that the rules accept.               *)
LEMMA RunGrows ==
  ASSUME NEW s, s = State, NEW block \in Seq(Tx), NEW d \in Tx, Does(d), blk \in Block,
         NewInProgress(s, height, block, blk)
  PROVE  NewInProgress(s, height, Append(block, d), blk')
<1> DEFINE k == Len(block)
           B == Append(block, d)
<1>1. PICK w : Runs(s, height, block, w) /\ blk = w[k]
  BY DEF NewInProgress
<1>2. /\ k \in Nat /\ Len(B) = k + 1 /\ B[k + 1] = d
      /\ \A i \in 1 .. k : B[i] = block[i]
  OBVIOUS
<1>3. RulesOn(s, height, blk, d) /\ blk' = ResultOn(s, height, blk, d)
  BY RulesHere, ResultHere DEF Does
<1>4. blk'.txs = k + 1
  <2>1. blk'.txs = blk.txs + 1
    BY ResultCounts DEF Does
  <2>2. blk.txs = k
    BY <1>1, <1>2 DEF Runs
  <2> QED
    BY <2>1, <2>2
<1> PICK c : c = blk'
  OBVIOUS
<1> DEFINE v == [i \in 0 .. k + 1 |-> IF i = k + 1 THEN c ELSE w[i]]
<1>5. v[k + 1] = blk' /\ \A i \in 0 .. k : v[i] = w[i]
  BY <1>2
<1> HIDE DEF v, k, B
<1>6. Runs(s, height, B, v)
  <2>1. v[0] = BegunOn(s, height)
    BY <1>1, <1>2, <1>5 DEF Runs
  <2>2. ASSUME NEW i \in 0 .. k + 1
        PROVE  v[i].txs = i
    <3>1. CASE i = k + 1
      BY <1>4, <1>5, <3>1
    <3>2. CASE i # k + 1
      <4>1. i \in 0 .. k
        BY <1>2, <3>2
      <4> QED
        BY <1>1, <1>5, <4>1 DEF Runs, k
    <3> QED
      BY <3>1, <3>2
  <2>3. ASSUME NEW i \in 1 .. k + 1
        PROVE  RulesOn(s, height, v[i - 1], B[i]) /\ v[i] = ResultOn(s, height, v[i - 1], B[i])
    <3>1. CASE i = k + 1
      <4>1. i - 1 = k /\ k \in 0 .. k
        BY <1>2, <3>1
      <4> QED
        BY <1>1, <1>2, <1>3, <1>5, <3>1, <4>1
    <3>2. CASE i # k + 1
      <4>1. i \in 1 .. k /\ i \in 0 .. k /\ i - 1 \in 0 .. k
        BY <1>2, <3>2
      <4> QED
        BY <1>1, <1>2, <1>5, <4>1 DEF Runs, k
    <3> QED
      BY <3>1, <3>2
  <2> QED
    BY <1>2, <2>1, <2>2, <2>3 DEF Runs
<1> QED
  BY <1>2, <1>5, <1>6 DEF NewInProgress, B

(* A stored block in progress accepts its next transaction, and goes on    *)
(* along the same run.                                                     *)
LEMMA RunGoesOn ==
  ASSUME NEW s, s = State, NEW block \in Seq(Tx), NEW t,
         StoredInProgress(s, height, block, blk, t), blk.txs < Len(block)
  PROVE  LET d == block[blk.txs + 1]
         IN  /\ d \in Tx
             /\ BlockRules(d)
             /\ Does(d) => StoredInProgress(s, height, block, blk', t)
<1> DEFINE j == blk.txs
           d == block[j + 1]
<1>1. PICK w : /\ Runs(s, height, block, w) /\ j \in 0 .. Len(block) /\ blk = w[j]
               /\ t = CommittedOn(s, height, w[Len(block)])
  BY DEF StoredInProgress
<1>2. j + 1 \in 1 .. Len(block) /\ j + 1 \in 0 .. Len(block) /\ (j + 1) - 1 = j
  BY <1>1
<1>3. d \in Tx
  BY <1>2
<1> HIDE DEF j
<1>4. RulesOn(s, height, blk, d) /\ w[j + 1] = ResultOn(s, height, blk, d) /\ w[j + 1].txs = j + 1
  BY <1>1, <1>2 DEF Runs
<1>5. BlockRules(d) /\ w[j + 1] = Result(d)
  BY <1>4, RulesHere, ResultHere
<1>6. ASSUME Does(d)
      PROVE  StoredInProgress(s, height, block, blk', t)
  <2>1. blk' = w[j + 1]
    BY <1>5, <1>6 DEF Does
  <2> QED
    BY <1>1, <1>2, <1>4, <2>1 DEF StoredInProgress
<1> QED
  BY <1>3, <1>5, <1>6 DEF j

(* Committing a block leads from the state below it to the state above.    *)
LEMMA RunEnds ==
  ASSUME NEW s, s = State, NEW block \in Seq(Tx), CommitBlock
  PROVE  /\ NewInProgress(s, height, block, blk) => Leads(s, height, block, State')
         /\ \A t : StoredInProgress(s, height, block, blk, t) /\ blk.txs = Len(block)
                     => State' = t
<1>1. State' = CommittedOn(s, height, blk)
  BY DEF CommitBlock, CommittedOn, State, BlockHeight
<1> QED
  BY <1>1 DEF NewInProgress, StoredInProgress, Leads

-----------------------------------------------------------------------------
(* The steps.                                                              *)

(* A transaction belongs to a block and leaves the committed state alone.  *)
LEMMA DoesOnBlock ==
  ASSUME NEW d, Does(d)
  PROVE  blk # NoBlock /\ UNCHANGED <<db, utxo, used, height, chain>>
  BY Zenon DEF Does, Processed, BlockRules, MayEnter, CanEnter, MayRegister,
               MayAmend, MayTransfer, MayRenew, MayClaimCurrent, MayClaimOld

(* The invariant holds at the start.                                       *)
LEMMA InitRestart ==
  ASSUME RestartInit
  PROVE  IInv /\ RestartInv
<1>1. IInv
  BY InitIInv DEF RestartInit
<1>2. /\ files \in [1 .. MaxHeight -> Seq(Tx)] /\ filling \in Seq(Tx)
      /\ best \in 0 .. MaxHeight /\ height = best /\ best = 0 /\ blk = NoBlock
  BY BoundAssumption DEF RestartInit, Init
<1>3. DOMAIN first = 0 .. MaxHeight /\ first[0] = State /\ State = InitialState
  BY BoundAssumption DEF RestartInit, Init, State, InitialState
<1>4. /\ \A h \in 1 .. MaxHeight : chain[h] = NoBlock
      /\ filling = <<>>
  BY DEF RestartInit, Init
<1> QED
  BY <1>1, <1>2, <1>3, <1>4 DEF RestartInv

(* A block begins, new or stored.                                          *)
LEMMA BeginRestart ==
  ASSUME IInv, RestartInv, NewBlock \/ ReplayBlock
  PROVE  RestartInv'
<1>1. /\ blk = NoBlock /\ blk' = Begun
      /\ UNCHANGED <<db, utxo, used, height, chain, files, best, filling, first>>
      /\ filling = <<>>
  BY DEF NewBlock, ReplayBlock, BeginBlock, RestartInv
<1>2. State' = State /\ Stored' = Stored
  BY <1>1 DEF State, Stored, BlockHeight
<1>3. NewInProgress(State, height, <<>>, Begun)
  BY RunBegins
<1>4. ASSUME height < best
      PROVE  StoredInProgress(State, height, Stored, Begun, first[height + 1])
  <2>1. height + 1 \in 1 .. best /\ height + 1 \in 1 .. MaxHeight /\ (height + 1) - 1 = height
    BY <1>4, BoundAssumption DEF IInv, RestartInv
  <2>2. Leads(first[height], height, files[height + 1], first[height + 1])
    BY <2>1 DEF RestartInv
  <2>3. Stored = files[height + 1] /\ Stored \in Seq(Tx) /\ first[height] = State
    BY <2>1 DEF Stored, BlockHeight, RestartInv
  <2> QED
    BY <2>2, <2>3, RunBegins
<1> QED
  BY <1>1, <1>2, <1>3, <1>4 DEF RestartInv

(* A new block takes a transaction.                                        *)
LEMMA NewTxRestart ==
  ASSUME IInv, RestartInv, NEW d \in Tx, NewTx(d)
  PROVE  RestartInv'
<1>1. Does(d) /\ blk # NoBlock /\ blk \in Block
  BY DoesOnBlock DEF NewTx, IInv, BlockGood, BlockGoodBut
<1>2. /\ UNCHANGED <<db, utxo, used, height, chain, files, best, first>>
      /\ height = best /\ filling' = Append(filling, d) /\ blk' # NoBlock
  BY <1>1, DoesOnBlock, DoesIsNext, NoBlockAssumption DEF NewTx
<1>3. State' = State /\ Stored' = Stored
  BY <1>2 DEF State, Stored, BlockHeight
<1>4. NewInProgress(State, height, Append(filling, d), blk')
  BY <1>1, <1>2, RunGrows DEF RestartInv
<1>5. Append(filling, d) \in Seq(Tx) /\ height \in Nat
  BY DEF RestartInv, IInv
<1> QED
  BY <1>2, <1>3, <1>4, <1>5 DEF RestartInv

(* A stored block takes its next transaction.                              *)
LEMMA ReplayTxRestart ==
  ASSUME IInv, RestartInv, ReplayTx
  PROVE  RestartInv'
<1> DEFINE d == Stored[blk.txs + 1]
<1>0. /\ height \in Nat /\ best \in 0 .. MaxHeight /\ MaxHeight \in Nat
      /\ height < best /\ blk # NoBlock
      /\ files \in [1 .. MaxHeight -> Seq(Tx)]
  BY BoundAssumption DEF ReplayTx, RestartInv, IInv
<1>1. Stored \in Seq(Tx) /\ height < best /\ blk # NoBlock /\ height # best
  BY <1>0 DEF Stored, BlockHeight
<1>2. /\ d \in Tx /\ Does(d)
      /\ StoredInProgress(State, height, Stored, blk', first[height + 1])
  BY <1>1, RunGoesOn DEF ReplayTx, RestartInv
<1>3. /\ UNCHANGED <<db, utxo, used, height, chain, files, best, first, filling>>
      /\ blk' # NoBlock
  BY <1>1, <1>2, DoesOnBlock, DoesIsNext, NoBlockAssumption DEF ReplayTx
<1>4. State' = State /\ Stored' = Stored
  BY <1>3 DEF State, Stored, BlockHeight
<1> QED
  BY <1>1, <1>2, <1>3, <1>4 DEF RestartInv

(* A new block is committed and stored.                                    *)
LEMMA NewCommitRestart ==
  ASSUME IInv, RestartInv, NewCommit
  PROVE  RestartInv'
<1> DEFINE H == height + 1
<1>1. /\ blk # NoBlock /\ height = best /\ CommitBlock
      /\ height \in Nat /\ H \in 1 .. MaxHeight /\ MaxHeight \in Nat /\ best \in 0 .. MaxHeight
      /\ files \in [1 .. MaxHeight -> Seq(Tx)] /\ filling \in Seq(Tx)
      /\ DOMAIN first = 0 .. MaxHeight
  BY BoundAssumption DEF NewCommit, CommitBlock, RestartInv, IInv, BlockGood
<1>2. /\ height' = H /\ best' = H /\ filling' = <<>> /\ blk' = NoBlock
      /\ files' = [files EXCEPT ![H] = filling]
      /\ first' = [first EXCEPT ![H] = State']
  BY DEF NewCommit, CommitBlock, BlockHeight
<1>3. Leads(State, height, filling, State')
  BY <1>1, RunEnds DEF RestartInv
<1>4. /\ first'[H] = State'
      /\ \A h \in 0 .. height : first'[h] = first[h]
      /\ DOMAIN first' = 0 .. MaxHeight
  BY <1>1, <1>2
<1>5. /\ files'[H] = filling
      /\ \A h \in 1 .. height : files'[h] = files[h]
      /\ files' \in [1 .. MaxHeight -> Seq(Tx)]
  BY <1>1, <1>2
<1>6. ASSUME NEW h \in 1 .. H
      PROVE  Leads(first[h - 1], h - 1, files[h], first[h])'
  <2>1. CASE h = H
    <3>1. h - 1 = height /\ height \in 0 .. height
      BY <1>1, <2>1
    <3>2. first'[h - 1] = State
      BY <1>4, <3>1 DEF RestartInv
    <3> QED
      BY <1>3, <1>4, <1>5, <2>1, <3>1, <3>2
  <2>2. CASE h # H
    <3>1. h \in 1 .. best /\ h \in 1 .. height /\ h \in 0 .. height /\ h - 1 \in 0 .. height
      BY <1>1, <2>2
    <3> QED
      BY <1>4, <1>5, <3>1 DEF RestartInv
  <2> QED
    BY <2>1, <2>2
<1>7. ASSUME NEW h \in 1 .. MaxHeight, chain'[h] # NoBlock
      PROVE  chain'[h].before = first'[h - 1]
  <2>1. CASE h = H
    <3>1. chain'[h].before = State
      BY <1>1, <2>1 DEF CommitBlock, BlockHeight, UndoData, State
    <3>2. h - 1 = height /\ height \in 0 .. height
      BY <1>1, <2>1
    <3> QED
      BY <1>4, <3>1, <3>2 DEF RestartInv
  <2>2. CASE h # H
    <3>1. chain'[h] = chain[h]
      BY <1>1, <1>7, <2>2 DEF CommitBlock, BlockHeight
    <3>2. h <= height
      BY <1>7, <3>1 DEF IInv, ChainGood
    <3>3. h - 1 \in 0 .. height
      BY <1>1, <3>2
    <3> QED
      BY <1>4, <1>7, <3>1, <3>3 DEF RestartInv
  <2> QED
    BY <2>1, <2>2
<1>8. first'[0] = InitialState
  BY <1>1, <1>4 DEF RestartInv
<1>9. best' \in 0 .. MaxHeight /\ height' <= best' /\ filling' \in Seq(Tx)
  BY <1>1, <1>2
<1> HIDE DEF H
<1> QED
  BY <1>2, <1>4, <1>5, <1>6, <1>7, <1>8, <1>9 DEF RestartInv

(* A stored block is committed again.                                      *)
LEMMA ReplayCommitRestart ==
  ASSUME IInv, RestartInv, ReplayCommit
  PROVE  RestartInv'
<1> DEFINE H == height + 1
<1>1. /\ blk # NoBlock /\ height < best /\ CommitBlock
      /\ height \in Nat /\ H \in 1 .. MaxHeight /\ MaxHeight \in Nat /\ best \in 0 .. MaxHeight
      /\ files \in [1 .. MaxHeight -> Seq(Tx)] /\ blk.txs = Len(Stored)
  BY BoundAssumption DEF ReplayCommit, RestartInv, IInv, BlockGood
<1>2. height' = H /\ blk' = NoBlock /\ UNCHANGED <<files, best, filling, first>>
  BY DEF ReplayCommit, CommitBlock, BlockHeight
<1>3. Stored \in Seq(Tx)
  BY <1>1 DEF Stored, BlockHeight
<1>4. State' = first[H]
  BY <1>1, <1>3, RunEnds DEF RestartInv
<1>5. ASSUME NEW h \in 1 .. MaxHeight, chain'[h] # NoBlock
      PROVE  chain'[h].before = first[h - 1]
  <2>1. CASE h = H
    <3>1. chain'[h].before = State
      BY <1>1, <2>1 DEF CommitBlock, BlockHeight, UndoData, State
    <3>2. h - 1 = height
      BY <1>1, <2>1
    <3> QED
      BY <3>1, <3>2 DEF RestartInv
  <2>2. CASE h # H
    <3>1. chain'[h] = chain[h]
      BY <1>1, <1>5, <2>2 DEF CommitBlock, BlockHeight
    <3> QED
      BY <1>5, <3>1 DEF RestartInv
  <2> QED
    BY <2>1, <2>2
<1>6. height' <= best' /\ filling' = <<>>
  BY <1>1, <1>2 DEF RestartInv
<1> QED
  BY <1>2, <1>4, <1>5, <1>6 DEF RestartInv

(* The tip is disconnected for good.                                       *)
LEMMA DisconnectRestart ==
  ASSUME IInv, RestartInv, Disconnect
  PROVE  RestartInv'
<1>1. /\ blk = NoBlock /\ blk' = NoBlock /\ height = best /\ height > 0
      /\ height \in 1 .. MaxHeight /\ MaxHeight \in Nat
      /\ files \in [1 .. MaxHeight -> Seq(Tx)] /\ filling = <<>> /\ filling' = filling
      /\ DOMAIN first = 0 .. MaxHeight /\ DisconnectBlock /\ chain[height] # NoBlock
  BY BoundAssumption DEF Disconnect, DisconnectBlock, RestartInv, IInv
<1>2. /\ height' = height - 1 /\ best' = height - 1
      /\ files' = [files EXCEPT ![height] = <<>>]
      /\ first' = [first EXCEPT ![height] = first[0]]
      /\ DOMAIN chain = 1 .. MaxHeight /\ chain' = [chain EXCEPT ![height] = NoBlock]
  BY DEF Disconnect, DisconnectBlock, IInv, ChainGood
<1>3. /\ \A h \in 0 .. height - 1 : first'[h] = first[h]
      /\ DOMAIN first' = 0 .. MaxHeight
  BY <1>1, <1>2
<1>4. /\ \A h \in 1 .. height - 1 : files'[h] = files[h]
      /\ files' \in [1 .. MaxHeight -> Seq(Tx)]
  BY <1>1, <1>2
<1>5. State' = first'[height']
  <2>1. Undoes(chain[height], After(height), height)
    BY <1>1 DEF IInv, ChainGood, UndoExactAt
  <2>2. After(height) = State
    BY <1>1 DEF After, State
  <2>3. State' = chain[height].before
    <3>1. /\ db' = chain[height].before.db
          /\ utxo' = chain[height].before.utxo
          /\ used' = chain[height].before.used
      BY <1>1, <2>1, <2>2 DEF Undoes, State, DisconnectBlock
    <3>2. chain[height].before \in Snapshot
      BY <1>1, Zenon DEF IInv, ChainGood, Good
    <3> QED
      BY <3>1, <3>2 DEF State, Snapshot
  <2>4. height - 1 \in 0 .. height - 1
    BY <1>1
  <2> QED
    BY <1>1, <1>2, <1>3, <2>3, <2>4 DEF RestartInv
<1>6. ASSUME NEW h \in 1 .. height - 1
      PROVE  Leads(first[h - 1], h - 1, files[h], first[h])'
  <2>1. h \in 1 .. best /\ h \in 0 .. height - 1 /\ h - 1 \in 0 .. height - 1
    BY <1>1
  <2> QED
    BY <1>3, <1>4, <2>1 DEF RestartInv
<1>7. ASSUME NEW h \in 1 .. MaxHeight, chain'[h] # NoBlock
      PROVE  chain'[h].before = first'[h - 1]
  <2>1. h # height /\ chain'[h] = chain[h]
    BY <1>1, <1>2, <1>7
  <2>2. h <= height
    BY <1>7, <2>1 DEF IInv, ChainGood
  <2>3. h - 1 \in 0 .. height - 1
    BY <1>1, <2>1, <2>2
  <2> QED
    BY <1>3, <1>7, <2>1, <2>3 DEF RestartInv
<1>8. first'[0] = InitialState
  <2>1. 0 \in 0 .. height - 1
    BY <1>1
  <2> QED
    BY <1>3, <2>1 DEF RestartInv
<1>9. best' \in 0 .. MaxHeight /\ height' <= best' /\ filling' \in Seq(Tx)
  BY <1>1, <1>2
<1> QED
  BY <1>1, <1>2, <1>3, <1>4, <1>5, <1>6, <1>7, <1>8, <1>9 DEF RestartInv

(* A new block is abandoned.                                               *)
LEMMA AbandonRestart ==
  ASSUME IInv, RestartInv, NewAbandon
  PROVE  RestartInv'
<1>1. /\ blk' = NoBlock /\ filling' = <<>>
      /\ UNCHANGED <<db, utxo, used, height, chain, files, best, first>>
  BY DEF NewAbandon, AbandonBlock
<1>2. State' = State /\ filling' \in Seq(Tx)
  BY <1>1 DEF State
<1> QED
  BY <1>1, <1>2 DEF RestartInv

(* A flush, or a step that changes nothing.                                *)
LEMMA FlushRestart ==
  ASSUME IInv, RestartInv, UNCHANGED <<vars, files, best, filling, first>>
  PROVE  RestartInv'
<1>1. State' = State /\ Stored' = Stored /\ blk' = blk /\ height' = height /\ chain' = chain
  BY DEF State, Stored, BlockHeight, vars
<1> QED
  BY <1>1 DEF RestartInv

(* A restart after a flush of the present state.                           *)
LEMMA OrderlyRestart ==
  ASSUME ~MayCrash, IInv, RestartInv, Restart
  PROVE  IInv' /\ RestartInv'
<1>1. /\ blk' = NoBlock /\ filling' = <<>> /\ chain' = Kept(height)
      /\ UNCHANGED <<db, utxo, used, height, files, best, first>>
  BY DEF Restart, InMemory
<1>2. /\ DOMAIN chain' = 1 .. MaxHeight
      /\ \A h \in 1 .. MaxHeight : chain'[h] = chain[h]
  BY <1>1 DEF IInv, ChainGood, Kept
<1>3. State' = State /\ filling' \in Seq(Tx)
  BY <1>1 DEF State
<1>4. RestartInv'
  BY <1>1, <1>2, <1>3 DEF RestartInv
<1>5. ChainGood'
  <2> SUFFICES ASSUME NEW h \in 1 .. MaxHeight, chain'[h] # NoBlock
               PROVE  /\ h <= height' /\ Good(chain'[h].before, h - 1)
                      /\ UndoExactAt(h)'
    BY <1>2 DEF ChainGood
  <2>1. /\ chain'[h] = chain[h] /\ h <= height
        /\ Good(chain[h].before, h - 1) /\ UndoExactAt(h)
    BY <1>2 DEF IInv, ChainGood
  <2>2. After(h)' = After(h)
    <3>1. CASE h = height
      BY <1>1, <3>1 DEF After
    <3>2. CASE h # height
      <4>1. h + 1 \in 1 .. MaxHeight
        BY <2>1, <3>2, BoundAssumption DEF IInv
      <4> QED
        BY <1>1, <1>2, <3>2, <4>1 DEF After
    <3> QED
      BY <3>1, <3>2
  <2>3. UndoExactAt(h)'
    BY <2>1, <2>2 DEF UndoExactAt, Undoes
  <2> QED
    BY <1>1, <2>1, <2>3
<1>6. IInv'
  <2>1. Good(Committed, height)'
    BY <1>1, Zenon DEF IInv, Good, Committed
  <2> QED
    BY <1>1, <1>5, <2>1 DEF IInv
<1> QED
  BY <1>4, <1>6

(* A reindex returns to the state the chain began with.                    *)
LEMMA ReindexRestart ==
  ASSUME RestartInv, Reindex, (Init => IInv)'
  PROVE  IInv' /\ RestartInv'
<1>1. /\ db' = EmptyDB /\ utxo' = [o \in Outpoint |-> NoCoin] /\ used' = {}
      /\ height' = 0 /\ blk' = NoBlock /\ tx' = NoTx /\ filling' = <<>>
      /\ UNCHANGED <<files, best, first>>
  BY DEF Reindex, Wiped
<1>2. chain' = [h \in 1 .. MaxHeight |-> NoBlock]
  BY BoundAssumption DEF Reindex, Kept
<1>3. Init'
  BY <1>1, <1>2 DEF Init
<1>4. State' = InitialState /\ filling' \in Seq(Tx)
  BY <1>1 DEF State, InitialState
<1>5. height' <= best'
  BY <1>1 DEF RestartInv
<1>6. \A h \in 1 .. MaxHeight : chain'[h] = NoBlock
  BY <1>2
<1>7. RestartInv'
  BY <1>1, <1>4, <1>5, <1>6, Zenon DEF RestartInv
<1> QED
  BY <1>3, <1>7

(* The height after one below another is a height.                         *)
LEMMA NextHeight ==
  ASSUME NEW N \in Nat, NEW h \in 0 .. N, NEW b \in 0 .. N, h < b
  PROVE  h + 1 \in 1 .. N
OBVIOUS

(* Every step of a node that is shut down in order preserves the           *)
(* invariant.                                                              *)
LEMMA RestartStep ==
  ASSUME ~MayCrash, IInv, RestartInv, [RestartNext]_restartVars, (Init => IInv)'
  PROVE  IInv' /\ RestartInv'
<1>1. CASE NewBlock \/ ReplayBlock
  <2>1. Next
    BY <1>1 DEF NewBlock, ReplayBlock, Next
  <2> QED
    BY <1>1, <2>1, NextIInv, BeginRestart
<1>2. ASSUME NEW d \in Tx, NewTx(d)
      PROVE  IInv' /\ RestartInv'
  <2>1. Next
    BY <1>2, DoesIsNext DEF NewTx
  <2> QED
    BY <1>2, <2>1, NextIInv, NewTxRestart
<1>3. CASE ReplayTx
  <2>0. /\ height \in 0 .. MaxHeight /\ height < best /\ best \in 0 .. MaxHeight
        /\ MaxHeight \in Nat /\ files \in [1 .. MaxHeight -> Seq(Tx)]
    BY <1>3, BoundAssumption, Zenon DEF RestartInv, IInv, ReplayTx
  <2>1. Stored \in Seq(Tx)
    BY <2>0, NextHeight, Zenon DEF Stored, BlockHeight
  <2>2. Stored[blk.txs + 1] \in Tx
    BY <1>3, <2>1, RunGoesOn, Zenon DEF RestartInv, ReplayTx
  <2>3. Next
    BY <1>3, <2>2, DoesIsNext DEF ReplayTx
  <2> QED
    BY <1>3, <2>3, NextIInv, ReplayTxRestart
<1>4. CASE NewCommit
  <2>1. Next
    BY <1>4 DEF NewCommit, Next
  <2> QED
    BY <1>4, <2>1, NextIInv, NewCommitRestart
<1>5. CASE ReplayCommit
  <2>1. Next
    BY <1>5 DEF ReplayCommit, Next
  <2> QED
    BY <1>5, <2>1, NextIInv, ReplayCommitRestart
<1>6. CASE NewAbandon
  <2>1. Next
    BY <1>6 DEF NewAbandon, Next
  <2> QED
    BY <1>6, <2>1, NextIInv, AbandonRestart
<1>7. CASE Disconnect
  <2>1. Next
    BY <1>7 DEF Disconnect, Next
  <2> QED
    BY <1>7, <2>1, NextIInv, DisconnectRestart
<1>8. CASE FlushStateToDisk \/ UNCHANGED restartVars
  <2>1. UNCHANGED vars /\ UNCHANGED <<vars, files, best, filling, first>>
    BY <1>8 DEF FlushStateToDisk, restartVars
  <2> QED
    BY <2>1, NextIInv, FlushRestart
<1>9. CASE Restart
  BY <1>9, OrderlyRestart
<1>10. CASE Reindex
  BY <1>10, ReindexRestart
<1> QED
  BY <1>1, <1>2, <1>3, <1>4, <1>5, <1>6, <1>7, <1>8, <1>9, <1>10 DEF RestartNext

-----------------------------------------------------------------------------
(* The invariant of a node whose process only ends in Shutdown, whatever   *)
(* blocks it connects, abandons, disconnects, replays or reindexes.        *)
THEOREM RestartInvariant ==
  ASSUME ~MayCrash
  PROVE  RestartSpec => [](IInv /\ RestartInv)
<1>1. RestartInit => IInv /\ RestartInv
  BY InitRestart
<1>2. Init => IInv
  BY InitIInv
<1>3. IInv /\ RestartInv /\ [RestartNext]_restartVars /\ (Init => IInv)'
        => (IInv /\ RestartInv)'
  BY RestartStep
<1> QED
  BY <1>1, <1>2, <1>3, PTL DEF RestartSpec

(* The nickname database and the coins are a function of the active chain: *)
(* abandoned, disconnected and replayed blocks, restarts after Shutdown    *)
(* and reindexes leave no trace in them, for any chain and any blocks.     *)
THEOREM DatabaseFollowsChain ==
  ASSUME ~MayCrash
  PROVE  RestartSpec => []StateOfChain
<1>1. RestartInv => StateOfChain
  BY DEF RestartInv, StateOfChain
<1> QED
  BY <1>1, RestartInvariant, PTL

(* A stored block was accepted once, so ConnectBlock accepts each of its   *)
(* transactions when a start or a reindex connects it again.               *)
THEOREM StoredBlocksConnectAgain ==
  ASSUME ~MayCrash
  PROVE  RestartSpec => []ReplayAccepted
<1>1. ASSUME IInv, RestartInv
      PROVE  ReplayAccepted
  <2> SUFFICES ASSUME height < best, blk # NoBlock, blk.txs < Len(Stored)
               PROVE  BlockRules(Stored[blk.txs + 1])
    BY DEF ReplayAccepted
  <2>1. height \in Nat /\ best \in 0 .. MaxHeight /\ MaxHeight \in Nat
    BY <1>1, BoundAssumption DEF RestartInv, IInv
  <2>2. Stored \in Seq(Tx)
    BY <1>1, <2>1 DEF RestartInv, Stored, BlockHeight
  <2> QED
    BY <1>1, <2>2, RunGoesOn DEF RestartInv
<1> QED
  BY <1>1, RestartInvariant, PTL

=============================================================================
