# kubu-core: a TLA+ development

kubu-core is a Bitcoin-derived node (through Dogecoin) whose own addition is a
**nickname system**: names of 4 to 16 characters, registered, transferred,
renewed, released and claimed by operations embedded in transactions, each name
backed by a locked *bond* output, priced by recent demand. The node keeps the
state of all names in a database beside the coins database and must keep it
exactly in step with the active chain, block by block and through
reorganisations. That is consensus code: two nodes that disagree about a name
disagree about the validity of the next block.

This development models the nickname system and the parts of the node it stands
on: the memory pool, restart, the coins caches, the script-check queue and chain
selection; and, beside the node, the alias service written in Go.

Paths below are relative to the repository; the node is in `src/`.

## Inventory

| Part | Code | Here |
|---|---|---|
| Name rules: prices, multiplier, status | `src/nicknames.{h,cpp}` | `Nicknames` |
| Name database: records, indexes, pricing, batches | `src/nicknamedb.{h,cpp}` | `NicknameDB` |
| Operations in a block, connect and disconnect | `src/validation.cpp` (`BuildNicknameBlockUpdates`, `ConnectBlock`, `DisconnectBlock`) | `NicknameLedger` |
| Flush, shutdown, crash, reindex | `src/init.cpp`, `src/validation.cpp` (`FlushStateToDisk`) | `NicknameRestart` |
| Operations in the memory pool | `src/validation.cpp` (`AcceptToMemoryPoolWorker`, `CheckNicknameOperationForMempool`), `src/txmempool.cpp` | `NicknamePool` |
| Coins caches | `src/coins.{h,cpp}`, `src/txdb.cpp` | `CoinsView`, `CoinsCache` |
| Script-check threads | `src/checkqueue.h` | `CheckQueue` |
| Chain selection | `src/validation.cpp` (`ActivateBestChain` ...) | `ChainSelection` |
| Alias service (Go) | `state/alias.go`, `kubu-tx/core/tx_processor.go` | `AliasState`, `AliasService` |
| The rest | | see *Not modelled* |

`PROJECT.json` lists the parts with the reason for each that is left out, the
hazards of the code at the line where each bites, and, for every definition that
models code, the lines it stands for.

## Modules

### Nicknames

- **`Nicknames`**: pure operators. Fee and bond by length of the name
  (`GetPricing`), the multiplier of the next epoch (`ComputeNextMultiplier`:
  average, step limit, clamp), the increase a renewal adds to the bond, and
  `GetStatus`, the life cycle as a function of the record and the height.
- **`NicknameDB`**: the database as a value, a record of
  `rec` (key `n`), `bondIdx` (`b`), `ownerIdx` (`o`), `regCount` (`r`) and
  `pricing` (`m`). `WriteNicknameBatch` and `ApplyNicknameUndo` are functions
  from database to database, as each is one atomic leveldb batch. `UndoOf` is
  what the first stores for the second (keys `u`, `q`, `p`).
- **`NicknameLedger`**: the state machine. `db`, the unspent bond outputs `utxo`,
  the tip's `height`, the undo data of the last blocks (`chain`) and the block in
  progress (`blk`, the local variables of `BuildNicknameBlockUpdates` plus the
  scratch coins view). `BeginBlock` starts a block; `PlainTx`, `Register`,
  `Update`, `Transfer`, `Renew`, `Release`, `ClaimCurrentBond` and `ClaimOldBond`
  are each one iteration of the transaction loop, its checks in an operator of
  their own (`MayRegister` ...) and the working state it leaves in another
  (`Registered` ...); `CommitBlock` is the batch and
  the new tip; `AbandonBlock` is a block that fails any check (nothing was
  written); `DisconnectBlock` takes the tip back. `used` and `tx` are there for
  checking: which outpoints the active chain created (an outpoint is a
  transaction id and an index, so a new output never reuses one), and the last
  transaction.
- **`NicknameTxs`**: transactions as records (`Tx`). `BlockRules(d)` is what a block
  checks of a transaction, fee and bond output included, `Result(d)` the working
  state after it, and `Does(d)` the step of the ledger. The next two modules need
  transactions as values: to store, to replay, to hold in a pool.
- **`NicknameRestart`** composes the ledger with the process around it. The
  nickname database is written by every `CommitBlock`; the coins and the tip reach
  the disk at `FlushStateToDisk`. `Restart` takes the coins of the last flush and
  the nickname database as it is; `Replay*` connect the stored blocks above the
  tip again; `Reindex` wipes both databases first. With `MayCrash = FALSE` a
  restart happens only after the flush that `Shutdown` makes.
- **`NicknamePool`** composes the ledger with the memory pool: `PoolRules` is the
  second copy of the nickname rules in the code
  (`CheckNicknameOperationForMempool`, which reads the database and not the other
  transactions of the pool); `AcceptToMemoryPool` with conflicts and replacement,
  `Evict`, `NewCommit` with `RemoveForBlock`, and `Disconnect` followed by one
  `PutBack` for each transaction of the block.

### The node below

- **`CoinsView`** is what the callers of a coins view rely on: plain maps from
  transaction ids to unspent outputs, on disk, at the tip, and as a scratch copy
  that is pushed or dropped as a whole.
- **`CoinsCache`** is the code: two `CCoinsViewCache` layers over the database with
  `DIRTY` and `FRESH` flags, `FetchCoins`, `ModifyCoins`, `ModifyNewCoins`,
  `BatchWrite`, `Flush`, `Uncache`, and a crash that loses both layers. `Views`
  instantiates `CoinsView` with what each layer shows.
- **`CheckQueue`**: `CCheckQueue::Loop` for every thread, with the mutex held from
  one wait to the next, two condition variables, spurious wake-ups, batches,
  and the interruption of the workers at shutdown.
- **`ChainSelection`**: the block index (data, links, failure flags, sequence
  numbers), `setBlockIndexCandidates`, `mapBlocksUnlinked`, `gFailedBlocks`, and
  threads that take blocks or serve `invalidateblock`, `reconsiderblock` and
  `preciousblock` and then run `ActivateBestChain`, one iteration per step:
  `cs_main` is released in between. `FindMostWorkChain` is given by what its loop
  arrives at (the best candidate without a failed ancestor, and what the failed
  candidates before it mark and drop); `TryBest` and `Iterations` are the loop itself,
  and `LoopFindsMostWork` says that the two agree in every reachable state.

### The alias service

- **`AliasState`**: the registry and the balances, with each transaction in one
  step (`AtomicSpec`).
- **`AliasService`**: threads that resolve under one lock and transfer under
  another. `AccountState` is not in the repository: a transfer moves the value if
  the sender has it, and fails otherwise. `ProcessTransaction` reads the block number
  of a registration before `RegisterAlias` takes its lock; the variable `height`, for
  checking only, has the block in which the record is really made.

The modules `MC*` are the instances for TLC, `*Inv` and `*Proofs` belong to the
proofs.

### What is abstracted

- A transaction is its operation, the owners `P` of its ordinary inputs and the
  bond outputs `S` it spends. Signatures are ideal: spending an output of an
  owner is that owner's authorisation, as `TxHasOwnerAuthorizationInput` has it.
- In the ledger the fee is not a variable: a transaction that pays less than
  `GetRequiredNicknameFee` is one more block that fails. `NicknameTxs` has it,
  because the pool checks it separately.
- A transaction of a block sees the coins of the transactions before it, so the
  coins loop of `ConnectBlock` and the loop of `BuildNicknameBlockUpdates`, which
  runs after it on the undo data of the first, are one step per transaction.
- Only outputs created as bonds are in `utxo`; no nickname rule looks at others.
- In the pool, ordinary inputs have owners and no identity, so two transactions
  with ordinary inputs of one owner may or may not conflict, and records that are
  equal are the same transaction. Fees and limits that decide whether a replacement
  is allowed are left open: it may be refused at any time. `removeForReorg` drops
  only transactions that are not final or not mature, which `Evict` covers.
- `registrationHeight` and `lastUpdateTxid` are written and shown, never read by
  a rule; they are left out of the records.
- Amounts are integers without a width where they cannot overflow: the largest
  product of the nickname code is 48 coins times 3000, far from 2^63; `MAX_MONEY`
  is the constant `MaxMoney`. In the alias service, where they can, they have the
  width `Width`.
- `dirty` records are never absent (no operation clears `existsNow`), so the
  `erases` list of the batch is always empty, as in the code.
- A script check is told apart from others only by whether it fails. The code says
  the order of checks does not matter, so a batch is any set of the right size.
- In `ChainSelection` a block is given with its place in the tree, its work and
  the check it fails, if any. Nodes of equal work and equal sequence number are
  ordered by `Pointer`, as the comparator does by address. The genesis block is
  never invalidated.

## Runs

| Run | Instance | Checks |
|---|---|---|
| `ledger` | 1 name, 2 owners, 3 outpoints, 4 blocks of up to 3 transactions, undo kept for 2 blocks, epochs of 2 blocks | `TypeOK`, `BondBacked`, `BondTracked`, `LiveNameHasBond`, `BondsAreMoney`, `OwnerIndexExact`, `RollingExact`, `UndoExact`, `PricesFollowDemand` |
| `two_names` | 2 names of different length, 2 owners, 3 blocks | `IInv` |
| `bond_spend` | 1 name, blocks of up to 4 transactions | `BondSpentByNicknameOp`, violated |
| `restart` | 1 name, orderly restarts and reindexing | `StateOfChain`, `ReplayAccepted` |
| `crash` | the same with crashes | `ReplayAccepted`, violated |
| `pool` | 1 name, 2 transactions in the pool | `OnePendingPerName`, `PoolConsistent`, `RulesAgree`, `PoolInv` |
| `template` | the same | `TestedBlockConnects`, violated |
| `check_queue` | 2 workers, 3 checks, batches of at most 2, any number of blocks | `QueueInv`, `VerdictRight`, `CleanHandover`, `WakeupOwed`, `WaitReturns` |
| `coins` | 2 transactions, 2 blocks | `CacheInv`, `NeverMisapplied`, `ImplementsViews` |
| `chain` | 2 competing branches, one with a block that fails when connected, and a block that fails before; 1 thread | `CandidatesRight`, `BestChainActive`, `ActiveChainNotFailed`, `LoopFindsMostWork`, `ActivationProgresses`, `IndexInv`, `SelectionInv` |
| `chain_race` | 1 branch, 2 threads | `BestChainActive`, violated |
| `alias` | 2 threads, 2 addresses, handles with up to 3 leading `@` | `PendingIsRight`, `TransactionsAreAtomic` |

### What holds

- `BondBacked`: a recorded bond is unspent, pays the recorded owner exactly the
  recorded amount, and is indexed under the name.
- `BondTracked`: every unspent bond, those of earlier registrations included, is
  indexed under a name that has a record, so that `CLAIM_BOND` can find it.
- `LiveNameHasBond`: a name that was not released keeps its bond through the last
  block of its grace period, that block included.
- `BondsAreMoney`: renewals add to a bond again and again, and it stays within
  `MAX_MONEY`.
- `OwnerIndexExact`: the owner index is what `EnsureOwnerIndexReady` would build.
- `RollingExact`: the rolling count is the registrations in the window.
- `UndoExact`: disconnecting any kept block gives back database and coins.
- `PricesFollowDemand`: the multiplier changes only at epochs, by at most a
  tenth, and towards demand.
- `StateOfChain`: whatever was abandoned, disconnected, restarted or reindexed
  before, both databases are what they were when the block at the tip was first
  connected. `ReplayAccepted`: a stored block is accepted again.
- `OnePendingPerName`: the pool has at most one operation per name.
  `PoolConsistent`: no transaction of the pool depends on an output that is gone,
  none is spent twice. `RulesAgree`: the two copies of the nickname rules accept
  the same transactions on the same database.
- `VerdictRight`: `Wait` returns true exactly if no check of the block fails,
  whoever ran it. `CleanHandover`: nothing of one block reaches the next.
  `WakeupOwed`: while the master waits the queue is empty and a worker is at work, so
  the notification is still to come. `WaitReturns`: no wake-up is lost.
- `CacheInv`: an entry that is not `DIRTY` is what the parent has, and a `FRESH` one
  has nothing in the parent. `NeverMisapplied`: the `logic_error` in `BatchWrite` is
  never thrown. `ImplementsViews`: the caches implement `CoinsView`.
- `CandidatesRight`: what `CheckBlockIndex` asserts of the candidate set, when no
  activation is in progress (after a failed reorganisation the tip in between need
  not be a candidate). `BestChainActive`: activation ends with the best chain that
  is there and not known to be invalid. `ActiveChainNotFailed`: the active chain
  has no block marked failed. `LoopFindsMostWork`: the search for the best chain, which
  sees its own marks, arrives where it should. `ActivationProgresses`: an iteration of
  `ActivateBestChain` that is not its last finds a block invalid, or moves to a tip
  with more work, or gives up a kept target that another thread found invalid.
- `IInv`, `PoolInv`, `IndexInv` and `SelectionInv` are the inductive invariants of the
  proofs.
- `TransactionsAreAtomic`: the interleaved processing of alias transactions is a
  behaviour of `AtomicSpec`, as the comment of `ProcessTransaction` says, a registration
  being dated in the block in which it takes effect. The refinement mapping (`Dated`)
  puts `height` in the place of the block number that a record holds, the one thing in
  which the two differ (`MCAliasHeight.cfg` below). It rests on `PendingIsRight`: a
  handle keeps its owner, so what was resolved is still right.

### Where code and its own words disagree

- `bond_spend`. "nickname bond outpoint may only be spent by transfer, renew, or
  claim transaction" (the rejection message) does not hold within a block: after
  `REGISTER`, `RELEASE`, `REGISTER` of the same name, `indexBondOutpoint` has dropped
  the first bond from the in-memory maps and the database has never heard of it, so
  an ordinary transaction of the same block may spend it. Bonds of committed blocks
  are not affected (`BondTracked`), and the spender is still the output's owner.
- `crash`. "Apply the block atomically to the chain state" (`ConnectTip`): the
  nickname database is written with each block, the coins at the next flush.
  After a crash the node connects the blocks in between again on a nickname
  database that has them already, and rejects them. (`VerifyDB`, at start, works
  on a scratch view and does not touch the nickname database, so it does not
  notice.) A reindex repairs the state, as `restart` shows.
- `template`. `TestBlockValidity` is to "check a block is completely valid from start
  to finish", but `ConnectBlock` with `fJustCheck` returns before the nickname rules.
  A pool operation that the moving tip made invalid is not removed from the pool, so
  a block template may hold it and pass the test.
- `chain_race`. `ActivateBestChain` keeps its target while `cs_main` is released. If
  another thread activates a longer chain in between, the first one takes the tip
  back to its own target and returns, until the next block arrives.

### Further configurations

These answer smaller questions and are not among the runs. Each but the first checks
one property.

| Configuration | Property | Result |
|---|---|---|
| `MCCheckQueueBatch.cfg` | those of `check_queue`, with 1 worker and 4 checks, so that a thread alone in the pool takes a batch of two | hold |
| `MCChainLive.cfg` | `ActivationEnds`: with two threads every call of `ActivateBestChain` returns | holds |
| `MCChainRaceInvalidate.cfg` | `ActiveChainNotFailed` | violated with two threads: a block invalidated while it is on the way to a kept target is connected again |
| `MCChainReset.cfg` | `FailedAreMarked`, the assertion in `AcceptBlockHeader` | violated: `ResetBlockFailureFlags` leaves the block in `gFailedBlocks` |
| `MCChainResetParent.cfg` | `BestChainActive` | violated: reconsidering a header without data clears its ancestors' flags and makes no candidate |
| `MCChainUnlinked.cfg` | `UnlinkedRight`, the assertion of `CheckBlockIndex` about `nChainTx` | violated: data that arrives above an invalidated block without data is never linked |
| `MCChainPrecious.cfg` | `CandidatesRight` | violated: `preciousblock` on two invalidated blocks above the tip numbers them -1 and -2; once both are reconsidered the second is the tip, and a call on it restarts the counter and numbers it -1, so that the other is at least as good and not a candidate |
| `MCAliasHandle.cfg` | `HandleFindsRecord` | violated: one leading `@` is stripped, so the handle `@@ab` is stored as `@ab`, which resolves to `ab` |
| `MCAliasHeight.cfg` | `BlockNumIsHeight`: the "Registration block height" of a record (`state/alias.go:12`) is the block in which it was made | violated: a block arrives between `CurrentBlock()` and the lock of `RegisterAlias` |
| `MCAliasOverflow.cfg` | `ReportedIsMoved` | violated: `tx.Amount + tx.Fee` wraps around |

In the run `chain` `reconsiderblock` is therefore used as documented, to undo an
`invalidateblock` (the bound `"undo"` of `Rpcs`).

### Bounds

`MaxHeight`, `MaxBlockTxs`, `MaxReorg` and `MaxPool` bound the nickname models, and so
does the number of outpoints (an outpoint is used once per chain). With
`ActiveBlocks = GraceBlocks = 1`, four blocks are enough for a name to be active, in
grace, expired, claimed and registered again, and for a window of two blocks to
slide; three transactions in a block are enough for register, release, register
again, and for a kept bond to be claimed in the block that kept it. With `COIN = 4` a
bond costs 12, rounded to 13 after an epoch with registrations, and a renewal adds 1.
How prices and multipliers round in general is not a matter of this run but of
`PriceBounds` and `MultiplierFollowsDemand`, proved for all values. `MaxMoney = 13`
makes the `MoneyRange` test of `RENEW` refuse; in `two_names` it is above every price,
as `PricesAreMoney` asks. The rebuild of the rolling count (`ComputeNextPricingState`
without a usable last state) is reached at the first block only, where all counts are
zero. Outpoints, owners and payout addresses are symmetric in the ledger.
Two transactions in the pool are enough for a conflict, a replacement and a parent
with its child. Two workers and three checks make a
worker that comes late, one that finishes last and one that finds nothing to do; the
share of a thread is then always one check (three divided by at least two), and
batches of two are in `MCCheckQueueBatch.cfg` and in the proofs. Two coins layers are what the
node has. In the chain, `b3` above the rejected `b2` is the descendant of a failed
block, and `MaxPrecious` bounds the calls of `preciousblock` until the tip has more work.
The constraint `Few` of that run leaves out states with more than two blocks without
data, two marked invalid or one made precious at a time: two missing blocks let `b3`
wait for two ancestors, two marks let a block be invalidated while another is
rejected. It bounds the run only; it is in no guard, and the theorems do not have it.
`MaxBlock`, `MaxAts` and `Supply` bound the alias service; its threads and addresses are
symmetric.

Deadlock is checked in every run.

### Fairness

The nickname, coins and alias properties are safety properties and assume none: a
block need not arrive. `WaitReturns` assumes that a thread that has the mutex to
gain, or a batch to run, eventually does (`WF` of `Step` for each thread), and that
the code between the constructor of `CCheckQueueControl` and its `Wait` ends; workers
may leave at shutdown, and wake-ups for no reason are never required.
`ActivationEnds` assumes that a thread in `ActivateBestChain` gets `cs_main` again
(`WF` of one iteration). It is claimed for blocks and `preciousblock` only: threads that
invalidate and reconsider for ever can keep another one busy.

## Proofs

The theorems hold for every value of the constants that satisfies the named
assumptions in the modules: any number of names, owners, outpoints, workers,
checks, transactions, threads, addresses and blocks, and any tree of blocks. Where a
theorem needs more, it states it (`~MayCrash`, `Alone`, `Orderly`, `PricesAreMoney`, a
bound on `Rpcs`; see below). No proof uses fairness.

- `NicknameDBProofs`: `MultiplierFollowsDemand` and `PriceBounds`; lemmas about each
  index, `WindowSlides` (the count over the window changes by what enters less what
  leaves), and **`UndoRestores`**: on a consistent database, the undo of a well-formed
  update is the identity.
- `NicknameLedgerProofs`: what loading names, spending inputs and giving a name a new
  bond do to the block in progress; one lemma per transaction of a block, from those;
  commit and disconnection; `LedgerInvariant` (`Spec => []IInv`), and from it
  `TypeCorrect`, `BondsAreBacked`, `BondsAreTracked`, `LiveNamesHaveBonds`,
  `BondsStayMoney` (if no price is above `MAX_MONEY`; the highest in the code is 144
  coins), `OwnerIndexIsExact`, `RollingIsExact`, `UndoIsExact` and `PricesAreGradual`.
- `NicknamePoolProofs`: `PoolInvariant` (`PoolSpec => [](IInv /\ PoolInv)`),
  `OneOperationPerName`, `PoolIsConsistent`, `PoolAndBlockRulesAgree`.
- `NicknameRestartProofs`: `RestartInvariant`, **`DatabaseFollowsChain`** and
  **`StoredBlocksConnectAgain`**, without crashes.
- `ChainSelectionProofs`: lemmas about paths in a tree and the comparator;
  `IndexInvariant`, `ActiveChainIsValid`, `SelectionInvariant`, `CandidatesAreRight`
  and **`BestChainBecomesActive`**; **`LoopIsRight`** about the loop of
  `FindMostWorkChain`; `ActivationsProgress` and `LoneActivationsProgress` about the
  one of `ActivateBestChain`; `HeaderAssertionHolds` and `WaitingBlocksAreRight`.
- `CheckQueueProofs`: `QueueInvariant`, `VerdictIsRight`, `HandoverIsClean`,
  `MasterIsOwedWakeup`.
- `CoinsCacheProofs`: `FlagsAreRight`, `FreshIsNeverMisapplied`, and the refinement
  **`CachesImplementViews`**.
- `AliasServiceProofs`: `PendingStaysRight` and the refinement **`ServiceIsAtomic`**.

**The ledger's inductive invariant.** The properties speak of the committed state,
but a commit takes over a working copy built in many steps, and a disconnection
returns to a state that is only remembered. So `IInv` has three parts: `Good`, the
committed state with facts about unused outpoints and heights above the tip;
`BlockGood`, how the block in progress relates to the committed state (the
in-memory maps hold exactly the bonds of the loaded names; a bond older than the
block is the one its name had before; kept entries belong to replaced bonds,
dropped ones to spent bonds; every unspent bond will be indexed at the commit);
and `ChainGood`, that every remembered state was good and its block is undone
exactly. A transaction first spends its inputs and then writes its name, so
`BlockGoodBut(b, X)` states the invariant between the two, without the name in `X`.

**The queue's.** The verdict is right because `fAllOk` sums up the checks reported so
far, and a thread that skips its checks does so only after another failure was
seen; the master returns only at `nTodo = 0`, and `nTodo` counts exactly the checks
that are queued or in a batch (`QueueInv`). A master that waits had found the queue
empty with `nTodo > 0`, so some worker has a batch; the batches can only be reported
one at a time, and the worker that brings `nTodo` to zero notifies the master in the
same step (`MasterIsOwedWakeup`).

**The caches'.** `CacheInv` is inductive by itself: it says of each entry what its flags
promise about the layer below. From it, what a layer shows does not change when an
entry is fetched, uncached or flushed, and every other step is a step of `CoinsView`.

**The alias service's.** A registered handle keeps its record (`RecordsStay`), so what a
thread holds stays right, and its second step is the atomic transaction: `DatedSteps`
and `DatedRegisters` say what each step does to the records as the mapping shows them,
with a new one dated in the block of the step.

**The pool's.** Between its steps the pool is not consistent: while the transactions
of a disconnected block are put back, one at a time, what the pool holds may spend
outputs of those still to come. `PoolInv` therefore says that an input is unspent on
the chain, or an output of the pool, or of a transaction in `returning`; that outputs
of the pool are new to the chain; and, so that this survives a commit and a
disconnection, that the block in progress (`FillingGood`) and every kept one
(`BlocksGood`) took and created no output that their transactions do not spend or
create. The theorem on `RulesAgree` needs `IInv` as well: for a claim the block rules
want a record of the name, the pool only an entry of the index, and an indexed bond
always belongs to a name with a record.

**The restart's.** `StateOfChain` compares the state with the one recorded when the
block at the tip was first connected. It is not inductive: a disconnected block may be
connected again later, transaction by transaction, from the file. `RestartInv` adds
that every stored block is a run (`Runs`): a sequence of working states from the state
recorded below it to the one above it, each the `Result` of the last, whose
transaction met `BlockRules` there; and that a block in progress is on such a run.
That is enough because a block's rules read only the committed state and the working
state, which the module makes explicit by instantiating `NicknameTxs` with them as
parameters. A run is any function with these values, so `RestartInv` is not for TLC to
evaluate; the run `restart` checks the two properties that follow from it. The theorems
assume `~MayCrash`; the run `crash` shows that they need it.

**The chain's.** `IndexInv` is inductive for any number of threads and any calls. For the
active chain there are two arguments. Without `invalidateblock` only blocks above one
that fails its checks are marked, and such a block is never connected, whatever the
threads do (`FailedAreBad`). With it, a thread must not keep a target across another's
call: `Alone` says that activations do not overlap, and then no target has a failed
ancestor (`TargetsNotFailed`). For the candidates the tip is no good reference, as
after a rejected block it may be worse than it was. `SelectionInv` names instead a
candidate `g`, the *floor*, which will connect and is at least as good as the tip:
the candidates are exactly the linked blocks that are not failed and at least as good
as `g`, up to failed ones not yet dropped. A step that ends above `g` makes the new tip
the floor, any other keeps `g`; as the search always finds a candidate at least as good
as `g`, the activation can only come to rest on the best of all, and then the tip is
the only candidate.

`SelectionInvariant` and the two theorems from it assume `Orderly`, and each part is
needed: one activation at a time (`chain_race`), `reconsiderblock` only to undo an
`invalidateblock` (`MCChainResetParent.cfg`), and at most one call of `preciousblock`
until the tip has more work, or none (`MCChainPrecious.cfg`). The shape of the tree, the
work, the order of arrival, the bad blocks and the invalidations are arbitrary.

**The loop of `FindMostWorkChain`.** `Iterations[n]` is the state of the search after
`n` iterations; one removes the best candidate left if its chain cannot be
connected, with what is between it and the highest failed block, and marks those
blocks. `LoopInv` says where such a search can be: what it marked or removed is among
what `FindMostWorkChain` says will be marked or removed, and for each such block all
is *done* that a search from it would do. An iteration keeps it although it sees the
marks of earlier ones: a mark is set only above a failed block, so what the iteration
finds failed was failed at the start or is done. Every
iteration that is not the last removes a candidate, so after as many iterations as
there are candidates the search is over, and `LoopInv` then determines its result:
`LoopIsRight`. The induction on `n` is written out as the choice of a least number
for which the claim fails, and that the recursive function has values at all is the
lemma `Iterate`; both avoid the induction theorems with an operator parameter. The
theorem has no hypothesis beyond the assumptions of the module.

**Progress of `ActivateBestChain`.** An iteration looks for the most work only if it has
no target. If it ends neither the loop nor on a better tip, a block on the way was
rejected and is marked invalid now, or the kept target had an ancestor found invalid
in between (`Progress`, from `IndexInv`). Without overlapping activations the last
case is excluded by `TargetsNotFailed`, and as there are finitely many blocks to
mark, and works between two marks, the loop ends: `LoneActivationsProgress` is the
variant of that argument, the conclusion itself is liveness.

**Two assertions of the code, with the calls they need.** `FailedAreMarked` and
`UnlinkedRight` are violated once blocks are reconsidered or invalidated
(`MCChainReset.cfg`, `MCChainUnlinked.cfg`). Without these calls they hold for any
number of threads. `HeaderAssertionHolds` excludes `reconsiderblock` and the undoing of
`invalidateblock`: nothing else takes a mark away. `WaitingBlocksAreRight` allows only
`preciousblock`. Its invariant `WaitingInv` says that a block with data that is not
linked waits, or has a marked ancestor without data, which the code will not take any
more; that a marked block that is not linked has such an ancestor too; and that only
blocks known to be invalid, or above one, are marked.

**Only model-checked.** Liveness (`WaitReturns`, `ActivationEnds`) is out of the prover's
reach; `MasterIsOwedWakeup` and `ActivationsProgress` are the safety part of the two.
The violated properties are counterexamples, not theorems.

## Not modelled

- The text of a name (trimming, lower case, allowed characters in
  `src/nicknames.cpp`) and the payload codec (`src/nicknameop.cpp`): character and
  byte formats. An operation is a record, a name a model value with a length.
- `src/rpc/nicknames.cpp` and the wallet: queries and construction of transactions.
- Disconnecting with corrupted coins or undo data (`DisconnectBlock` returning
  unclean after the nickname undo was applied): the ledger has no corruption.
- Crashes after a flushed block was disconnected again, and what the node does after
  it rejected a stored block.
- Pruning of block files, disk failures and shutdown in chain selection.
- `CScheduler`, version bits, difficulty, merged mining, subsidy, scripts, merkle
  trees: inherited timers, arithmetic and hashing. Address manager and the
  peer-to-peer protocol: inherited and independent of the nickname system.
- `KubuNameRegistry.sol` does not compile (it assigns a string to an address), and
  `server.go` and `rpc/api.go` forward or read.
- The graphical client. The `.ts` files under `src/qt/locale/` are Qt
  translations, text without logic.
