----------------------------- MODULE CoinsCache -----------------------------
(***************************************************************************)
(* The stack of coins views of src/coins.cpp and src/txdb.cpp: the coins   *)
(* database, the cache pcoinsTip above it, and the cache a block is        *)
(* connected in above that.  A cache entry has two flags: DIRTY (it must   *)
(* be written to the base) and FRESH (the base has no unspent output of    *)
(* it, so if it is spent entirely it can be forgotten).  Both are          *)
(* optimisations; a wrong flag loses coins or brings them back.            *)
(*                                                                         *)
(* The coins of a transaction (CCoins) are the set of its unspent outputs; *)
(* the empty set is what IsPruned tests.  cs_main is held while a view is  *)
(* open, so pcoinsTip is flushed and uncached only when none is.           *)
(***************************************************************************)
EXTENDS FiniteSets

CONSTANTS
  Txid,     \* transaction ids
  Out,      \* output indexes
  Block,    \* block hashes
  NoEntry,  \* a cache has no entry for a transaction
  NoHash    \* the null hash of a cache that has not asked its base yet

Entry == [coins : SUBSET Out, dirty : BOOLEAN, fresh : BOOLEAN]

ASSUME NoEntryAssumption == NoEntry \notin Entry /\ NoHash \notin Block

VARIABLES
  db,        \* the coins database: unspent outputs by transaction
  dbBest,    \* its best block
  tip,       \* cacheCoins of pcoinsTip
  tipBest,   \* hashBlock of pcoinsTip
  view,      \* cacheCoins of the view a block is processed in
  viewBest,  \* hashBlock of that view
  open       \* such a view exists

vars == <<db, dbBest, tip, tipBest, view, viewBest, open>>

NoEntries == [t \in Txid |-> NoEntry]

Init ==
  /\ db = [t \in Txid |-> {}]
  /\ dbBest \in Block
  /\ tip = NoEntries /\ tipBest = NoHash
  /\ view = NoEntries /\ viewBest = NoHash
  /\ open = FALSE

-----------------------------------------------------------------------------
(* FetchCoins: the entry after a lookup, which copies what the base has.   *)
(* The database has an entry only for a transaction with unspent outputs;  *)
(* a cache may have one for a transaction that is spent entirely.          *)

(* Mutant: a copied entry is always considered fresh. *)
MutCopied(c) == [coins |-> c, dirty |-> FALSE, fresh |-> TRUE]

Copied(c) == [coins |-> c, dirty |-> FALSE, fresh |-> c = {}]

TipEntry(t) ==
  IF tip[t] # NoEntry THEN tip[t]
  ELSE IF db[t] # {} THEN Copied(db[t])
  ELSE NoEntry

ViewEntry(t) ==
  IF view[t] # NoEntry THEN view[t]
  ELSE IF TipEntry(t) # NoEntry THEN Copied(TipEntry(t).coins)
  ELSE NoEntry

CoinsOf(e) == IF e = NoEntry THEN {} ELSE e.coins

TipBest == IF tipBest = NoHash THEN dbBest ELSE tipBest
ViewBest == IF viewBest = NoHash THEN TipBest ELSE viewBest

(* A lookup at the tip, for the memory pool or for RPC.                    *)
FetchTip(t) ==
  /\ ~open
  /\ tip' = [tip EXCEPT ![t] = TipEntry(t)]
  /\ UNCHANGED <<db, dbBest, tipBest, view, viewBest, open>>

Uncache(t) ==
  /\ ~open
  /\ tip[t] # NoEntry /\ ~tip[t].dirty /\ ~tip[t].fresh
  /\ tip' = [tip EXCEPT ![t] = NoEntry]
  /\ UNCHANGED <<db, dbBest, tipBest, view, viewBest, open>>

-----------------------------------------------------------------------------
(* The view a block is processed in.                                       *)

OpenView ==
  /\ ~open /\ open' = TRUE
  /\ UNCHANGED <<db, dbBest, tip, tipBest, view, viewBest>>

(* The view is destroyed without a flush: the block was not valid.         *)
DropView ==
  /\ open /\ open' = FALSE
  /\ view' = NoEntries /\ viewBest' = NoHash
  /\ UNCHANGED <<db, dbBest, tip, tipBest>>

FetchView(t) ==
  /\ open
  /\ view' = [view EXCEPT ![t] = ViewEntry(t)]
  /\ tip' = IF view[t] = NoEntry THEN [tip EXCEPT ![t] = TipEntry(t)] ELSE tip
  /\ UNCHANGED <<db, dbBest, tipBest, viewBest, open>>

GetBestBlock ==
  /\ open
  /\ viewBest' = ViewBest
  /\ tipBest' = IF viewBest = NoHash THEN TipBest ELSE tipBest
  /\ UNCHANGED <<db, dbBest, tip, view, open>>

SetBestBlock(b) ==
  /\ open
  /\ viewBest' = b
  /\ UNCHANGED <<db, dbBest, tip, tipBest, view, open>>

(* The destructor of CCoinsModifier: the entry e with its coins set to c.  *)
Modified(e, c) ==
  IF e.fresh /\ c = {} THEN NoEntry ELSE [e EXCEPT !.coins = c]

(* ModifyCoins: spends an output, restores one, or clears a transaction.   *)
ModifyCoins(t, c) ==
  LET e == IF ViewEntry(t) = NoEntry
           THEN [coins |-> {}, dirty |-> TRUE, fresh |-> TRUE]
           ELSE [ViewEntry(t) EXCEPT !.dirty = TRUE]
  IN  /\ open
      /\ view' = [view EXCEPT ![t] = Modified(e, c)]
      /\ tip' = IF view[t] = NoEntry THEN [tip EXCEPT ![t] = TipEntry(t)] ELSE tip
      /\ UNCHANGED <<db, dbBest, tipBest, viewBest, open>>

(* Mutant: a dirty entry is marked fresh as well. *)
MutNewIsFresh(e, coinbase) == e.fresh \/ ~coinbase

(* A new transaction is marked fresh unless its spentness must be flushed. *)
NewIsFresh(e, coinbase) == e.fresh \/ (~coinbase /\ ~e.dirty)

(* ModifyNewCoins: the outputs c of a transaction of the block.  The base  *)
(* is not asked: BIP30 holds, so the transaction has no unspent output.    *)
ModifyNewCoins(t, c, coinbase) ==
  LET e == IF view[t] = NoEntry
           THEN [coins |-> {}, dirty |-> FALSE, fresh |-> FALSE]
           ELSE view[t]
  IN  /\ open
      /\ CoinsOf(ViewEntry(t)) = {}
      /\ view' = [view EXCEPT ![t] =
                    Modified([e EXCEPT !.dirty = TRUE,
                                       !.fresh = NewIsFresh(e, coinbase)], c)]
      /\ UNCHANGED <<db, dbBest, tip, tipBest, viewBest, open>>

-----------------------------------------------------------------------------
(* BatchWrite: the parent's entry p after the child's entry e is pushed.   *)

(* Mutant: the flag of the child is copied to an existing entry. *)
MutOverwritten(e, p) ==
  [coins |-> e.coins, dirty |-> TRUE, fresh |-> p.fresh \/ e.fresh]

Overwritten(e, p) == [coins |-> e.coins, dirty |-> TRUE, fresh |-> p.fresh]

Pushed(e, p) ==
  IF e = NoEntry THEN p
  ELSE IF ~e.dirty THEN p
  ELSE IF p = NoEntry
       THEN IF e.fresh /\ e.coins = {} THEN NoEntry
            ELSE [coins |-> e.coins, dirty |-> TRUE, fresh |-> e.fresh]
  ELSE IF p.fresh /\ e.coins = {} THEN NoEntry
  ELSE Overwritten(e, p)

(* "FRESH flag misapplied": BatchWrite throws std::logic_error.            *)
Misapplied(e, p) ==
  e # NoEntry /\ p # NoEntry /\ e.dirty /\ e.fresh /\ p.coins # {}

FlushView ==
  /\ open /\ open' = FALSE
  /\ viewBest # NoHash
  /\ \A t \in Txid : ~Misapplied(view[t], tip[t])
  /\ tip' = [t \in Txid |-> Pushed(view[t], tip[t])]
  /\ tipBest' = viewBest
  /\ view' = NoEntries /\ viewBest' = NoHash
  /\ UNCHANGED <<db, dbBest>>

(* FlushStateToDisk: one batch of the dirty entries and the best block.    *)
FlushTip ==
  /\ ~open
  /\ db' = [t \in Txid |->
              IF tip[t] = NoEntry THEN db[t]
              ELSE IF tip[t].dirty THEN tip[t].coins ELSE db[t]]
  /\ dbBest' = TipBest
  /\ tip' = NoEntries
  /\ UNCHANGED <<tipBest, view, viewBest, open>>

(* The process ends without a flush, and starts again from the database.   *)
Crash ==
  /\ tip' = NoEntries /\ tipBest' = NoHash
  /\ view' = NoEntries /\ viewBest' = NoHash
  /\ open' = FALSE
  /\ UNCHANGED <<db, dbBest>>

Next ==
  \/ OpenView \/ DropView \/ GetBestBlock \/ FlushView \/ FlushTip \/ Crash
  \/ \E t \in Txid : FetchTip(t) \/ Uncache(t) \/ FetchView(t)
  \/ \E t \in Txid, c \in SUBSET Out : ModifyCoins(t, c)
  \/ \E t \in Txid, c \in SUBSET Out, cb \in BOOLEAN : ModifyNewCoins(t, c, cb)
  \/ \E b \in Block : SetBestBlock(b)

Spec == Init /\ [][Next]_vars

-----------------------------------------------------------------------------
TypeOK ==
  /\ db \in [Txid -> SUBSET Out] /\ dbBest \in Block
  /\ tip \in [Txid -> Entry \cup {NoEntry}] /\ tipBest \in Block \cup {NoHash}
  /\ view \in [Txid -> Entry \cup {NoEntry}] /\ viewBest \in Block \cup {NoHash}
  /\ open \in BOOLEAN

(* An entry e above a base with unspent outputs c: FRESH means the base    *)
(* has none, and an entry that is not DIRTY agrees with it.                *)
FlagsRight(e, c) ==
  e # NoEntry => (e.fresh => c = {}) /\ (~e.dirty => e.coins = c)

(* The inductive invariant: the flags of both caches are right, and        *)
(* nothing is kept above a closed view.                                    *)
CacheInv ==
  /\ TypeOK
  /\ \A t \in Txid : /\ FlagsRight(tip[t], db[t])
                     /\ FlagsRight(view[t], CoinsOf(TipEntry(t)))
  /\ ~open => view = NoEntries /\ viewBest = NoHash

(* The logic error BatchWrite guards against never happens: no entry of a  *)
(* block's view is FRESH while the tip has unspent outputs of it.          *)
NeverMisapplied == \A t \in Txid : ~Misapplied(view[t], tip[t])

(* What each level of the stack stands for.                                *)
DiskContents == [coins |-> db, best |-> dbBest]
TipContents == [coins |-> [t \in Txid |-> CoinsOf(TipEntry(t))], best |-> TipBest]
ViewContents == [coins |-> [t \in Txid |-> CoinsOf(ViewEntry(t))], best |-> ViewBest]

Views == INSTANCE CoinsView WITH
  disk <- DiskContents, tip <- TipContents, scratch <- ViewContents, open <- open

(* The stack of caches behaves as three plain maps: lookups and uncaching  *)
(* change nothing anybody can see, a flushed view is the new tip, a flushed*)
(* tip is the new disk state with its own best block, a dropped view       *)
(* leaves no trace, and a crash goes back to the disk.                     *)
ImplementsViews == Views!Spec

=============================================================================
