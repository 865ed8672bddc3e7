-------------------------- MODULE CoinsCacheProofs --------------------------
(***************************************************************************)
(* The flags of the coins caches are right in every state (CacheInv), so   *)
(* the stack of caches implements the plain maps of CoinsView, for any     *)
(* number of transactions, outputs and blocks.                             *)
(***************************************************************************)
EXTENDS CoinsCache, TLAPS

Slot == Entry \cup {NoEntry}

TipCoins(t) == CoinsOf(TipEntry(t))
ViewCoins(t) == CoinsOf(ViewEntry(t))

(* An entry copied from a base with unspent outputs c is right above it.   *)
LEMMA CopiedRight ==
  ASSUME NEW c \in SUBSET Out
  PROVE  Copied(c) \in Entry /\ Copied(c) # NoEntry /\ Copied(c).coins = c
         /\ FlagsRight(Copied(c), c)
<1>1. Copied(c) \in Entry
  BY DEF Copied, Entry
<1>2. Copied(c) # NoEntry
  BY <1>1, NoEntryAssumption
<1>3. Copied(c).coins = c /\ (Copied(c).fresh => c = {})
  BY Zenon DEF Copied
<1> QED
  BY <1>1, <1>2, <1>3 DEF FlagsRight

(* What a lookup finds at the tip and in a view.                           *)
LEMMA TipLookup ==
  ASSUME CacheInv, NEW t \in Txid
  PROVE  /\ TipEntry(t) \in Slot /\ FlagsRight(TipEntry(t), db[t])
         /\ TipCoins(t) = IF tip[t] = NoEntry THEN db[t] ELSE tip[t].coins
         /\ TipCoins(t) \in SUBSET Out
<1>1. db[t] \in SUBSET Out /\ tip[t] \in Slot /\ FlagsRight(tip[t], db[t])
  BY DEF CacheInv, TypeOK, Slot
<1>2. CASE tip[t] # NoEntry
  <2>1. TipEntry(t) = tip[t]
    BY <1>2 DEF TipEntry
  <2>2. tip[t].coins \in SUBSET Out
    BY <1>1, <1>2 DEF Slot, Entry
  <2> QED
    BY <1>1, <1>2, <2>1, <2>2 DEF TipCoins, CoinsOf
<1>3. CASE tip[t] = NoEntry /\ db[t] # {}
  <2>1. TipEntry(t) = Copied(db[t])
    BY <1>3 DEF TipEntry
  <2> QED
    BY <1>1, <1>3, <2>1, CopiedRight DEF TipCoins, CoinsOf, Slot
<1>4. CASE tip[t] = NoEntry /\ db[t] = {}
  <2>1. TipEntry(t) = NoEntry
    BY <1>4 DEF TipEntry
  <2> QED
    BY <1>1, <1>4, <2>1 DEF TipCoins, CoinsOf, Slot, FlagsRight
<1> QED
  BY <1>2, <1>3, <1>4

(* FetchCoins on an open view finds what the view shows.                   *)
LEMMA ViewLookup ==
  ASSUME CacheInv, NEW t \in Txid
  PROVE  /\ ViewEntry(t) \in Slot /\ FlagsRight(ViewEntry(t), TipCoins(t))
         /\ ViewCoins(t) = IF view[t] = NoEntry THEN TipCoins(t) ELSE view[t].coins
         /\ ViewCoins(t) \in SUBSET Out
<1>1. view[t] \in Slot /\ FlagsRight(view[t], TipCoins(t))
  BY DEF CacheInv, TypeOK, Slot, TipCoins
<1>t. TipEntry(t) \in Slot /\ TipCoins(t) \in SUBSET Out
  BY TipLookup
<1>2. CASE view[t] # NoEntry
  <2>1. ViewEntry(t) = view[t]
    BY <1>2 DEF ViewEntry
  <2>2. view[t].coins \in SUBSET Out
    BY <1>1, <1>2 DEF Slot, Entry
  <2> QED
    BY <1>1, <1>2, <2>1, <2>2 DEF ViewCoins, CoinsOf
<1>3. CASE view[t] = NoEntry /\ TipEntry(t) # NoEntry
  <2>1. ViewEntry(t) = Copied(TipEntry(t).coins) /\ TipCoins(t) = TipEntry(t).coins
    BY <1>3 DEF ViewEntry, TipCoins, CoinsOf
  <2> QED
    BY <1>t, <1>3, <2>1, CopiedRight DEF ViewCoins, CoinsOf, Slot
<1>4. CASE view[t] = NoEntry /\ TipEntry(t) = NoEntry
  <2>1. ViewEntry(t) = NoEntry /\ TipCoins(t) = {}
    BY <1>4 DEF ViewEntry, TipCoins, CoinsOf
  <2> QED
    BY <1>t, <1>4, <2>1 DEF ViewCoins, CoinsOf, Slot, FlagsRight
<1> QED
  BY <1>2, <1>3, <1>4

(* What lookups find in the next state.                                    *)
LEMMA LookupNext ==
  ASSUME NEW t \in Txid, db'[t] \in SUBSET Out, tip'[t] \in Slot
  PROVE  /\ TipCoins(t)' = IF tip'[t] = NoEntry THEN db'[t] ELSE tip'[t].coins
         /\ ViewCoins(t)' = IF view'[t] = NoEntry THEN TipCoins(t)' ELSE view'[t].coins
<1>1. TipCoins(t)' = IF tip'[t] = NoEntry THEN db'[t] ELSE tip'[t].coins
  BY CopiedRight DEF TipCoins, TipEntry, CoinsOf
<1>2. TipCoins(t)' \in SUBSET Out
  BY <1>1 DEF Slot, Entry
<1>3. TipEntry(t)' # NoEntry => TipCoins(t)' = TipEntry(t)'.coins
  BY DEF TipCoins, CoinsOf
<1>4. TipEntry(t)' = NoEntry => TipCoins(t)' = {}
  BY DEF TipCoins, CoinsOf
<1>5. Copied(TipCoins(t)') # NoEntry /\ Copied(TipCoins(t)').coins = TipCoins(t)'
  BY <1>2, CopiedRight
<1>6. CASE view'[t] # NoEntry
  BY <1>1, <1>6 DEF ViewCoins, ViewEntry, CoinsOf
<1>7. CASE view'[t] = NoEntry /\ TipEntry(t)' # NoEntry
  <2>1. ViewEntry(t)' = Copied(TipCoins(t)')
    BY <1>7, <1>3 DEF ViewEntry
  <2> QED
    BY <1>1, <1>5, <1>7, <2>1 DEF ViewCoins, CoinsOf
<1>8. CASE view'[t] = NoEntry /\ TipEntry(t)' = NoEntry
  <2>1. ViewEntry(t)' = NoEntry
    BY <1>8 DEF ViewEntry
  <2> QED
    BY <1>1, <1>4, <1>8, <2>1 DEF ViewCoins, CoinsOf
<1> QED
  BY <1>6, <1>7, <1>8

(* A lookup may leave a copy in the tip's cache; nobody sees it.           *)
LEMMA FetchIsInvisible ==
  ASSUME CacheInv, NEW t \in Txid, db' = db,
         tip' = tip \/ tip' = [tip EXCEPT ![t] = TipEntry(t)]
  PROVE  /\ db' \in [Txid -> SUBSET Out] /\ tip' \in [Txid -> Slot]
         /\ \A s \in Txid : FlagsRight(tip'[s], db'[s]) /\ TipCoins(s)' = TipCoins(s)
<1>1. /\ db \in [Txid -> SUBSET Out] /\ tip \in [Txid -> Slot]
      /\ \A s \in Txid : FlagsRight(tip[s], db[s])
  BY DEF CacheInv, TypeOK, Slot
<1>2. TipEntry(t) \in Slot /\ FlagsRight(TipEntry(t), db[t])
  BY TipLookup
<1>3. tip' \in [Txid -> Slot]
  BY <1>1, <1>2
<1>4. ASSUME NEW s \in Txid
      PROVE  FlagsRight(tip'[s], db'[s]) /\ TipCoins(s)' = TipCoins(s)
  <2>1. TipCoins(s)' = IF tip'[s] = NoEntry THEN db[s] ELSE tip'[s].coins
    BY <1>1, <1>3, LookupNext
  <2>2. TipCoins(s) = IF tip[s] = NoEntry THEN db[s] ELSE tip[s].coins
    BY TipLookup
  <2>3. CASE tip'[s] = tip[s]
    BY <1>1, <2>1, <2>2, <2>3
  <2>4. CASE s = t /\ tip'[s] = TipEntry(s)
    <3>1. TipEntry(s) = NoEntry => tip[s] = NoEntry
      BY DEF TipEntry
    <3>2. TipEntry(s) # NoEntry => TipCoins(s) = TipEntry(s).coins
      BY DEF TipCoins, CoinsOf
    <3> QED
      BY <1>2, <2>1, <2>2, <2>4, <3>1, <3>2
  <2> QED
    BY <1>1, <2>3, <2>4
<1> QED
  BY <1>1, <1>3, <1>4

(* The parts CacheInv is put together from in the next state.              *)
LEMMA InvFromParts ==
  ASSUME db' \in [Txid -> SUBSET Out], dbBest' \in Block,
         tip' \in [Txid -> Slot], tipBest' \in Block \cup {NoHash},
         view' \in [Txid -> Slot], viewBest' \in Block \cup {NoHash},
         open' \in BOOLEAN,
         \A s \in Txid : /\ FlagsRight(tip'[s], db'[s])
                         /\ FlagsRight(view'[s], TipCoins(s)'),
         ~open' => view' = NoEntries /\ viewBest' = NoHash
  PROVE  CacheInv'
<1>1. TypeOK'
  BY DEF TypeOK, Slot
<1> QED
  BY <1>1 DEF CacheInv, TipCoins

(* Writing one entry of an open view that is right above the tip.          *)
LEMMA ViewWrite ==
  ASSUME CacheInv, NEW t \in Txid, NEW e \in Slot, open,
         FlagsRight(e, TipCoins(t)),
         tip' = tip \/ tip' = [tip EXCEPT ![t] = TipEntry(t)],
         view' = [view EXCEPT ![t] = e],
         UNCHANGED <<db, dbBest, tipBest, viewBest, open>>
  PROVE  /\ CacheInv'
         /\ \A s \in Txid :
              /\ TipCoins(s)' = TipCoins(s)
              /\ ViewCoins(s)' = IF s # t THEN ViewCoins(s)
                                 ELSE IF e = NoEntry THEN TipCoins(t) ELSE e.coins
<1>1. /\ db' \in [Txid -> SUBSET Out] /\ tip' \in [Txid -> Slot]
      /\ \A s \in Txid : FlagsRight(tip'[s], db'[s]) /\ TipCoins(s)' = TipCoins(s)
  BY FetchIsInvisible
<1>2. /\ view \in [Txid -> Slot]
      /\ \A s \in Txid : FlagsRight(view[s], TipCoins(s))
  BY DEF CacheInv, TypeOK, Slot, TipCoins
<1>3. view' \in [Txid -> Slot] /\ \A s \in Txid : FlagsRight(view'[s], TipCoins(s)')
  BY <1>1, <1>2
<1>4. CacheInv'
  <2>1. /\ dbBest' \in Block /\ tipBest' \in Block \cup {NoHash}
        /\ viewBest' \in Block \cup {NoHash} /\ open' = TRUE
    BY DEF CacheInv, TypeOK
  <2> QED
    BY <1>1, <1>3, <2>1, InvFromParts
<1>5. ASSUME NEW s \in Txid
      PROVE  ViewCoins(s)' = IF s # t THEN ViewCoins(s)
                             ELSE IF e = NoEntry THEN TipCoins(t) ELSE e.coins
  <2>1. ViewCoins(s)' = IF view'[s] = NoEntry THEN TipCoins(s) ELSE view'[s].coins
    BY <1>1, LookupNext
  <2>2. ViewCoins(s) = IF view[s] = NoEntry THEN TipCoins(s) ELSE view[s].coins
    BY ViewLookup
  <2>3. view'[s] = IF s = t THEN e ELSE view[s]
    BY <1>2
  <2> QED
    BY <2>1, <2>2, <2>3
<1> QED
  BY <1>1, <1>4, <1>5

(* An entry modified in a view, above a tip with unspent outputs b, stands *)
(* for the new outputs c, even when it is forgotten.                       *)
LEMMA ModifiedRight ==
  ASSUME NEW e \in Entry, e.dirty = TRUE, NEW b, NEW c \in SUBSET Out,
         e.fresh => b = {}
  PROVE  /\ Modified(e, c) \in Slot /\ FlagsRight(Modified(e, c), b)
         /\ c = IF Modified(e, c) = NoEntry THEN b ELSE Modified(e, c).coins
<1>1. CASE e.fresh /\ c = {}
  BY <1>1 DEF Modified, Slot, FlagsRight
<1>2. CASE ~(e.fresh /\ c = {})
  <2> DEFINE n == [e EXCEPT !.coins = c]
  <2>1. Modified(e, c) = n
    BY <1>2 DEF Modified
  <2>2. n \in Entry /\ n.coins = c /\ n.dirty = TRUE /\ n.fresh = e.fresh
    BY DEF Entry
  <2>3. n # NoEntry
    BY <2>2, NoEntryAssumption
  <2> HIDE DEF n
  <2> QED
    BY <2>1, <2>2, <2>3 DEF Slot, FlagsRight
<1> QED
  BY <1>1, <1>2

(* Pushing an entry e onto an entry p above a base with unspent outputs d: *)
(* the result is right above d and stands for what e stood for.            *)
LEMMA PushedRight ==
  ASSUME NEW e \in Slot, NEW p \in Slot, NEW d \in SUBSET Out, NEW b,
         b = IF p = NoEntry THEN d ELSE p.coins,
         FlagsRight(p, d), FlagsRight(e, b)
  PROVE  /\ Pushed(e, p) \in Slot /\ FlagsRight(Pushed(e, p), d)
         /\ (IF Pushed(e, p) = NoEntry THEN d ELSE Pushed(e, p).coins)
              = IF e = NoEntry THEN b ELSE e.coins
<1>1. CASE e = NoEntry
  BY <1>1 DEF Pushed
<1>e. e # NoEntry => e \in Entry /\ e.coins \in SUBSET Out /\ e.fresh \in BOOLEAN
  BY DEF Slot, Entry
<1>p. p # NoEntry => p \in Entry /\ p.fresh \in BOOLEAN
  BY DEF Slot, Entry
<1>2. CASE e # NoEntry /\ ~e.dirty
  BY <1>2 DEF Pushed, FlagsRight
<1>3. CASE e # NoEntry /\ e.dirty /\ p = NoEntry /\ e.fresh /\ e.coins = {}
  BY <1>3 DEF Pushed, FlagsRight, Slot
<1>4. CASE e # NoEntry /\ e.dirty /\ p = NoEntry /\ ~(e.fresh /\ e.coins = {})
  <2> DEFINE n == [coins |-> e.coins, dirty |-> TRUE, fresh |-> e.fresh]
  <2>1. Pushed(e, p) = n
    BY <1>4 DEF Pushed
  <2>2. n \in Entry /\ n.coins = e.coins /\ n.dirty = TRUE /\ n.fresh = e.fresh
    BY <1>e, <1>4 DEF Entry
  <2>3. n # NoEntry
    BY <2>2, NoEntryAssumption, Zenon
  <2> HIDE DEF n
  <2> QED
    BY <1>4, <2>1, <2>2, <2>3 DEF Slot, FlagsRight
<1>5. CASE e # NoEntry /\ e.dirty /\ p # NoEntry /\ p.fresh /\ e.coins = {}
  BY <1>5 DEF Pushed, FlagsRight, Slot
<1>6. CASE e # NoEntry /\ e.dirty /\ p # NoEntry /\ ~(p.fresh /\ e.coins = {})
  <2> DEFINE n == Overwritten(e, p)
  <2>1. Pushed(e, p) = n
    BY <1>6 DEF Pushed
  <2>2. n \in Entry /\ n.coins = e.coins /\ n.dirty = TRUE /\ n.fresh = p.fresh
    BY <1>e, <1>p, <1>6 DEF Entry, Overwritten
  <2>3. n # NoEntry
    BY <2>2, NoEntryAssumption
  <2> HIDE DEF n
  <2> QED
    BY <1>6, <2>1, <2>2, <2>3 DEF Slot, FlagsRight
<1> QED
  BY <1>1, <1>2, <1>3, <1>4, <1>5, <1>6

-----------------------------------------------------------------------------
(* The steps.  Each keeps CacheInv and is a step of CoinsView or changes   *)
(* nothing there.                                                          *)

Sound == CacheInv' /\ [Views!Next]_(Views!vars)

(* A step after which every level stands for what it stood for.            *)
LEMMA Invisible ==
  ASSUME UNCHANGED <<db, dbBest, open>>, TipBest' = TipBest, ViewBest' = ViewBest,
         \A s \in Txid : TipCoins(s)' = TipCoins(s) /\ ViewCoins(s)' = ViewCoins(s)
  PROVE  UNCHANGED Views!vars
<1>1. TipContents' = TipContents
  BY DEF TipContents, TipCoins
<1>2. ViewContents' = ViewContents
  BY DEF ViewContents, ViewCoins
<1>3. DiskContents' = DiskContents
  BY DEF DiskContents
<1> QED
  BY <1>1, <1>2, <1>3 DEF Views!vars

(* A step that writes the outputs c of t in the view.                      *)
LEMMA Written ==
  ASSUME UNCHANGED <<db, dbBest, open>>, open, NEW t \in Txid, NEW c \in SUBSET Out,
         TipBest' = TipBest, ViewBest' = ViewBest,
         \A s \in Txid : /\ TipCoins(s)' = TipCoins(s)
                         /\ ViewCoins(s)' = IF s = t THEN c ELSE ViewCoins(s)
  PROVE  Views!Next
<1>1. TipContents' = TipContents
  BY DEF TipContents, TipCoins
<1>2. ViewContents' = [ViewContents EXCEPT !.coins[t] = c]
  <2> DEFINE f == [s \in Txid |-> ViewCoins(s)]
  <2>1. ViewContents = [coins |-> f, best |-> ViewBest]
    BY DEF ViewContents, ViewCoins
  <2>2. ViewContents' = [coins |-> [s \in Txid |-> ViewCoins(s)'], best |-> ViewBest]
    BY DEF ViewContents, ViewCoins
  <2>3. [s \in Txid |-> ViewCoins(s)'] = [f EXCEPT ![t] = c]
    BY Zenon
  <2> HIDE DEF f
  <2>4. [ViewContents EXCEPT !.coins[t] = c] = [coins |-> [f EXCEPT ![t] = c], best |-> ViewBest]
    BY <2>1
  <2> QED
    BY <2>2, <2>3, <2>4, Zenon
<1>3. DiskContents' = DiskContents
  BY DEF DiskContents
<1>4. Views!Write(t, c)
  BY <1>1, <1>2, <1>3 DEF Views!Write
<1> QED
  BY <1>4 DEF Views!Next

(* Reading through an open view changes nothing it shows.                  *)
LEMMA FetchViewSound ==
  ASSUME CacheInv, NEW t \in Txid, FetchView(t)
  PROVE  Sound
<1>0. /\ open /\ view' = [view EXCEPT ![t] = ViewEntry(t)]
      /\ tip' = tip \/ tip' = [tip EXCEPT ![t] = TipEntry(t)]
      /\ UNCHANGED <<db, dbBest, tipBest, viewBest, open>>
  BY DEF FetchView
<1>1. ViewEntry(t) \in Slot /\ FlagsRight(ViewEntry(t), TipCoins(t))
  BY ViewLookup
<1>2. /\ CacheInv'
      /\ \A s \in Txid :
           /\ TipCoins(s)' = TipCoins(s)
           /\ ViewCoins(s)' = IF s # t THEN ViewCoins(s)
                              ELSE IF ViewEntry(t) = NoEntry THEN TipCoins(t)
                                                             ELSE ViewEntry(t).coins
  BY <1>0, <1>1, ViewWrite, Zenon
<1>3. ViewCoins(t) = IF ViewEntry(t) = NoEntry THEN TipCoins(t) ELSE ViewEntry(t).coins
  <2>1. ViewEntry(t) = NoEntry => view[t] = NoEntry
    BY DEF ViewEntry
  <2> QED
    BY <2>1, ViewLookup DEF ViewCoins, CoinsOf
<1>4. TipBest' = TipBest /\ ViewBest' = ViewBest
  BY <1>0 DEF TipBest, ViewBest
<1>5. UNCHANGED Views!vars
  BY <1>0, <1>2, <1>3, <1>4, Invisible
<1> QED
  BY <1>2, <1>5 DEF Sound

(* ModifyCoins changes one entry of the view, with right flags.            *)
LEMMA ModifyCoinsSound ==
  ASSUME CacheInv, NEW t \in Txid, NEW c \in SUBSET Out, ModifyCoins(t, c)
  PROVE  Sound
<1> DEFINE e == IF ViewEntry(t) = NoEntry
                THEN [coins |-> {}, dirty |-> TRUE, fresh |-> TRUE]
                ELSE [ViewEntry(t) EXCEPT !.dirty = TRUE]
<1>0. /\ open /\ view' = [view EXCEPT ![t] = Modified(e, c)]
      /\ tip' = tip \/ tip' = [tip EXCEPT ![t] = TipEntry(t)]
      /\ UNCHANGED <<db, dbBest, tipBest, viewBest, open>>
  BY DEF ModifyCoins
<1>1. e \in Entry /\ e.dirty = TRUE /\ (e.fresh => TipCoins(t) = {})
  <2>1. ViewEntry(t) \in Slot /\ FlagsRight(ViewEntry(t), TipCoins(t))
    BY ViewLookup
  <2>2. CASE ViewEntry(t) = NoEntry
    <3>1. TipEntry(t) = NoEntry
      <4>1. view[t] = NoEntry
        BY <2>2 DEF ViewEntry
      <4>2. TipEntry(t) # NoEntry => TipEntry(t).coins \in SUBSET Out
        BY TipLookup DEF Slot, Entry
      <4> QED
        BY <2>2, <4>1, <4>2, CopiedRight DEF ViewEntry
    <3>2. TipCoins(t) = {}
      BY <3>1 DEF TipCoins, CoinsOf
    <3> QED
      BY <2>2, <3>2 DEF Entry
  <2>3. CASE ViewEntry(t) # NoEntry
    <3>1. ViewEntry(t) \in Entry
      BY <2>1, <2>3 DEF Slot
    <3>2. e \in Entry /\ e.dirty = TRUE /\ e.fresh = ViewEntry(t).fresh
      BY <2>3, <3>1, Zenon DEF Entry
    <3> QED
      BY <2>1, <2>3, <3>2 DEF FlagsRight
  <2> QED
    BY <2>2, <2>3
<1> HIDE DEF e
<1> DEFINE n == Modified(e, c)
<1>2. /\ n \in Slot /\ FlagsRight(n, TipCoins(t))
      /\ c = IF n = NoEntry THEN TipCoins(t) ELSE n.coins
  BY <1>1, ModifiedRight, Zenon
<1> HIDE DEF n
<1>3. /\ CacheInv'
      /\ \A s \in Txid :
           /\ TipCoins(s)' = TipCoins(s)
           /\ ViewCoins(s)' = IF s # t THEN ViewCoins(s)
                              ELSE IF n = NoEntry THEN TipCoins(t) ELSE n.coins
  BY <1>0, <1>2, ViewWrite, Zenon DEF n
<1>4. TipBest' = TipBest /\ ViewBest' = ViewBest
  BY <1>0 DEF TipBest, ViewBest
<1>5. Views!Next
  BY <1>0, <1>2, <1>3, <1>4, Written
<1> QED
  BY <1>3, <1>5 DEF Sound

(* ModifyNewCoins does too, for coins known to be new or a coinbase.       *)
LEMMA ModifyNewCoinsSound ==
  ASSUME CacheInv, NEW t \in Txid, NEW c \in SUBSET Out, NEW cb \in BOOLEAN,
         ModifyNewCoins(t, c, cb)
  PROVE  Sound
<1> DEFINE o == IF view[t] = NoEntry
                THEN [coins |-> {}, dirty |-> FALSE, fresh |-> FALSE]
                ELSE view[t]
           e == [o EXCEPT !.dirty = TRUE, !.fresh = NewIsFresh(o, cb)]
<1>0. /\ open /\ ViewCoins(t) = {}
      /\ view' = [view EXCEPT ![t] = Modified(e, c)]
      /\ UNCHANGED <<db, dbBest, tip, tipBest, viewBest, open>>
  BY DEF ModifyNewCoins, ViewCoins
<1>v. view[t] \in Slot /\ FlagsRight(view[t], TipCoins(t))
  BY DEF CacheInv, TypeOK, Slot, TipCoins
<1>o. o \in Entry
  BY <1>v DEF Slot, Entry
<1>f. e.fresh = NewIsFresh(o, cb) /\ e.dirty = TRUE /\ e \in Entry
  <2>1. NewIsFresh(o, cb) \in BOOLEAN
    BY DEF NewIsFresh
  <2> HIDE DEF o
  <2> QED
    BY <1>o, <2>1, Zenon DEF Entry
<1>g. NewIsFresh(o, cb) => TipCoins(t) = {}
  <2>1. CASE view[t] = NoEntry
    BY <2>1, <1>0, ViewLookup
  <2>2. CASE view[t] # NoEntry
    <3>1. o = view[t] /\ view[t].coins = {}
      BY <2>2, <1>0, ViewLookup
    <3>2. (o.fresh => TipCoins(t) = {}) /\ (~o.dirty => o.coins = TipCoins(t))
      BY <2>2, <3>1, <1>v DEF FlagsRight
    <3> HIDE DEF o
    <3> QED
      BY <3>1, <3>2 DEF NewIsFresh
  <2> QED
    BY <2>1, <2>2
<1>1. e \in Entry /\ e.dirty = TRUE /\ (e.fresh => TipCoins(t) = {})
  BY <1>f, <1>g
<1> HIDE DEF e
<1> DEFINE n == Modified(e, c)
<1>2. /\ n \in Slot /\ FlagsRight(n, TipCoins(t))
      /\ c = IF n = NoEntry THEN TipCoins(t) ELSE n.coins
  BY <1>1, ModifiedRight, Zenon
<1> HIDE DEF n
<1>3. /\ CacheInv'
      /\ \A s \in Txid :
           /\ TipCoins(s)' = TipCoins(s)
           /\ ViewCoins(s)' = IF s # t THEN ViewCoins(s)
                              ELSE IF n = NoEntry THEN TipCoins(t) ELSE n.coins
  BY <1>0, <1>2, ViewWrite, Zenon DEF n
<1>4. TipBest' = TipBest /\ ViewBest' = ViewBest
  BY <1>0 DEF TipBest, ViewBest
<1>5. Views!Next
  BY <1>0, <1>2, <1>3, <1>4, Written
<1> QED
  BY <1>3, <1>5 DEF Sound

(* A view that is gone leaves the tip as it is.                            *)
LEMMA ClosedView ==
  ASSUME db' \in [Txid -> SUBSET Out], dbBest' \in Block,
         tip' \in [Txid -> Slot], tipBest' \in Block \cup {NoHash},
         view' = NoEntries, viewBest' = NoHash, open' \in BOOLEAN,
         \A s \in Txid : FlagsRight(tip'[s], db'[s])
  PROVE  CacheInv' /\ ViewContents' = TipContents'
<1>1. view' \in [Txid -> Slot] /\ \A s \in Txid : view'[s] = NoEntry
  BY DEF NoEntries, Slot
<1>2. \A s \in Txid : FlagsRight(view'[s], TipCoins(s)')
  BY <1>1 DEF FlagsRight
<1>3. CacheInv'
  BY <1>1, <1>2, InvFromParts
<1>4. \A s \in Txid : ViewCoins(s)' = TipCoins(s)'
  BY <1>1, LookupNext
<1>5. ViewContents' = TipContents'
  BY <1>4 DEF ViewContents, TipContents, ViewCoins, TipCoins, ViewBest, TipBest
<1> QED
  BY <1>3, <1>5

(* Flush makes the tip show what the view showed.                          *)
LEMMA FlushViewSound ==
  ASSUME CacheInv, FlushView
  PROVE  Sound
<1>0. /\ open /\ open' = FALSE /\ viewBest # NoHash
      /\ tip' = [t \in Txid |-> Pushed(view[t], tip[t])]
      /\ tipBest' = viewBest /\ view' = NoEntries /\ viewBest' = NoHash
      /\ db' = db /\ dbBest' = dbBest
  BY DEF FlushView
<1>1. /\ db \in [Txid -> SUBSET Out] /\ dbBest \in Block /\ viewBest \in Block \cup {NoHash}
      /\ view \in [Txid -> Slot] /\ tip \in [Txid -> Slot]
      /\ \A s \in Txid : FlagsRight(tip[s], db[s]) /\ FlagsRight(view[s], TipCoins(s))
  BY DEF CacheInv, TypeOK, Slot, TipCoins
<1>2. ASSUME NEW s \in Txid
      PROVE  /\ tip'[s] \in Slot /\ FlagsRight(tip'[s], db[s])
             /\ (IF tip'[s] = NoEntry THEN db[s] ELSE tip'[s].coins) = ViewCoins(s)
  <2>1. TipCoins(s) = IF tip[s] = NoEntry THEN db[s] ELSE tip[s].coins
    BY TipLookup
  <2>2. ViewCoins(s) = IF view[s] = NoEntry THEN TipCoins(s) ELSE view[s].coins
    BY ViewLookup
  <2>3. tip'[s] = Pushed(view[s], tip[s])
    BY <1>0
  <2> QED
    BY <1>1, <2>1, <2>2, <2>3, PushedRight
<1>3. tip' \in [Txid -> Slot]
  BY <1>0, <1>2
<1>4. CacheInv' /\ ViewContents' = TipContents'
  BY <1>0, <1>1, <1>2, <1>3, ClosedView, Zenon
<1>5. \A s \in Txid : TipCoins(s)' = ViewCoins(s)
  BY <1>0, <1>1, <1>2, <1>3, LookupNext
<1>6. TipContents' = ViewContents
  <2>1. TipBest' = ViewBest
    BY <1>0 DEF TipBest, ViewBest
  <2> QED
    BY <1>5, <2>1 DEF TipContents, ViewContents, TipCoins, ViewCoins
<1>7. DiskContents' = DiskContents
  BY <1>0 DEF DiskContents
<1>8. Views!Push
  BY <1>0, <1>4, <1>6, <1>7 DEF Views!Push
<1> QED
  BY <1>4, <1>8 DEF Sound, Views!Next

(* Writing the tip makes the disk hold what the tip showed.                *)
LEMMA FlushTipSound ==
  ASSUME CacheInv, FlushTip
  PROVE  Sound
<1>0. /\ ~open /\ open' = open /\ tip' = NoEntries /\ dbBest' = TipBest
      /\ tipBest' = tipBest /\ view' = view /\ viewBest' = viewBest
      /\ view = NoEntries /\ viewBest = NoHash
      /\ db' = [t \in Txid |->
                  IF tip[t] = NoEntry THEN db[t]
                  ELSE IF tip[t].dirty THEN tip[t].coins ELSE db[t]]
  BY DEF FlushTip, CacheInv
<1>1. /\ db \in [Txid -> SUBSET Out] /\ TipBest \in Block
      /\ tipBest \in Block \cup {NoHash} /\ tip \in [Txid -> Slot]
      /\ \A s \in Txid : FlagsRight(tip[s], db[s])
  BY DEF CacheInv, TypeOK, Slot, TipBest
<1>2. ASSUME NEW s \in Txid
      PROVE  db'[s] = TipCoins(s) /\ db'[s] \in SUBSET Out
  <2>1. /\ TipCoins(s) = IF tip[s] = NoEntry THEN db[s] ELSE tip[s].coins
        /\ TipCoins(s) \in SUBSET Out
    BY TipLookup
  <2> QED
    BY <1>0, <1>1, <2>1 DEF FlagsRight
<1>3. db' \in [Txid -> SUBSET Out]
  BY <1>0, <1>2
<1>4. tip' \in [Txid -> Slot] /\ \A s \in Txid : tip'[s] = NoEntry
  BY <1>0 DEF NoEntries, Slot
<1>5. \A s \in Txid : FlagsRight(tip'[s], db'[s])
  BY <1>4 DEF FlagsRight
<1>o. open' \in BOOLEAN
  BY <1>0 DEF CacheInv, TypeOK
<1>6. CacheInv' /\ ViewContents' = TipContents'
  BY <1>0, <1>1, <1>3, <1>4, <1>5, <1>o, ClosedView
<1>7. \A s \in Txid : TipCoins(s)' = TipCoins(s)
  BY <1>2, <1>3, <1>4, LookupNext
<1>8. TipContents' = TipContents
  <2>1. TipBest' = TipBest
    BY <1>0 DEF TipBest
  <2> QED
    BY <1>7, <2>1 DEF TipContents, TipCoins
<1>9. DiskContents' = TipContents
  <2>1. db' = [s \in Txid |-> TipCoins(s)]
    BY <1>2, <1>3
  <2> QED
    BY <1>0, <2>1 DEF DiskContents, TipContents, TipCoins
<1>10. ViewContents = TipContents
  <2>1. \A s \in Txid : ViewCoins(s) = TipCoins(s)
    BY <1>0, ViewLookup DEF NoEntries
  <2> QED
    BY <1>0, <2>1 DEF ViewContents, TipContents, ViewCoins, TipCoins, ViewBest
<1>11. Views!Save
  BY <1>0, <1>6, <1>8, <1>9, <1>10 DEF Views!Save
<1> QED
  BY <1>6, <1>11 DEF Sound, Views!Next

(* The process ends, or the view is dropped.                               *)
LEMMA CrashSound ==
  ASSUME CacheInv, Crash \/ DropView
  PROVE  Sound
<1>1. /\ db \in [Txid -> SUBSET Out] /\ dbBest \in Block /\ tip \in [Txid -> Slot]
      /\ tipBest \in Block \cup {NoHash} /\ \A s \in Txid : FlagsRight(tip[s], db[s])
  BY DEF CacheInv, TypeOK, Slot
<1>2. CASE Crash
  <2>0. /\ tip' = NoEntries /\ tipBest' = NoHash /\ view' = NoEntries
        /\ viewBest' = NoHash /\ open' = FALSE /\ db' = db /\ dbBest' = dbBest
    BY <1>2 DEF Crash
  <2>1. tip' \in [Txid -> Slot] /\ \A s \in Txid : tip'[s] = NoEntry
    BY <2>0 DEF NoEntries, Slot
  <2>2. \A s \in Txid : FlagsRight(tip'[s], db'[s])
    BY <2>1 DEF FlagsRight
  <2>3. CacheInv' /\ ViewContents' = TipContents'
    BY <1>1, <2>0, <2>1, <2>2, ClosedView, Zenon
  <2>4. \A s \in Txid : TipCoins(s)' = db[s]
    BY <1>1, <2>0, <2>1, LookupNext
  <2>5. TipContents' = DiskContents
    <3>1. db = [s \in Txid |-> TipCoins(s)']
      BY <1>1, <2>4
    <3>2. TipBest' = dbBest
      BY <2>0 DEF TipBest
    <3> QED
      BY <3>1, <3>2 DEF TipContents, DiskContents, TipCoins
  <2>6. DiskContents' = DiskContents
    BY <2>0 DEF DiskContents
  <2>7. Views!Restart
    BY <2>0, <2>3, <2>5, <2>6 DEF Views!Restart
  <2> QED
    BY <2>3, <2>7 DEF Sound, Views!Next
<1>3. CASE DropView
  <2>0. /\ open /\ open' = FALSE /\ view' = NoEntries /\ viewBest' = NoHash
        /\ UNCHANGED <<db, dbBest, tip, tipBest>>
    BY <1>3 DEF DropView
  <2>1. CacheInv' /\ ViewContents' = TipContents'
    BY <1>1, <2>0, ClosedView, Zenon
  <2>2. TipContents' = TipContents /\ DiskContents' = DiskContents
    BY <2>0 DEF TipContents, TipEntry, TipBest, DiskContents
  <2>3. Views!Drop
    BY <2>0, <2>1, <2>2 DEF Views!Drop
  <2> QED
    BY <2>1, <2>3 DEF Sound, Views!Next
<1> QED
  BY <1>2, <1>3

(* The tip is looked at, or an entry that agrees with the disk forgotten.  *)
LEMMA TipOnlySound ==
  ASSUME CacheInv, NEW t \in Txid, FetchTip(t) \/ Uncache(t)
  PROVE  Sound
<1>0. /\ ~open /\ view = NoEntries /\ viewBest = NoHash
      /\ UNCHANGED <<db, dbBest, tipBest, view, viewBest, open>>
  BY DEF FetchTip, Uncache, CacheInv
<1>t. /\ db \in [Txid -> SUBSET Out] /\ dbBest \in Block /\ tip \in [Txid -> Slot]
      /\ tipBest \in Block \cup {NoHash} /\ open \in BOOLEAN
      /\ \A s \in Txid : FlagsRight(tip[s], db[s])
  BY DEF CacheInv, TypeOK, Slot
<1>1. /\ tip' \in [Txid -> Slot]
      /\ \A s \in Txid : FlagsRight(tip'[s], db'[s]) /\ TipCoins(s)' = TipCoins(s)
  <2>1. CASE FetchTip(t)
    <3>1. tip' = [tip EXCEPT ![t] = TipEntry(t)]
      BY <2>1 DEF FetchTip
    <3> QED
      BY <1>0, <3>1, FetchIsInvisible, Zenon
  <2>2. CASE Uncache(t)
    <3>1. /\ tip[t] # NoEntry /\ ~tip[t].dirty
          /\ tip' = [tip EXCEPT ![t] = NoEntry]
      BY <2>2 DEF Uncache
    <3>2. tip' \in [Txid -> Slot] /\ \A s \in Txid : FlagsRight(tip'[s], db'[s])
      BY <1>0, <1>t, <3>1 DEF Slot, FlagsRight
    <3>3. tip[t].coins = db[t]
      BY <1>t, <3>1 DEF FlagsRight
    <3>4. \A s \in Txid : TipCoins(s)' = TipCoins(s)
      BY <1>0, <1>t, <3>1, <3>2, <3>3, LookupNext, TipLookup
    <3> QED
      BY <3>2, <3>4
  <2> QED
    BY <2>1, <2>2
<1>2. CacheInv' /\ ViewContents' = TipContents'
  BY <1>0, <1>t, <1>1, ClosedView
<1>3. \A s \in Txid : view'[s] = NoEntry /\ view[s] = NoEntry
  BY <1>0 DEF NoEntries
<1>4. \A s \in Txid : ViewCoins(s)' = ViewCoins(s)
  BY <1>0, <1>t, <1>1, <1>3, LookupNext, ViewLookup
<1>5. TipBest' = TipBest /\ ViewBest' = ViewBest
  BY <1>0 DEF TipBest, ViewBest
<1>6. UNCHANGED Views!vars
  BY <1>0, <1>1, <1>4, <1>5, Invisible
<1> QED
  BY <1>2, <1>6 DEF Sound

(* A step that touches no coins.                                           *)
LEMMA BestBlockSound ==
  ASSUME CacheInv, \/ OpenView \/ GetBestBlock
                   \/ \E b \in Block : SetBestBlock(b)
                   \/ UNCHANGED vars
  PROVE  Sound
<1>t. /\ db \in [Txid -> SUBSET Out] /\ dbBest \in Block
      /\ tip \in [Txid -> Slot] /\ tipBest \in Block \cup {NoHash}
      /\ view \in [Txid -> Slot] /\ viewBest \in Block \cup {NoHash}
      /\ \A s \in Txid : FlagsRight(tip[s], db[s]) /\ FlagsRight(view[s], TipCoins(s))
  BY DEF CacheInv, TypeOK, Slot, TipCoins
<1>o. open \in BOOLEAN /\ (~open => view = NoEntries /\ viewBest = NoHash)
  BY DEF CacheInv, TypeOK
<1>0. db' = db /\ dbBest' = dbBest /\ tip' = tip /\ view' = view
  BY DEF OpenView, GetBestBlock, SetBestBlock, vars
<1>c. \A s \in Txid : TipCoins(s)' = TipCoins(s) /\ ViewCoins(s)' = ViewCoins(s)
  BY <1>0 DEF TipCoins, ViewCoins, TipEntry, ViewEntry
<1>i. ASSUME tipBest' \in Block \cup {NoHash}, viewBest' \in Block \cup {NoHash},
             open' \in BOOLEAN, ~open' => view' = NoEntries /\ viewBest' = NoHash
      PROVE  CacheInv'
  BY <1>0, <1>c, <1>i, <1>t, InvFromParts
<1>b. TipBest \in Block /\ ViewBest \in Block
  BY <1>t DEF TipBest, ViewBest
<1>1. CASE OpenView
  <2>0. ~open /\ open' = TRUE /\ tipBest' = tipBest /\ viewBest' = viewBest
    BY <1>1 DEF OpenView
  <2>1. CacheInv'
    BY <2>0, <1>i, <1>t
  <2>2. TipContents' = TipContents /\ DiskContents' = DiskContents
    BY <1>0, <2>0 DEF TipContents, TipEntry, TipBest, DiskContents
  <2>3. \A s \in Txid : ViewCoins(s)' = TipCoins(s)
    BY <1>c, <1>o, <2>0, ViewLookup DEF NoEntries
  <2>4. ViewContents' = TipContents
    <3>1. ViewBest' = TipBest
      BY <1>0, <1>o, <2>0 DEF ViewBest, TipBest
    <3> QED
      BY <2>3, <3>1 DEF ViewContents, TipContents, ViewCoins, TipCoins
  <2>5. Views!Open
    BY <2>0, <2>2, <2>4 DEF Views!Open
  <2> QED
    BY <2>1, <2>5 DEF Sound, Views!Next
<1>2. CASE GetBestBlock
  <2>0. /\ open /\ open' = open /\ viewBest' = ViewBest
        /\ tipBest' = IF viewBest = NoHash THEN TipBest ELSE tipBest
    BY <1>2 DEF GetBestBlock
  <2>1. CacheInv'
    BY <2>0, <1>b, <1>i, <1>o, <1>t
  <2>2. TipBest' = TipBest /\ ViewBest' = ViewBest
    BY <1>0, <1>b, <2>0, NoEntryAssumption DEF TipBest, ViewBest
  <2>3. UNCHANGED Views!vars
    BY <1>0, <1>c, <2>0, <2>2, Invisible
  <2> QED
    BY <2>1, <2>3 DEF Sound
<1>3. CASE \E b \in Block : SetBestBlock(b)
  <2>0. PICK b \in Block : open /\ open' = open /\ viewBest' = b /\ tipBest' = tipBest
    BY <1>3 DEF SetBestBlock
  <2>1. CacheInv'
    BY <2>0, <1>i, <1>o, <1>t
  <2>2. TipContents' = TipContents /\ DiskContents' = DiskContents
    BY <1>0, <2>0 DEF TipContents, TipEntry, TipBest, DiskContents
  <2>3. ViewBest' = b
    BY <2>0, NoEntryAssumption DEF ViewBest
  <2>4. ViewContents' = [ViewContents EXCEPT !.best = b]
    <3> DEFINE f == [s \in Txid |-> ViewCoins(s)]
    <3>1. ViewContents = [coins |-> f, best |-> ViewBest]
      BY DEF ViewContents, ViewCoins
    <3>2. ViewContents' = [coins |-> [s \in Txid |-> ViewCoins(s)'], best |-> b]
      BY <2>3 DEF ViewContents, ViewCoins
    <3>3. [s \in Txid |-> ViewCoins(s)'] = f
      BY <1>c
    <3> HIDE DEF f
    <3> QED
      BY <3>1, <3>2, <3>3
  <2>5. Views!SetBest(b)
    BY <2>0, <2>2, <2>4 DEF Views!SetBest
  <2> QED
    BY <2>1, <2>5 DEF Sound, Views!Next
<1>4. CASE UNCHANGED vars
  <2>0. /\ UNCHANGED <<db, dbBest, tipBest, viewBest, open, view>>
    BY <1>4 DEF vars
  <2>1. CacheInv'
    BY <2>0, <1>i, <1>o, <1>t
  <2>2. TipBest' = TipBest /\ ViewBest' = ViewBest
    BY <2>0 DEF TipBest, ViewBest
  <2> QED
    BY <1>c, <2>0, <2>1, <2>2, Invisible DEF Sound
<1> QED
  BY <1>1, <1>2, <1>3, <1>4

(* Every step.                                                             *)
LEMMA StepSound ==
  ASSUME CacheInv, [Next]_vars
  PROVE  Sound
<1>1. CASE \E t \in Txid : FetchTip(t) \/ Uncache(t) \/ FetchView(t)
  BY <1>1, TipOnlySound, FetchViewSound
<1>2. CASE \E t \in Txid, c \in SUBSET Out : ModifyCoins(t, c)
  BY <1>2, ModifyCoinsSound
<1>3. CASE \E t \in Txid, c \in SUBSET Out, cb \in BOOLEAN : ModifyNewCoins(t, c, cb)
  BY <1>3, ModifyNewCoinsSound
<1>4. CASE OpenView \/ GetBestBlock \/ (\E b \in Block : SetBestBlock(b)) \/ UNCHANGED vars
  BY <1>4, BestBlockSound
<1>5. CASE DropView \/ Crash \/ FlushView \/ FlushTip
  BY <1>5, CrashSound, FlushViewSound, FlushTipSound
<1> QED
  BY <1>1, <1>2, <1>3, <1>4, <1>5 DEF Next

(* Empty caches show what is on disk.                                      *)
LEMMA InitSound == Init => CacheInv /\ Views!Init
<1> SUFFICES ASSUME Init PROVE CacheInv /\ Views!Init
  OBVIOUS
<1>1. /\ db \in [Txid -> SUBSET Out] /\ dbBest \in Block /\ open = FALSE
      /\ tip \in [Txid -> Slot] /\ view \in [Txid -> Slot]
      /\ tipBest = NoHash /\ viewBest = NoHash /\ view = NoEntries
      /\ \A s \in Txid : tip[s] = NoEntry /\ view[s] = NoEntry /\ db[s] = {}
  BY DEF Init, NoEntries, Slot
<1>2. TypeOK
  BY <1>1, Zenon DEF TypeOK, Slot
<1>3. CacheInv
  BY <1>1, <1>2 DEF CacheInv, FlagsRight
<1>4. \A s \in Txid : TipCoins(s) = {} /\ ViewCoins(s) = {}
  BY <1>1, <1>3, TipLookup, ViewLookup
<1>5. TipContents = [coins |-> [s \in Txid |-> {}], best |-> dbBest]
  BY <1>1, <1>4, Zenon DEF TipContents, TipCoins, TipBest
<1>6. ViewContents = [coins |-> [s \in Txid |-> {}], best |-> dbBest]
  BY <1>1, <1>4, Zenon DEF ViewContents, ViewCoins, ViewBest, TipBest
<1>7. DiskContents = [coins |-> [s \in Txid |-> {}], best |-> dbBest]
  BY DEF DiskContents, Init
<1>8. DiskContents \in [coins : {[t \in Txid |-> {}]}, best : Block]
  BY <1>1, <1>7
<1> QED
  BY <1>1, <1>3, <1>5, <1>6, <1>7, <1>8 DEF Views!Init

(* The DIRTY and FRESH flags of both caches are right in every state.      *)
THEOREM FlagsAreRight == Spec => []CacheInv
<1>1. CacheInv /\ [Next]_vars => CacheInv'
  BY StepSound DEF Sound
<1> QED
  BY <1>1, InitSound, PTL DEF Spec

(* BatchWrite never throws: a FRESH entry is never pushed onto unspent     *)
(* outputs of the tip.                                                     *)
THEOREM FreshIsNeverMisapplied == Spec => []NeverMisapplied
<1>1. ASSUME CacheInv PROVE NeverMisapplied
  <2> SUFFICES ASSUME NEW t \in Txid, Misapplied(view[t], tip[t]) PROVE FALSE
    BY DEF NeverMisapplied
  <2>1. TipCoins(t) = tip[t].coins
    BY <1>1, TipLookup DEF Misapplied
  <2>2. FlagsRight(view[t], TipCoins(t))
    BY <1>1 DEF CacheInv, TipCoins
  <2> QED
    BY <2>1, <2>2 DEF Misapplied, FlagsRight
<1> QED
  BY <1>1, FlagsAreRight, PTL

(* The stack of caches implements the plain maps of CoinsView.             *)
THEOREM CachesImplementViews == Spec => ImplementsViews
<1>1. CacheInv /\ [Next]_vars => [Views!Next]_(Views!vars)
  BY StepSound DEF Sound
<1> QED
  BY <1>1, InitSound, FlagsAreRight, PTL DEF Spec, ImplementsViews, Views!Spec

=============================================================================
