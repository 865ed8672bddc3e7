------------------------- MODULE AliasServiceProofs -------------------------
(***************************************************************************)
(* A transaction that resolves a handle and transfers in separate steps    *)
(* takes effect as if in one step, for any threads, names and balances.    *)
(* The argument: a registered handle keeps its owner for ever, because     *)
(* RegisterAlias refuses a handle that is taken and nothing else writes    *)
(* the registry, so what a thread read is still right when it is used.     *)
(***************************************************************************)
EXTENDS AliasService, TLAPS

ServiceInv ==
  /\ block \in Nat
  /\ DOMAIN call = Thread
  /\ PendingIsRight

(* A step leaves registered handles with their records and the block       *)
(* number does not fall.                                                   *)
LEMMA RecordsStay ==
  ASSUME ServiceInv, [ServiceNext]_vars
  PROVE  /\ block' \in Nat /\ block <= block'
         /\ \A k \in DOMAIN records : k \in DOMAIN records' /\ records'[k] = records[k]
<1> USE DEF ServiceInv
<1>1. ASSUME NEW h, NEW o, NEW n, RegisterAlias(h, o, n)
      PROVE  \A k \in DOMAIN records : k \in DOMAIN records' /\ records'[k] = records[k]
  BY <1>1 DEF RegisterAlias, MayRegister, Registered
<1>2. CASE NewBlock /\ UNCHANGED <<call, height>>
  BY <1>2 DEF NewBlock
<1>3. ASSUME NEW tx \in Transaction, StandardTransfer(tx)
      PROVE  block' = block /\ records' = records
  BY <1>3 DEF StandardTransfer
<1>4. ASSUME NEW t \in Thread, NEW tx \in Transaction,
             BeginRegister(t, tx) \/ ResolveAlias(t, tx)
      PROVE  block' = block /\ records' = records
  BY <1>4 DEF BeginRegister, ResolveAlias, state
<1>5. ASSUME NEW t \in Thread, Fail(t)
      PROVE  block' = block /\ records' = records
  BY <1>5 DEF Fail, state
<1>6. ASSUME NEW t \in Thread, Finish(t)
      PROVE  /\ block' = block
             /\ \/ records' = records
                \/ RegisterAlias(call[t].tx.recipient, call[t].tx.sender, call[t].num)
  BY <1>6 DEF Finish
<1>7. CASE UNCHANGED vars
  BY <1>7 DEF vars, state
<1> QED
  BY <1>1, <1>2, <1>3, <1>4, <1>5, <1>6, <1>7 DEF ServiceNext

(* What a thread holds stays right while others move.                      *)
LEMMA AgreementStays ==
  ASSUME ServiceInv, [ServiceNext]_vars, NEW c, Agrees(c, records, block)
  PROVE  Agrees(c, records', block')
<1>1. block \in Nat /\ block' \in Nat /\ block <= block'
  BY RecordsStay DEF ServiceInv
<1>2. c.num \in 0 .. block => c.num \in 0 .. block'
  BY <1>1
<1> QED
  BY <1>2, RecordsStay DEF Agrees

(* Every step of a thread keeps the invariant of the service.             *)
LEMMA ServiceInvHolds == ServiceSpec => []ServiceInv
<1>1. ServiceInit => ServiceInv
  BY DEF ServiceInit, Init, ServiceInv, PendingIsRight
<1>2. ServiceInv /\ [ServiceNext]_vars => ServiceInv'
  <2> SUFFICES ASSUME ServiceInv, [ServiceNext]_vars
               PROVE  ServiceInv'
    OBVIOUS
  <2>1. block' \in Nat
    BY RecordsStay
  <2>2. DOMAIN call' = Thread
    BY DEF ServiceInv, ServiceNext, StandardTransfer, BeginRegister, ResolveAlias,
           Finish, Fail, Return, vars
  <2>3. ASSUME NEW t \in Thread, call'[t] # Idle
        PROVE  Agrees(call'[t], records', block')
    <3>1. CASE call'[t] = call[t]
      <4>1. Agrees(call[t], records, block)
        BY <2>3, <3>1 DEF ServiceInv, PendingIsRight
      <4> QED
        BY <3>1, <4>1, AgreementStays
    <3>2. CASE call'[t] # call[t]
      <4>1. PICK u \in Thread :
              \/ \E tx \in Transaction : BeginRegister(u, tx) \/ ResolveAlias(u, tx)
              \/ Finish(u) \/ Fail(u)
        BY <3>2 DEF ServiceNext, StandardTransfer, NewBlock, vars
      <4>2. ~Finish(u) /\ ~Fail(u) /\ u = t
        BY <2>3, <3>2, <4>1 DEF ServiceInv, Finish, Fail, Return, BeginRegister, ResolveAlias
      <4>3. PICK tx \in Transaction : BeginRegister(t, tx) \/ ResolveAlias(t, tx)
        BY <4>1, <4>2
      <4>4. CASE BeginRegister(t, tx)
        BY <4>4 DEF BeginRegister, state, ServiceInv, Agrees
      <4>5. CASE ResolveAlias(t, tx)
        BY <4>5 DEF ResolveAlias, Registered, Owner, state, ServiceInv, Agrees
      <4> QED
        BY <4>3, <4>4, <4>5
    <3> QED
      BY <3>1, <3>2
  <2> QED
    BY <2>1, <2>2, <2>3 DEF ServiceInv, PendingIsRight
<1> QED
  BY <1>1, <1>2, PTL DEF ServiceSpec

(* What a thread read before it lost the lock is still right when it uses  *)
(* it (ProcessTransaction).                                                *)
THEOREM PendingStaysRight == ServiceSpec => []PendingIsRight
<1>1. ServiceInv => PendingIsRight
  BY DEF ServiceInv
<1> QED
  BY <1>1, ServiceInvHolds, PTL

(* The registry that the atomic transactions see changes with the records. *)
LEMMA DatedSteps ==
  /\ UNCHANGED <<records, height>> => UNCHANGED Dated
  /\ DOMAIN Dated = DOMAIN records
  /\ \A k \in DOMAIN records : Dated[k].owner = records[k].owner
  BY DEF Dated

(* A registration that takes effect now is one with the block number of    *)
(* now, whatever was read for it.                                          *)
LEMMA DatedRegisters ==
  ASSUME NEW h, NEW o, NEW n, RegisterAlias(h, o, n),
         height' = [k \in DOMAIN records' |-> IF k = Normal(h) THEN block ELSE height[k]]
  PROVE  Atomic!RegisterAlias(h, o, block)
<1> DEFINE D == DOMAIN records \cup {Normal(h)}
           new == [handle |-> Normal(h), owner |-> o, num |-> block]
<1>1. /\ DOMAIN records' = D
      /\ \A k \in D : records'[k] = IF k = Normal(h)
                                    THEN [handle |-> k, owner |-> o, num |-> n] ELSE records[k]
      /\ \A k \in D : height'[k] = IF k = Normal(h) THEN block ELSE height[k]
  BY DEF RegisterAlias
<1>2. Dated' = [k \in D |-> IF k = Normal(h) THEN new ELSE Dated[k]]
  <2>1. Dated' = [k \in D |-> [handle |-> records'[k].handle, owner |-> records'[k].owner,
                               num |-> height'[k]]]
    BY <1>1 DEF Dated
  <2>2. ASSUME NEW k \in D
        PROVE  [handle |-> records'[k].handle, owner |-> records'[k].owner,
                num |-> height'[k]] = IF k = Normal(h) THEN new ELSE Dated[k]
    <3>1. CASE k = Normal(h)
      <4>1. records'[k] = [handle |-> k, owner |-> o, num |-> n] /\ height'[k] = block
        BY <1>1, <3>1, Zenon
      <4>2. records'[k].handle = k /\ records'[k].owner = o
        BY <4>1
      <4> QED
        BY <3>1, <4>1, <4>2, Zenon
    <3>2. CASE k # Normal(h)
      <4>1. k \in DOMAIN records /\ records'[k] = records[k] /\ height'[k] = height[k]
        BY <1>1, <3>2, Zenon
      <4> QED
        BY <3>2, <4>1, Zenon DEF Dated
    <3> QED
      BY <3>1, <3>2, Zenon
  <2> QED
    BY <2>1, <2>2, Zenon
<1>3. MayRegister(h) /\ DOMAIN Dated = DOMAIN records
  BY DatedSteps DEF RegisterAlias
<1> QED
  BY <1>2, <1>3, Zenon DEF Atomic!RegisterAlias, Atomic!MayRegister, Atomic!Registered, Atomic!Fits,
     Atomic!Normal, Normal, MayRegister, Registered, Fits

(* But for the block numbers in the records, the steps of                  *)
(* ProcessTransaction implement transactions that resolve and transfer, or *)
(* register in the block of the time, at once.                             *)
THEOREM ServiceIsAtomic == ServiceSpec => TransactionsAreAtomic
<1>0. Transaction = Atomic!Transaction
  BY DEF Atomic!Transaction, Transaction, Atomic!Handle, Handle
<1>1. ServiceInit => Atomic!Init
  BY DEF ServiceInit, Init, Atomic!Init, Dated
<1>2. ServiceInv /\ [ServiceNext]_vars => [Atomic!AtomicNext]_(Atomic!state)
  <2> SUFFICES ASSUME ServiceInv, [ServiceNext]_vars
               PROVE  Atomic!AtomicNext \/ UNCHANGED Atomic!state
    OBVIOUS
  <2>0. ASSUME UNCHANGED <<state, height>>
        PROVE  UNCHANGED Atomic!state
    BY <2>0, DatedSteps DEF state, Atomic!state
  <2>1. CASE NewBlock /\ UNCHANGED <<call, height>>
    BY <2>1, DatedSteps DEF NewBlock, Atomic!NewBlock, Atomic!AtomicNext
  <2>2. ASSUME NEW tx \in Transaction, StandardTransfer(tx)
        PROVE  Atomic!AtomicNext
    <3>1. Atomic!ProcessTransaction(tx)
      BY <2>2, DatedSteps DEF StandardTransfer, Transfer, Total, Atomic!Transfer,
         Atomic!Total, Atomic!ProcessTransaction
    <3> QED
      BY <1>0, <3>1 DEF Atomic!AtomicNext
  <2>3. ASSUME NEW t \in Thread, NEW tx \in Transaction,
               BeginRegister(t, tx) \/ ResolveAlias(t, tx)
        PROVE  UNCHANGED <<state, height>>
    BY <2>3 DEF BeginRegister, ResolveAlias
  <2>4. ASSUME NEW t \in Thread, Fail(t)
        PROVE  UNCHANGED <<state, height>>
    BY <2>4 DEF Fail
  <2>5. ASSUME NEW t \in Thread, Finish(t)
        PROVE  Atomic!AtomicNext
    <3> DEFINE tx == call[t].tx
    <3>1. /\ tx \in Transaction
          /\ tx.type = "alias" => Registered(tx.recipient) /\ call[t].to = Owner(tx.recipient)
      BY <2>5 DEF ServiceInv, PendingIsRight, Agrees, Registered, Owner, Finish
    <3>2. ASSUME tx.type = "register"
          PROVE  Atomic!ProcessTransaction(tx)
      <4>1. /\ RegisterAlias(tx.recipient, tx.sender, call[t].num)
            /\ height' = [k \in DOMAIN records' |->
                            IF k = Normal(tx.recipient) THEN block ELSE height[k]]
            /\ UNCHANGED <<printed, balance, block>>
        BY <2>5, <3>2 DEF Finish
      <4>2. Atomic!RegisterAlias(tx.recipient, tx.sender, block)
        BY <4>1, DatedRegisters
      <4> QED
        BY <3>2, <4>1, <4>2 DEF Atomic!ProcessTransaction
    <3>3. ASSUME tx.type = "alias"
          PROVE  Atomic!ProcessTransaction(tx)
      <4>1. AliasTransfer(tx, call[t].to) /\ UNCHANGED <<records, block, height>>
        BY <2>5, <3>3 DEF Finish
      <4>2. Atomic!AliasTransfer(tx, call[t].to)
        BY <4>1 DEF AliasTransfer, Transfer, Total, Atomic!AliasTransfer, Atomic!Transfer,
           Atomic!Total
      <4>3. Atomic!Registered(tx.recipient) /\ call[t].to = Atomic!Owner(tx.recipient)
        BY <3>1, <3>3, DatedSteps DEF Registered, Owner, Normal, Atomic!Registered,
           Atomic!Owner, Atomic!Normal
      <4> QED
        BY <3>3, <4>1, <4>2, <4>3, DatedSteps DEF Atomic!ProcessTransaction
    <3>4. tx.type \in {"register", "alias"}
      BY <2>5 DEF Finish
    <3> QED
      BY <1>0, <3>1, <3>2, <3>3, <3>4 DEF Atomic!AtomicNext
  <2>6. CASE UNCHANGED vars
    BY <2>0, <2>6 DEF vars
  <2> QED
    BY <2>0, <2>1, <2>2, <2>3, <2>4, <2>5, <2>6 DEF ServiceNext
<1> QED
  BY <1>1, <1>2, ServiceInvHolds, PTL DEF ServiceSpec, TransactionsAreAtomic, Atomic!AtomicSpec

=============================================================================
