-------------------------- MODULE CheckQueueProofs --------------------------
(***************************************************************************)
(* QueueInv is an inductive invariant of CheckQueue, for any number of     *)
(* workers and checks and any batch size: whatever thread runs which check *)
(* in whatever order, a block gets the verdict of its own checks and       *)
(* leaves nothing behind, and a sleeping master is owed a wakeup.  That    *)
(* Wait returns is liveness, left to TLC.                                  *)
(***************************************************************************)
EXTENDS CheckQueue, FiniteSetTheorems, TLAPS

Places == {"free", "adding", "start", "wait", "woken", "work", "gone"}

(* Counting the checks left when a batch of them is reported.              *)
LEMMA Reported ==
  ASSUME NEW S, NEW B, IsFiniteSet(S), B \subseteq S
  PROVE  Cardinality(S \ B) = Cardinality(S) - Cardinality(B)
<1>1. IsFiniteSet(B) /\ IsFiniteSet(S \ B)
  BY FS_Subset
<1>2. Cardinality(B \cup (S \ B)) =
        Cardinality(B) + Cardinality(S \ B) - Cardinality(B \cap (S \ B))
  BY <1>1, FS_Union
<1>3. B \cup (S \ B) = S /\ B \cap (S \ B) = {}
  OBVIOUS
<1>4. Cardinality(B) \in Nat /\ Cardinality(S \ B) \in Nat
  BY <1>1, FS_CardinalityType
<1> QED
  BY <1>2, <1>3, <1>4, FS_EmptySet

(* Pending as a predicate: the form the other proofs use it in.            *)
LEMMA PendingIs ==
  \A c : c \in Pending <=> c \in queue \/ \E s \in Thread : c \in batch[s]
BY DEF Pending

(* The checks to report on after a step, from the queue and the batches.   *)
LEMMA PendingIsNext ==
  \A c : c \in Pending' <=> c \in queue' \/ \E s \in Thread : c \in batch'[s]
BY DEF Pending

(* Pending checks are a finite set.                                        *)
LEMMA PendingFinite ==
  ASSUME QueueInv
  PROVE  /\ IsFiniteSet(Pending)
         /\ \A t \in Thread : batch[t] \subseteq Pending
<1>1. Pending \subseteq Check
  BY DEF QueueInv, TypeOK
<1>2. IsFiniteSet(Pending)
  BY <1>1, FS_Subset, CheckQueueAssumption
<1> QED
  BY <1>2, PendingIs

(* A thread that takes checks takes at least one.                          *)
LEMMA BatchNowPositive ==
  ASSUME NEW total, NEW idle
  PROVE  BatchNow(total, idle) # 0
<1> DEFINE share == Cardinality(queue) \div (total + idle + 1)
           capped == IF share < BatchSize THEN share ELSE BatchSize
<1>1. BatchNow(total, idle) = IF capped < 1 THEN 1 ELSE capped
  BY DEF BatchNow
<1> HIDE DEF capped
<1>2. capped = 0 => capped < 1
  OBVIOUS
<1> QED
  BY <1>1, <1>2

(* The initial state.                                                      *)
LEMMA QueueInit == Init => QueueInv
<1> SUFFICES ASSUME Init PROVE QueueInv
  OBVIOUS
<1>a. pc \in [Thread -> Places]
  BY DEF Init, Places
<1>b. batch \in [Thread -> SUBSET Check] /\ fOk \in [Thread -> BOOLEAN]
  BY DEF Init
<1>c. /\ queue \subseteq Check /\ added \subseteq Check /\ failing \subseteq Check
      /\ nTodo \in Nat /\ nIdle \in Int /\ nTotal \in Int
  BY DEF Init
<1>d. fAllOk \in BOOLEAN /\ interrupted \in BOOLEAN /\ verdict \in BOOLEAN
  BY Zenon DEF Init
<1>1. TypeOK
  BY <1>a, <1>b, <1>c, <1>d DEF TypeOK, Places
<1>2. Pending = {}
  BY PendingIs DEF Init
<1>3. nTodo = Cardinality(Pending)
  BY <1>2, FS_EmptySet DEF Init
<1>4. VerdictRight /\ CleanHandover
  BY <1>2 DEF Init, VerdictRight, CleanHandover
<1>5. \A w \in Worker : pc[w] \notin {"free", "adding"}
  BY CheckQueueAssumption DEF Init, Thread
<1>6. \A t \in Thread : pc[t] # "work" /\ batch[t] = {}
  BY DEF Init
<1> QED
  BY <1>1, <1>2, <1>3, <1>4, <1>5, <1>6 DEF Init, QueueInv

(* A critical section of Loop keeps the invariant, given what its entry    *)
(* established: the batch of t is reported (todo, ok), and the other       *)
(* threads p are where they were, except that some may have been woken.    *)
LEMMA ProceedKeeps ==
  ASSUME QueueInv,
         NEW t \in Thread, NEW todo, NEW idle \in Int, NEW total \in Int,
         NEW ok \in BOOLEAN, NEW p \in [Thread -> Places],
         Proceed(t, todo, idle, total, ok, p),
         pc[t] \notin {"free", "adding"},
         \A s \in Thread \ {t} : p[s] = pc[s] \/ (pc[s] = "wait" /\ p[s] = "woken"),
         todo = Cardinality(Pending \ batch[t]),
         pc[Master] = "free" => ok,
         ok => fAllOk /\ batch[t] \cap failing = {},
         ~ok => added \cap failing # {}
  PROVE  QueueInv'
<1> DEFINE Left == Pending \ batch[t]
           N == batch'[t]
<1>u. nTodo' = todo /\ UNCHANGED <<interrupted, added, failing>>
  BY DEF Proceed
<1>m. Master \in Thread /\ \A w \in Worker : w \in Thread /\ w # Master
  BY CheckQueueAssumption DEF Thread
<1>t. /\ pc \in [Thread -> Places] /\ batch \in [Thread -> SUBSET Check]
      /\ fOk \in [Thread -> BOOLEAN] /\ verdict \in BOOLEAN /\ queue \subseteq Check
  BY DEF QueueInv, TypeOK, Places
<1>f. IsFiniteSet(Left) /\ todo \in Nat
  BY PendingFinite, FS_Subset, FS_CardinalityType
(* What the three ways to go on have in common.                            *)
<1>c. /\ nIdle' \in Int /\ nTotal' \in Int
      /\ N \subseteq queue /\ queue' = queue \ N
      /\ batch' = [batch EXCEPT ![t] = N]
      /\ \E q \in Places :
           /\ pc' = [p EXCEPT ![t] = q]
           /\ (q = "work") <=> (N # {})
           /\ \/ /\ q = "free" /\ t = Master /\ todo = 0 /\ queue = {}
                 /\ verdict' = ok /\ fAllOk' = TRUE
              \/ /\ q \notin {"free", "adding"}
                 /\ verdict' = verdict /\ fAllOk' = ok
      /\ fOk' = fOk \/ fOk' = [fOk EXCEPT ![t] = ok]
      /\ N # {} => fOk'[t] = ok
  <2>1. CASE Return(t, todo, idle, total, ok, p)
    <3>1. N = {}
      BY <2>1, <1>t DEF Return
    <3>2. queue = {} /\ t = Master /\ todo = 0
      BY <2>1 DEF Return, MayReturn
    <3>3. verdict' = ok /\ fAllOk' = TRUE
      BY <2>1 DEF Return, AfterReturn
    <3>4. /\ nIdle' = idle /\ nTotal' = total - 1 /\ fOk' = fOk /\ queue' = queue
          /\ batch' = [batch EXCEPT ![t] = {}] /\ pc' = [p EXCEPT ![t] = "free"]
      BY <2>1 DEF Return
    <3> QED
      BY <3>1, <3>2, <3>3, <3>4 DEF Places
  <2>2. CASE Sleep(t, todo, idle, total, ok, p)
    <3>1. N = {}
      BY <2>2, <1>t DEF Sleep
    <3> DEFINE q == IF interrupted /\ t # Master THEN "gone" ELSE "wait"
    <3>2. q \in Places /\ q \notin {"work", "free", "adding"}
      BY DEF Places
    <3>3. pc' = [p EXCEPT ![t] = q] /\ verdict' = verdict /\ fAllOk' = ok
      BY <2>2 DEF Sleep
    <3>4. /\ nIdle' \in Int /\ nTotal' \in Int /\ fOk' = fOk
          /\ queue' = queue /\ batch' = [batch EXCEPT ![t] = {}]
      BY <2>2 DEF Sleep
    <3> HIDE DEF q
    <3> QED
      BY <3>1, <3>2, <3>3, <3>4, Zenon
  <2>3. CASE Take(t, todo, idle, total, ok, p)
    <3>1. PICK B \in SUBSET queue :
            /\ Cardinality(B) = BatchNow(total, idle)
            /\ queue' = queue \ B
            /\ batch' = [batch EXCEPT ![t] = B]
            /\ fOk' = [fOk EXCEPT ![t] = ok]
            /\ nTotal' = total /\ nIdle' = idle /\ fAllOk' = ok
            /\ pc' = [p EXCEPT ![t] = "work"]
            /\ verdict' = verdict
      BY <2>3, Zenon DEF Take
    <3>2. N = B /\ fOk'[t] = ok
      BY <3>1, <1>t
    <3>3. B # {}
      BY <3>1, FS_EmptySet, BatchNowPositive, Zenon
    <3> QED
      BY <3>1, <3>2, <3>3, Zenon DEF Places
  <2> QED
    BY <2>1, <2>2, <2>3, Zenon DEF Proceed
<1>p. PICK q \in Places :
        /\ pc' = [p EXCEPT ![t] = q]
        /\ (q = "work") <=> (N # {})
        /\ \/ /\ q = "free" /\ t = Master /\ todo = 0 /\ queue = {}
              /\ verdict' = ok /\ fAllOk' = TRUE
           \/ /\ q \notin {"free", "adding"}
              /\ verdict' = verdict /\ fAllOk' = ok
  BY <1>c, Zenon
<1>q. pc'[t] = q /\ \A s \in Thread \ {t} : pc'[s] = p[s]
  BY <1>p
<1>b. \A s \in Thread \ {t} : batch'[s] = batch[s] /\ fOk'[s] = fOk[s]
  BY <1>c, <1>t
<1> HIDE DEF N
<1>1. TypeOK'
  <2>1. pc' \in [Thread -> Places]
    BY <1>p
  <2>2. batch' \in [Thread -> SUBSET Check]
    BY <1>c, <1>t
  <2>3. fOk' \in [Thread -> BOOLEAN]
    BY <1>c, <1>t
  <2>4. fAllOk' \in BOOLEAN /\ verdict' \in BOOLEAN
    BY <1>p, <1>t, Zenon
  <2>5. queue' \subseteq Check /\ nTodo' \in Nat
    BY <1>c, <1>t, <1>u, <1>f
  <2>6. added \subseteq Check /\ failing \subseteq Check /\ interrupted \in BOOLEAN
    BY DEF QueueInv, TypeOK
  <2> QED
    BY <2>1, <2>2, <2>3, <2>4, <2>5, <2>6, <1>u, <1>c DEF TypeOK, Places
<1>2. (\A w \in Worker : pc[w] \notin {"free", "adding"})'
  BY <1>p, <1>q, <1>m DEF QueueInv
<1>d. /\ \A s \in Thread : batch[s] \cap queue = {}
      /\ \A r, s \in Thread : r # s => batch[r] \cap batch[s] = {}
  BY DEF QueueInv
<1>3. \A s \in Thread : batch'[s] \cap queue' = {}
  BY <1>b, <1>c, <1>d DEF N
<1>4. \A r, s \in Thread : r # s => batch'[r] \cap batch'[s] = {}
  BY <1>b, <1>c, <1>d DEF N
<1>5. Pending' = Left
  <2>1. ASSUME NEW c, c \in Pending' PROVE c \in Left
    BY <2>1, PendingIs, PendingIsNext, <1>b, <1>c, <1>d DEF N
  <2>2. ASSUME NEW c, c \in Left PROVE c \in Pending'
    BY <2>2, PendingIs, PendingIsNext, <1>b, <1>c, <1>d DEF N
  <2> QED
    BY <2>1, <2>2
<1>6. Pending' \subseteq added' /\ nTodo' = Cardinality(Pending')
  BY <1>5, <1>u DEF QueueInv
<1>7. \A s \in Thread : pc'[s] = "work" <=> batch'[s] # {}
  BY <1>p, <1>q, <1>b DEF QueueInv, N
<1>e. pc'[Master] # "free" => pc[Master] # "free"
  BY <1>q, <1>m
<1>8. pc'[Master] # "free" /\ fAllOk' => (added' \ Pending') \cap failing' = {}
  BY <1>e, <1>p, <1>5, <1>u, <1>q, <1>m, Zenon DEF QueueInv
<1>9. ~fAllOk' => added' \cap failing' # {}
  BY <1>p, <1>u
<1>10. ASSUME NEW s \in Thread, pc'[s] = "work", ~fOk'[s]
       PROVE  ~fAllOk'
  <2>1. CASE s = t
    BY <1>10, <2>1, <1>c, <1>p, <1>q DEF N
  <2>2. CASE s # t
    <3>1. pc[s] = "work" /\ ~fOk[s] /\ batch[s] # {}
      BY <1>10, <2>2, <1>b, <1>q DEF QueueInv
    <3>2. ~ok
      BY <3>1 DEF QueueInv
    <3>3. batch[s] \subseteq Left
      BY <1>d, <2>2, PendingIs
    <3>4. todo # 0
      BY <3>1, <3>3, <1>f, FS_EmptySet
    <3> QED
      BY <3>2, <3>4, <1>p
  <2> QED
    BY <2>1, <2>2
<1>11. pc'[Master] = "free" =>
         /\ Pending' = {} /\ nTodo' = 0 /\ fAllOk'
         /\ verdict' <=> added' \cap failing' = {}
  <2> SUFFICES ASSUME pc'[Master] = "free"
               PROVE  /\ Pending' = {} /\ nTodo' = 0 /\ fAllOk'
                      /\ verdict' <=> added' \cap failing' = {}
    OBVIOUS
  <2>1. CASE q = "free"
    <3>1. Left = {}
      BY <2>1, <1>p, <1>f, FS_EmptySet
    <3>2. ok <=> added \cap failing = {}
      BY <3>1, <2>1, <1>p DEF QueueInv
    <3> QED
      BY <3>1, <3>2, <2>1, <1>p, <1>5, <1>u
  <2>2. CASE q # "free"
    <3>1. pc[Master] = "free" /\ ok
      BY <2>2, <1>q, <1>m
    <3>2. Left = {} /\ (verdict <=> added \cap failing = {})
      BY <3>1 DEF QueueInv, CleanHandover, VerdictRight
    <3> QED
      BY <3>1, <3>2, <2>2, <1>p, <1>5, <1>u, FS_EmptySet, Zenon
  <2> QED
    BY <2>1, <2>2
<1>12. VerdictRight' /\ CleanHandover'
  BY <1>11 DEF VerdictRight, CleanHandover
<1> QED
  BY <1>1, <1>2, <1>3, <1>4, <1>6, <1>7, <1>8, <1>9, <1>10, <1>12 DEF QueueInv

(* A step that only moves threads between places where they hold no checks *)
(* keeps the invariant.                                                    *)
LEMMA MoveKeeps ==
  ASSUME QueueInv, UNCHANGED <<shared, batch, fOk, verdict, added, failing>>,
         interrupted' \in BOOLEAN, pc' \in [Thread -> Places],
         \A s \in Thread : /\ pc'[s] = "work" <=> pc[s] = "work"
                           /\ pc'[s] = "free" <=> pc[s] = "free",
         \A w \in Worker : pc'[w] # "adding"
  PROVE  QueueInv'
<1>m. Master \in Thread /\ \A w \in Worker : w \in Thread
  BY DEF Thread
<1>1. TypeOK'
  BY DEF QueueInv, TypeOK, shared, Places
<1>2. Pending' = Pending
  BY DEF Pending, shared
<1>3. VerdictRight' /\ CleanHandover'
  BY <1>m, <1>2 DEF QueueInv, VerdictRight, CleanHandover, shared
<1> QED
  BY <1>1, <1>2, <1>3, <1>m DEF QueueInv, shared

(* A new control: the checks of the last block are gone.                   *)
LEMMA ControlKeeps == QueueInv /\ Control => QueueInv'
<1> SUFFICES ASSUME QueueInv, Control PROVE QueueInv'
  OBVIOUS
<1>m. Master \in Thread /\ \A w \in Worker : w \in Thread /\ w # Master
  BY CheckQueueAssumption DEF Thread
<1>t. pc \in [Thread -> Places]
  BY DEF QueueInv, TypeOK, Places
<1>0. /\ pc' = [pc EXCEPT ![Master] = "adding"] /\ added' = {}
      /\ UNCHANGED <<shared, batch, fOk, interrupted, verdict, failing>>
  BY DEF Control
<1>1. pc' \in [Thread -> Places]
  BY <1>0, <1>t, Zenon DEF Places
<1>2. TypeOK'
  BY <1>0, <1>1 DEF QueueInv, TypeOK, shared, Places
<1>3. Pending = {} /\ fAllOk /\ pc[Master] = "free"
  BY DEF Control, QueueInv, CleanHandover
<1>4. Pending' = {}
  BY <1>0, <1>3 DEF Pending, shared
<1>5. /\ pc'[Master] = "adding"
      /\ \A s \in Thread \ {Master} : pc'[s] = pc[s]
  BY <1>0, <1>t, <1>m
<1>6. VerdictRight' /\ CleanHandover'
  BY <1>5 DEF VerdictRight, CleanHandover
<1>7. nTodo' = Cardinality(Pending')
  BY <1>0, <1>3, <1>4 DEF QueueInv, shared
<1>8. \A w \in Worker : pc'[w] \notin {"free", "adding"}
  BY <1>5, <1>m DEF QueueInv
<1>9. \A s \in Thread : pc'[s] = "work" <=> pc[s] = "work"
  BY <1>5, <1>3
<1> QED
  BY <1>0, <1>2, <1>3, <1>4, <1>6, <1>7, <1>8, <1>9 DEF QueueInv, shared

(* Adding checks: they are new, and some sleeping workers are woken.       *)
LEMMA AddKeeps ==
  ASSUME QueueInv, NEW A \in SUBSET Check, Add(A)
  PROVE  QueueInv'
<1>m. Master \in Thread /\ \A w \in Worker : w \in Thread /\ w # Master
  BY CheckQueueAssumption DEF Thread
<1>t. pc \in [Thread -> Places]
  BY DEF QueueInv, TypeOK, Places
<1>0. /\ pc[Master] = "adding" /\ A \cap added = {}
      /\ queue' = queue \cup A /\ added' = added \cup A
      /\ nTodo' = nTodo + Cardinality(A)
      /\ UNCHANGED <<nIdle, nTotal, fAllOk, batch, fOk, interrupted, verdict, failing>>
  BY DEF Add
<1>w. PICK W \in Wakes(A) : pc' = [t \in Thread |-> IF t \in W THEN "woken" ELSE pc[t]]
  BY DEF Add
<1>s. W \subseteq Sleeping
  BY DEF Wakes
<1>1. pc' \in [Thread -> Places]
  BY <1>w, <1>t DEF Places
<1>2. \A s \in Thread : pc'[s] = pc[s] \/ (pc[s] = "wait" /\ pc'[s] = "woken")
  BY <1>w, <1>s DEF Sleeping
<1>3. Pending' = Pending \cup A
  BY <1>0, PendingIs, PendingIsNext
<1>4. A \cap Pending = {}
  BY <1>0 DEF QueueInv
<1>5. nTodo' = Cardinality(Pending') /\ nTodo' \in Nat
  <2>1. IsFiniteSet(Pending) /\ IsFiniteSet(A)
    BY PendingFinite, FS_Subset, CheckQueueAssumption
  <2>2. Cardinality(Pending) \in Nat /\ Cardinality(A) \in Nat
    BY <2>1, FS_CardinalityType
  <2>3. Cardinality(Pending \cup A) =
          Cardinality(Pending) + Cardinality(A) - Cardinality(Pending \cap A)
    BY <2>1, FS_Union
  <2>4. Cardinality(Pending \cap A) = 0
    BY <1>4, FS_EmptySet
  <2> QED
    BY <1>0, <1>3, <2>2, <2>3, <2>4 DEF QueueInv
<1>6. TypeOK'
  BY <1>0, <1>1, <1>5 DEF QueueInv, TypeOK, Places
<1>7. \A s \in Thread : batch'[s] \cap queue' = {}
  BY <1>0, <1>4, PendingIs DEF QueueInv
<1>8. VerdictRight' /\ CleanHandover'
  BY <1>0, <1>2, <1>m DEF VerdictRight, CleanHandover
<1>9. Pending' \subseteq added'
  BY <1>0, <1>3 DEF QueueInv
<1>10. pc'[Master] # "free" /\ fAllOk' => (added' \ Pending') \cap failing' = {}
  BY <1>0, <1>3 DEF QueueInv
<1>11. ~fAllOk' => added' \cap failing' # {}
  BY <1>0 DEF QueueInv
<1>12. \A s \in Thread : /\ pc'[s] = "work" <=> batch'[s] # {}
                         /\ pc'[s] = "work" /\ ~fOk'[s] => ~fAllOk'
  BY <1>0, <1>2 DEF QueueInv
<1>13. \A w \in Worker : pc'[w] \notin {"free", "adding"}
  BY <1>2, <1>m DEF QueueInv
<1>14. \A r, s \in Thread : r # s => batch'[r] \cap batch'[s] = {}
  BY <1>0 DEF QueueInv
<1> QED
  BY <1>5, <1>6, <1>7, <1>8, <1>9, <1>10, <1>11, <1>12, <1>13, <1>14 DEF QueueInv

(* A critical section, from each of its three entries.                     *)
LEMMA StepKeeps ==
  ASSUME QueueInv, NEW t \in Thread, Step(t)
  PROVE  QueueInv'
<1>t. /\ pc \in [Thread -> Places] /\ nIdle \in Int /\ nTotal \in Int
      /\ nTodo = Cardinality(Pending)
  BY DEF QueueInv, TypeOK, Places
<1>b. fAllOk \in BOOLEAN /\ fOk[t] \in BOOLEAN
  BY DEF QueueInv, TypeOK
<1>f. pc[Master] = "free" => fAllOk /\ Pending = {}
  BY DEF QueueInv, CleanHandover
<1>n. ~fAllOk => added \cap failing # {}
  BY DEF QueueInv
<1>0. ASSUME pc[t] \in {"start", "woken"}
      PROVE  batch[t] = {} /\ Pending \ batch[t] = Pending
  BY <1>0 DEF QueueInv
<1>1. CASE Enter(t)
  <2> DEFINE total == nTotal + 1
             ok == fAllOk
             p == pc
  <2>1. pc[t] = "start" /\ Proceed(t, nTodo, nIdle, total, ok, p)
    BY <1>1 DEF Enter
  <2>a. batch[t] = {} /\ Pending \ batch[t] = Pending
    BY <2>1, <1>0
  <2>2. batch[t] = {} /\ nTodo = Cardinality(Pending \ batch[t]) /\ total \in Int
    BY <2>a, <1>t
  <2>3. ok => fAllOk /\ batch[t] \cap failing = {}
    BY <2>2
  <2>4. pc[t] \notin {"free", "adding"} /\ (pc[Master] = "free" => ok)
    BY <2>1, <1>f
  <2>5. \A s \in Thread \ {t} : p[s] = pc[s] \/ (pc[s] = "wait" /\ p[s] = "woken")
    OBVIOUS
  <2>6. ok \in BOOLEAN /\ (~ok => added \cap failing # {}) /\ p \in [Thread -> Places]
    BY <1>b, <1>n, <1>t
  <2> HIDE DEF total, ok, p
  <2> QED
    BY <2>1, <2>2, <2>3, <2>4, <2>5, <2>6, <1>t, ProceedKeeps
<1>2. CASE Wake(t)
  <2> DEFINE idle == nIdle - 1
             ok == fAllOk
             p == pc
  <2>1. pc[t] = "woken" /\ Proceed(t, nTodo, idle, nTotal, ok, p)
    BY <1>2 DEF Wake
  <2>a. batch[t] = {} /\ Pending \ batch[t] = Pending
    BY <2>1, <1>0
  <2>2. batch[t] = {} /\ nTodo = Cardinality(Pending \ batch[t]) /\ idle \in Int
    BY <2>a, <1>t
  <2>3. ok => fAllOk /\ batch[t] \cap failing = {}
    BY <2>2
  <2>4. pc[t] \notin {"free", "adding"} /\ (pc[Master] = "free" => ok)
    BY <2>1, <1>f
  <2>5. \A s \in Thread \ {t} : p[s] = pc[s] \/ (pc[s] = "wait" /\ p[s] = "woken")
    OBVIOUS
  <2>6. ok \in BOOLEAN /\ (~ok => added \cap failing # {}) /\ p \in [Thread -> Places]
    BY <1>b, <1>n, <1>t
  <2> HIDE DEF idle, ok, p
  <2> QED
    BY <2>1, <2>2, <2>3, <2>4, <2>5, <2>6, <1>t, ProceedKeeps
<1>3. CASE Finish(t)
  <2> DEFINE todo == nTodo - Cardinality(batch[t])
             ok == Combined(t)
             p == Notified(t, todo)
  <2>1. pc[t] = "work" /\ Proceed(t, todo, nIdle, nTotal, ok, p)
    BY <1>3 DEF Finish
  <2>2. todo = Cardinality(Pending \ batch[t])
    BY <1>t, PendingFinite, Reported
  <2>3. batch[t] # {} /\ batch[t] \subseteq added /\ (~fOk[t] => ~fAllOk)
    BY <2>1, PendingFinite DEF QueueInv
  <2>4. pc[Master] # "free"
    BY <2>3, <1>f, PendingFinite
  <2>5. ok \in BOOLEAN
    BY DEF Combined
  <2>6. ok => fAllOk /\ batch[t] \cap failing = {}
    BY DEF Combined, Executed
  <2>7. ~ok => added \cap failing # {}
    BY <2>3, <1>n DEF Combined, Executed
  <2>8. p \in [Thread -> Places]
    BY <1>t DEF Notified, Places
  <2>9. \A s \in Thread \ {t} : p[s] = pc[s] \/ (pc[s] = "wait" /\ p[s] = "woken")
    BY DEF Notified
  <2> HIDE DEF todo, ok, p
  <2>10. pc[t] \notin {"free", "adding"} /\ (pc[Master] = "free" => ok)
    BY <2>1, <2>4
  <2> QED
    BY <2>1, <2>2, <2>5, <2>6, <2>7, <2>8, <2>9, <2>10, <1>t, ProceedKeeps
<1> QED
  BY <1>1, <1>2, <1>3 DEF Step

(* Every step keeps the invariant.                                         *)
LEMMA QueueStep == QueueInv /\ [Next]_vars => QueueInv'
<1> SUFFICES ASSUME QueueInv, [Next]_vars PROVE QueueInv'
  OBVIOUS
<1>m. Master \in Thread /\ \A w \in Worker : w \in Thread /\ w # Master
  BY CheckQueueAssumption DEF Thread
<1>t. pc \in [Thread -> Places] /\ interrupted \in BOOLEAN
  BY DEF QueueInv, TypeOK, Places
<1>w. \A w \in Worker : pc[w] # "adding"
  BY DEF QueueInv
<1>1. CASE Control
  BY <1>1, ControlKeeps
<1>2. CASE \E A \in SUBSET Check : Add(A)
  BY <1>2, AddKeeps
<1>3. CASE Wait
  BY <1>3, <1>m, <1>t, <1>w, MoveKeeps DEF Wait, Places
<1>4. CASE \E t \in Thread : Step(t)
  BY <1>4, StepKeeps
<1>5. CASE \E t \in Thread : SpuriousWake(t)
  BY <1>5, <1>m, <1>t, <1>w, MoveKeeps DEF SpuriousWake, Places
<1>6. CASE Interrupt
  <2>1. /\ interrupted' \in BOOLEAN /\ pc' = pc
        /\ UNCHANGED <<shared, batch, fOk, verdict, added, failing>>
    BY <1>6 DEF Interrupt
  <2> QED
    BY <2>1, <1>t, <1>w, MoveKeeps
<1>7. CASE \E w \in Worker : Leave(w)
  BY <1>7, <1>m, <1>t, <1>w, MoveKeeps DEF Leave, Places
<1>8. CASE UNCHANGED vars
  BY <1>8, <1>t, <1>w, MoveKeeps DEF vars
<1> QED
  BY <1>1, <1>2, <1>3, <1>4, <1>5, <1>6, <1>7, <1>8 DEF Next

(* The invariant of the pool of script checks holds in every state.        *)
THEOREM QueueInvariant == Spec => []QueueInv
BY QueueInit, QueueStep, PTL DEF Spec

(* A block's verdict is the conjunction of its own script checks, with any *)
(* number of worker threads, batches and interleavings.                    *)
THEOREM VerdictIsRight == Spec => []VerdictRight
<1>1. QueueInv => VerdictRight
  BY DEF QueueInv
<1> QED
  BY <1>1, QueueInvariant, PTL

(* When Wait returns, nothing of the block is left in the pool.            *)
THEOREM HandoverIsClean == Spec => []CleanHandover
<1>1. QueueInv => CleanHandover
  BY DEF QueueInv
<1> QED
  BY <1>1, QueueInvariant, PTL

(* While the master waits the queue stays empty and checks are left to be  *)
(* reported: only the master empties the queue for good, nobody adds, and  *)
(* who reports the last check wakes it.                                    *)
MasterWaits == pc[Master] = "wait" => queue = {} /\ nTodo # 0

(* Every step keeps that.                                                  *)
LEMMA MasterWaitsStep ==
  ASSUME QueueInv, MasterWaits, [Next]_vars
  PROVE  MasterWaits'
<1> SUFFICES ASSUME pc'[Master] = "wait"
             PROVE  queue' = {} /\ nTodo' # 0
  BY DEF MasterWaits
<1>m. Master \in Thread /\ \A w \in Worker : w \in Thread /\ w # Master
  BY CheckQueueAssumption DEF Thread
<1>t. pc \in [Thread -> Places]
  BY DEF QueueInv, TypeOK, Places
<1>1. CASE Control \/ Wait
  BY <1>1, <1>m, <1>t DEF Control, Wait
<1>2. ASSUME NEW A \in SUBSET Check, Add(A)
      PROVE  FALSE
  <2>1. PICK W \in Wakes(A) : pc' = [t \in Thread |-> IF t \in W THEN "woken" ELSE pc[t]]
    BY <1>2 DEF Add
  <2> QED
    BY <1>2, <1>m, <2>1 DEF Add
(* A critical section with other threads at p.                             *)
<1>3. ASSUME NEW t \in Thread, NEW todo, NEW idle, NEW total, NEW ok,
             NEW p \in [Thread -> Places], Proceed(t, todo, idle, total, ok, p),
             t # Master /\ p[Master] = "wait" => pc[Master] = "wait" /\ todo # 0
      PROVE  queue' = {} /\ nTodo' # 0
  <2>1. nTodo' = todo
    BY <1>3 DEF Proceed
  <2>2. CASE Return(t, todo, idle, total, ok, p)
    BY <1>3, <1>m, <2>2 DEF Return, MayReturn
  <2>3. CASE Sleep(t, todo, idle, total, ok, p)
    <3>1. queue = {} /\ queue' = queue /\ ~(t = Master /\ todo = 0)
      BY <2>3 DEF Sleep, MayReturn
    <3>2. t # Master => p[Master] = "wait"
      BY <1>3, <1>m, <2>3 DEF Sleep
    <3> QED
      BY <1>3, <2>1, <3>1, <3>2
  <2>4. CASE Take(t, todo, idle, total, ok, p)
    <3>1. queue # {} /\ pc' = [p EXCEPT ![t] = "work"]
      BY <2>4 DEF Take
    <3>2. t # Master /\ p[Master] = "wait"
      BY <1>3, <1>m, <3>1
    <3> QED
      BY <1>3, <3>1, <3>2 DEF MasterWaits
  <2> QED
    BY <1>3, <2>2, <2>3, <2>4 DEF Proceed
<1>4. ASSUME NEW t \in Thread, Step(t)
      PROVE  queue' = {} /\ nTodo' # 0
  <2>1. CASE Enter(t)
    BY <1>3, <1>t, <2>1 DEF Enter, MasterWaits
  <2>2. CASE Wake(t)
    BY <1>3, <1>t, <2>2 DEF Wake, MasterWaits
  <2>3. CASE Finish(t)
    <3> DEFINE todo == nTodo - Cardinality(batch[t])
               p == Notified(t, todo)
    <3>1. Proceed(t, todo, nIdle, nTotal, Combined(t), p)
      BY <2>3 DEF Finish
    <3>2. p \in [Thread -> Places]
      BY <1>t DEF Notified, Places
    <3>3. t # Master /\ p[Master] = "wait" => pc[Master] = "wait" /\ todo # 0
      BY <1>m DEF Notified
    <3> HIDE DEF todo, p
    <3> QED
      BY <1>3, <3>1, <3>2, <3>3
  <2> QED
    BY <1>4, <2>1, <2>2, <2>3 DEF Step
<1>5. ASSUME NEW t \in Thread, SpuriousWake(t)
      PROVE  queue' = {} /\ nTodo' # 0
  BY <1>5, <1>m, <1>t DEF SpuriousWake, MasterWaits, shared
<1>6. CASE Interrupt \/ UNCHANGED vars
  BY <1>6 DEF Interrupt, MasterWaits, shared, vars
<1>7. ASSUME NEW w \in Worker, Leave(w)
      PROVE  queue' = {} /\ nTodo' # 0
  BY <1>7, <1>m, <1>t DEF Leave, MasterWaits, shared
<1> QED
  BY <1>1, <1>2, <1>4, <1>5, <1>6, <1>7 DEF Next

(* The master is never left asleep: with any number of workers, batches    *)
(* and interleavings, interrupted workers included, while it waits some    *)
(* worker is at work, and the last one to finish notifies it.              *)
THEOREM MasterIsOwedWakeup == Spec => []WakeupOwed
<1>1. Init => MasterWaits
  BY DEF Init, MasterWaits, Thread
<1>2. ASSUME QueueInv, MasterWaits
      PROVE  WakeupOwed
  <2> SUFFICES ASSUME pc[Master] = "wait"
               PROVE  queue = {} /\ \E w \in Worker : pc[w] = "work"
    BY DEF WakeupOwed
  <2>1. queue = {} /\ nTodo # 0 /\ nTodo = Cardinality(Pending)
    BY <1>2 DEF MasterWaits, QueueInv
  <2>2. Pending # {}
    BY <2>1, FS_EmptySet
  <2>3. PICK s \in Thread : batch[s] # {}
    BY <2>1, <2>2, PendingIs
  <2>4. pc[s] = "work"
    BY <1>2, <2>3 DEF QueueInv
  <2> QED
    BY <2>1, <2>4 DEF Thread
<1> QED
  BY <1>1, <1>2, QueueInvariant, MasterWaitsStep, PTL DEF Spec

=============================================================================
