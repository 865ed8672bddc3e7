----------------------------- MODULE CheckQueue -----------------------------
(***************************************************************************)
(* CCheckQueue and CCheckQueueControl of src/checkqueue.h: the thread pool *)
(* that verifies the scripts of a block.  The thread that connects a block *)
(* (the master) adds checks, then joins the workers until all are done and *)
(* takes the verdict.                                                      *)
(*                                                                         *)
(* A critical section of Loop runs from taking the mutex to releasing it   *)
(* or to waiting, and is one step; executing a batch touches nothing       *)
(* shared, so it is part of the step that reports its result.  A thread    *)
(* that waits on a condition variable has pc "wait"; a notified one, or    *)
(* one that wakes for no reason, has pc "woken" until it has the mutex     *)
(* again.  Checks are told apart so that each can be followed; the code    *)
(* says their order does not matter, and the model takes any batch of the  *)
(* right size.  fQuit is never set and is left out.                        *)
(***************************************************************************)
EXTENDS Integers, FiniteSets

CONSTANTS
  Worker,     \* the threads running ThreadScriptCheck
  Master,     \* the thread that connects blocks
  Check,      \* script checks
  BatchSize   \* nBatchSize (128 in the code)

ASSUME CheckQueueAssumption ==
  /\ Master \notin Worker
  /\ IsFiniteSet(Check)
  /\ BatchSize \in Nat \ {0}

Thread == Worker \cup {Master}

VARIABLES
  queue,        \* checks to be processed
  nTodo,        \* checks not completed yet, those in batches included
  nIdle,        \* threads waiting
  nTotal,       \* threads in the pool
  fAllOk,       \* the evaluation result so far
  pc,           \* where each thread is
  batch,        \* vChecks of each thread
  fOk,          \* fOk of each thread, as read with the batch
  interrupted,  \* the thread group was interrupted: the node shuts down
  verdict,      \* what the last Wait returned
  added,        \* checking only: the checks added for this block
  failing       \* the checks that return false

shared == <<queue, nTodo, nIdle, nTotal, fAllOk>>
vars == <<shared, pc, batch, fOk, interrupted, verdict, added, failing>>

Init ==
  /\ queue = {} /\ nTodo = 0 /\ nIdle = 0 /\ nTotal = 0 /\ fAllOk = TRUE
  /\ pc = [t \in Thread |-> IF t = Master THEN "free" ELSE "start"]
  /\ batch = [t \in Thread |-> {}]
  /\ fOk = [t \in Thread |-> TRUE]
  /\ interrupted = FALSE
  /\ verdict = TRUE
  /\ added = {}
  /\ failing \in SUBSET Check

-----------------------------------------------------------------------------
(* The master: CCheckQueueControl.                                         *)

(* The constructor takes ControlMutex: one block at a time.                *)
Control ==
  /\ pc[Master] = "free"
  /\ pc' = [pc EXCEPT ![Master] = "adding"]
  /\ added' = {}
  /\ UNCHANGED <<shared, batch, fOk, interrupted, verdict, failing>>

Sleeping == {w \in Worker : pc[w] = "wait"}

(* The workers an Add of A may wake: one of them, or all.                  *)
Wakes(A) ==
  IF A = {} \/ Sleeping = {} THEN {{}}
  ELSE IF Cardinality(A) = 1 THEN {{w} : w \in Sleeping}
  ELSE {Sleeping}

Add(A) ==
  /\ pc[Master] = "adding"
  /\ A \cap added = {}
  /\ queue' = queue \cup A
  /\ nTodo' = nTodo + Cardinality(A)
  /\ added' = added \cup A
  /\ \E W \in Wakes(A) :
       pc' = [t \in Thread |-> IF t \in W THEN "woken" ELSE pc[t]]
  /\ UNCHANGED <<nIdle, nTotal, fAllOk, batch, fOk, interrupted, verdict, failing>>

(* Wait, called by ConnectBlock or, when the block failed before that, by  *)
(* the destructor of the control.                                          *)
Wait ==
  /\ pc[Master] = "adding"
  /\ pc' = [pc EXCEPT ![Master] = "start"]
  /\ UNCHANGED <<shared, batch, fOk, interrupted, verdict, added, failing>>

-----------------------------------------------------------------------------
(* Loop.  A critical section begins with one of three entries, which say   *)
(* what the counters, the result and the places of the threads are then,   *)
(* and goes on with Proceed.                                               *)

(* Mutant: the master leaves as soon as the queue is empty. *)
MutMayReturn(t, todo) == t = Master

MayReturn(t, todo) == t = Master /\ todo = 0

(* Mutant: the result is not reset for the next block. *)
MutAfterReturn(ok) == ok

AfterReturn(ok) == TRUE

Return(t, todo, idle, total, ok, p) ==
  /\ queue = {} /\ MayReturn(t, todo)
  /\ nTotal' = total - 1
  /\ nIdle' = idle
  /\ verdict' = ok
  /\ fAllOk' = AfterReturn(ok)
  /\ pc' = [p EXCEPT ![t] = "free"]
  /\ batch' = [batch EXCEPT ![t] = {}]
  /\ UNCHANGED <<queue, fOk>>

(* cond.wait throws in an interrupted worker, which then leaves the pool   *)
(* with the counters as they are.                                          *)
Sleep(t, todo, idle, total, ok, p) ==
  /\ queue = {} /\ ~MayReturn(t, todo)
  /\ nTotal' = total
  /\ nIdle' = idle + 1
  /\ fAllOk' = ok
  /\ pc' = [p EXCEPT ![t] = IF interrupted /\ t # Master THEN "gone" ELSE "wait"]
  /\ batch' = [batch EXCEPT ![t] = {}]
  /\ UNCHANGED <<queue, fOk, verdict>>

(* How many checks to take: smaller batches as the queue runs out.         *)
BatchNow(total, idle) ==
  LET share == Cardinality(queue) \div (total + idle + 1)
      capped == IF share < BatchSize THEN share ELSE BatchSize
  IN  IF capped < 1 THEN 1 ELSE capped

Take(t, todo, idle, total, ok, p) ==
  \E B \in SUBSET queue :
    /\ queue # {} /\ Cardinality(B) = BatchNow(total, idle)
    /\ queue' = queue \ B
    /\ batch' = [batch EXCEPT ![t] = B]
    /\ fOk' = [fOk EXCEPT ![t] = ok]
    /\ nTotal' = total
    /\ nIdle' = idle
    /\ fAllOk' = ok
    /\ pc' = [p EXCEPT ![t] = "work"]
    /\ UNCHANGED verdict

Proceed(t, todo, idle, total, ok, p) ==
  /\ nTodo' = todo
  /\ \/ Return(t, todo, idle, total, ok, p)
     \/ Sleep(t, todo, idle, total, ok, p)
     \/ Take(t, todo, idle, total, ok, p)
  /\ UNCHANGED <<interrupted, added, failing>>

Enter(t) ==
  /\ pc[t] = "start"
  /\ Proceed(t, nTodo, nIdle, nTotal + 1, fAllOk, pc)

Wake(t) ==
  /\ pc[t] = "woken"
  /\ Proceed(t, nTodo, nIdle - 1, nTotal, fAllOk, pc)

(* The batch is executed until a check fails; none is if fOk was false.    *)
Executed(t) == fOk[t] /\ batch[t] \cap failing = {}

(* Mutant: the result of the last batch overwrites the others'. *)
MutCombined(t) == Executed(t)

Combined(t) == fAllOk /\ Executed(t)

(* Mutant: the worker that finishes last does not tell the master. *)
MutNotified(t, todo) == pc

Notified(t, todo) ==
  [s \in Thread |->
     IF s = Master /\ pc[s] = "wait" /\ todo = 0 /\ t # Master THEN "woken" ELSE pc[s]]

Finish(t) ==
  LET todo == nTodo - Cardinality(batch[t])
  IN  /\ pc[t] = "work"
      /\ Proceed(t, todo, nIdle, nTotal, Combined(t), Notified(t, todo))

(* A condition variable may wake a thread for no reason.                   *)
SpuriousWake(t) ==
  /\ pc[t] = "wait"
  /\ pc' = [pc EXCEPT ![t] = "woken"]
  /\ UNCHANGED <<shared, batch, fOk, interrupted, verdict, added, failing>>

(* Shutdown interrupts the thread group.  A worker inside cond.wait leaves,*)
(* even if it was just notified.                                           *)
Interrupt ==
  /\ ~interrupted
  /\ interrupted' = TRUE
  /\ UNCHANGED <<shared, pc, batch, fOk, verdict, added, failing>>

Leave(w) ==
  /\ interrupted
  /\ pc[w] \in {"wait", "woken"}
  /\ pc' = [pc EXCEPT ![w] = "gone"]
  /\ UNCHANGED <<shared, batch, fOk, interrupted, verdict, added, failing>>

Step(t) == Enter(t) \/ Wake(t) \/ Finish(t)

Next ==
  \/ Control
  \/ \E A \in SUBSET Check : Add(A)
  \/ Wait
  \/ \E t \in Thread : Step(t) \/ SpuriousWake(t)
  \/ Interrupt
  \/ \E w \in Worker : Leave(w)

(* Every thread that can run is run, and the code between the control's    *)
(* constructor and destructor terminates.                                  *)
Fairness == WF_vars(Wait) /\ \A t \in Thread : WF_vars(Step(t))

Spec == Init /\ [][Next]_vars /\ Fairness

-----------------------------------------------------------------------------
TypeOK ==
  /\ queue \subseteq Check /\ added \subseteq Check /\ failing \subseteq Check
  /\ nTodo \in Nat /\ nIdle \in Int /\ nTotal \in Int
  /\ fAllOk \in BOOLEAN /\ interrupted \in BOOLEAN /\ verdict \in BOOLEAN
  /\ pc \in [Thread -> {"free", "adding", "start", "wait", "woken", "work", "gone"}]
  /\ batch \in [Thread -> SUBSET Check]
  /\ fOk \in [Thread -> BOOLEAN]

(* The checks somebody still has to report on.                             *)
Pending == queue \cup UNION {batch[t] : t \in Thread}

(* The verdict a block gets is the conjunction of all of its own checks,   *)
(* whichever threads ran them, in whatever order, and whether or not the   *)
(* checks after a failure were run at all.                                 *)
VerdictRight == pc[Master] = "free" => (verdict <=> added \cap failing = {})

(* Nothing of a block is left when its Wait returns: no check is queued or *)
(* in a worker's hands, and the result starts fresh, so a bad block cannot *)
(* make the next one fail, nor a late check be counted for it.             *)
CleanHandover ==
  pc[Master] = "free" => Pending = {} /\ nTodo = 0 /\ fAllOk

(* The inductive invariant.  A check somebody has to report on is in       *)
(* exactly one place, and nTodo counts them; a thread holds checks exactly *)
(* while it works on them.  fAllOk says whether a check reported so far    *)
(* failed, where the checks a thread skips because it read a false fAllOk  *)
(* are covered by the failure that made it false.  Between two blocks      *)
(* nothing is left over.                                                   *)
QueueInv ==
  /\ TypeOK
  /\ \A w \in Worker : pc[w] \notin {"free", "adding"}
  /\ \A t \in Thread : /\ pc[t] = "work" <=> batch[t] # {}
                       /\ batch[t] \cap queue = {}
                       /\ pc[t] = "work" /\ ~fOk[t] => ~fAllOk
  /\ \A s, t \in Thread : s # t => batch[s] \cap batch[t] = {}
  /\ Pending \subseteq added /\ nTodo = Cardinality(Pending)
  /\ pc[Master] # "free" /\ fAllOk => (added \ Pending) \cap failing = {}
  /\ ~fAllOk => added \cap failing # {}
  /\ VerdictRight /\ CleanHandover

(* A sleeping master is owed a wakeup: while it waits there is nothing it  *)
(* could do itself, and some worker still holds checks and will finish.    *)
(* No notification is lost between its test of nTodo and its wait.         *)
WakeupOwed == pc[Master] = "wait" => queue = {} /\ \E w \in Worker : pc[w] = "work"

(* Wait returns: the master is neither left asleep by the worker that      *)
(* finishes last, nor by workers that leave at shutdown with work to do.   *)
WaitReturns == (pc[Master] = "adding") ~> (pc[Master] = "free")

=============================================================================
