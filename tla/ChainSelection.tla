--------------------------- MODULE ChainSelection ---------------------------
(***************************************************************************)
(* Which chain is active: the block index, the candidate set, and the      *)
(* threads that run ActivateBestChain (src/validation.cpp).                *)
(*                                                                         *)
(* Blocks form a given tree.  A thread takes a block from the network, or  *)
(* serves one of the RPCs invalidateblock, reconsiderblock, preciousblock, *)
(* and then activates the best chain in steps.  cs_main is held during an  *)
(* action and released between two: other threads run between the steps.   *)
(*                                                                         *)
(* Left out: pruned block files, failures of the disk, shutdown, and the   *)
(* warnings about invalid chains (pindexBestInvalid).                      *)
(***************************************************************************)
EXTENDS Integers, FiniteSets

CONSTANTS
  Block, Genesis,
  Parent,       \* the parent of each block but Genesis
  Work,         \* nChainWork of each block
  Pointer,      \* the address of each block's index entry
  BadContext,   \* blocks that ContextualCheckBlock rejects
  BadConnect,   \* blocks that ConnectBlock rejects
  Thread,
  NoTarget,     \* NULL
  Rpcs,         \* bound: the RPCs that are called ("undo": see Reconsidered)
  MaxPrecious   \* bound: calls of preciousblock

ASSUME TreeAssumption ==
  /\ IsFiniteSet(Block) /\ Genesis \in Block
  /\ NoTarget \notin Block /\ "idle" \notin Block \cup {NoTarget}
  /\ Parent \in [Block \ {Genesis} -> Block]
  /\ Work \in [Block -> Nat]
  /\ \A b \in Block \ {Genesis} : Work[Parent[b]] < Work[b]
  /\ Pointer \in [Block -> Nat]
  /\ \A b, c \in Block : Pointer[b] = Pointer[c] => b = c
ASSUME BadAssumption == BadContext \cup BadConnect \subseteq Block \ {Genesis}
ASSUME RpcAssumption == Rpcs \subseteq {"invalidate", "reconsider", "undo", "precious"}
ASSUME MaxPreciousAssumption == MaxPrecious \in Nat

VARIABLES
  known,      \* mapBlockIndex: blocks whose header was accepted
  data,       \* BLOCK_HAVE_DATA
  linked,     \* nChainTx # 0: the data of the block and all its ancestors is there
  scripts,    \* BLOCK_VALID_SCRIPTS: was connected once
  invalid,    \* BLOCK_FAILED_VALID
  child,      \* BLOCK_FAILED_CHILD
  seq,        \* nSequenceId
  next,       \* nBlockSequenceId
  precious,   \* nBlockReverseSequenceId and nLastPreciousChainwork
  cand,       \* setBlockIndexCandidates
  unlinked,   \* mapBlocksUnlinked: the second components of its pairs
  failed,     \* gFailedBlocks
  tip,        \* chainActive.Tip()
  target      \* per thread: "idle", or pindexMostWork in ActivateBestChain

index == <<known, data, linked, next, precious, unlinked>>
vars == <<index, scripts, invalid, child, seq, cand, failed, tip, target>>

Init ==
  /\ known = {Genesis} /\ data = {Genesis} /\ linked = {Genesis}
  /\ scripts = {Genesis} /\ invalid = {} /\ child = {}
  /\ seq = [b \in Block |-> IF b = Genesis THEN 1 ELSE 0]
  /\ next = 2
  /\ precious = [id |-> -1, work |-> 0]
  /\ cand = {Genesis} /\ unlinked = {} /\ failed = {}
  /\ tip = Genesis
  /\ target = [t \in Thread |-> "idle"]

-----------------------------------------------------------------------------
(* The tree.                                                               *)

(* A block with its ancestors: the blocks reached by following pprev.      *)
Follows(S) == \A c \in S \ {Genesis} : Parent[c] \in S

Path == [b \in Block |->
           {a \in Block : \A S \in SUBSET Block : b \in S /\ Follows(S) => a \in S}]

Height(b) == Cardinality(Path[b])

(* The ends of a set of blocks on one chain.                               *)
Highest(S) == CHOOSE b \in S : S \subseteq Path[b]
Lowest(S) == CHOOSE b \in S : \A c \in S : b \in Path[c]

Active == Path[tip]

Failed == invalid \cup child

(* CBlockIndexWorkComparator, with the sequence numbers s.                 *)
Worse(a, b, s) ==
  \/ Work[a] < Work[b]
  \/ Work[a] = Work[b] /\ s[a] > s[b]
  \/ Work[a] = Work[b] /\ s[a] = s[b] /\ Pointer[a] > Pointer[b]

NotWorse(S, b, s) == {a \in S : ~Worse(a, b, s)}

-----------------------------------------------------------------------------
(* Headers and blocks.                                                     *)

(* The failed ancestors of p that AcceptBlockHeader looks for.             *)
FailedAncestors(p) ==
  IF p \in scripts \ Failed THEN {} ELSE failed \cap Path[p]

(* AcceptBlockHeader accepts b.                                            *)
HeaderOk(b) ==
  \/ b \in known \ Failed
  \/ /\ b \notin known
     /\ Parent[b] \in known \ Failed
     /\ FailedAncestors(Parent[b]) = {}

AcceptHeader(b) ==
  /\ b \notin known /\ HeaderOk(b)
  /\ known' = known \cup {b}
  /\ UNCHANGED <<data, linked, next, precious, unlinked,
                 scripts, invalid, child, seq, cand, failed, tip, target>>

(* A header on top of a failed block: what is between is marked.  If the   *)
(* block found is not marked as asserted, the process ends; whether that   *)
(* can happen is FailedAreMarked.                                          *)
RejectHeader(b) ==
  /\ b \notin known /\ Parent[b] \in known \ Failed
  /\ \E f \in FailedAncestors(Parent[b]) \cap invalid :
       child' = child \cup (Path[Parent[b]] \ Path[f])
  /\ UNCHANGED <<index, scripts, invalid, seq, cand, failed, tip, target>>

(* The blocks that ReceivedBlockTransactions links when the data of b      *)
(* arrives, and the numbers they may get: ancestors first.                 *)
Links(b) ==
  {c \in unlinked \cup {b} : Path[c] \ (Path[b] \cup unlinked) = {} /\ b \in Path[c]}

Numbers(L) ==
  {f \in [L -> next .. next + Cardinality(L) - 1] :
     \A c, d \in L : c # d => f[c] # f[d] /\ (Height(c) < Height(d) => f[c] < f[d])}

(* Mutant: what waited for the block is not linked. *)
MutLinked(b) == {b}

Linked(b) == Links(b)

ReceivedBlockTransactions(b) ==
  /\ data' = data \cup {b}
  /\ IF Parent[b] \in linked
     THEN LET L == Linked(b) IN
          /\ linked' = linked \cup L
          /\ unlinked' = unlinked \ L
          /\ next' = next + Cardinality(L)
          /\ \E f \in Numbers(L) :
               /\ seq' = [c \in Block |-> IF c \in L THEN f[c] ELSE seq[c]]
               /\ cand' = cand \cup NotWorse(L, tip, seq')
     ELSE /\ unlinked' = unlinked \cup (IF Parent[b] \in Failed THEN {} ELSE {b})
          /\ UNCHANGED <<linked, next, seq, cand>>

Activate(t) == target' = [target EXCEPT ![t] = NoTarget]

(* ProcessNewBlock, up to ActivateBestChain.  A block that is already      *)
(* there is ignored, and so may be one that was not asked for if it has no *)
(* more work than the tip.                                                 *)
ProcessNewBlock(t, b) ==
  /\ target[t] = "idle"
  /\ HeaderOk(b)
  /\ known' = known \cup {b}
  /\ UNCHANGED <<precious, scripts, child, failed, tip>>
  /\ \/ /\ b \in data \/ Work[b] <= Work[tip]
        /\ Activate(t)
        /\ UNCHANGED <<data, linked, next, unlinked, invalid, seq, cand>>
     \/ /\ b \in BadContext \ data
        /\ invalid' = invalid \cup {b}
        /\ UNCHANGED <<data, linked, next, unlinked, seq, cand, target>>
     \/ /\ b \notin BadContext \cup data
        /\ ReceivedBlockTransactions(b)
        /\ Activate(t)
        /\ UNCHANGED invalid

-----------------------------------------------------------------------------
(* ActivateBestChain.                                                      *)

(* The failed blocks on the way from the active chain to a candidate.      *)
FailedOn(b) == (Path[b] \ Active) \cap Failed

Sound == {b \in cand : FailedOn(b) = {}}

(* The loop of FindMostWorkChain takes the candidates from the best down,  *)
(* to the first sound one.                                                 *)
Tried == {b \in cand \ Sound : \A c \in Sound : Worse(c, b, seq)}

MostWork ==
  IF Sound = {} THEN {NoTarget} ELSE {b \in Sound : \A c \in Sound : ~Worse(b, c, seq)}

(* What a failed candidate has above its highest failed block is marked.   *)
Above(b) == Path[b] \ UNION {Path[f] : f \in FailedOn(b)}

Marked == UNION {Above(b) : b \in Tried}

Dropped == Marked \cup UNION {{f \in FailedOn(b) : FailedOn(b) \subseteq Path[f]} : b \in Tried}

(* Mutant: failed blocks are not looked for. *)
MutFindMostWorkChain ==
  {[best |-> m, cand |-> cand, child |-> child] :
     m \in {b \in cand : \A c \in cand : ~Worse(b, c, seq)}}

(* The block found (the comparator is a total order, so there is one), the *)
(* candidates left, and the blocks marked.                                 *)
FindMostWorkChain ==
  {[best |-> m, cand |-> cand \ Dropped, child |-> child \cup Marked] : m \in MostWork}

(* The same as the code does it: each iteration takes the best candidate   *)
(* of s.cand.  If there is a failed block below it, by the marks s.child   *)
(* made so far, it drops and marks what is above that block.               *)
Best(C) == CHOOSE b \in C : \A c \in C : ~Worse(b, c, seq)

FailedBy(s, b) == (Path[b] \ Active) \cap (invalid \cup s.child)

(* Mutant: what is above the failed block is dropped and not marked. *)
MutTryBest(s) ==
  LET b == Best(s.cand)
      f == Highest(FailedBy(s, b))
  IN  IF s.cand = {} \/ FailedBy(s, b) = {} THEN s
      ELSE [s EXCEPT !.cand = @ \ ((Path[b] \ Path[f]) \cup {f})]

TryBest(s) ==
  LET b     == Best(s.cand)
      f     == Highest(FailedBy(s, b))
      above == Path[b] \ Path[f]
  IN  IF s.cand = {} \/ FailedBy(s, b) = {} THEN s
      ELSE [cand |-> s.cand \ (above \cup {f}), child |-> s.child \cup above]

Iterations[n \in 0 .. Cardinality(cand)] ==
  IF n = 0 THEN [cand |-> cand, child |-> child] ELSE TryBest(Iterations[n - 1])

(* The blocks that ActivateBestChainStep connects on the way to m: it      *)
(* stops before a block that is rejected, and at one that is better than   *)
(* the old tip.                                                            *)
ToConnect(m) == Path[m] \ Active

Connectable(m) == {b \in ToConnect(m) : Path[b] \cap ToConnect(m) \cap BadConnect = {}}

Better(m) == {b \in Connectable(m) : Work[b] > Work[tip]}

NewTip(m) ==
  IF Better(m) # {} THEN Lowest(Better(m))
  ELSE Highest(Connectable(m) \cup (Path[m] \cap Active))

Connected(m) == Path[NewTip(m)] \ Active

Rejected(m) ==
  IF Better(m) = {} /\ Connectable(m) # ToConnect(m)
  THEN {Lowest(ToConnect(m) \ Connectable(m))} ELSE {}

(* Mutant: the rejected block is not marked. *)
MutInvalidBlockFound(m) == invalid

(* InvalidBlockFound marks the rejected block.                             *)
InvalidBlockFound(m) == invalid \cup Rejected(m)

(* Mutant: the tip itself is dropped too. *)
MutPruned(C, b) == {c \in C : Worse(b, c, seq)}

(* PruneBlockIndexCandidates                                               *)
Pruned(C, b) == NotWorse(C, b, seq)

(* DisconnectTip to the fork, ConnectTip from there, InvalidBlockFound.    *)
ActivateBestChainStep(t, m, C) ==
  /\ tip' = NewTip(m)
  /\ scripts' = scripts \cup (Connected(m) \ Failed)
  /\ invalid' = InvalidBlockFound(m)
  /\ failed' = failed \cup Rejected(m)
  /\ cand' = (IF Connected(m) = {} THEN C ELSE Pruned(C, NewTip(m))) \ Rejected(m)
  /\ target' = [target EXCEPT ![t] = IF Rejected(m) # {} THEN NoTarget
                                     ELSE IF NewTip(m) = m THEN "idle"
                                     ELSE m]

(* One iteration of the loop.                                              *)
ActivateBestChain(t) ==
  /\ target[t] # "idle"
  /\ \E found \in IF target[t] = NoTarget THEN FindMostWorkChain
                   ELSE {[best |-> target[t], cand |-> cand, child |-> child]} :
       /\ child' = found.child
       /\ \/ /\ found.best \in {NoTarget, tip}
             /\ cand' = found.cand
             /\ target' = [target EXCEPT ![t] = "idle"]
             /\ UNCHANGED <<scripts, invalid, failed, tip>>
          \/ /\ found.best \notin {NoTarget, tip}
             /\ ActivateBestChainStep(t, found.best, found.cand)
  /\ UNCHANGED <<index, seq>>

-----------------------------------------------------------------------------
(* The RPCs, each followed by ActivateBestChain.                           *)

InvalidateBlock(t, b) ==
  /\ "invalidate" \in Rpcs /\ target[t] = "idle"
  /\ b \in known \ {Genesis}
  /\ LET above == IF b \in Active THEN Active \ Path[b] ELSE {}
         bad   == Failed \cup above \cup {b}
     IN  /\ tip' = IF b \in Active THEN Parent[b] ELSE tip
         /\ child' = child \cup above
         /\ invalid' = invalid \cup {b}
         /\ LET again == NotWorse(linked \ bad, tip', seq)
            IN  /\ cand' = (cand \ (above \cup {b})) \cup again
                /\ failed' = (failed \cup {b}) \ again
  /\ Activate(t)
  /\ UNCHANGED <<index, scripts, seq>>

(* The bound "undo" restricts reconsiderblock to its documented use, "to   *)
(* undo the effects of invalidateblock": on the first invalid block of a   *)
(* chain.                                                                  *)
Reconsidered ==
  {b \in known : "reconsider" \in Rpcs \/ ("undo" \in Rpcs /\ Path[b] \cap invalid = {b})}

(* ResetBlockFailureFlags: of the block, its descendants and ancestors.    *)
ReconsiderBlock(t, b) ==
  /\ target[t] = "idle"
  /\ b \in Reconsidered
  /\ LET below == {c \in known : b \in Path[c] /\ (c \in Failed \/ c \notin data)}
     IN  /\ invalid' = invalid \ (below \cup Path[b])
         /\ child' = child \ (below \cup Path[b])
         /\ cand' = cand \cup {c \in below \cap linked : Worse(tip, c, seq)}
  /\ Activate(t)
  /\ UNCHANGED <<index, scripts, seq, failed, tip>>

PreciousBlock(t, b) ==
  /\ "precious" \in Rpcs /\ target[t] = "idle"
  /\ b \in known /\ Work[b] >= Work[tip]
  /\ LET id == IF Work[tip] > precious.work THEN -1 ELSE precious.id
     IN  /\ id >= -MaxPrecious
         /\ precious' = [id |-> id - 1, work |-> Work[tip]]
         /\ seq' = [seq EXCEPT ![b] = id]
  /\ cand' = IF b \in linked \ Failed
             THEN NotWorse(cand \cup {b}, tip, seq')
             ELSE cand \ {b}
  /\ Activate(t)
  /\ UNCHANGED <<known, data, linked, next, unlinked,
                 scripts, invalid, child, failed, tip>>

Next ==
  \/ \E b \in Block : AcceptHeader(b) \/ RejectHeader(b)
  \/ \E t \in Thread :
       \/ ActivateBestChain(t)
       \/ \E b \in Block :
            \/ ProcessNewBlock(t, b)
            \/ InvalidateBlock(t, b)
            \/ ReconsiderBlock(t, b)
            \/ PreciousBlock(t, b)

Fairness == \A t \in Thread : WF_vars(ActivateBestChain(t))

Spec == Init /\ [][Next]_vars

FairSpec == Spec /\ Fairness

-----------------------------------------------------------------------------
Idle == \A t \in Thread : target[t] = "idle"

KnownBad(b) == Path[b] \cap invalid # {}

(* What CheckBlockIndex asserts of setBlockIndexCandidates: a linked block *)
(* that is at least as good as the tip and not invalid is a candidate,     *)
(* nothing worse than the tip or not linked is, and no block is marked     *)
(* failed without an invalid ancestor.                                     *)
CandidatesRight ==
  Idle =>
    /\ \A b \in linked : ~Worse(b, tip, seq) /\ ~KnownBad(b) => b \in cand
    /\ \A b \in cand : b \in linked /\ ~Worse(b, tip, seq)
    /\ \A b \in Failed : KnownBad(b)

(* What it asserts of nChainTx and mapBlocksUnlinked: "All parents having  *)
(* had data (at some point) is equivalent to [...] nChainTx being set",    *)
(* and a block whose ancestors are missing waits to be linked.             *)
UnlinkedRight ==
  Idle =>
    /\ linked = {b \in known : Path[b] \subseteq data}
    /\ \A b \in data \ linked : ~KnownBad(b) => b \in unlinked
    /\ unlinked \subseteq data \ linked

(* "ActivateBestChain considers blocks already in chainActive              *)
(* unconditionally valid already": no block of the active chain is marked  *)
(* failed.                                                                 *)
ActiveChainNotFailed == Active \cap Failed = {}

(* "The result is either failure or an activated best chain"               *)
(* (ActivateBestChain): when no thread is at work, no block whose          *)
(* ancestors are all there, linked or waiting to be, has more work than    *)
(* the tip, unless one of them is known to be invalid.  The order in which *)
(* blocks came, and what was invalidated in between, do not matter.        *)
BestChainActive ==
  Idle => \A b \in known :
            Path[b] \subseteq linked \cup unlinked /\ ~KnownBad(b) => Work[b] <= Work[tip]

(* The loop of FindMostWorkChain, which marks blocks and drops candidates  *)
(* as it goes and sees its own marks, ends with the best candidate that is *)
(* sound at the start, and marks and drops nothing else than what each     *)
(* candidate it tries deserves by itself.                                  *)
LoopFindsMostWork ==
  LET end == Iterations[Cardinality(cand)]
  IN  FindMostWorkChain = {[best  |-> IF end.cand = {} THEN NoTarget ELSE Best(end.cand),
                            cand  |-> end.cand,
                            child |-> end.child]}

(* AcceptBlockHeader asserts that a block it finds in gFailedBlocks is     *)
(* marked BLOCK_FAILED_VALID.                                              *)
FailedAreMarked ==
  \A b \in Block \ known :
    Parent[b] \in known \ Failed => FailedAncestors(Parent[b]) \subseteq invalid

(* No iteration of ActivateBestChain is for nothing: unless it is the last *)
(* it marks a block invalid that was not, or leaves a tip with more work,  *)
(* or gives up a target that another thread has found to be invalid.       *)
ActivationProgresses ==
  [][\A t \in Thread : ActivateBestChain(t) =>
       \/ target'[t] = "idle"
       \/ invalid' # invalid
       \/ Work[tip'] > Work[tip]
       \/ target'[t] = NoTarget /\ target[t] \in Block /\ KnownBad(target[t])]_vars

(* Every call of ActivateBestChain returns, however the blocks arrive.     *)
ActivationEnds == \A t \in Thread : target[t] # "idle" ~> target[t] = "idle"

-----------------------------------------------------------------------------
(* The inductive invariants.                                               *)

(* The block index, whatever the threads and the RPCs do: data arrives in  *)
(* any order and is linked from Genesis up, and only what connects becomes *)
(* active.                                                                 *)
IndexInv ==
  /\ known \subseteq Block /\ data \subseteq known
  /\ linked \subseteq data /\ unlinked \subseteq data \ linked
  /\ \A b \in known : Path[b] \subseteq known
  /\ \A b \in linked : Path[b] \subseteq linked
  /\ \A b \in unlinked : Parent[b] \notin linked
  /\ data \cap BadContext = {} /\ Active \cap BadConnect = {}
  /\ invalid \subseteq known /\ child \subseteq known
  /\ tip \in linked /\ cand \subseteq linked
  /\ target \in [Thread -> linked \cup {NoTarget, "idle"}]
  /\ seq \in [Block -> Int] /\ next \in Nat
  /\ precious \in [id : Int, work : Nat]

(* Without invalidateblock a block only fails on a bad block.              *)
FailedAreBad == \A b \in Failed : Path[b] \cap (BadContext \cup BadConnect) # {}

(* A thread's target has not failed.                                       *)
TargetsNotFailed ==
  \A t \in Thread : target[t] \in Block => Path[target[t]] \cap Failed = {}

(* The candidates are the blocks at least as good as g, a block that       *)
(* connects.  At rest g is the tip; while a chain is activated the tip may *)
(* be lower, for a chain that turned out to be invalid was tried.          *)
Floor(g) ==
  /\ Path[g] \cap (invalid \cup BadConnect) = {}
  /\ ~Worse(g, tip, seq)
  /\ \A c \in cand : ~Worse(c, g, seq)
  /\ \A c \in linked \ Failed : ~Worse(c, g, seq) => c \in cand

SelectionInv ==
  /\ \A b \in Failed : KnownBad(b)
  /\ \E g \in cand : Floor(g)
  /\ Idle => cand = {tip}
  /\ \A t \in Thread : target[t] \in Block =>
       /\ target[t] \in cand /\ ~KnownBad(target[t])
       /\ \A c \in cand : ~Worse(target[t], c, seq)
  /\ precious.id <= -1 /\ \A b \in Block : seq[b] >= -1

=============================================================================
