------------------------ MODULE ChainSelectionProofs ------------------------
(***************************************************************************)
(* Proofs about ChainSelection, for any block tree: the active chain holds *)
(* no failed block, the candidate set is what CheckBlockIndex asserts, and *)
(* the best chain becomes active.                                          *)
(***************************************************************************)
EXTENDS ChainSelection, FiniteSetTheorems, WellFoundedInduction, TLAPS

-----------------------------------------------------------------------------
(* The tree.                                                               *)

(* A path holds its block and the parent of each of its blocks.            *)
LEMMA PathHolds ==
  ASSUME NEW b \in Block
  PROVE  b \in Path[b] /\ Path[b] \subseteq Block /\ Follows(Path[b])
<1>1. Path[b] = {a \in Block : \A S \in SUBSET Block : b \in S /\ Follows(S) => a \in S}
  BY Zenon DEF Path
<1>2. ASSUME NEW c \in Path[b] \ {Genesis}
      PROVE  Parent[c] \in Path[b]
  <2>1. c \in Block /\ Parent[c] \in Block
    BY <1>1, <1>2, TreeAssumption, Zenon
  <2>2. ASSUME NEW S \in SUBSET Block, b \in S, Follows(S)
        PROVE  Parent[c] \in S
    BY <1>1, <1>2, <2>2, Zenon DEF Follows
  <2> QED
    BY <1>1, <2>1, <2>2, Zenon
<1> QED
  BY <1>1, <1>2, Zenon DEF Follows

(* It is the least such set: what holds of the block, and of the parent of *)
(* each block it holds of, holds of the whole path.                        *)
LEMMA PathLeast ==
  ASSUME NEW b \in Block, NEW S \in SUBSET Block, b \in S, Follows(S)
  PROVE  Path[b] \subseteq S
  BY Zenon DEF Path

(* A block's ancestors have its ancestors.                                 *)
LEMMA PathOf ==
  ASSUME NEW b \in Block, NEW a \in Path[b]
  PROVE  a \in Block /\ Path[a] \subseteq Path[b]
<1>1. a \in Block /\ Path[b] \in SUBSET Block /\ Follows(Path[b])
  BY PathHolds, Zenon
<1> QED
  BY <1>1, PathLeast, Zenon

(* The path of a block is that of its parent and the block.                *)
LEMMA PathStep ==
  ASSUME NEW b \in Block \ {Genesis}
  PROVE  Parent[b] \in Block /\ Path[b] = Path[Parent[b]] \cup {b}
<1> DEFINE P == Path[Parent[b]] \cup {b}
<1>1. Parent[b] \in Block
  BY TreeAssumption, Zenon
<1>2. /\ Parent[b] \in Path[Parent[b]] /\ Path[Parent[b]] \subseteq Block
      /\ Follows(Path[Parent[b]])
  BY <1>1, PathHolds, Zenon
<1>3. P \in SUBSET Block /\ b \in P /\ Follows(P)
  BY <1>2, Zenon DEF Follows
<1>4. Path[b] \subseteq P
  BY <1>3, PathLeast, Zenon
<1>5. b \in Path[b] /\ Parent[b] \in Path[b]
  BY PathHolds, Zenon DEF Follows
<1>6. Path[Parent[b]] \subseteq Path[b]
  BY <1>5, PathOf, Zenon
<1> QED
  BY <1>1, <1>4, <1>5, <1>6, Zenon

LEMMA PathGenesis == Genesis \in Block /\ Path[Genesis] = {Genesis}
<1>1. Genesis \in Block
  BY TreeAssumption, Zenon
<1>2. {Genesis} \in SUBSET Block /\ Follows({Genesis})
  BY <1>1, Zenon DEF Follows
<1> QED
  BY <1>1, <1>2, PathLeast, PathHolds, Zenon

(* A proper ancestor has less work.                                        *)
LEMMA PathWork ==
  ASSUME NEW b \in Block, NEW a \in Path[b], a # b
  PROVE  Work[a] < Work[b]
<1> DEFINE S == {c \in Block : c = b \/ Work[c] < Work[b]}
<1>1. Follows(S)
  <2> SUFFICES ASSUME NEW c \in S \ {Genesis}
               PROVE  Parent[c] \in S
    BY Zenon DEF Follows
  <2>1. /\ Parent[c] \in Block /\ Work[Parent[c]] < Work[c]
        /\ Work[Parent[c]] \in Nat /\ Work[c] \in Nat /\ Work[b] \in Nat
    BY TreeAssumption, Zenon
  <2> QED
    BY <2>1
<1>2. Path[b] \subseteq S
  BY <1>1, PathLeast, Zenon
<1> QED
  BY <1>2, Zenon

(* Two ancestors of a block are on one chain.                              *)
LEMMA PathChain ==
  ASSUME NEW b \in Block, NEW a \in Path[b], NEW c \in Path[b]
  PROVE  a \in Path[c] \/ c \in Path[a]
<1> DEFINE S == {x \in Path[b] : x \in Path[c] \/ c \in Path[x]}
<1>1. c \in Block /\ Path[b] \subseteq Block /\ b \in Path[b] /\ Follows(Path[b]) /\ Follows(Path[c])
  BY PathHolds, Zenon
<1>2. Follows(S)
  <2> SUFFICES ASSUME NEW x \in S \ {Genesis}
               PROVE  Parent[x] \in S
    BY Zenon DEF Follows
  <2>1. x \in Block \ {Genesis} /\ Parent[x] \in Path[b]
    BY <1>1, Zenon DEF Follows
  <2>2. Path[x] = Path[Parent[x]] \cup {x}
    BY <2>1, PathStep, Zenon
  <2>3. x \in Path[c] => Parent[x] \in Path[c]
    BY <1>1, <2>1, Zenon DEF Follows
  <2>4. c = x => x \in Path[c]
    BY <1>1, PathHolds, Zenon
  <2> QED
    BY <2>1, <2>2, <2>3, <2>4, Zenon
<1>3. b \in S
  BY <1>1, Zenon
<1>4. Path[b] \subseteq S
  BY <1>1, <1>2, <1>3, PathLeast, Zenon
<1> QED
  BY <1>4, Zenon

(* A nonempty set of natural numbers has a least element.                  *)
LEMMA LeastNumber ==
  ASSUME NEW T \in SUBSET Nat, T # {}
  PROVE  \E m \in T : \A k \in T : m <= k
<1>1. IsWellFoundedOn(OpToRel(<, Nat), Nat)
  BY NatLessThanWellFounded, Zenon
<1>2. PICK m \in T : \A k \in T : ~(<<k, m>> \in OpToRel(<, Nat))
  BY <1>1, WFMin, Zenon
<1>3. \A k \in T : ~(k < m)
  BY <1>2, Zenon DEF OpToRel
<1> QED
  BY <1>3

(* A set of blocks on one chain has a lowest and a highest block.          *)
LEMMA Ends ==
  ASSUME NEW m \in Block, NEW S \in SUBSET Path[m], S # {}
  PROVE  /\ Lowest(S) \in S /\ \A c \in S : Lowest(S) \in Path[c]
         /\ Highest(S) \in S /\ S \subseteq Path[Highest(S)]
<1>1. \A x \in S : x \in Block /\ Work[x] \in Nat /\ Work[x] <= Work[m] /\ Work[m] \in Nat
  BY PathHolds, PathWork, TreeAssumption
<1>2. \E b \in S : \A c \in S : b \in Path[c]
  <2> DEFINE T == {Work[x] : x \in S}
  <2>1. T \in SUBSET Nat /\ T # {}
    BY <1>1, Zenon
  <2>2. PICK w \in T : \A k \in T : w <= k
    <3> HIDE DEF T
    <3> QED
      BY <2>1, LeastNumber, Zenon
  <2>3. PICK b \in S : w = Work[b]
    BY <2>2, Zenon
  <2>4. ASSUME NEW c \in S
        PROVE  b \in Path[c]
    <3>1. Work[b] <= Work[c]
      BY <2>2, <2>3, Zenon
    <3>2. CASE b \notin Path[c]
      <4>1. c \in Path[b]
        BY <3>2, PathChain, Zenon
      <4>2. c # b
        BY <1>1, <3>2, PathHolds, Zenon
      <4> QED
        BY <1>1, <3>1, <4>1, <4>2, PathWork
    <3> QED
      BY <3>2, Zenon
  <2> QED
    BY <2>4, Zenon
<1>3. \E b \in S : S \subseteq Path[b]
  <2> DEFINE T == {Work[m] - Work[x] : x \in S}
  <2>1. T \in SUBSET Nat /\ T # {}
    BY <1>1
  <2>2. PICK w \in T : \A k \in T : w <= k
    <3> HIDE DEF T
    <3> QED
      BY <2>1, LeastNumber
  <2>3. PICK b \in S : w = Work[m] - Work[b]
    BY <2>2, Zenon
  <2>4. ASSUME NEW c \in S
        PROVE  c \in Path[b]
    <3>1. Work[m] - Work[b] <= Work[m] - Work[c]
      BY <2>2, <2>3, Zenon
    <3>2. Work[c] <= Work[b]
      BY <1>1, <3>1
    <3>3. CASE c \notin Path[b]
      <4>1. b \in Path[c]
        BY <3>3, PathChain, Zenon
      <4>2. c # b
        BY <1>1, <3>3, PathHolds, Zenon
      <4> QED
        BY <1>1, <3>2, <4>1, <4>2, PathWork
    <3> QED
      BY <3>3, Zenon
  <2> QED
    BY <2>4, Zenon
<1>4. Lowest(S) \in S /\ \A c \in S : Lowest(S) \in Path[c]
  BY <1>2, Zenon DEF Lowest
<1>5. Highest(S) \in S /\ S \subseteq Path[Highest(S)]
  BY <1>3, Zenon DEF Highest
<1> QED
  BY <1>4, <1>5, Zenon

(* Every chain starts at Genesis.                                          *)
LEMMA GenesisBelow ==
  ASSUME NEW b \in Block
  PROVE  Genesis \in Path[b]
<1> DEFINE x == Lowest(Path[b])
<1>1. x \in Path[b] /\ \A c \in Path[b] : x \in Path[c]
  BY PathHolds, Ends, Zenon
<1> SUFFICES ASSUME x # Genesis
             PROVE  FALSE
  BY <1>1, Zenon
<1>2. x \in Block \ {Genesis} /\ Parent[x] \in Path[b]
  BY <1>1, PathHolds, Zenon DEF Follows
<1> HIDE DEF x
<1>3. x \in Path[Parent[x]] /\ Parent[x] \in Block /\ Work[Parent[x]] < Work[x]
  BY <1>1, <1>2, TreeAssumption, Zenon
<1>4. Work[x] <= Work[Parent[x]]
  BY <1>2, <1>3, PathWork, TreeAssumption
<1> QED
  BY <1>2, <1>3, <1>4, TreeAssumption

(* The comparator is a strict total order, for any sequence numbers.       *)
LEMMA Order ==
  ASSUME NEW s \in [Block -> Int], NEW a \in Block, NEW b \in Block, NEW c \in Block
  PROVE  /\ ~Worse(a, a, s)
         /\ Worse(a, b, s) => ~Worse(b, a, s)
         /\ Worse(a, b, s) /\ Worse(b, c, s) => Worse(a, c, s)
         /\ a = b \/ Worse(a, b, s) \/ Worse(b, a, s)
<1>1. /\ Work[a] \in Nat /\ Work[b] \in Nat /\ Work[c] \in Nat
      /\ Pointer[a] \in Nat /\ Pointer[b] \in Nat /\ Pointer[c] \in Nat
      /\ s[a] \in Int /\ s[b] \in Int /\ s[c] \in Int
      /\ (Pointer[a] = Pointer[b] => a = b)
  BY TreeAssumption, Zenon
<1> QED
  BY <1>1 DEF Worse

(* An ancestor is worse.                                                   *)
LEMMA PathWorse ==
  ASSUME NEW b \in Block, NEW a \in Path[b], a # b, NEW s
  PROVE  Worse(a, b, s)
  BY PathWork, Zenon DEF Worse

-----------------------------------------------------------------------------
(* One step of the activation.                                             *)

(* The new tip is on the way to m, above the fork, and what is connected   *)
(* is not rejected; a step that rejects nothing reaches m or a block with  *)
(* more work than the tip.                                                 *)
LEMMA StepFacts ==
  ASSUME tip \in Block, NEW m \in Block
  PROVE  /\ NewTip(m) \in Path[m] /\ NewTip(m) \in Block
         /\ Path[m] \cap Active \subseteq Path[NewTip(m)]
         /\ (Path[NewTip(m)] \ Active) \cap BadConnect = {}
         /\ Rejected(m) \subseteq Path[m] \ Path[NewTip(m)]
         /\ \A r \in Rejected(m) : r \notin Active /\ Path[r] \cap BadConnect # {}
         /\ Connected(m) = {} <=> NewTip(m) \in Active
         /\ Rejected(m) = {} => NewTip(m) = m \/ Work[NewTip(m)] > Work[tip]
         /\ NewTip(m) = m => Rejected(m) = {}
<1> DEFINE n == NewTip(m)
           Fork == Path[m] \cap Active
           C == Connectable(m)
<1>1. /\ m \in Path[m] /\ Path[m] \subseteq Block /\ Active \subseteq Block
      /\ \A a \in Path[m] : a \in Path[a] /\ Path[a] \subseteq Path[m]
      /\ \A a \in Active : Path[a] \subseteq Active
  BY PathHolds, PathOf, Zenon DEF Active
<1>2. /\ C \subseteq Path[m] \ Active /\ Better(m) \subseteq C /\ Genesis \in Fork
      /\ ToConnect(m) = Path[m] \ Active
  BY GenesisBelow, Zenon DEF Connectable, ToConnect, Better, Active
<1>3. \/ n \in Better(m)
      \/ Better(m) = {} /\ n \in C \cup Fork /\ C \cup Fork \subseteq Path[n]
  <2>1. CASE Better(m) # {}
    <3>1. Better(m) \in SUBSET Path[m]
      BY <1>2, Zenon
    <3> QED
      BY <2>1, <3>1, Ends, Zenon DEF NewTip
  <2>2. CASE Better(m) = {}
    <3>1. n = Highest(C \cup Fork) /\ C \cup Fork \in SUBSET Path[m] /\ C \cup Fork # {}
      BY <1>2, <2>2, Zenon DEF NewTip
    <3> QED
      BY <2>2, <3>1, Ends, Zenon
  <2> QED
    BY <2>1, <2>2, Zenon
<1> HIDE DEF n
<1>4. n \in Path[m] /\ n \in Block /\ n \in C \cup Fork /\ n \in Path[n]
  BY <1>1, <1>2, <1>3, Zenon
<1>5. Fork \subseteq Path[n]
  <2> SUFFICES ASSUME NEW x \in Fork, n \in C
               PROVE  x \in Path[n]
    BY <1>2, <1>3, Zenon
  <2>1. n \notin Path[x]
    BY <1>1, <1>2, Zenon
  <2> QED
    BY <1>4, <2>1, PathChain, Zenon
<1>6. (Path[n] \ Active) \cap BadConnect = {}
  <2>1. CASE n \in C
    <3>1. Path[n] \subseteq Path[m] /\ Path[n] \cap ToConnect(m) \cap BadConnect = {}
      BY <1>1, <1>4, <2>1, Zenon DEF Connectable
    <3> QED
      BY <1>2, <3>1, Zenon
  <2>2. CASE n \in Fork
    BY <1>1, <2>2, Zenon
  <2> QED
    BY <1>4, <2>1, <2>2, Zenon
<1>7. Rejected(m) # {} =>
        /\ Better(m) = {} /\ C # ToConnect(m)
        /\ \E r \in ToConnect(m) \ C : Rejected(m) = {r}
  <2> SUFFICES ASSUME Rejected(m) # {}
               PROVE  /\ Better(m) = {} /\ C # ToConnect(m)
                      /\ \E r \in ToConnect(m) \ C : Rejected(m) = {r}
    OBVIOUS
  <2>1. Better(m) = {} /\ C # ToConnect(m) /\ Rejected(m) = {Lowest(ToConnect(m) \ C)}
    BY Zenon DEF Rejected
  <2>2. ToConnect(m) \ C \in SUBSET Path[m] /\ ToConnect(m) \ C # {}
    BY <1>2, <2>1, Zenon
  <2>3. Lowest(ToConnect(m) \ C) \in ToConnect(m) \ C
    BY <2>2, Ends, Zenon
  <2> QED
    BY <2>1, <2>3, Zenon
<1>8. ASSUME NEW r \in Rejected(m)
      PROVE  r \in Path[m] \ Path[n] /\ r \notin Active /\ Path[r] \cap BadConnect # {}
  <2>1. r \in ToConnect(m) \ C
    BY <1>7, <1>8, Zenon
  <2>2. r \in Path[m] /\ r \notin Active
    BY <1>2, <2>1, Zenon
  <2>3. Path[r] \cap ToConnect(m) \cap BadConnect # {}
    BY <2>1, Zenon DEF Connectable
  <2>4. r \notin Path[n]
    <3> SUFFICES ASSUME r \in Path[n]
                 PROVE  FALSE
      OBVIOUS
    <3>1. Path[r] \subseteq Path[n] /\ r \in Path[r]
      BY <1>4, PathOf, PathHolds, Zenon
    <3>2. PICK x \in Path[r] : x \in ToConnect(m) /\ x \in BadConnect
      BY <2>3, Zenon
    <3>3. x \in (Path[n] \ Active) \cap BadConnect
      BY <1>2, <3>1, <3>2, Zenon
    <3> QED
      BY <1>6, <3>3, Zenon
  <2> QED
    BY <2>2, <2>3, <2>4, Zenon
<1>9. Connected(m) = {} <=> n \in Active
  BY <1>1, <1>4, Zenon DEF Connected, n
<1>10. Rejected(m) = {} => n = m \/ Work[n] > Work[tip]
  <2> SUFFICES ASSUME Rejected(m) = {}, n \notin Better(m)
               PROVE  n = m
    BY Zenon DEF Better
  <2>1. C = ToConnect(m)
    BY <1>3, Zenon DEF Rejected
  <2>2. m \in Path[n]
    BY <1>1, <1>2, <1>3, <2>1, Zenon
  <2>3. Work[m] \in Nat /\ Work[n] \in Nat
    BY <1>4, TreeAssumption, Zenon
  <2> QED
    BY <1>4, <2>2, <2>3, PathWork
<1>11. n = m => Rejected(m) = {}
  BY <1>1, <1>8, Zenon
<1> QED
  BY <1>4, <1>5, <1>6, <1>8, <1>9, <1>10, <1>11, Zenon DEF n

(* FindMostWorkChain marks and drops blocks above failed ones only, and    *)
(* drops all it tries.                                                     *)
LEMMA DropFacts ==
  ASSUME IndexInv
  PROVE  /\ \A c \in Marked : c \in known /\ FailedOn(c) # {}
         /\ \A c \in Dropped : FailedOn(c) # {} /\ c \in invalid \cup (child \cup Marked)
         /\ Tried \subseteq Dropped
<1>1. /\ cand \subseteq Block /\ cand \subseteq known /\ tip \in Block /\ known \subseteq Block
      /\ \A b \in cand : Path[b] \subseteq known
  BY Zenon DEF IndexInv
<1>2. \A b \in Active : Path[b] \subseteq Active
  BY <1>1, PathOf, Zenon DEF Active
<1>3. ASSUME NEW b \in cand, NEW c \in Path[b], NEW f \in FailedOn(b), c \notin Path[f]
      PROVE  f \in FailedOn(c)
  <2>1. f \in Path[b] /\ f \notin Active /\ f \in Failed
    BY Zenon DEF FailedOn
  <2>2. f \in Path[c]
    BY <1>1, <1>3, <2>1, PathChain, Zenon
  <2> QED
    BY <2>1, <2>2, Zenon DEF FailedOn
<1>4. ASSUME NEW b \in cand, NEW f \in FailedOn(b)
      PROVE  f \in FailedOn(f) /\ f \in Failed
  BY <1>1, PathHolds, Zenon DEF FailedOn
<1>5. ASSUME NEW c \in Marked
      PROVE  c \in known /\ FailedOn(c) # {}
  <2>1. PICK b \in Tried : c \in Above(b)
    BY <1>5, Zenon DEF Marked
  <2>2. b \in cand /\ FailedOn(b) # {}
    BY <2>1, Zenon DEF Tried, Sound
  <2>3. c \in Path[b] /\ \A f \in FailedOn(b) : c \notin Path[f]
    BY <2>1, Zenon DEF Above
  <2>4. PICK f \in FailedOn(b) : TRUE
    BY <2>2, Zenon
  <2> QED
    BY <1>1, <1>3, <2>2, <2>3, <2>4, Zenon
<1>6. ASSUME NEW c \in Dropped
      PROVE  FailedOn(c) # {} /\ c \in invalid \cup (child \cup Marked)
  <2>1. CASE c \in Marked
    BY <1>5, <2>1, Zenon
  <2>2. CASE c \notin Marked
    <3>1. PICK b \in Tried : c \in FailedOn(b)
      BY <1>6, <2>2, Zenon DEF Dropped
    <3>2. b \in cand
      BY <3>1, Zenon DEF Tried
    <3> QED
      BY <1>4, <3>1, <3>2, Zenon DEF Failed
  <2> QED
    BY <2>1, <2>2, Zenon
<1>7. ASSUME NEW b \in Tried
      PROVE  b \in Dropped
  <2>1. b \in Block
    BY <1>1, Zenon DEF Tried
  <2>2. CASE b \in Above(b)
    BY <2>2, Zenon DEF Dropped, Marked
  <2>3. CASE b \notin Above(b)
    <3>1. PICK f \in FailedOn(b) : b \in Path[f]
      BY <2>1, <2>3, PathHolds, Zenon DEF Above
    <3>2. f \in Path[b] /\ f \in Block
      BY <2>1, PathHolds, <3>1, Zenon DEF FailedOn
    <3>3. f = b
      <4>1. Work[f] \in Nat /\ Work[b] \in Nat
        BY <2>1, <3>2, TreeAssumption, Zenon
      <4> QED
        BY <2>1, <3>1, <3>2, <4>1, PathWork
    <3>4. b \in {g \in FailedOn(b) : FailedOn(b) \subseteq Path[g]}
      BY <3>1, <3>3, Zenon DEF FailedOn
    <3> QED
      BY <3>4, Zenon DEF Dropped
  <2> QED
    BY <2>2, <2>3, Zenon
<1> QED
  BY <1>5, <1>6, <1>7, Zenon

(* What FindMostWorkChain leaves.                                          *)
LEMMA FindFields ==
  ASSUME NEW found \in FindMostWorkChain
  PROVE  /\ found.cand = cand \ Dropped /\ found.child = child \cup Marked
         /\ found.best \in MostWork
  BY DEF FindMostWorkChain

(* What it finds is sound and the best of the candidates it leaves.        *)
LEMMA FindFacts ==
  ASSUME IndexInv, NEW found \in FindMostWorkChain
  PROVE  /\ found.cand \subseteq cand /\ child \subseteq found.child
         /\ \A c \in found.child \ child : c \in known /\ FailedOn(c) # {}
         /\ \A c \in cand \ found.cand : FailedOn(c) # {} /\ c \in invalid \cup found.child
         /\ found.best = NoTarget => \A c \in cand : FailedOn(c) # {}
         /\ found.best # NoTarget =>
              /\ found.best \in found.cand /\ FailedOn(found.best) = {}
              /\ \A c \in found.cand : ~Worse(found.best, c, seq)
<1>1. /\ found.cand = cand \ Dropped /\ found.child = child \cup Marked
      /\ found.best \in MostWork
  BY FindFields, Zenon
<1>2. /\ cand \subseteq Block /\ cand \subseteq known /\ tip \in Block /\ known \subseteq Block
      /\ \A b \in cand : Path[b] \subseteq known
  BY Zenon DEF IndexInv
<1>3. /\ \A c \in Marked : c \in known /\ FailedOn(c) # {}
      /\ \A c \in Dropped : FailedOn(c) # {} /\ c \in invalid \cup (child \cup Marked)
  BY DropFacts, Zenon
<1>4. Tried \subseteq Dropped
  BY DropFacts, Zenon
<1>5. found.best = NoTarget => \A c \in cand : FailedOn(c) # {}
  <2>1. NoTarget \notin Sound
    BY <1>2, TreeAssumption, Zenon DEF Sound
  <2> QED
    BY <1>1, <2>1, Zenon DEF MostWork, Sound
<1>6. ASSUME found.best # NoTarget
       PROVE  /\ found.best \in cand \ Dropped /\ FailedOn(found.best) = {}
              /\ \A c \in cand \ Dropped : ~Worse(found.best, c, seq)
  <2> DEFINE m == found.best
  <2>1. m \in Sound /\ \A c \in Sound : ~Worse(m, c, seq)
    BY <1>1, <1>6, Zenon DEF MostWork
  <2>2. m \in cand /\ FailedOn(m) = {} /\ m \notin Dropped
    BY <1>3, <2>1, Zenon DEF Sound
  <2>3. ASSUME NEW c \in cand \ Dropped
        PROVE  ~Worse(m, c, seq)
    <3>1. CASE c \in Sound
      BY <2>1, <3>1, Zenon
    <3>2. CASE c \notin Sound
      <4>1. c \notin Tried
        BY <1>4, <2>3, Zenon
      <4>2. PICK s \in Sound : ~Worse(s, c, seq)
        BY <3>2, <4>1, Zenon DEF Tried
      <4>3. s \in Block /\ c \in Block /\ m \in Block /\ s # c /\ seq \in [Block -> Int]
        BY <1>2, <2>2, <3>2, Zenon DEF Sound, IndexInv
      <4>4. Worse(c, s, seq) /\ ~Worse(m, s, seq)
        BY <2>1, <4>2, <4>3, Order, Zenon
      <4> HIDE DEF m
      <4> QED
        BY <4>3, <4>4, Order, Zenon
    <3> QED
      BY <3>1, <3>2, Zenon
  <2> QED
    BY <2>2, <2>3, Zenon
<1> QED
  BY <1>1, <1>3, <1>5, <1>6, Zenon

-----------------------------------------------------------------------------
(* The block index.                                                        *)

(* The arrival of the data of b links b and the waiting blocks above it,   *)
(* and leaves none waiting whose parent is linked.                         *)
LEMMA LinksFacts ==
  ASSUME IndexInv, NEW b \in Block \ {Genesis}, b \notin data, Parent[b] \in linked
  PROVE  /\ Linked(b) \subseteq unlinked \cup {b} /\ b \in Linked(b)
         /\ \A c \in Linked(b) : c \in Block /\ Path[c] \subseteq linked \cup Linked(b)
         /\ \A c \in unlinked : Parent[c] \in Linked(b) => c \in Linked(b)
         /\ Cardinality(Linked(b)) \in Nat
<1>1. /\ unlinked \subseteq Block /\ linked \subseteq Block /\ unlinked \cap linked = {}
      /\ b \in Path[b] /\ Path[b] = Path[Parent[b]] \cup {b} /\ Path[Parent[b]] \subseteq linked
      /\ Genesis \in linked
  BY PathHolds, PathStep, GenesisBelow, Zenon DEF IndexInv
<1>2. /\ Linked(b) \subseteq unlinked \cup {b} /\ b \in Linked(b)
      /\ \A c \in Linked(b) : c \in Block /\ b \in Path[c] /\ Path[c] \subseteq Path[b] \cup unlinked
  BY <1>1, Zenon DEF Linked, Links
<1>3. ASSUME NEW c \in Linked(b), NEW x \in Path[c]
      PROVE  x \in linked \cup Linked(b)
  <2>1. CASE x \in Path[b]
    BY <1>1, <1>2, <2>1, Zenon
  <2>2. CASE x \notin Path[b]
    <3>1. b \in Path[x] /\ x \in unlinked /\ Path[x] \subseteq Path[c]
      BY <1>2, <1>3, <2>2, PathChain, PathOf, Zenon
    <3> QED
      BY <1>2, <1>3, <3>1, Zenon DEF Linked, Links
  <2> QED
    BY <2>1, <2>2, Zenon
<1>4. ASSUME NEW c \in unlinked, Parent[c] \in Linked(b)
      PROVE  c \in Linked(b)
  <2>1. c \in Block \ {Genesis}
    BY <1>1, Zenon
  <2>2. Path[c] = Path[Parent[c]] \cup {c}
    BY <2>1, PathStep, Zenon
  <2> QED
    BY <1>2, <1>4, <2>2, Zenon DEF Linked, Links
<1>5. Cardinality(Linked(b)) \in Nat
  <2>1. IsFiniteSet(Block) /\ Linked(b) \subseteq Block
    BY <1>2, TreeAssumption, Zenon
  <2> QED
    BY <2>1, FS_Subset, FS_CardinalityType, Zenon
<1> QED
  BY <1>2, <1>3, <1>4, <1>5, Zenon

(* The index at the start.                                                 *)
LEMMA InitIndex ==
  ASSUME Init
  PROVE  IndexInv
<1>1. Active = {Genesis} /\ Genesis \in Block /\ Path[Genesis] = {Genesis}
  BY PathGenesis, Zenon DEF Init, Active
<1> QED
  BY <1>1, BadAssumption DEF Init, IndexInv

(* Steps that leave the index of headers and data alone.                   *)
LEMMA SameIndex ==
  ASSUME IndexInv, UNCHANGED <<known, data, linked, unlinked, next>>,
         seq' \in [Block -> Int], precious' \in [id : Int, work : Nat],
         invalid' \subseteq known, child' \subseteq known,
         tip' \in linked, cand' \subseteq linked, Path[tip'] \cap BadConnect = {},
         target' \in [Thread -> linked \cup {NoTarget, "idle"}]
  PROVE  IndexInv'
  BY Zenon DEF IndexInv, Active

(* A header is accepted or rejected.                                       *)
LEMMA HeaderIndex ==
  ASSUME IndexInv, NEW b \in Block, AcceptHeader(b) \/ RejectHeader(b)
  PROVE  IndexInv'
<1>1. CASE AcceptHeader(b)
  <2>1. /\ b \notin known /\ Parent[b] \in known /\ known' = known \cup {b}
        /\ UNCHANGED <<data, linked, next, precious, unlinked,
                       invalid, child, seq, cand, tip, target>>
    BY <1>1, Zenon DEF AcceptHeader, HeaderOk
  <2>2. b # Genesis
    BY <2>1, GenesisBelow, Zenon DEF IndexInv
  <2>3. Path[b] \subseteq known'
    BY <2>1, <2>2, PathStep DEF IndexInv
  <2>4. \A c \in known : Path[c] \subseteq known'
    BY <2>1, Zenon DEF IndexInv
  <2>5. \A c \in known' : Path[c] \subseteq known'
    BY <2>1, <2>3, <2>4, Zenon
  <2> QED
    BY <2>1, <2>5, Zenon DEF IndexInv, Active
<1>2. CASE RejectHeader(b)
  <2>1. /\ Parent[b] \in known /\ child' \subseteq child \cup Path[Parent[b]]
        /\ UNCHANGED <<known, data, linked, next, precious, unlinked,
                       invalid, seq, cand, tip, target>>
    BY <1>2, Zenon DEF RejectHeader, index
  <2>2. child' \subseteq known
    BY <2>1, Zenon DEF IndexInv
  <2> QED
    BY <2>1, <2>2, Zenon DEF IndexInv, Active
<1> QED
  BY <1>1, <1>2, Zenon

(* What ReceivedBlockTransactions does when the parent of b is linked.     *)
LEMMA ReceivedFacts ==
  ASSUME IndexInv, NEW b \in Block, b \notin data, Parent[b] \in linked,
         ReceivedBlockTransactions(b)
  PROVE  /\ b \in Linked(b) /\ Linked(b) \subseteq unlinked \cup {b}
         /\ Linked(b) \cap linked = {}
         /\ \A c \in Linked(b) : c \in Block /\ Path[c] \subseteq linked \cup Linked(b)
         /\ \A c \in unlinked : Parent[c] \in Linked(b) => c \in Linked(b)
         /\ data' = data \cup {b}
         /\ linked' = linked \cup Linked(b)
         /\ unlinked' = unlinked \ Linked(b)
         /\ next' \in Nat
         /\ seq' \in [Block -> Int]
         /\ \A c \in Block : IF c \in Linked(b) THEN seq'[c] >= next ELSE seq'[c] = seq[c]
         /\ cand' = cand \cup NotWorse(Linked(b), tip, seq')
<1> DEFINE L == Linked(b)
<1>1. b # Genesis
  BY GenesisBelow, Zenon DEF IndexInv
<1>2. /\ L \subseteq unlinked \cup {b} /\ b \in L
      /\ \A c \in L : c \in Block /\ Path[c] \subseteq linked \cup L
      /\ \A c \in unlinked : Parent[c] \in L => c \in L
      /\ Cardinality(L) \in Nat
  BY <1>1, LinksFacts, Zenon
<1>3. /\ data' = data \cup {b} /\ linked' = linked \cup L /\ unlinked' = unlinked \ L
      /\ next' = next + Cardinality(L)
  BY Zenon DEF ReceivedBlockTransactions
<1>4. PICK f \in Numbers(L) :
        /\ seq' = [c \in Block |-> IF c \in L THEN f[c] ELSE seq[c]]
        /\ cand' = cand \cup NotWorse(L, tip, seq')
  BY Zenon DEF ReceivedBlockTransactions
<1>5. f \in [L -> next .. next + Cardinality(L) - 1]
  BY Zenon DEF Numbers
<1>6. next \in Nat /\ seq \in [Block -> Int]
  BY Zenon DEF IndexInv
<1> HIDE DEF L
<1>7. \A c \in L : f[c] \in Int /\ f[c] >= next
  BY <1>2, <1>5, <1>6
<1>8. seq' \in [Block -> Int]
  BY <1>4, <1>6, <1>7, Zenon
<1>9. \A c \in Block : IF c \in L THEN seq'[c] >= next ELSE seq'[c] = seq[c]
  BY <1>4, <1>7, Zenon
<1>10. next' \in Nat
  BY <1>2, <1>3, <1>6
<1>11. L \cap linked = {}
  BY <1>2, Zenon DEF IndexInv
<1> QED
  BY <1>2, <1>3, <1>4, <1>8, <1>9, <1>10, <1>11, Zenon DEF L

(* A block from the network.                                               *)
LEMMA NewBlockIndex ==
  ASSUME IndexInv, NEW t \in Thread, NEW b \in Block, ProcessNewBlock(t, b)
  PROVE  IndexInv'
<1>1. /\ known' = known \cup {b} /\ UNCHANGED <<precious, child, tip>>
      /\ target' \in [Thread -> linked \cup {NoTarget, "idle"}]
  BY Zenon DEF ProcessNewBlock, Activate, IndexInv
<1>2. known' \subseteq Block /\ \A c \in known' : Path[c] \subseteq known'
  <2>1. CASE b \in known
    BY <1>1, <2>1, Zenon DEF IndexInv
  <2>2. CASE b \notin known
    <3>1. b # Genesis /\ Parent[b] \in known
      BY <2>2, GenesisBelow, Zenon DEF ProcessNewBlock, HeaderOk, IndexInv
    <3>2. Path[b] \subseteq known'
      BY <1>1, <3>1, PathStep DEF IndexInv
    <3> QED
      BY <1>1, <3>2, Zenon DEF IndexInv
  <2> QED
    BY <2>1, <2>2, Zenon
<1>3. CASE UNCHANGED <<data, linked, next, unlinked, seq, cand>> /\ invalid' \subseteq known'
  BY <1>1, <1>2, <1>3, Zenon DEF IndexInv, Active
<1>4. CASE b \notin BadContext \cup data /\ ReceivedBlockTransactions(b) /\ UNCHANGED invalid
  <2>1. data' = data \cup {b} /\ data' \subseteq known' /\ data' \cap BadContext = {}
    BY <1>1, <1>4 DEF ReceivedBlockTransactions, IndexInv
  <2>2. CASE Parent[b] \in linked
    <3>1. /\ Linked(b) \subseteq unlinked \cup {b} /\ Linked(b) \cap linked = {}
          /\ \A c \in Linked(b) : c \in Block /\ Path[c] \subseteq linked \cup Linked(b)
          /\ \A c \in unlinked : Parent[c] \in Linked(b) => c \in Linked(b)
          /\ linked' = linked \cup Linked(b) /\ unlinked' = unlinked \ Linked(b)
          /\ next' \in Nat /\ seq' \in [Block -> Int]
          /\ cand' \subseteq cand \cup Linked(b)
      BY <1>4, <2>2, ReceivedFacts, Zenon DEF NotWorse
    <3>2. linked' \subseteq data' /\ unlinked' \subseteq data' \ linked'
      BY <2>1, <3>1, Zenon DEF IndexInv
    <3>3. \A c \in linked' : Path[c] \subseteq linked'
      BY <3>1, Zenon DEF IndexInv
    <3>4. \A c \in unlinked' : Parent[c] \notin linked'
      BY <3>1, Zenon DEF IndexInv
    <3>5. cand' \subseteq linked' /\ tip' \in linked' /\ linked \subseteq linked'
      BY <1>1, <3>1, Zenon DEF IndexInv
    <3>6. target' \in [Thread -> linked' \cup {NoTarget, "idle"}]
      BY <1>1, <3>5, Zenon
    <3> QED
      BY <1>1, <1>2, <1>4, <2>1, <3>1, <3>2, <3>3, <3>4, <3>5, <3>6, Zenon DEF IndexInv, Active
  <2>3. CASE Parent[b] \notin linked
    <3>1. /\ UNCHANGED <<linked, next, seq, cand>>
          /\ unlinked' \subseteq unlinked \cup {b}
      BY <1>4, <2>3, Zenon DEF ReceivedBlockTransactions
    <3>2. linked' \subseteq data' /\ unlinked' \subseteq data' \ linked'
      BY <1>4, <2>1, <3>1, Zenon DEF IndexInv
    <3>3. \A c \in unlinked' : Parent[c] \notin linked'
      BY <2>3, <3>1, Zenon DEF IndexInv
    <3> QED
      BY <1>1, <1>2, <1>4, <2>1, <3>1, <3>2, <3>3, Zenon DEF IndexInv, Active
  <2> QED
    BY <2>2, <2>3, Zenon
<1>5. \/ UNCHANGED <<data, linked, next, unlinked, seq, cand>> /\ invalid' \subseteq known'
      \/ b \notin BadContext \cup data /\ ReceivedBlockTransactions(b) /\ UNCHANGED invalid
  BY <1>1, Zenon DEF ProcessNewBlock, IndexInv
<1> QED
  BY <1>3, <1>4, <1>5, Zenon

(* What an iteration of ActivateBestChain works with.                      *)
Found(t) ==
  IF target[t] = NoTarget THEN FindMostWorkChain
  ELSE {[best |-> target[t], cand |-> cand, child |-> child]}

(* The target of an iteration, new or kept, and what it marked.            *)
LEMMA FoundFacts ==
  ASSUME IndexInv, NEW t \in Thread, target[t] # "idle", NEW found \in Found(t)
  PROVE  /\ found.best \in linked \cup {NoTarget}
         /\ found.cand \subseteq cand
         /\ child \subseteq found.child /\ found.child \subseteq known
         /\ \A c \in found.child \ child : FailedOn(c) # {}
<1>1. CASE target[t] = NoTarget
  <2>1. found \in FindMostWorkChain
    BY <1>1, Zenon DEF Found
  <2> QED
    BY <2>1, FindFacts, Zenon DEF IndexInv
<1>2. CASE target[t] # NoTarget
  <2>1. found = [best |-> target[t], cand |-> cand, child |-> child]
    BY <1>2, Zenon DEF Found
  <2> QED
    BY <2>1, Zenon DEF IndexInv
<1> QED
  BY <1>1, <1>2, Zenon

(* An iteration of ActivateBestChain.                                      *)
LEMMA ActivateIndex ==
  ASSUME IndexInv, NEW t \in Thread, ActivateBestChain(t)
  PROVE  IndexInv'
<1>1. PICK found \in Found(t) :
        /\ child' = found.child
        /\ \/ /\ found.best \in {NoTarget, tip} /\ cand' = found.cand
              /\ target' = [target EXCEPT ![t] = "idle"]
              /\ UNCHANGED <<scripts, invalid, failed, tip>>
           \/ /\ found.best \notin {NoTarget, tip}
              /\ ActivateBestChainStep(t, found.best, found.cand)
  BY Zenon DEF ActivateBestChain, Found
<1>2. UNCHANGED <<known, data, linked, unlinked, next, precious, seq>> /\ target[t] # "idle"
  BY Zenon DEF ActivateBestChain, index
<1>3. /\ found.best \in linked \cup {NoTarget} /\ found.cand \subseteq linked
      /\ child' \subseteq known
  BY <1>1, <1>2, FoundFacts, Zenon DEF IndexInv
<1>4. /\ seq' \in [Block -> Int] /\ precious' \in [id : Int, work : Nat]
      /\ target \in [Thread -> linked \cup {NoTarget, "idle"}]
  BY <1>2, Zenon DEF IndexInv
<1>5. CASE found.best \in {NoTarget, tip}
  <2>1. /\ cand' \subseteq linked /\ UNCHANGED <<invalid, tip>>
        /\ target' \in [Thread -> linked \cup {NoTarget, "idle"}]
    BY <1>1, <1>3, <1>4, <1>5, Zenon
  <2>2. invalid' \subseteq known /\ tip' \in linked /\ Path[tip'] \cap BadConnect = {}
    BY <2>1, Zenon DEF IndexInv, Active
  <2> QED
    BY <1>2, <1>3, <1>4, <2>1, <2>2, SameIndex, Zenon
<1>6. CASE found.best \notin {NoTarget, tip}
  <2> DEFINE m == found.best
             n == NewTip(m)
  <2>1. m \in linked /\ m \in Block /\ tip \in Block /\ Path[m] \subseteq linked
    BY <1>3, <1>6, Zenon DEF IndexInv
  <2> HIDE DEF m
  <2>2. /\ n \in Path[m] /\ (Path[n] \ Active) \cap BadConnect = {}
        /\ Rejected(m) \subseteq Path[m]
    BY <2>1, StepFacts, Zenon
  <2>3. /\ tip' = n /\ invalid' = invalid \cup Rejected(m)
        /\ cand' \subseteq found.cand
        /\ \E x \in {NoTarget, "idle", m} : target' = [target EXCEPT ![t] = x]
    BY <1>1, <1>6, Zenon DEF ActivateBestChainStep, InvalidBlockFound, Pruned, NotWorse, m
  <2>4. tip' \in linked /\ invalid' \subseteq known /\ cand' \subseteq linked
    BY <1>3, <2>1, <2>2, <2>3, Zenon DEF IndexInv
  <2>5. Path[tip'] \cap BadConnect = {}
    BY <2>2, <2>3, Zenon DEF IndexInv
  <2>6. target' \in [Thread -> linked \cup {NoTarget, "idle"}]
    BY <1>4, <2>1, <2>3, Zenon
  <2> QED
    BY <1>2, <1>3, <1>4, <2>4, <2>5, <2>6, SameIndex, Zenon
<1> QED
  BY <1>5, <1>6, Zenon

(* The RPCs.                                                               *)
LEMMA RpcIndex ==
  ASSUME IndexInv, NEW t \in Thread, NEW b \in Block,
         InvalidateBlock(t, b) \/ ReconsiderBlock(t, b) \/ PreciousBlock(t, b)
  PROVE  IndexInv'
<1>1. target' \in [Thread -> linked \cup {NoTarget, "idle"}]
  BY Zenon DEF IndexInv, InvalidateBlock, ReconsiderBlock, PreciousBlock, Activate
<1>2. CASE InvalidateBlock(t, b)
  <2>1. /\ UNCHANGED <<known, data, linked, unlinked, next, precious, seq>>
        /\ b \in known \ {Genesis} /\ b \in Block
        /\ tip' = IF b \in Active THEN Parent[b] ELSE tip
        /\ child' \subseteq child \cup Active /\ invalid' = invalid \cup {b}
        /\ cand' \subseteq cand \cup linked
    BY <1>2, Zenon DEF InvalidateBlock, index, NotWorse
  <2>2. Active \subseteq linked /\ Active \cap BadConnect = {}
    BY Zenon DEF IndexInv, Active
  <2>3. tip' \in Active /\ Path[tip'] \subseteq Active
    <3>1. tip \in Block /\ tip \in Active /\ Follows(Active)
      BY PathHolds, Zenon DEF IndexInv, Active
    <3>2. tip' \in Active
      BY <2>1, <3>1, Zenon DEF Follows
    <3> QED
      BY <3>1, <3>2, PathOf, Zenon DEF Active
  <2>4. /\ seq' \in [Block -> Int] /\ precious' \in [id : Int, work : Nat]
        /\ invalid' \subseteq known /\ child' \subseteq known /\ cand' \subseteq linked
    BY <2>1, <2>2, Zenon DEF IndexInv
  <2> QED
    BY <1>1, <2>1, <2>2, <2>3, <2>4, SameIndex, Zenon
<1>3. CASE ReconsiderBlock(t, b)
  <2>1. /\ UNCHANGED <<known, data, linked, unlinked, next, precious, seq, tip>>
        /\ child' \subseteq child /\ invalid' \subseteq invalid /\ cand' \subseteq cand \cup linked
    BY <1>3, Zenon DEF ReconsiderBlock, index
  <2> QED
    BY <1>1, <2>1, Zenon DEF IndexInv, Active
<1>4. CASE PreciousBlock(t, b)
  <2>1. /\ UNCHANGED <<known, data, linked, unlinked, next, invalid, child, tip>>
        /\ cand' \subseteq cand \cup linked
    BY <1>4, Zenon DEF PreciousBlock, NotWorse
  <2>2. PICK id \in {-1, precious.id} :
          precious' = [id |-> id - 1, work |-> Work[tip]] /\ seq' = [seq EXCEPT ![b] = id]
    BY <1>4, Zenon DEF PreciousBlock
  <2>3. Work[tip] \in Nat /\ id \in Int /\ seq \in [Block -> Int]
    <3>1. tip \in Block /\ precious.id \in Int /\ seq \in [Block -> Int]
      BY Zenon DEF IndexInv
    <3> QED
      BY <3>1, TreeAssumption
  <2>4. seq' \in [Block -> Int]
    BY <2>2, <2>3, Zenon
  <2>5. precious' \in [id : Int, work : Nat]
    <3>1. id - 1 \in Int
      BY <2>3
    <3> QED
      BY <2>2, <2>3, <3>1, Zenon
  <2> QED
    BY <1>1, <2>1, <2>4, <2>5, Zenon DEF IndexInv, Active
<1> QED
  BY <1>2, <1>3, <1>4, Zenon

(* Every step preserves the index invariant.                               *)
LEMMA NextIndex ==
  ASSUME IndexInv, [Next]_vars
  PROVE  IndexInv'
<1>1. CASE UNCHANGED vars
  BY <1>1, Zenon DEF vars, index, IndexInv, Active
<1> QED
  BY <1>1, HeaderIndex, NewBlockIndex, ActivateIndex, RpcIndex, Zenon DEF Next

(* The index is sound for any tree, threads and calls.                     *)
THEOREM IndexInvariant == Spec => []IndexInv
<1>1. Init => IndexInv
  BY InitIndex, Zenon
<1>2. IndexInv /\ [Next]_vars => IndexInv'
  BY NextIndex, Zenon
<1> QED
  BY <1>1, <1>2, PTL DEF Spec

-----------------------------------------------------------------------------
(* The active chain holds no failed block.                                 *)

(* A rejected header marks blocks above an invalid one.                    *)
LEMMA RejectMarks ==
  ASSUME IndexInv, NEW b \in Block, RejectHeader(b)
  PROVE  /\ UNCHANGED <<index, scripts, invalid, seq, cand, failed, tip, target>>
         /\ child \subseteq child'
         /\ \A c \in child' \ child : \E f \in invalid : f \in Path[c]
<1>1. PICK f \in FailedAncestors(Parent[b]) \cap invalid :
        child' = child \cup (Path[Parent[b]] \ Path[f])
  BY Zenon DEF RejectHeader
<1>2. Parent[b] \in Block /\ f \in Path[Parent[b]]
  BY <1>1, Zenon DEF RejectHeader, FailedAncestors, IndexInv
<1>3. \A c \in Path[Parent[b]] \ Path[f] : f \in Path[c]
  BY <1>2, PathChain, Zenon
<1> QED
  BY <1>1, <1>3, Zenon DEF RejectHeader

(* Without invalidateblock, what fails is above a bad block, whatever the  *)
(* number of threads.                                                      *)
LEMMA NextFailedAreBad ==
  ASSUME "invalidate" \notin Rpcs, IndexInv, FailedAreBad, [Next]_vars
  PROVE  FailedAreBad'
<1> DEFINE Bad(c) == Path[c] \cap (BadContext \cup BadConnect) # {}
<1>1. SUFFICES ASSUME NEW c \in Failed', c \notin Failed
               PROVE  Bad(c)
  BY Zenon DEF FailedAreBad
<1>2. ASSUME NEW x \in Failed, x \in Path[c], c \in Block
      PROVE  Bad(c)
  BY <1>2, PathOf, Zenon DEF FailedAreBad
<1>3. ASSUME NEW b \in Block, RejectHeader(b)
      PROVE  Bad(c)
  <2>1. c \in child' \ child
    BY <1>1, <1>3, RejectMarks, Zenon DEF Failed
  <2>2. c \in Block
    BY <1>3, <2>1, HeaderIndex, Zenon DEF IndexInv
  <2> QED
    BY <1>2, <1>3, <2>1, <2>2, RejectMarks, Zenon DEF Failed
<1>4. ASSUME NEW t \in Thread, ActivateBestChain(t)
      PROVE  Bad(c)
  <2>1. PICK found \in Found(t) :
          /\ child' = found.child
          /\ \/ UNCHANGED invalid
             \/ /\ found.best \notin {NoTarget, tip}
                /\ invalid' = invalid \cup Rejected(found.best)
    BY <1>4, Zenon DEF ActivateBestChain, Found, ActivateBestChainStep, InvalidBlockFound
  <2>2. target[t] # "idle"
    BY <1>4, Zenon DEF ActivateBestChain
  <2>3. CASE c \in child'
    <3>1. c \in known /\ FailedOn(c) # {}
      BY <1>1, <2>1, <2>2, <2>3, FoundFacts, Zenon DEF Failed
    <3>2. PICK x \in Failed : x \in Path[c]
      BY <3>1, Zenon DEF FailedOn
    <3> QED
      BY <1>2, <3>1, <3>2, Zenon DEF IndexInv
  <2>4. CASE c \notin child'
    <3>1. c \in Rejected(found.best) /\ found.best # NoTarget
      BY <1>1, <2>1, <2>4, Zenon DEF Failed
    <3>2. found.best \in Block /\ tip \in Block
      BY <2>2, <3>1, FoundFacts, Zenon DEF IndexInv
    <3> QED
      BY <3>1, <3>2, StepFacts
  <2> QED
    BY <2>3, <2>4, Zenon
<1>5. ASSUME NEW t \in Thread, NEW b \in Block, ProcessNewBlock(t, b)
      PROVE  Bad(c)
  <2>1. c = b /\ b \in BadContext
    BY <1>1, <1>5, Zenon DEF ProcessNewBlock, Failed
  <2> QED
    BY <2>1, PathHolds, Zenon
<1>6. CASE UNCHANGED vars
  BY <1>1, <1>6, Zenon DEF vars, Failed
<1>7. ASSUME NEW b \in Block, AcceptHeader(b)
      PROVE  Bad(c)
  BY <1>1, <1>7, Zenon DEF AcceptHeader, Failed
<1>8. ASSUME NEW t \in Thread, NEW b \in Block, ReconsiderBlock(t, b) \/ PreciousBlock(t, b)
      PROVE  Bad(c)
  BY <1>1, <1>8, Zenon DEF ReconsiderBlock, PreciousBlock, Failed
<1>9. ~\E t \in Thread, b \in Block : InvalidateBlock(t, b)
  BY Zenon DEF InvalidateBlock
<1> QED
  BY <1>3, <1>4, <1>5, <1>6, <1>7, <1>8, <1>9, Zenon DEF Next

(* What is bad is never active.                                            *)
LEMMA BadNotActive ==
  ASSUME IndexInv, FailedAreBad
  PROVE  ActiveChainNotFailed
<1> SUFFICES ASSUME NEW c \in Active \cap Failed
             PROVE  FALSE
  BY Zenon DEF ActiveChainNotFailed
<1>1. Path[c] \subseteq Active
  BY PathOf, Zenon DEF Active, IndexInv
<1>2. Active \cap (BadContext \cup BadConnect) = {}
  BY Zenon DEF IndexInv, Active
<1> QED
  BY <1>1, <1>2, Zenon DEF FailedAreBad

(* One thread at a time activates a chain or serves an RPC.                *)
Alone == \A t, u \in Thread : t = u

(* The blocks on the way to a target, new or kept, have not failed.        *)
LEMMA FoundNotFailed ==
  ASSUME IndexInv, ActiveChainNotFailed, TargetsNotFailed,
         NEW t \in Thread, target[t] # "idle", NEW found \in Found(t)
  PROVE  /\ Active \cap found.child = {}
         /\ found.best # NoTarget => Path[found.best] \cap (invalid \cup found.child) = {}
<1>1. ASSUME NEW m \in Block, FailedOn(m) = {}
      PROVE  Path[m] \cap (invalid \cup found.child) = {}
  <2> SUFFICES ASSUME NEW c \in Path[m], c \in invalid \cup found.child
               PROVE  FALSE
    OBVIOUS
  <2>1. c \in Active \/ c \notin Failed
    BY <1>1, Zenon DEF FailedOn
  <2>2. c \notin Failed
    BY <2>1, Zenon DEF ActiveChainNotFailed
  <2>3. c \in found.child \ child
    BY <2>2, Zenon DEF Failed
  <2>4. FailedOn(c) # {}
    BY <2>3, FoundFacts, Zenon
  <2>5. Path[c] \subseteq Path[m]
    BY PathOf, Zenon
  <2> QED
    BY <1>1, <2>4, <2>5, Zenon DEF FailedOn
<1>2. Active \cap found.child = {}
  <2>1. tip \in Block /\ FailedOn(tip) = {}
    BY Zenon DEF IndexInv, FailedOn, Active
  <2> QED
    BY <1>1, <2>1, Zenon DEF Active
<1>3. ASSUME found.best # NoTarget
      PROVE  Path[found.best] \cap (invalid \cup found.child) = {}
  <2>1. found.best \in Block
    BY <1>3, FoundFacts, Zenon DEF IndexInv
  <2>2. CASE target[t] = NoTarget
    <3>1. found \in FindMostWorkChain
      BY <2>2, Zenon DEF Found
    <3> QED
      BY <1>1, <1>3, <2>1, <3>1, FindFacts, Zenon
  <2>3. CASE target[t] # NoTarget
    <3>1. found = [best |-> target[t], cand |-> cand, child |-> child]
      BY <2>3, Zenon DEF Found
    <3> QED
      BY <2>1, <3>1, Zenon DEF TargetsNotFailed, Failed
  <2> QED
    BY <2>2, <2>3, Zenon
<1> QED
  BY <1>2, <1>3, Zenon

(* A single thread never makes a failed block active.                      *)
LEMMA NextNotFailed ==
  ASSUME Alone, IndexInv, ActiveChainNotFailed, TargetsNotFailed, [Next]_vars
  PROVE  ActiveChainNotFailed' /\ TargetsNotFailed'
<1>0. /\ tip \in Block /\ target \in [Thread -> linked \cup {NoTarget, "idle"}]
      /\ Active \subseteq Block /\ linked \subseteq Block /\ tip \in Active /\ Follows(Active)
      /\ \A a \in Active : Path[a] \subseteq Active
  BY PathHolds, PathOf, Zenon DEF IndexInv, Active
<1>1. ASSUME NEW t \in Thread, NEW x \in {NoTarget, "idle"}, target' = [target EXCEPT ![t] = x]
      PROVE  TargetsNotFailed'
  <2>1. \A u \in Thread : target'[u] = x
    BY <1>0, <1>1, Zenon DEF Alone
  <2> QED
    BY <2>1, TreeAssumption, Zenon DEF TargetsNotFailed
<1>2. CASE UNCHANGED <<invalid, child, tip, target>>
  BY <1>2, Zenon DEF ActiveChainNotFailed, TargetsNotFailed, Active, Failed
<1>3. ASSUME NEW b \in Block, RejectHeader(b)
      PROVE  ActiveChainNotFailed' /\ TargetsNotFailed'
  <2>1. ASSUME NEW m \in Block, Path[m] \cap Failed = {}
        PROVE  Path[m] \cap Failed' = {}
    <3> SUFFICES ASSUME NEW c \in Path[m], c \in child' \ child
                 PROVE  FALSE
      BY <1>3, <2>1, RejectMarks, Zenon DEF Failed
    <3>1. PICK f \in invalid : f \in Path[c]
      BY <1>3, RejectMarks, Zenon
    <3>2. f \in Path[m]
      BY <3>1, PathOf, Zenon
    <3> QED
      BY <2>1, <3>2, Zenon DEF Failed
  <2>2. UNCHANGED <<tip, target>>
    BY <1>3, Zenon DEF RejectHeader
  <2> QED
    BY <1>0, <2>1, <2>2, Zenon DEF ActiveChainNotFailed, TargetsNotFailed, Active
<1>4. ASSUME NEW t \in Thread, ActivateBestChain(t)
      PROVE  ActiveChainNotFailed' /\ TargetsNotFailed'
  <2>1. PICK found \in Found(t) :
          /\ child' = found.child
          /\ \/ /\ found.best \in {NoTarget, tip} /\ cand' = found.cand
                /\ target' = [target EXCEPT ![t] = "idle"]
                /\ UNCHANGED <<scripts, invalid, failed, tip>>
             \/ /\ found.best \notin {NoTarget, tip}
                /\ ActivateBestChainStep(t, found.best, found.cand)
    BY <1>4, Zenon DEF ActivateBestChain, Found
  <2>2. target[t] # "idle"
    BY <1>4, Zenon DEF ActivateBestChain
  <2>3. /\ Active \cap child' = {} /\ found.best \in linked \cup {NoTarget}
        /\ found.best # NoTarget => Path[found.best] \cap (invalid \cup child') = {}
    BY <2>1, <2>2, FoundFacts, FoundNotFailed, Zenon
  <2>4. CASE found.best \in {NoTarget, tip}
    BY <1>1, <2>1, <2>3, <2>4, Zenon DEF ActiveChainNotFailed, Active, Failed
  <2>5. CASE found.best \notin {NoTarget, tip}
    <3> DEFINE m == found.best
               n == NewTip(m)
    <3>1. m \in Block /\ Path[m] \cap (invalid \cup child') = {}
      BY <1>0, <2>3, <2>5, Zenon
    <3> HIDE DEF m
    <3>2. n \in Path[m] /\ Rejected(m) \cap Path[n] = {} /\ Path[n] \subseteq Path[m]
      BY <1>0, <3>1, StepFacts, PathOf, Zenon
    <3>3. /\ tip' = n /\ invalid' = invalid \cup Rejected(m)
          /\ target' = [target EXCEPT ![t] = IF Rejected(m) # {} THEN NoTarget
                                             ELSE IF n = m THEN "idle" ELSE m]
      BY <2>1, <2>5, Zenon DEF ActivateBestChainStep, InvalidBlockFound, m
    <3>4. ActiveChainNotFailed'
      BY <3>1, <3>2, <3>3, Zenon DEF ActiveChainNotFailed, Active, Failed
    <3>5. CASE Rejected(m) # {} \/ n = m
      BY <1>1, <3>3, <3>4, <3>5, Zenon
    <3>6. CASE Rejected(m) = {} /\ n # m
      <4>1. \A u \in Thread : target'[u] = m
        BY <1>0, <3>3, <3>6, Zenon DEF Alone
      <4> QED
        BY <3>1, <3>3, <3>4, <3>6, <4>1, Zenon DEF TargetsNotFailed, Failed
    <3> QED
      BY <3>5, <3>6, Zenon
  <2> QED
    BY <2>4, <2>5, Zenon
<1>5. ASSUME NEW t \in Thread, NEW b \in Block, ProcessNewBlock(t, b)
      PROVE  ActiveChainNotFailed' /\ TargetsNotFailed'
  <2>1. target[t] = "idle" /\ UNCHANGED <<child, tip>> /\ invalid' \subseteq invalid \cup ({b} \ data)
    BY <1>5, Zenon DEF ProcessNewBlock
  <2>2. target' = target \/ target' = [target EXCEPT ![t] = NoTarget]
    BY <1>5, Zenon DEF ProcessNewBlock, Activate
  <2>3. \A u \in Thread : target[u] = "idle"
    BY <2>1, Zenon DEF Alone
  <2>4. TargetsNotFailed'
    <3>1. CASE target' = target
      BY <2>3, <3>1, TreeAssumption, Zenon DEF TargetsNotFailed
    <3> QED
      BY <1>1, <2>2, <3>1, Zenon
  <2>5. Active \subseteq data
    BY Zenon DEF IndexInv, Active
  <2> QED
    BY <2>1, <2>4, <2>5, Zenon DEF ActiveChainNotFailed, Active, Failed
<1>6. ASSUME NEW t \in Thread, NEW b \in Block, InvalidateBlock(t, b)
      PROVE  ActiveChainNotFailed' /\ TargetsNotFailed'
  <2>1. /\ target' = [target EXCEPT ![t] = NoTarget] /\ b # Genesis
        /\ tip' = IF b \in Active THEN Parent[b] ELSE tip
        /\ child' = child \cup (IF b \in Active THEN Active \ Path[b] ELSE {})
        /\ invalid' = invalid \cup {b}
    BY <1>6, Zenon DEF InvalidateBlock, Activate
  <2>2. CASE b \in Active
    <3>1. Path[b] = Path[Parent[b]] \cup {b} /\ Parent[b] \in Active /\ Parent[b] \in Block
      BY <1>0, <2>1, <2>2, PathStep, Zenon DEF Follows
    <3>2. b \notin Path[Parent[b]]
      BY <2>1, <3>1, PathWork, TreeAssumption
    <3>3. Path[tip'] \subseteq Active /\ Path[tip'] \subseteq Path[b] \ {b}
      BY <1>0, <2>1, <2>2, <3>1, <3>2, Zenon
    <3> QED
      BY <1>1, <2>1, <2>2, <3>3, Zenon DEF ActiveChainNotFailed, Active, Failed
  <2>3. CASE b \notin Active
    BY <1>1, <2>1, <2>3, Zenon DEF ActiveChainNotFailed, Active, Failed
  <2> QED
    BY <2>2, <2>3, Zenon
<1>7. ASSUME NEW t \in Thread, NEW b \in Block, ReconsiderBlock(t, b) \/ PreciousBlock(t, b)
      PROVE  ActiveChainNotFailed' /\ TargetsNotFailed'
  <2>1. /\ target' = [target EXCEPT ![t] = NoTarget] /\ tip' = tip
        /\ invalid' \subseteq invalid /\ child' \subseteq child
    BY <1>7, Zenon DEF ReconsiderBlock, PreciousBlock, Activate
  <2> QED
    BY <1>1, <2>1, Zenon DEF ActiveChainNotFailed, Active, Failed
<1>8. ASSUME NEW b \in Block, AcceptHeader(b)
      PROVE  ActiveChainNotFailed' /\ TargetsNotFailed'
  BY <1>2, <1>8, Zenon DEF AcceptHeader
<1>9. CASE UNCHANGED vars
  BY <1>2, <1>9, Zenon DEF vars
<1> QED
  BY <1>3, <1>4, <1>5, <1>6, <1>7, <1>8, <1>9, Zenon DEF Next

(* When activations do not overlap, neither the active chain nor a target  *)
(* that a thread keeps has failed.                                         *)
LEMMA LoneTargets ==
  ASSUME Alone
  PROVE  Spec => [](ActiveChainNotFailed /\ TargetsNotFailed)
<1>1. Init => ActiveChainNotFailed /\ TargetsNotFailed
  BY TreeAssumption, Zenon DEF Init, ActiveChainNotFailed, TargetsNotFailed, Failed
<1>2. IndexInv /\ ActiveChainNotFailed /\ TargetsNotFailed /\ [Next]_vars
        => ActiveChainNotFailed' /\ TargetsNotFailed'
  BY NextNotFailed, Zenon
<1> QED
  BY <1>1, <1>2, IndexInvariant, PTL DEF Spec

(* "ActivateBestChain considers blocks already in chainActive              *)
(* unconditionally valid already": rightly so, if one thread runs at a     *)
(* time, or if several do and nobody calls invalidateblock.                *)
THEOREM ActiveChainIsValid ==
  ASSUME Alone \/ "invalidate" \notin Rpcs
  PROVE  Spec => []ActiveChainNotFailed
<1>1. CASE "invalidate" \notin Rpcs
  <2>1. Init => FailedAreBad
    BY Zenon DEF Init, FailedAreBad, Failed
  <2>2. IndexInv /\ FailedAreBad /\ [Next]_vars => FailedAreBad'
    BY <1>1, NextFailedAreBad, Zenon
  <2>3. IndexInv /\ FailedAreBad => ActiveChainNotFailed
    BY BadNotActive, Zenon
  <2> QED
    BY <2>1, <2>2, <2>3, IndexInvariant, PTL DEF Spec
<1>2. CASE Alone
  BY <1>2, LoneTargets, PTL
<1> QED
  BY <1>1, <1>2, Zenon

-----------------------------------------------------------------------------
(* The candidates and the best chain.                                      *)

(* What is above an invalid block is above one that is.                    *)
LEMMA KnownBadAbove ==
  ASSUME NEW c \in Block, NEW x \in Path[c], KnownBad(x)
  PROVE  KnownBad(c)
  BY PathOf, Zenon DEF KnownBad

(* Of two numbers only one is less.                                        *)
LEMMA OneIsLess ==
  ASSUME NEW x \in Nat, NEW y \in Nat, x < y
  PROVE  ~(y < x)
OBVIOUS

(* The invariant at the start.                                             *)
LEMMA InitSelection ==
  ASSUME Init
  PROVE  SelectionInv
<1>1. /\ Genesis \in Block /\ Path[Genesis] = {Genesis} /\ seq \in [Block -> Int]
      /\ cand = {Genesis} /\ tip = Genesis /\ linked = {Genesis} /\ Failed = {} /\ invalid = {}
      /\ \A t \in Thread : target[t] \notin Block
      /\ precious.id <= -1 /\ \A b \in Block : seq[b] >= -1
  <2>1. Genesis \in Block /\ Path[Genesis] = {Genesis} /\ "idle" \notin Block
    BY PathGenesis, TreeAssumption, Zenon
  <2>2. seq \in [Block -> Int] /\ \A b \in Block : seq[b] >= -1
    BY DEF Init
  <2>3. precious.id <= -1
    BY DEF Init
  <2>4. /\ cand = {Genesis} /\ tip = Genesis /\ linked = {Genesis} /\ Failed = {} /\ invalid = {}
        /\ \A t \in Thread : target[t] = "idle"
    BY Zenon DEF Init, Failed
  <2> QED
    BY <2>1, <2>2, <2>3, <2>4, Zenon
<1>2. ~Worse(Genesis, Genesis, seq)
  BY <1>1, Order, Zenon
<1>3. Floor(Genesis)
  BY <1>1, <1>2, BadAssumption, Zenon DEF Floor
<1> QED
  BY <1>1, <1>3, Zenon DEF SelectionInv

(* When the one thread is idle, the tip is the only candidate.             *)
LEMMA AtRest ==
  ASSUME Alone, IndexInv, SelectionInv, NEW t \in Thread, target[t] = "idle"
  PROVE  /\ cand = {tip} /\ Floor(tip)
         /\ \A u \in Thread : target[u] = "idle"
<1>1. \A u \in Thread : target[u] = "idle"
  BY Zenon DEF Alone
<1>2. cand = {tip}
  BY <1>1, Zenon DEF SelectionInv, Idle
<1> QED
  BY <1>1, <1>2, Zenon DEF SelectionInv

(* An activation starts with the tip as the floor.                         *)
LEMMA Started ==
  ASSUME Alone, IndexInv, NEW t \in Thread, target' = [target EXCEPT ![t] = NoTarget],
         \A b \in Failed' : KnownBad(b)', tip' \in cand', Floor(tip)',
         precious'.id <= -1, \A b \in Block : seq'[b] >= -1
  PROVE  SelectionInv'
<1>1. \A u \in Thread : target'[u] = NoTarget
  BY Zenon DEF Alone, IndexInv
<1>2. ~Idle'
  BY <1>1, TreeAssumption DEF Idle
<1>3. \E g \in cand' : Floor(g)'
  BY Zenon DEF Floor
<1> QED
  BY <1>1, <1>2, <1>3, TreeAssumption, Zenon DEF SelectionInv

(* More blocks are marked, each above an invalid one.                      *)
LEMMA MarkedMore ==
  ASSUME IndexInv, SelectionInv,
         UNCHANGED <<linked, invalid, cand, tip, target, seq, precious>>,
         child \subseteq child', \A c \in child' \ child : KnownBad(c)
  PROVE  SelectionInv'
<1>1. Failed \subseteq Failed' /\ \A b \in Failed' : KnownBad(b)'
  BY Zenon DEF Failed, KnownBad, SelectionInv
<1>2. ASSUME NEW g, Floor(g)
      PROVE  Floor(g)'
  BY <1>1, <1>2, Zenon DEF Floor
<1>3. PICK g \in cand : Floor(g)
  BY Zenon DEF SelectionInv
<1>4. \E h \in cand' : Floor(h)'
  BY <1>2, <1>3, Zenon
<1>5. \A b : KnownBad(b)' = KnownBad(b)
  BY Zenon DEF KnownBad
<1> QED
  BY <1>1, <1>4, <1>5, Zenon DEF SelectionInv, Idle

(* Headers.                                                                *)
LEMMA HeaderSelection ==
  ASSUME IndexInv, SelectionInv, NEW b \in Block, AcceptHeader(b) \/ RejectHeader(b)
  PROVE  SelectionInv'
<1>1. CASE AcceptHeader(b)
  BY <1>1, MarkedMore, Zenon DEF AcceptHeader
<1>2. CASE RejectHeader(b)
  <2>1. /\ UNCHANGED <<linked, invalid, cand, tip, target, seq, precious>>
        /\ child \subseteq child' /\ \A c \in child' \ child : KnownBad(c)
    BY <1>2, RejectMarks, Zenon DEF index, KnownBad
  <2> QED
    BY <2>1, MarkedMore, Zenon
<1> QED
  BY <1>1, <1>2, Zenon

(* A block from the network.                                               *)
LEMMA NewBlockSelection ==
  ASSUME Alone, IndexInv, IndexInv', SelectionInv,
         NEW t \in Thread, NEW b \in Block, ProcessNewBlock(t, b)
  PROVE  SelectionInv'
<1>1. target[t] = "idle" /\ UNCHANGED <<precious, child, tip>>
  BY Zenon DEF ProcessNewBlock
<1>2. cand = {tip} /\ Floor(tip) /\ \A u \in Thread : target[u] = "idle"
  BY <1>1, AtRest, Zenon
<1>3. /\ Active \subseteq data /\ tip \in Block /\ tip \in linked
      /\ seq \in [Block -> Int] /\ seq' \in [Block -> Int] /\ next \in Nat
      /\ linked \subseteq Block
  BY Zenon DEF IndexInv, Active
<1>4. ~Worse(tip, tip, seq) /\ ~Worse(tip, tip, seq')
  BY <1>3, Order, Zenon
<1>5. CASE /\ Activate(t)
           /\ UNCHANGED <<data, linked, next, unlinked, invalid, seq, cand>>
  <2>1. Floor(tip)'
    BY <1>1, <1>2, <1>5, Zenon DEF Floor, Failed
  <2> QED
    BY <1>1, <1>2, <1>5, <2>1, Started, Zenon DEF SelectionInv, Activate, Failed, KnownBad
<1>6. CASE /\ b \in BadContext \ data /\ invalid' = invalid \cup {b}
           /\ UNCHANGED <<data, linked, next, unlinked, seq, cand, target>>
  <2>1. Path[tip] \cap invalid' = Path[tip] \cap invalid
    BY <1>3, <1>6, Zenon DEF Active
  <2>2. Floor(tip)'
    BY <1>1, <1>2, <1>6, <2>1, Zenon DEF Floor, Failed
  <2>3. KnownBad(b)' /\ \A c : KnownBad(c) => KnownBad(c)'
    BY <1>6, PathHolds, Zenon DEF KnownBad
  <2>4. \A c \in Failed' : KnownBad(c)'
    BY <1>1, <1>6, <2>3, Zenon DEF SelectionInv, Failed
  <2> QED
    BY <1>1, <1>2, <1>6, <2>2, <2>4, TreeAssumption, Zenon DEF SelectionInv, Idle
<1>7. CASE /\ b \notin BadContext \cup data
           /\ ReceivedBlockTransactions(b) /\ Activate(t) /\ UNCHANGED invalid
  <2>1. \A c \in Failed' : KnownBad(c)'
    BY <1>1, <1>7, Zenon DEF SelectionInv, Failed, KnownBad
  <2>2. CASE Parent[b] \in linked
    <3> DEFINE L == Linked(b)
    <3>1. /\ L \cap linked = {} /\ L \subseteq Block /\ linked' = linked \cup L
          /\ \A c \in Block : IF c \in L THEN seq'[c] >= next ELSE seq'[c] = seq[c]
          /\ cand' = cand \cup NotWorse(L, tip, seq')
      BY <1>7, <2>2, ReceivedFacts, Zenon
    <3> HIDE DEF L
    <3>2. \A c \in linked : Worse(c, tip, seq') <=> Worse(c, tip, seq)
      BY <1>3, <3>1, Zenon DEF Worse
    <3>3. /\ \A c \in cand' : ~Worse(c, tip, seq')
          /\ \A c \in linked' \ Failed' : ~Worse(c, tip, seq') => c \in cand'
      BY <1>1, <1>2, <1>4, <1>7, <3>1, <3>2, Zenon DEF Floor, Failed, NotWorse
    <3>4. Floor(tip)'
      BY <1>1, <1>2, <1>4, <1>7, <3>3, Zenon DEF Floor
    <3>5. \A c \in Block : seq'[c] >= -1
      BY <1>3, <3>1 DEF SelectionInv
    <3>6. tip' \in cand' /\ precious'.id <= -1
      BY <1>1, <1>2, <3>1, Zenon DEF SelectionInv
    <3> QED
      BY <1>7, <2>1, <3>4, <3>5, <3>6, Started, Zenon DEF Activate
  <2>3. CASE Parent[b] \notin linked
    <3>1. UNCHANGED <<linked, seq, cand>>
      BY <1>7, <2>3, Zenon DEF ReceivedBlockTransactions
    <3>2. Floor(tip)'
      BY <1>1, <1>2, <1>7, <3>1, Zenon DEF Floor, Failed
    <3> QED
      BY <1>1, <1>2, <1>7, <2>1, <3>1, <3>2, Started, Zenon DEF SelectionInv, Activate
  <2> QED
    BY <2>2, <2>3, Zenon
<1> QED
  BY <1>5, <1>6, <1>7, Zenon DEF ProcessNewBlock

(* invalidateblock: the tip that is left is the floor.                     *)
LEMMA InvalidateSelection ==
  ASSUME Alone, IndexInv, SelectionInv, ActiveChainNotFailed,
         NEW t \in Thread, NEW b \in Block, InvalidateBlock(t, b)
  PROVE  SelectionInv'
<1> DEFINE above == IF b \in Active THEN Active \ Path[b] ELSE {}
           bad == Failed \cup above \cup {b}
           again == NotWorse(linked \ bad, tip', seq)
<1>1. /\ target[t] = "idle" /\ b \in known \ {Genesis} /\ Activate(t)
      /\ tip' = (IF b \in Active THEN Parent[b] ELSE tip)
      /\ child' = child \cup above /\ invalid' = invalid \cup {b}
      /\ cand' = (cand \ (above \cup {b})) \cup again
      /\ UNCHANGED <<linked, seq, precious>>
  BY Zenon DEF InvalidateBlock, index
<1>2. cand = {tip}
  BY <1>1, AtRest, Zenon
<1>3. /\ tip \in Block /\ tip \in Active /\ Follows(Active) /\ Active \subseteq linked
      /\ linked \subseteq Block /\ seq \in [Block -> Int]
      /\ \A a \in Active : Path[a] \subseteq Active
      /\ Active \cap BadConnect = {} /\ Active \cap Failed = {}
  BY PathHolds, PathOf, Zenon DEF IndexInv, Active, ActiveChainNotFailed
<1>4. /\ tip' \in Active /\ Path[tip'] \subseteq Active
      /\ b \notin Path[tip'] /\ tip' \notin above \cup {b}
  <2>1. CASE b \in Active
    <3>1. /\ Path[b] = Path[Parent[b]] \cup {b} /\ Parent[b] \in Active
          /\ Parent[b] \in Block /\ Parent[b] \in Path[Parent[b]]
      BY <1>1, <1>3, <2>1, PathStep, PathHolds, Zenon DEF Follows
    <3>2. b \notin Path[Parent[b]]
      <4>1. Work[Parent[b]] < Work[b] /\ Work[Parent[b]] \in Nat /\ Work[b] \in Nat
        BY <1>1, <3>1, TreeAssumption, Zenon
      <4>2. b \in Path[Parent[b]] => Work[b] < Work[Parent[b]]
        BY <3>1, <4>1, PathWork, Zenon
      <4> QED
        BY <4>1, <4>2, OneIsLess, Zenon
    <3> QED
      BY <1>1, <1>3, <2>1, <3>1, <3>2, Zenon
  <2>2. CASE b \notin Active
    BY <1>1, <1>3, <2>2, Zenon
  <2> QED
    BY <2>1, <2>2, Zenon
<1>5. Failed' = bad
  BY <1>1, Zenon DEF Failed
<1>6. ASSUME NEW c \in Failed'
      PROVE  KnownBad(c)'
  <2>1. CASE c \in Failed
    <3>1. KnownBad(c)
      BY <2>1, Zenon DEF SelectionInv
    <3> QED
      BY <1>1, <3>1, Zenon DEF KnownBad
  <2>2. CASE c \notin Failed
    <3>1. b \in Path[c]
      <4>1. c = b \/ (b \in Active /\ c \in Active \ Path[b])
        BY <1>5, <1>6, <2>2, Zenon
      <4> QED
        BY <1>3, <4>1, PathHolds, PathChain, Zenon DEF Active
    <3> QED
      BY <1>1, <3>1, Zenon DEF KnownBad
  <2> QED
    BY <2>1, <2>2, Zenon
<1>7. ~Worse(tip', tip', seq)
  BY <1>3, <1>4, Order, Zenon
<1>8. tip' \in again
  BY <1>3, <1>4, <1>7, Zenon DEF NotWorse
<1>9. \A c \in cand' : ~Worse(c, tip', seq)
  <2> SUFFICES ASSUME NEW c \in cand \ (above \cup {b})
               PROVE  ~Worse(c, tip', seq)
    BY <1>1, Zenon DEF NotWorse
  <2>1. CASE b \in Active
    <3>1. tip \in Path[b] /\ b \in Path[tip] /\ tip # b
      BY <1>2, <1>3, <2>1, Zenon DEF Active
    <3>2. Work[tip] < Work[b] /\ Work[b] < Work[tip]
      BY <1>3, <3>1, PathWork, Zenon
    <3>3. Work[tip] \in Nat /\ Work[b] \in Nat
      BY <1>3, TreeAssumption, Zenon
    <3> QED
      BY <3>2, <3>3
  <2>2. CASE b \notin Active
    BY <1>1, <1>2, <1>7, <2>2, Zenon
  <2> QED
    BY <2>1, <2>2, Zenon
<1>10. \A c \in linked' \ Failed' : ~Worse(c, tip', seq) => c \in cand'
  BY <1>1, <1>5, Zenon DEF NotWorse
<1>11. Path[tip'] \cap (invalid' \cup BadConnect) = {}
  BY <1>1, <1>3, <1>4, Zenon DEF Failed
<1> HIDE DEF above, bad, again
<1>12. Floor(tip)'
  BY <1>1, <1>7, <1>9, <1>10, <1>11, Zenon DEF Floor
<1> QED
  BY <1>1, <1>6, <1>8, <1>12, Started, Zenon DEF SelectionInv, Activate

(* reconsiderblock on the first invalid block of a chain.                  *)
LEMMA ReconsiderSelection ==
  ASSUME Alone, "reconsider" \notin Rpcs, IndexInv, SelectionInv,
         NEW t \in Thread, NEW b \in Block, ReconsiderBlock(t, b)
  PROVE  SelectionInv'
<1> DEFINE below == {c \in known : b \in Path[c] /\ (c \in Failed \/ c \notin data)}
<1>1. /\ target[t] = "idle" /\ Activate(t)
      /\ invalid' = invalid \ (below \cup Path[b]) /\ child' = child \ (below \cup Path[b])
      /\ cand' = cand \cup {c \in below \cap linked : Worse(tip, c, seq)}
      /\ UNCHANGED <<linked, seq, precious, tip>>
  BY Zenon DEF ReconsiderBlock, index
<1>2. b \in known /\ Path[b] \cap invalid = {b}
  BY Zenon DEF ReconsiderBlock, Reconsidered
<1>3. cand = {tip} /\ Floor(tip)
  BY <1>1, AtRest, Zenon
<1>4. /\ tip \in Block /\ linked \subseteq Block /\ linked \subseteq known
      /\ Failed \subseteq known /\ known \subseteq Block /\ seq \in [Block -> Int]
  BY Zenon DEF IndexInv, Failed
<1>5. ASSUME NEW c \in Failed, NEW x \in invalid, x \in Path[c], x \in below \cup Path[b]
      PROVE  c \in below
  <2>1. b \in Path[x]
    BY <1>2, <1>5, PathHolds, Zenon
  <2>2. b \in Path[c]
    BY <1>4, <1>5, <2>1, PathOf, Zenon
  <2> QED
    BY <1>4, <2>2, Zenon
<1>6. ASSUME NEW c \in Failed'
      PROVE  KnownBad(c)'
  <2>1. c \in Failed /\ c \notin below
    BY <1>1, <1>6, Zenon DEF Failed
  <2>2. PICK x \in invalid : x \in Path[c]
    <3>1. KnownBad(c)
      BY <2>1, Zenon DEF SelectionInv
    <3> QED
      BY <3>1, Zenon DEF KnownBad
  <2>3. x \in invalid'
    BY <1>1, <1>5, <2>1, <2>2, Zenon
  <2> QED
    BY <2>2, <2>3, Zenon DEF KnownBad
<1>7. ASSUME NEW c \in linked \ Failed', ~Worse(c, tip, seq)
      PROVE  c \in cand'
  <2>1. CASE c \notin Failed
    BY <1>1, <1>3, <1>7, <2>1, Zenon DEF Floor
  <2>2. CASE c \in Failed
    <3>1. c \in below \cup Path[b]
      BY <1>1, <1>7, <2>2, Zenon DEF Failed
    <3>2. c \in below
      <4>1. PICK x \in invalid : x \in Path[c]
        BY <2>2 DEF SelectionInv, KnownBad
      <4>2. c \in Path[b] => x \in Path[b]
        BY <4>1, PathOf, Zenon
      <4> QED
        BY <1>5, <2>2, <3>1, <4>1, <4>2, Zenon
    <3>3. c = tip \/ Worse(tip, c, seq)
      BY <1>4, <1>7, Order, Zenon
    <3> QED
      BY <1>1, <1>3, <1>7, <3>2, <3>3, Zenon
  <2> QED
    BY <2>1, <2>2, Zenon
<1>8. \A c \in cand' : ~Worse(c, tip, seq)
  BY <1>1, <1>3, <1>4, Order, Zenon
<1>9. Path[tip] \cap (invalid' \cup BadConnect) = {}
  BY <1>1, <1>3, Zenon DEF Floor
<1>10. ~Worse(tip, tip, seq)
  BY <1>4, Order, Zenon
<1> HIDE DEF below
<1>11. Floor(tip)'
  BY <1>1, <1>7, <1>8, <1>9, <1>10, Zenon DEF Floor
<1> QED
  BY <1>1, <1>3, <1>6, <1>11, Started, Zenon DEF SelectionInv, Activate

(* preciousblock, called at most once for each amount of work of the tip.  *)
LEMMA PreciousSelection ==
  ASSUME Alone, MaxPrecious <= 1, IndexInv, IndexInv', SelectionInv, ActiveChainNotFailed,
         NEW t \in Thread, NEW b \in Block, PreciousBlock(t, b)
  PROVE  SelectionInv'
<1>1. /\ target[t] = "idle" /\ Activate(t)
      /\ cand' = (IF b \in linked \ Failed THEN NotWorse(cand \cup {b}, tip, seq')
                                           ELSE cand \ {b})
      /\ UNCHANGED <<linked, invalid, child, tip>>
  BY Zenon DEF PreciousBlock
<1>2. cand = {tip} /\ Floor(tip)
  BY <1>1, AtRest, Zenon
<1>3. /\ tip \in Block /\ tip \in linked \ Failed /\ linked \subseteq Block
      /\ seq \in [Block -> Int] /\ seq' \in [Block -> Int]
  BY PathHolds, Zenon DEF IndexInv, ActiveChainNotFailed, Active
<1>4. PICK id \in {-1, precious.id} :
        /\ id >= -MaxPrecious /\ precious'.id = id - 1
        /\ seq' = [seq EXCEPT ![b] = id]
  BY Zenon DEF PreciousBlock
<1>5. id = -1
  <2>1. precious.id <= -1
    BY Zenon DEF SelectionInv
  <2>2. precious.id \in Int
    BY Zenon DEF IndexInv
  <2> QED
    BY <1>4, <2>1, <2>2, MaxPreciousAssumption
<1>6. /\ precious'.id <= -1 /\ \A c \in Block : seq'[c] >= -1
      /\ \A c \in Block : c # b => seq'[c] = seq[c]
      /\ seq'[tip] <= seq[tip]
  BY <1>3, <1>4, <1>5 DEF SelectionInv
<1>7. ASSUME NEW c \in linked \ Failed, ~Worse(c, tip, seq')
      PROVE  c \in cand'
  <2>1. CASE c = b
    BY <1>1, <1>7, <2>1, Zenon DEF NotWorse
  <2>2. CASE c # b
    <3>1. /\ seq'[c] = seq[c] /\ seq[c] \in Int /\ seq[tip] \in Int /\ seq'[tip] \in Int
          /\ Work[c] \in Nat /\ Work[tip] \in Nat /\ seq'[tip] <= seq[tip]
      BY <1>3, <1>6, <2>2, TreeAssumption, Zenon
    <3>2. ~Worse(c, tip, seq)
      <4> SUFFICES ASSUME Worse(c, tip, seq)
                   PROVE  Worse(c, tip, seq')
        BY <1>7, Zenon
      <4>1. CASE Work[c] < Work[tip]
        BY <4>1, Zenon DEF Worse
      <4>2. CASE Work[c] = Work[tip] /\ seq[c] > seq[tip]
        <5>1. seq'[c] > seq'[tip]
          BY <3>1, <4>2
        <5> QED
          BY <4>2, <5>1, Zenon DEF Worse
      <4>3. CASE Work[c] = Work[tip] /\ seq[c] = seq[tip] /\ Pointer[c] > Pointer[tip]
        <5>1. CASE seq'[tip] = seq[tip]
          BY <3>1, <4>3, <5>1, Zenon DEF Worse
        <5>2. CASE seq'[tip] # seq[tip]
          <6>1. seq[tip] > seq'[tip]
            BY <3>1, <5>2
          <6> QED
            BY <3>1, <4>3, <6>1, Zenon DEF Worse
        <5> QED
          BY <5>1, <5>2, Zenon
      <4> QED
        BY <4>1, <4>2, <4>3, Zenon DEF Worse
    <3>3. c = tip
      BY <1>2, <3>2, Zenon DEF Floor
    <3> QED
      BY <1>1, <1>2, <1>7, <2>2, <3>3, Zenon DEF NotWorse
  <2> QED
    BY <2>1, <2>2, Zenon
<1>8. ~Worse(tip, tip, seq')
  BY <1>3, Order, Zenon
<1>9. tip \in cand' /\ \A c \in cand' : ~Worse(c, tip, seq')
  BY <1>1, <1>2, <1>3, <1>8, Zenon DEF NotWorse
<1>10. Floor(tip)'
  BY <1>1, <1>2, <1>7, <1>8, <1>9, Zenon DEF Floor, Failed
<1>11. \A c \in Failed' : KnownBad(c)'
  BY <1>1, Zenon DEF SelectionInv, Failed, KnownBad
<1> QED
  BY <1>1, <1>6, <1>9, <1>10, <1>11, Started, Zenon DEF Activate

(* An iteration has a target: the floor is a sound candidate, so one is    *)
(* found, and it is the best of those left.                                *)
LEMMA FoundBest ==
  ASSUME IndexInv, SelectionInv, NEW t \in Thread, target[t] # "idle",
         NEW found \in Found(t), NEW g \in cand, Floor(g)
  PROVE  /\ found.best \in found.cand
         /\ \A c \in found.cand : ~Worse(found.best, c, seq)
         /\ found.cand \subseteq cand /\ g \in found.cand
         /\ \A c \in cand \ found.cand : c \in invalid \cup found.child
         /\ \A c \in found.child : KnownBad(c)
         /\ child \subseteq found.child
<1>1. cand \subseteq Block /\ known \subseteq Block
  BY Zenon DEF IndexInv
<1>2. FailedOn(g) = {}
  <2> SUFFICES ASSUME NEW x \in Path[g] \cap Failed
               PROVE  FALSE
    BY Zenon DEF FailedOn
  <2>1. KnownBad(g)
    BY <1>1, KnownBadAbove, Zenon DEF SelectionInv
  <2> QED
    BY <2>1, Zenon DEF KnownBad, Floor
<1>3. ASSUME NEW c \in found.child
      PROVE  KnownBad(c)
  <2>1. CASE c \in child
    BY <2>1, Zenon DEF SelectionInv, Failed
  <2>2. CASE c \notin child
    <3>1. c \in Block /\ FailedOn(c) # {}
      BY <1>1, <1>3, <2>2, FoundFacts, Zenon
    <3>2. PICK x \in Failed : x \in Path[c]
      BY <3>1, Zenon DEF FailedOn
    <3> QED
      BY <3>1, <3>2, KnownBadAbove, Zenon DEF SelectionInv
  <2> QED
    BY <2>1, <2>2, Zenon
<1>4. found.cand \subseteq cand /\ child \subseteq found.child
  BY FoundFacts, Zenon
<1>5. CASE target[t] = NoTarget
  <2>1. found \in FindMostWorkChain
    BY <1>5, Zenon DEF Found
  <2> QED
    BY <1>2, <1>3, <1>4, <2>1, FindFacts, Zenon
<1>6. CASE target[t] # NoTarget
  <2>1. found = [best |-> target[t], cand |-> cand, child |-> child]
    BY <1>6, Zenon DEF Found
  <2>2. target[t] \in Block
    BY <1>6, Zenon DEF IndexInv
  <2> QED
    BY <1>3, <1>4, <2>1, <2>2, Zenon DEF SelectionInv
<1> QED
  BY <1>5, <1>6, Zenon

(* An iteration of ActivateBestChain.                                      *)
LEMMA ActivateSelection ==
  ASSUME Alone, IndexInv, SelectionInv, IndexInv', ActiveChainNotFailed', TargetsNotFailed',
         NEW t \in Thread, ActivateBestChain(t)
  PROVE  SelectionInv'
<1>1. PICK found \in Found(t) :
        /\ child' = found.child
        /\ \/ /\ found.best \in {NoTarget, tip} /\ cand' = found.cand
              /\ target' = [target EXCEPT ![t] = "idle"]
              /\ UNCHANGED <<scripts, invalid, failed, tip>>
           \/ /\ found.best \notin {NoTarget, tip}
              /\ ActivateBestChainStep(t, found.best, found.cand)
  BY Zenon DEF ActivateBestChain, Found
<1>2. UNCHANGED <<linked, precious, seq>> /\ target[t] # "idle"
  BY Zenon DEF ActivateBestChain, index
<1>3. PICK g \in cand : Floor(g)
  BY Zenon DEF SelectionInv
<1> DEFINE m == found.best
           C == found.cand
<1>4. /\ m \in C /\ \A c \in C : ~Worse(m, c, seq)
      /\ C \subseteq cand /\ g \in C
      /\ \A c \in cand \ C : c \in invalid \cup child'
      /\ \A c \in child' : KnownBad(c)
      /\ child \subseteq child'
  BY <1>1, <1>2, <1>3, FoundBest, Zenon
<1>5. /\ tip \in Block /\ cand \subseteq Block /\ linked \subseteq Block
      /\ seq \in [Block -> Int] /\ target \in [Thread -> linked \cup {NoTarget, "idle"}]
      /\ tip' \in linked /\ tip' \in Block /\ m # NoTarget /\ cand \subseteq linked
  <2>1. /\ linked \subseteq Block /\ tip \in linked /\ cand \subseteq linked
        /\ seq \in [Block -> Int] /\ target \in [Thread -> linked \cup {NoTarget, "idle"}]
    BY Zenon DEF IndexInv
  <2>2. tip' \in linked'
    BY Zenon DEF IndexInv
  <2>3. NoTarget \notin Block
    BY TreeAssumption, Zenon
  <2> QED
    BY <1>2, <1>4, <2>1, <2>2, <2>3, Zenon
<1>6. /\ ~Worse(g, tip, seq) /\ \A c \in cand : ~Worse(c, g, seq)
      /\ \A c \in linked \ Failed : ~Worse(c, g, seq) => c \in cand
      /\ Path[g] \cap (invalid \cup BadConnect) = {}
  BY <1>3, Zenon DEF Floor
<1>7. /\ precious'.id <= -1 /\ \A b \in Block : seq'[b] >= -1
  BY <1>2, Zenon DEF SelectionInv
<1>8. invalid \subseteq invalid' /\ Failed \subseteq Failed'
  BY <1>1, <1>4, Zenon DEF ActivateBestChainStep, InvalidBlockFound, Failed
<1> HIDE DEF m, C
<1>9. ASSUME NEW h \in Block, ~Worse(h, g, seq), NEW c \in linked \ Failed', ~Worse(c, h, seq)
      PROVE  c \in C
  <2>1. ~Worse(c, g, seq)
    BY <1>4, <1>5, <1>9, Order, Zenon
  <2>2. c \in cand
    BY <1>6, <1>8, <2>1, Zenon
  <2> QED
    BY <1>4, <1>8, <2>2, Zenon DEF Failed
<1>10. Path[tip'] \cap (invalid' \cup BadConnect) = {} /\ tip' \notin Failed'
  <2>1. tip' \in Active'
    BY <1>5, PathHolds, Zenon DEF Active
  <2> QED
    BY <2>1, Zenon DEF IndexInv, ActiveChainNotFailed, Active, Failed
<1>11. CASE m = tip
  <2>1. /\ cand' = C /\ UNCHANGED <<invalid, tip>>
        /\ target' = [target EXCEPT ![t] = "idle"]
    BY <1>1, <1>11, Zenon DEF m, C
  <2>2. g = tip
    BY <1>4, <1>5, <1>6, <1>11, Order, Zenon
  <2>3. C = {tip}
    <3>1. ASSUME NEW c \in C
          PROVE  c = tip
      <4>1. c \in Block /\ ~Worse(c, tip, seq) /\ ~Worse(tip, c, seq)
        BY <1>4, <1>5, <1>6, <1>11, <2>2, Zenon
      <4> QED
        BY <1>5, <4>1, Order, Zenon
    <3> QED
      BY <1>4, <1>11, <3>1, Zenon
  <2>4. ~Worse(tip, tip, seq)
    BY <1>5, Order, Zenon
  <2>5. Floor(tip)'
    BY <1>2, <1>5, <1>9, <1>10, <2>1, <2>2, <2>3, <2>4, Zenon DEF Floor
  <2>6. \A c \in Failed' : KnownBad(c)'
    BY <1>4, <2>1, Zenon DEF SelectionInv, Failed, KnownBad
  <2>7. \A u \in Thread : target'[u] \notin Block
    BY <1>5, <2>1, TreeAssumption, Zenon DEF Alone
  <2>8. cand' = {tip'} /\ \E h \in cand' : Floor(h)'
    BY <2>1, <2>3, <2>5, Zenon DEF Floor
  <2> QED
    BY <1>7, <2>6, <2>7, <2>8, Zenon DEF SelectionInv
<1>12. CASE m # tip
  <2> PICK n : n = NewTip(m)
    OBVIOUS
  <2> DEFINE R == Rejected(m)
  <2>1. m \in Block
    BY <1>4, <1>5, Zenon
  <2>2. /\ n \in Path[m] /\ n \in Block
        /\ R \subseteq Path[m] \ Path[n]
        /\ \A r \in R : Path[r] \cap BadConnect # {}
        /\ Connected(m) = {} <=> n \in Active
        /\ n = m => R = {}
    BY <1>5, <2>1, StepFacts, Zenon
  <2>3. /\ tip' = n /\ invalid' = invalid \cup R
        /\ cand' = (IF Connected(m) = {} THEN C ELSE Pruned(C, n)) \ R
        /\ target' = [target EXCEPT ![t] = IF R # {} THEN NoTarget
                                           ELSE IF n = m THEN "idle" ELSE m]
    BY <1>1, <1>5, <1>12, Zenon DEF ActivateBestChainStep, InvalidBlockFound, m, C
  <2> HIDE DEF R
  <2>4. \A c \in Failed' : KnownBad(c)'
    <3>1. \A c : KnownBad(c) => KnownBad(c)'
      BY <1>8, Zenon DEF KnownBad
    <3>2. \A r \in R : KnownBad(r)'
      BY <2>1, <2>2, <2>3, PathHolds, Zenon DEF KnownBad
    <3>3. \A c \in invalid : KnownBad(c)
      BY Zenon DEF SelectionInv, Failed
    <3>4. Failed' = invalid \cup R \cup child'
      BY <2>3, Zenon DEF Failed
    <3> QED
      BY <1>4, <3>1, <3>2, <3>3, <3>4, Zenon
  <2>5. Path[g] \cap R = {}
    <3> SUFFICES ASSUME NEW r \in Path[g], r \in R
                 PROVE  FALSE
      BY Zenon
    <3>1. g \in Block
      BY <1>5, Zenon
    <3>2. Path[r] \subseteq Path[g]
      BY <3>1, PathOf, Zenon
    <3> QED
      BY <1>6, <2>2, <3>2, Zenon
  <2>6. \E h \in cand' : Floor(h)'
    <3>1. CASE Connected(m) # {} /\ ~Worse(n, g, seq)
      <4>1. cand' = {c \in C : ~Worse(c, n, seq)} \ R
        BY <2>3, <3>1, Zenon DEF Pruned, NotWorse
      <4>2. ~Worse(n, n, seq)
        BY <1>5, <2>2, Order, Zenon
      <4>3. n \in cand'
        BY <1>5, <1>9, <1>10, <2>2, <2>3, <3>1, <4>1, <4>2, Zenon DEF Failed
      <4>4. \A c \in linked \ Failed' : ~Worse(c, n, seq) => c \in cand'
        BY <1>9, <2>2, <2>3, <3>1, <4>1, Zenon DEF Failed
      <4>5. Floor(n)'
        BY <1>2, <1>10, <2>3, <4>1, <4>2, <4>4, Zenon DEF Floor
      <4> QED
        BY <4>3, <4>5, Zenon
    <3>2. CASE Connected(m) = {} \/ Worse(n, g, seq)
      <4>1. ~Worse(g, n, seq)
        <5>1. CASE Worse(n, g, seq)
          BY <1>4, <1>5, <2>2, <5>1, Order, Zenon
        <5>2. CASE n \in Active
          <6>1. n = tip \/ Worse(n, tip, seq)
            BY <1>5, <5>2, PathWorse, Zenon DEF Active
          <6> QED
            BY <1>5, <1>6, <2>2, <6>1, Order, Zenon
        <5> QED
          BY <2>2, <3>2, <5>1, <5>2, Zenon
      <4>2. cand' = C \ R
        <5>1. CASE Connected(m) = {}
          BY <2>3, <5>1, Zenon
        <5>2. CASE Connected(m) # {}
          <6>1. \A c \in C : ~Worse(c, n, seq)
            BY <1>4, <1>5, <1>6, <2>2, <3>2, <5>2, Order, Zenon
          <6> QED
            BY <2>3, <5>2, <6>1, Zenon DEF Pruned, NotWorse
        <5> QED
          BY <5>1, <5>2, Zenon
      <4>3. g \in Block /\ g \in Path[g] /\ ~Worse(g, g, seq)
        BY <1>5, PathHolds, Order, Zenon
      <4>4. g \in cand'
        BY <1>4, <2>5, <4>2, <4>3, Zenon
      <4>5. \A c \in linked \ Failed' : ~Worse(c, g, seq) => c \in cand'
        BY <1>9, <2>3, <4>2, <4>3, Zenon DEF Failed
      <4>6. Floor(g)'
        BY <1>2, <1>4, <1>6, <2>3, <2>5, <4>1, <4>2, <4>5, Zenon DEF Floor
      <4> QED
        BY <4>4, <4>6, Zenon
    <3> QED
      BY <3>1, <3>2, Zenon
  <2>7. \A u \in Thread : target'[u] = IF R # {} THEN NoTarget
                                       ELSE IF n = m THEN "idle" ELSE m
    BY <1>5, <2>3, Zenon DEF Alone
  <2>8. ASSUME Idle'
        PROVE  cand' = {tip'}
    <3>1. n = m /\ R = {}
      BY <2>1, <2>2, <2>7, <2>8, TreeAssumption, Zenon DEF Idle
    <3>2. m \notin Active
      <4> SUFFICES ASSUME m \in Active
                   PROVE  FALSE
        OBVIOUS
      <4>1. Worse(m, tip, seq)
        BY <1>5, <1>12, PathWorse, Zenon DEF Active
      <4> QED
        BY <1>4, <1>5, <1>6, <2>1, <4>1, Order, Zenon
    <3>3. cand' = {c \in C : ~Worse(c, m, seq)}
      BY <2>2, <2>3, <3>1, <3>2, Zenon DEF Pruned, NotWorse
    <3>4. cand' = {m}
      <4>1. ASSUME NEW c \in C, ~Worse(c, m, seq)
            PROVE  c = m
        BY <1>4, <1>5, <2>1, <4>1, Order, Zenon
      <4>2. m \in C /\ ~Worse(m, m, seq)
        BY <1>4, Zenon
      <4> QED
        BY <3>3, <4>1, <4>2, Zenon
    <3> QED
      BY <2>3, <3>1, <3>4, Zenon
  <2>9. ASSUME NEW u \in Thread, target'[u] \in Block
        PROVE  /\ target'[u] \in cand' /\ ~KnownBad(target[u])'
               /\ \A c \in cand' : ~Worse(target'[u], c, seq')
    <3>1. target'[u] = m /\ n # m /\ R = {}
      BY <2>7, <2>9, TreeAssumption, Zenon
    <3>2. Worse(n, m, seq)
      BY <2>1, <2>2, <3>1, PathWorse, Zenon
    <3>3. ~Worse(m, n, seq)
      BY <1>5, <2>1, <2>2, <3>2, Order, Zenon
    <3>4. m \in cand' /\ cand' \subseteq C
      BY <1>4, <2>3, <3>1, <3>3, Zenon DEF Pruned, NotWorse
    <3>5. ~KnownBad(target[u])'
      BY <2>9, Zenon DEF TargetsNotFailed, KnownBad, Failed
    <3> QED
      BY <1>2, <1>4, <3>1, <3>4, <3>5, Zenon
  <2> QED
    BY <1>7, <2>4, <2>6, <2>8, <2>9, Zenon DEF SelectionInv
<1> QED
  BY <1>11, <1>12, Zenon

(* What SelectionInv needs: activations that do not overlap,               *)
(* reconsiderblock only for what invalidateblock marked, and the counter   *)
(* of preciousblock not restarted.                                         *)
Orderly ==
  /\ Alone /\ "reconsider" \notin Rpcs
  /\ "precious" \notin Rpcs \/ MaxPrecious <= 1

(* SelectionInv is inductive, with the index and the failed blocks right.  *)
LEMMA NextSelection ==
  ASSUME Orderly, IndexInv, ActiveChainNotFailed, TargetsNotFailed, SelectionInv, [Next]_vars
  PROVE  SelectionInv'
<1>1. IndexInv' /\ ActiveChainNotFailed' /\ TargetsNotFailed'
  BY NextIndex, NextNotFailed, Zenon DEF Orderly
<1>2. CASE UNCHANGED vars
  BY <1>2, MarkedMore, Zenon DEF vars, index
<1>3. ASSUME NEW t \in Thread, NEW b \in Block, PreciousBlock(t, b)
      PROVE  SelectionInv'
  <2>1. "precious" \in Rpcs
    BY <1>3, Zenon DEF PreciousBlock
  <2> QED
    BY <1>1, <1>3, <2>1, PreciousSelection, Zenon DEF Orderly
<1> QED
  BY Zenon, <1>1, <1>2, <1>3, HeaderSelection, NewBlockSelection, InvalidateSelection,
     ReconsiderSelection, ActivateSelection DEF Orderly, Next

(* The candidate set is kept as the activation needs it: there is always a *)
(* sound floor, every sound block above it is a candidate, the target of   *)
(* an activation is the best of them, and at rest the tip is the only one. *)
THEOREM SelectionInvariant ==
  ASSUME Orderly
  PROVE  Spec => [](IndexInv /\ SelectionInv)
<1>1. Init => ActiveChainNotFailed /\ TargetsNotFailed /\ SelectionInv
  BY Zenon, InitSelection, TreeAssumption
     DEF Init, ActiveChainNotFailed, TargetsNotFailed, Failed
<1>2. IndexInv /\ ActiveChainNotFailed /\ TargetsNotFailed /\ [Next]_vars
        => ActiveChainNotFailed' /\ TargetsNotFailed'
  BY NextNotFailed, Zenon DEF Orderly
<1>3. IndexInv /\ ActiveChainNotFailed /\ TargetsNotFailed /\ SelectionInv /\ [Next]_vars
        => SelectionInv'
  BY NextSelection, Zenon
<1> QED
  BY <1>1, <1>2, <1>3, IndexInvariant, PTL DEF Spec

(* What CheckBlockIndex asserts of the candidates holds between            *)
(* activations, for every tree of blocks and every order of arrival.       *)
THEOREM CandidatesAreRight ==
  ASSUME Orderly
  PROVE  Spec => []CandidatesRight
<1>1. ASSUME IndexInv, SelectionInv, Idle
      PROVE  /\ \A b \in linked : ~Worse(b, tip, seq) /\ ~KnownBad(b) => b \in cand
             /\ \A b \in cand : b \in linked /\ ~Worse(b, tip, seq)
             /\ \A b \in Failed : KnownBad(b)
  <2>1. cand = {tip} /\ Floor(tip) /\ \A b \in Failed : KnownBad(b)
    BY <1>1, Zenon DEF SelectionInv
  <2> QED
    BY <1>1, <2>1, Zenon DEF Floor, IndexInv
<1>2. IndexInv /\ SelectionInv => CandidatesRight
  BY <1>1, Zenon DEF CandidatesRight
<1> QED
  BY <1>2, SelectionInvariant, PTL

(* Blocks whose ancestors are all there are linked: the lowest one waiting *)
(* would have a linked parent.                                             *)
LEMMA AllThere ==
  ASSUME IndexInv, NEW b \in Block, Path[b] \subseteq linked \cup unlinked
  PROVE  b \in linked
<1>1. b \in Path[b]
  BY PathHolds, Zenon
<1> SUFFICES ASSUME Path[b] \cap unlinked # {}
             PROVE  FALSE
  BY <1>1, Zenon
<1>2. /\ tip \in linked /\ tip \in Block /\ linked \cap unlinked = {}
      /\ \A c \in linked : Path[c] \subseteq linked
      /\ \A c \in unlinked : c \in Block /\ Parent[c] \notin linked
  BY Zenon DEF IndexInv
<1>3. PICK x \in Path[b] \cap unlinked : \A c \in Path[b] \cap unlinked : x \in Path[c]
  BY Ends, Zenon
<1>4. x # Genesis
  BY <1>2, <1>3, GenesisBelow, Zenon
<1>5. Parent[x] \in Path[b] /\ Parent[x] \in Block /\ Work[Parent[x]] < Work[x]
  BY <1>2, <1>3, <1>4, PathHolds, TreeAssumption, Zenon DEF Follows
<1>6. Parent[x] \in unlinked
  BY <1>2, <1>3, <1>5, Zenon
<1>7. Work[Parent[x]] \in Nat /\ Work[x] \in Nat
  BY <1>2, <1>3, <1>5, TreeAssumption, Zenon
<1>8. x \in Path[Parent[x]] /\ x # Parent[x]
  BY <1>3, <1>5, <1>6, <1>7
<1>9. Work[x] < Work[Parent[x]]
  BY <1>5, <1>8, PathWork, Zenon
<1> QED
  BY <1>5, <1>7, <1>9

(* The chain with the most work is the active one: when no activation is   *)
(* running, no block whose ancestors are all there and not known to be     *)
(* invalid has more work than the tip.                                     *)
THEOREM BestChainBecomesActive ==
  ASSUME Orderly
  PROVE  Spec => []BestChainActive
<1>1. ASSUME IndexInv, SelectionInv, Idle,
             NEW b \in known, Path[b] \subseteq linked \cup unlinked, ~KnownBad(b)
      PROVE  Work[b] <= Work[tip]
  <2>1. b \in Block /\ tip \in Block /\ b \in linked
    BY <1>1, AllThere, Zenon DEF IndexInv
  <2>2. cand = {tip} /\ Floor(tip) /\ b \notin Failed
    BY <1>1, Zenon DEF SelectionInv
  <2>3. Work[b] \in Nat /\ Work[tip] \in Nat
    BY <2>1, TreeAssumption, Zenon
  <2>4. Worse(b, tip, seq) \/ b = tip
    BY <2>1, <2>2, Zenon DEF Floor
  <2> QED
    BY <2>3, <2>4 DEF Worse
<1>2. IndexInv /\ SelectionInv => BestChainActive
  BY <1>1, Zenon DEF BestChainActive
<1> QED
  BY <1>2, SelectionInvariant, PTL

-----------------------------------------------------------------------------
(* The loop of FindMostWorkChain.                                          *)

(* A proper subset has fewer elements.                                     *)
LEMMA Fewer ==
  ASSUME NEW S, IsFiniteSet(S), NEW T \in SUBSET S, T # S
  PROVE  /\ IsFiniteSet(T) /\ Cardinality(T) \in Nat /\ Cardinality(S) \in Nat
         /\ Cardinality(T) < Cardinality(S)
<1>1. IsFiniteSet(T) /\ Cardinality(T) <= Cardinality(S) /\ Cardinality(T) # Cardinality(S)
  BY FS_Subset, Zenon
<1>2. Cardinality(T) \in Nat /\ Cardinality(S) \in Nat
  BY <1>1, FS_CardinalityType, Zenon
<1> QED
  BY <1>1, <1>2

(* A set of blocks has a best one.                                         *)
LEMMA BestOf ==
  ASSUME seq \in [Block -> Int], NEW C \in SUBSET Block, C # {}
  PROVE  Best(C) \in C /\ \A c \in C : ~Worse(Best(C), c, seq)
<1> DEFINE Over(b) == {c \in C : Worse(b, c, seq)}
           T == {Cardinality(Over(b)) : b \in C}
<1>1. IsFiniteSet(C)
  BY TreeAssumption, FS_Subset, Zenon
<1>2. ASSUME NEW b \in C
      PROVE  IsFiniteSet(Over(b)) /\ Cardinality(Over(b)) \in Nat
  <2>1. IsFiniteSet(Over(b))
    BY <1>1, FS_Subset, Zenon
  <2> QED
    BY <2>1, FS_CardinalityType, Zenon
<1>3. ASSUME NEW b \in C, NEW c \in C, Worse(b, c, seq)
      PROVE  Cardinality(Over(c)) < Cardinality(Over(b))
  <2>1. Over(c) \in SUBSET Over(b)
    BY <1>3, Order, Zenon
  <2>2. c \in Over(b) /\ c \notin Over(c)
    BY <1>3, Order, Zenon
  <2> HIDE DEF Over
  <2> QED
    BY <1>2, <2>1, <2>2, Fewer, Zenon
<1>4. PICK m \in T : \A k \in T : m <= k
  <2>1. T \in SUBSET Nat /\ T # {}
    BY <1>2, Zenon
  <2> HIDE DEF T
  <2> QED
    BY <2>1, LeastNumber, Zenon
<1>5. PICK b \in C : m = Cardinality(Over(b))
  BY <1>4, Zenon
<1>6. \A c \in C : ~Worse(b, c, seq)
  <2> SUFFICES ASSUME NEW c \in C, Worse(b, c, seq)
               PROVE  FALSE
    OBVIOUS
  <2>1. Cardinality(Over(b)) <= Cardinality(Over(c))
    BY <1>4, <1>5, Zenon
  <2>2. Cardinality(Over(c)) < Cardinality(Over(b))
    BY <1>3, Zenon
  <2>3. Cardinality(Over(b)) \in Nat /\ Cardinality(Over(c)) \in Nat
    BY <1>2, Zenon
  <2> HIDE DEF Over
  <2> QED
    BY <2>1, <2>2, <2>3
<1> QED
  BY <1>6, Zenon DEF Best

(* The states of the loop.                                                 *)
Trial == [cand : SUBSET Block, child : SUBSET Block]

(* The blocks dropped with a failed candidate though they are not marked.  *)
Tops(b) == {f \in FailedOn(b) : FailedOn(b) \subseteq Path[f]}

(* Nothing is left to be done for the block x.                             *)
Done(x, s) ==
  /\ Above(x) \subseteq s.child
  /\ (Above(x) \cup Tops(x)) \cap s.cand = {}

(* The loop invariant: what was marked and dropped had to be, and is done. *)
LoopInv(s) ==
  /\ s \in Trial
  /\ s.cand \subseteq cand /\ child \subseteq s.child
  /\ cand \ s.cand \subseteq Dropped /\ s.child \subseteq child \cup Marked
  /\ \A x \in (cand \ s.cand) \cup (s.child \ child) : Done(x, s)

(* Two blocks that are on each other's path are one.                       *)
LEMMA PathBoth ==
  ASSUME NEW a \in Block, NEW b \in Block, a \in Path[b], b \in Path[a]
  PROVE  a = b
<1>1. Work[a] \in Nat /\ Work[b] \in Nat
  BY TreeAssumption, Zenon
<1> QED
  BY <1>1, PathWork

(* The highest failed block f below b decides what is marked and dropped   *)
(* for b, and for every block between the two.                             *)
LEMMA TopFacts ==
  ASSUME tip \in Block, NEW b \in Block,
         NEW f \in FailedOn(b), FailedOn(b) \subseteq Path[f]
  PROVE  /\ Above(b) = Path[b] \ Path[f] /\ Tops(b) = {f}
         /\ \A x \in Path[b] \ Path[f] : Above(x) = Path[x] \ Path[f] /\ Tops(x) = {f}
<1>1. f \in Path[b] /\ f \notin Active /\ f \in Failed /\ f \in Block /\ f \in Path[f]
  BY PathHolds, Zenon DEF FailedOn
<1>2. ASSUME NEW x \in Block, f \in FailedOn(x), FailedOn(x) \subseteq Path[f]
      PROVE  Above(x) = Path[x] \ Path[f] /\ Tops(x) = {f}
  <2>1. \A g \in FailedOn(x) : g \in Block /\ Path[g] \subseteq Path[f]
    BY <1>1, <1>2, PathOf, Zenon
  <2>2. UNION {Path[g] : g \in FailedOn(x)} = Path[f]
    BY <1>2, <2>1, Zenon
  <2>3. ASSUME NEW g \in FailedOn(x), FailedOn(x) \subseteq Path[g]
        PROVE  g = f
    BY <1>1, <1>2, <2>1, <2>3, PathBoth, Zenon
  <2> QED
    BY <1>2, <2>2, <2>3, Zenon DEF Above, Tops
<1>3. ASSUME NEW x \in Path[b] \ Path[f]
      PROVE  x \in Block /\ f \in FailedOn(x) /\ FailedOn(x) \subseteq Path[f]
  <2>1. x \in Block /\ Path[x] \subseteq Path[b] /\ f \in Path[x]
    BY <1>1, <1>3, PathOf, PathChain, Zenon
  <2>2. FailedOn(x) \subseteq FailedOn(b)
    BY <2>1, Zenon DEF FailedOn
  <2> QED
    BY <1>1, <2>1, <2>2, Zenon DEF FailedOn
<1> QED
  BY <1>2, <1>3, Zenon

(* When the best candidate left has not failed the loop is over, and has   *)
(* done all that FindMostWorkChain promises.                               *)
LEMMA LoopEnd ==
  ASSUME IndexInv, NEW s, LoopInv(s),
         s.cand = {} \/ FailedBy(s, Best(s.cand)) = {}
  PROVE  FindMostWorkChain =
           {[best  |-> IF s.cand = {} THEN NoTarget ELSE Best(s.cand),
             cand  |-> s.cand,
             child |-> s.child]}
<1> DEFINE b == Best(s.cand)
<1>1. /\ cand \subseteq Block /\ seq \in [Block -> Int] /\ s.cand \in SUBSET Block
      /\ s.cand \subseteq cand /\ child \subseteq s.child
      /\ cand \ s.cand \subseteq Dropped /\ s.child \subseteq child \cup Marked
  BY Zenon DEF IndexInv, LoopInv, Trial
<1>2. Sound \subseteq s.cand
  BY <1>1, DropFacts, Zenon DEF Sound
<1>3. s.cand # {} => b \in s.cand /\ \A c \in s.cand : ~Worse(b, c, seq)
  BY <1>1, BestOf, Zenon
<1>4. s.cand # {} => b \in Sound
  BY <1>1, <1>3, Zenon DEF FailedBy, FailedOn, Failed, Sound
<1> HIDE DEF b
<1>5. Tried \cap s.cand = {}
  BY <1>3, <1>4, Zenon DEF Tried
<1>6. ASSUME NEW t \in Tried
      PROVE  Above(t) \subseteq s.child /\ (Above(t) \cup Tops(t)) \cap s.cand = {}
  BY <1>5, Zenon DEF Tried, LoopInv, Done
<1>7. Dropped = Marked \cup UNION {Tops(t) : t \in Tried}
  BY Zenon DEF Dropped, Tops
<1>8. Marked \subseteq s.child /\ Dropped \cap s.cand = {}
  BY <1>6, <1>7, Zenon DEF Marked
<1>9. s.cand = cand \ Dropped /\ s.child = child \cup Marked
  BY <1>1, <1>8, Zenon
<1>10. MostWork = {IF s.cand = {} THEN NoTarget ELSE b}
  <2>1. CASE s.cand = {}
    BY <1>2, <2>1, Zenon DEF MostWork
  <2>2. CASE s.cand # {}
    <3>1. \A c \in Sound : c \in Block /\ ~Worse(b, c, seq) /\ (c = b \/ Worse(c, b, seq))
      BY <1>1, <1>2, <1>3, <2>2, Order, Zenon
    <3>2. MostWork = {c \in Sound : \A d \in Sound : ~Worse(c, d, seq)}
      BY <1>4, <2>2, Zenon DEF MostWork
    <3> QED
      BY <1>4, <2>2, <3>1, <3>2, Zenon
  <2> QED
    BY <2>1, <2>2, Zenon
<1> QED
  BY <1>9, <1>10, Zenon DEF FindMostWorkChain, b

(* An iteration that finds a failed block drops the candidate, marks and   *)
(* drops what is above, and keeps the loop invariant: where it stops at a  *)
(* mark of its own, what is below was done when that mark was made.        *)
LEMMA LoopStep ==
  ASSUME IndexInv, NEW s, LoopInv(s), s.cand # {}, FailedBy(s, Best(s.cand)) # {}
  PROVE  /\ LoopInv(TryBest(s))
         /\ TryBest(s).cand \subseteq s.cand \ {Best(s.cand)} /\ Best(s.cand) \in s.cand
<1> DEFINE b == Best(s.cand)
           F == FailedBy(s, b)
           h == Highest(F)
           above == Path[b] \ Path[h]
           n == TryBest(s)
           f == Highest(FailedOn(b))
<1>1. /\ cand \subseteq Block /\ seq \in [Block -> Int] /\ s.cand \in SUBSET Block
      /\ s.cand \subseteq cand /\ child \subseteq s.child /\ s.child \subseteq Block
      /\ cand \ s.cand \subseteq Dropped /\ s.child \subseteq child \cup Marked
      /\ tip \in Block
  BY Zenon DEF IndexInv, LoopInv, Trial
<1>2. b \in s.cand /\ b \in Block /\ \A c \in s.cand : ~Worse(b, c, seq)
  BY <1>1, BestOf, Zenon
<1>3. h \in F /\ F \subseteq Path[h]
  <2>1. F \in SUBSET Path[b] /\ F # {}
    BY Zenon DEF FailedBy
  <2> HIDE DEF b, F
  <2> QED
    BY <1>2, <2>1, Ends, Zenon
<1>4. n.cand = s.cand \ (above \cup {h}) /\ n.child = s.child \cup above
      /\ n \in Trial
  <2>1. n = [cand |-> s.cand \ (above \cup {h}), child |-> s.child \cup above]
    BY Zenon DEF TryBest
  <2>2. above \subseteq Block
    BY <1>2, PathHolds, Zenon
  <2> HIDE DEF above, h, n
  <2> QED
    BY <1>1, <2>1, <2>2, Zenon DEF Trial
<1>5. /\ h \in Path[b] /\ h \in Block /\ h \notin Active /\ h \in Path[h]
      /\ h \in invalid \cup s.child /\ Path[h] \subseteq Path[b]
  <2>1. h \in Path[b] /\ h \notin Active /\ h \in invalid \cup s.child
    BY <1>3, Zenon DEF FailedBy
  <2> HIDE DEF b, h
  <2> QED
    BY <1>2, <2>1, PathOf, PathHolds, Zenon
<1> HIDE DEF b, h, n
<1>6. FailedOn(b) # {}
  <2>1. CASE h \in Failed
    BY <1>5, <2>1, Zenon DEF FailedOn
  <2>2. CASE h \notin Failed
    <3>1. FailedOn(h) # {}
      BY <1>1, <1>5, <2>2, DropFacts, Zenon DEF Failed
    <3> QED
      BY <1>5, <3>1, Zenon DEF FailedOn
  <2> QED
    BY <2>1, <2>2, Zenon
<1>7. f \in FailedOn(b) /\ FailedOn(b) \subseteq Path[f]
  <2>1. FailedOn(b) \in SUBSET Path[b]
    BY Zenon DEF FailedOn
  <2> QED
    BY <1>2, <1>6, <2>1, Ends, Zenon
<1> HIDE DEF f
<1>8. b \in Tried
  <2>1. \A c \in Sound : c \in s.cand /\ c # b
    BY <1>1, <1>6, DropFacts, Zenon DEF Sound
  <2>2. \A c \in Sound : Worse(c, b, seq)
    BY <1>1, <1>2, <2>1, Order, Zenon
  <2> QED
    BY <1>1, <1>2, <1>6, <2>2, Zenon DEF Tried, Sound
<1>9. /\ Above(b) = Path[b] \ Path[f] /\ Tops(b) = {f}
      /\ \A x \in Path[b] \ Path[f] : Above(x) = Path[x] \ Path[f] /\ Tops(x) = {f}
  BY <1>1, <1>2, <1>7, TopFacts, Zenon
<1>10. Above(b) \subseteq Marked /\ Above(b) \cup {f} \subseteq Dropped
  <2>1. Above(b) \subseteq Marked
    BY <1>8, Zenon DEF Marked
  <2>2. Tops(b) \subseteq Dropped
    BY <1>8, Zenon DEF Dropped, Tops
  <2> QED
    BY <1>9, <2>1, <2>2, Zenon DEF Dropped
<1>11. f \in Path[h] /\ f \in Block /\ Path[f] \subseteq Path[h]
  <2>1. f \in F
    BY <1>1, <1>7, Zenon DEF FailedOn, FailedBy, Failed
  <2>2. f \in Path[h]
    BY <1>3, <2>1, Zenon
  <2> QED
    BY <1>5, <2>2, PathOf, Zenon
<1>12. h = f \/ (h \in s.child \ child /\ h \in Path[b] \ Path[f])
  <2> SUFFICES ASSUME h # f
               PROVE  h \in s.child \ child /\ h \in Path[b] \ Path[f]
    BY Zenon
  <2>1. h \notin Path[f]
    BY <1>5, <1>11, PathBoth, Zenon
  <2>2. h \notin FailedOn(b)
    BY <1>7, <2>1, Zenon
  <2> QED
    BY <1>5, <2>1, <2>2, Zenon DEF FailedOn, Failed
<1>13. Path[h] \ Path[f] \subseteq s.child /\ (Path[h] \ Path[f]) \cap s.cand = {} /\ f \notin n.cand
  <2>1. CASE h = f
    BY <1>4, <2>1, Zenon
  <2>2. CASE h \in s.child \ child /\ h \in Path[b] \ Path[f]
    <3>1. Done(h, s)
      BY <2>2, Zenon DEF LoopInv
    <3>2. Above(h) = Path[h] \ Path[f] /\ Tops(h) = {f}
      BY <1>9, <2>2, Zenon
    <3> QED
      BY <1>4, <3>1, <3>2, Zenon DEF Done
  <2> QED
    BY <1>12, <2>1, <2>2, Zenon
<1>14. Above(b) \subseteq n.child /\ (Above(b) \cup {f}) \cap n.cand = {}
  BY <1>4, <1>9, <1>13
<1>15. above \subseteq Above(b) /\ h \in Above(b) \cup {f}
  BY <1>9, <1>11, <1>12, Zenon
<1>16. ASSUME NEW x \in (cand \ n.cand) \cup (n.child \ child)
       PROVE  Done(x, n)
  <2>1. CASE x \in (cand \ s.cand) \cup (s.child \ child)
    <3>1. Done(x, s)
      BY <2>1, Zenon DEF LoopInv
    <3> QED
      BY <1>4, <3>1, Zenon DEF Done
  <2>2. CASE x \in above
    <3>1. x \in Path[b] \ Path[f] /\ Path[x] \subseteq Path[b]
      BY <1>2, <1>9, <1>15, <2>2, PathOf, Zenon
    <3>2. Above(x) \subseteq Above(b) /\ Tops(x) = {f}
      BY <1>9, <3>1, Zenon
    <3> QED
      BY <1>14, <3>2, Zenon DEF Done
  <2>3. CASE x = h /\ h = f
    <3>1. h \in FailedOn(h) /\ FailedOn(h) \subseteq Path[h]
      BY <1>5, <1>7, <2>3, Zenon DEF FailedOn
    <3>2. Above(h) = Path[h] \ Path[h] /\ Tops(h) = {h}
      BY <1>1, <1>5, <3>1, TopFacts, Zenon
    <3> QED
      BY <1>4, <2>3, <3>2, Zenon DEF Done
  <2>4. x \in (cand \ s.cand) \cup (s.child \ child) \cup above \cup {h}
    BY <1>4, <1>16, Zenon
  <2> QED
    BY <1>12, <2>1, <2>2, <2>3, <2>4, Zenon
<1>17. cand \ n.cand \subseteq Dropped /\ n.child \subseteq child \cup Marked
  BY <1>1, <1>4, <1>10, <1>15, Zenon
<1>18. LoopInv(n)
  BY <1>1, <1>4, <1>16, <1>17, Zenon DEF LoopInv
<1>19. b \in above \cup {h}
  BY <1>2, <1>5, PathBoth, PathHolds, Zenon
<1> QED
  BY <1>2, <1>4, <1>18, <1>19, Zenon DEF n, b

(* A step can be iterated: the recursive definition of its iterations has  *)
(* a solution.                                                             *)
LEMMA Iterate ==
  ASSUME NEW G \in [Trial -> Trial], NEW start \in Trial, NEW N \in Nat
  PROVE  \E it \in [0 .. N -> Trial] :
           it[0] = start /\ \A i \in 1 .. N : it[i] = G[it[i - 1]]
<1> DEFINE Solves(n, it) == it[0] = start /\ \A i \in 1 .. n : it[i] = G[it[i - 1]]
           T == {n \in Nat : ~\E it \in [0 .. n -> Trial] : Solves(n, it)}
<1>1. T = {}
  <2> SUFFICES ASSUME T # {}
               PROVE  FALSE
    OBVIOUS
  <2>1. PICK n \in T : \A k \in T : n <= k
    <3>1. T \in SUBSET Nat
      OBVIOUS
    <3> HIDE DEF T
    <3> QED
      BY <3>1, LeastNumber, Zenon
  <2>2. n # 0
    <3> SUFFICES ASSUME n = 0
                 PROVE  FALSE
      OBVIOUS
    <3> DEFINE it == [i \in 0 .. 0 |-> start]
    <3>1. it \in [0 .. n -> Trial] /\ Solves(n, it)
      OBVIOUS
    <3> QED
      BY <2>1, <3>1, Zenon
  <2>3. n \in Nat \ {0} /\ n - 1 \in Nat /\ n - 1 \notin T
    <3>1. n \in Nat
      BY <2>1, Zenon
    <3> HIDE DEF T
    <3> QED
      BY <2>1, <2>2, <3>1
  <2>4. PICK it \in [0 .. n - 1 -> Trial] : Solves(n - 1, it)
    BY <2>3, Zenon
  <2> DEFINE new == [i \in 0 .. n |-> IF i = n THEN G[it[n - 1]] ELSE it[i]]
  <2>5. new \in [0 .. n -> Trial]
    BY <2>3
  <2>6. Solves(n, new)
    <3>1. new[0] = start /\ new[n] = G[it[n - 1]]
      BY <2>3, <2>4
    <3>2. \A i \in 0 .. n - 1 : new[i] = it[i]
      BY <2>3
    <3>3. ASSUME NEW i \in 1 .. n
          PROVE  new[i] = G[new[i - 1]]
      <4>1. i - 1 \in 0 .. n - 1 /\ (i = n \/ i \in 1 .. n - 1)
        BY <2>3
      <4>2. new[i - 1] = it[i - 1]
        BY <3>2, <4>1, Zenon
      <4> HIDE DEF new
      <4> QED
        BY <2>3, <2>4, <3>1, <3>2, <4>1, <4>2
    <3> QED
      BY <3>1, <3>3, Zenon
  <2> QED
    BY <2>1, <2>5, <2>6, Zenon
<1> QED
  BY <1>1, Zenon

(* An iteration starts from blocks and ends with blocks.                   *)
LEMMA TryBestType ==
  ASSUME IndexInv, NEW s \in Trial
  PROVE  TryBest(s) \in Trial
<1> DEFINE b == Best(s.cand)
           f == Highest(FailedBy(s, b))
           above == Path[b] \ Path[f]
<1>1. s.cand # {} => above \subseteq Block
  <2>1. s.cand # {} => b \in Block
    BY BestOf, Zenon DEF IndexInv, Trial
  <2> QED
    BY <2>1, PathHolds, Zenon
<1>2. \/ TryBest(s) = s
      \/ s.cand # {} /\ TryBest(s) = [cand |-> s.cand \ (above \cup {f}), child |-> s.child \cup above]
  BY Zenon DEF TryBest
<1> HIDE DEF above, f
<1> QED
  BY <1>1, <1>2 DEF Trial

(* Iterations is what its definition says.                                 *)
LEMMA IterationsAre ==
  ASSUME IndexInv
  PROVE  /\ Cardinality(cand) \in Nat /\ IsFiniteSet(cand)
         /\ Iterations[0] = [cand |-> cand, child |-> child]
         /\ \A n \in 1 .. Cardinality(cand) : Iterations[n] = TryBest(Iterations[n - 1])
<1> DEFINE G == [s \in Trial |-> TryBest(s)]
           N == Cardinality(cand)
           start == [cand |-> cand, child |-> child]
           Rec(it) == [n \in 0 .. N |-> IF n = 0 THEN start ELSE TryBest(it[n - 1])]
<1>1. N \in Nat /\ IsFiniteSet(cand)
  <2>1. IsFiniteSet(cand)
    BY TreeAssumption, FS_Subset, Zenon DEF IndexInv
  <2> QED
    BY <2>1, FS_CardinalityType, Zenon
<1>2. start \in Trial
  BY Zenon DEF IndexInv, Trial
<1>3. G \in [Trial -> Trial]
  BY TryBestType, Zenon
<1>4. PICK it \in [0 .. N -> Trial] : it[0] = start /\ \A i \in 1 .. N : it[i] = G[it[i - 1]]
  <2> HIDE DEF G, N, start
  <2> QED
    BY <1>1, <1>2, <1>3, Iterate, Zenon
<1>5. it = Rec(it)
  <2>1. ASSUME NEW n \in 0 .. N
        PROVE  it[n] = IF n = 0 THEN start ELSE TryBest(it[n - 1])
    <3>1. n # 0 => n \in 1 .. N /\ n - 1 \in 0 .. N
      BY <1>1
    <3>2. n # 0 => G[it[n - 1]] = TryBest(it[n - 1])
      BY <3>1, Zenon
    <3> HIDE DEF G, start
    <3> QED
      BY <1>4, <3>1, <3>2, Zenon
  <2> HIDE DEF N, start
  <2> QED
    BY <2>1, Zenon
<1>6. Iterations = CHOOSE x : x = Rec(x)
  BY Zenon DEF Iterations
<1> HIDE DEF Rec
<1>7. Iterations = Rec(Iterations)
  BY <1>5, <1>6, Zenon
<1>8. 0 \in 0 .. N /\ \A n \in 1 .. N : n \in 0 .. N /\ n # 0
  BY <1>1
<1> HIDE DEF N, start
<1>9. /\ Iterations[0] = start
      /\ \A n \in 1 .. N : Iterations[n] = TryBest(Iterations[n - 1])
  BY <1>7, <1>8, Zenon DEF Rec
<1> QED
  BY <1>1, <1>9, Zenon DEF N, start

(* The loop stops.                                                         *)
LoopOver(s) == s.cand = {} \/ FailedBy(s, Best(s.cand)) = {}

(* Numbers counted down from N.                                            *)
LEMMA CountDown ==
  ASSUME NEW N \in Nat, NEW k \in 1 .. N, NEW b \in Nat, NEW c \in Nat,
         c < b, b <= N - (k - 1)
  PROVE  c <= N - k
OBVIOUS

(* The number before one that is not the first.                            *)
LEMMA OneBefore ==
  ASSUME NEW N \in Nat, NEW m \in 0 .. N, m # 0
  PROVE  m \in 1 .. N /\ m - 1 \in 0 .. N /\ ~(m <= m - 1)
OBVIOUS

(* Every iteration keeps the loop invariant, and drops a candidate unless  *)
(* the loop is over.                                                       *)
LEMMA LoopProgress ==
  ASSUME IndexInv, NEW n \in 0 .. Cardinality(cand)
  PROVE  /\ LoopInv(Iterations[n])
         /\ \/ LoopOver(Iterations[n])
            \/ Cardinality(Iterations[n].cand) <= Cardinality(cand) - n
<1> DEFINE N == Cardinality(cand)
           Holds(k) == /\ LoopInv(Iterations[k])
                       /\ \/ LoopOver(Iterations[k])
                          \/ Cardinality(Iterations[k].cand) <= N - k
           T == {k \in 0 .. N : ~Holds(k)}
<1>1. /\ N \in Nat /\ IsFiniteSet(cand)
      /\ Iterations[0] = [cand |-> cand, child |-> child]
      /\ \A k \in 1 .. N : Iterations[k] = TryBest(Iterations[k - 1])
  BY IterationsAre, Zenon
<1>2. Holds(0)
  <2>1. Iterations[0].cand = cand /\ Iterations[0].child = child
    BY <1>1
  <2>2. LoopInv(Iterations[0])
    BY <1>1, <2>1, Zenon DEF LoopInv, IndexInv, Trial
  <2>3. Cardinality(Iterations[0].cand) <= N - 0
    BY <1>1, <2>1
  <2> QED
    BY <2>2, <2>3, Zenon
<1>3. ASSUME NEW k \in 1 .. N, Holds(k - 1)
      PROVE  Holds(k)
  <2> DEFINE s == Iterations[k - 1]
  <2>1. Iterations[k] = TryBest(s) /\ LoopInv(s)
    BY <1>1, <1>3, Zenon
  <2>2. CASE LoopOver(s)
    <3>1. TryBest(s) = s
      BY <2>2, Zenon DEF LoopOver, TryBest
    <3> QED
      BY <2>1, <2>2, <3>1, Zenon
  <2>3. CASE ~LoopOver(s)
    <3> DEFINE C == TryBest(s).cand
    <3>1. /\ LoopInv(TryBest(s)) /\ C \subseteq s.cand \ {Best(s.cand)}
          /\ Best(s.cand) \in s.cand
      <4> HIDE DEF s
      <4> QED
        BY <2>1, <2>3, LoopStep, Zenon DEF LoopOver
    <3>2. IsFiniteSet(s.cand)
      BY <1>1, <2>1, FS_Subset, Zenon DEF LoopInv
    <3>3. Cardinality(s.cand) <= N - (k - 1)
      BY <1>3, <2>3, Zenon
    <3> HIDE DEF s, C
    <3>4. /\ Cardinality(C) < Cardinality(s.cand)
          /\ Cardinality(C) \in Nat /\ Cardinality(s.cand) \in Nat
      <4>1. C \in SUBSET s.cand /\ C # s.cand
        BY <3>1, Zenon
      <4> QED
        BY <3>2, <4>1, Fewer
    <3>5. Cardinality(C) <= N - k
      <4> HIDE DEF N
      <4> QED
        BY <1>1, <3>3, <3>4, CountDown, Zenon
    <3> QED
      BY <2>1, <3>1, <3>5, Zenon DEF C
  <2> QED
    BY <2>2, <2>3, Zenon
<1> HIDE DEF Holds
<1>4. T = {}
  <2> SUFFICES ASSUME T # {}
               PROVE  FALSE
    OBVIOUS
  <2>1. T \in SUBSET Nat
    BY <1>1
  <2>2. PICK m \in T : \A k \in T : m <= k
    <3> HIDE DEF T
    <3> QED
      BY <2>1, LeastNumber, Zenon
  <2>3. m \in 1 .. N /\ m - 1 \in 0 .. N /\ ~(m <= m - 1)
    <3>1. m \in 0 .. N /\ m # 0
      BY <1>2, <2>2, Zenon
    <3> QED
      BY <1>1, <3>1, OneBefore, Zenon
  <2>4. Holds(m - 1)
    BY <2>2, <2>3, Zenon
  <2> QED
    BY <1>3, <2>2, <2>3, <2>4, Zenon
<1> QED
  BY <1>4, Zenon DEF Holds

(* The loop of FindMostWorkChain, with its marks made and seen on the way, *)
(* does what the one step of the model does, in every reachable state, for *)
(* any number of threads and whatever the RPCs did before.                 *)
THEOREM LoopIsRight == Spec => []LoopFindsMostWork
<1>1. IndexInv => LoopFindsMostWork
  <2> SUFFICES ASSUME IndexInv
               PROVE  LoopFindsMostWork
    OBVIOUS
  <2> DEFINE N == Cardinality(cand)
             s == Iterations[N]
  <2>1. N \in Nat /\ IsFiniteSet(cand)
    BY IterationsAre, Zenon
  <2>2. LoopInv(s) /\ (LoopOver(s) \/ Cardinality(s.cand) <= N - N)
    BY <2>1, LoopProgress
  <2>3. LoopOver(s)
    <3>1. IsFiniteSet(s.cand)
      BY <2>1, <2>2, FS_Subset, Zenon DEF LoopInv
    <3> HIDE DEF s
    <3>2. Cardinality(s.cand) <= 0 => s.cand = {}
      BY <3>1, FS_EmptySet, FS_CardinalityType
    <3> QED
      BY <2>1, <2>2, <3>2 DEF LoopOver
  <2> QED
    BY <2>2, <2>3, LoopEnd, Zenon DEF LoopFindsMostWork, LoopOver
<1> QED
  BY <1>1, IndexInvariant, PTL

-----------------------------------------------------------------------------
(* The iterations of ActivateBestChain.                                    *)

(* An iteration that is not the last connects to a tip with more work, or  *)
(* rejects a block, which was not known to be invalid unless the target    *)
(* was kept and failed in the meantime.                                    *)
LEMMA Progress ==
  ASSUME IndexInv, NEW t \in Thread, ActivateBestChain(t)
  PROVE  \/ target'[t] = "idle"
         \/ invalid' # invalid
         \/ Work[tip'] > Work[tip]
         \/ target'[t] = NoTarget /\ target[t] \in Block /\ KnownBad(target[t])
<1>1. /\ tip \in Block /\ linked \subseteq Block /\ target \in [Thread -> linked \cup {NoTarget, "idle"}]
  BY Zenon DEF IndexInv
<1>2. PICK found \in Found(t) :
        \/ target' = [target EXCEPT ![t] = "idle"]
        \/ found.best \notin {NoTarget, tip} /\ ActivateBestChainStep(t, found.best, found.cand)
  BY Zenon DEF ActivateBestChain, Found
<1>3. target[t] # "idle"
  BY Zenon DEF ActivateBestChain
<1>4. CASE target' = [target EXCEPT ![t] = "idle"]
  BY <1>1, <1>4, Zenon
<1>5. CASE found.best \notin {NoTarget, tip} /\ ActivateBestChainStep(t, found.best, found.cand)
  <2> DEFINE m == found.best
  <2>1. m \in Block
    BY <1>1, <1>3, <1>5, FoundFacts, Zenon
  <2> HIDE DEF m
  <2>2. /\ tip' = NewTip(m) /\ invalid' = invalid \cup Rejected(m)
        /\ target'[t] = IF Rejected(m) # {} THEN NoTarget
                        ELSE IF NewTip(m) = m THEN "idle" ELSE m
    BY <1>1, <1>5, Zenon DEF ActivateBestChainStep, InvalidBlockFound, m
  <2>3. CASE Rejected(m) = {}
    BY <1>1, <2>1, <2>2, <2>3, StepFacts, Zenon
  <2>4. CASE Rejected(m) # {}
    <3>1. PICK r \in Rejected(m) : r \in Path[m] /\ r \notin Active
      BY <1>1, <2>1, <2>4, StepFacts, Zenon
    <3>2. CASE r \notin invalid
      BY <2>2, <3>1, <3>2, Zenon
    <3>3. CASE r \in invalid
      <4>1. r \in FailedOn(m)
        BY <3>1, <3>3, Zenon DEF FailedOn, Failed
      <4>2. target[t] # NoTarget
        <5> SUFFICES ASSUME target[t] = NoTarget
                     PROVE  FALSE
          OBVIOUS
        <5>1. found \in FindMostWorkChain
          BY <1>2, Zenon DEF Found
        <5> QED
          BY <1>5, <4>1, <5>1, FindFacts, Zenon DEF m
      <4>3. target[t] = m
        BY <1>2, <4>2 DEF Found, m
      <4>4. KnownBad(target[t])
        BY <3>1, <3>3, <4>3, Zenon DEF KnownBad
      <4> QED
        BY <2>1, <2>2, <2>4, <4>3, <4>4, Zenon
    <3> QED
      BY <3>2, <3>3, Zenon
  <2> QED
    BY <2>3, <2>4, Zenon
<1> QED
  BY <1>2, <1>4, <1>5, Zenon

(* Every iteration of ActivateBestChain makes progress, for any number of  *)
(* threads and whatever the RPCs do.                                       *)
THEOREM ActivationsProgress == Spec => ActivationProgresses
<1>1. IndexInv /\ [Next]_vars =>
        [\A t \in Thread : ActivateBestChain(t) =>
           \/ target'[t] = "idle"
           \/ invalid' # invalid
           \/ Work[tip'] > Work[tip]
           \/ target'[t] = NoTarget /\ target[t] \in Block /\ KnownBad(target[t])]_vars
  BY Progress, Zenon
<1> QED
  BY <1>1, IndexInvariant, PTL DEF Spec, ActivationProgresses

(* When activations do not overlap no iteration gives up its target: each  *)
(* but the last marks another block invalid or raises the work of the tip. *)
(* Both have an end, and headers, which alone come in between, change      *)
(* neither: the loop of ActivateBestChain has a variant.                   *)
THEOREM LoneActivationsProgress ==
  ASSUME Alone
  PROVE  Spec => [][\A t \in Thread : ActivateBestChain(t) =>
                      \/ target'[t] = "idle"
                      \/ invalid' # invalid
                      \/ Work[tip'] > Work[tip]]_vars
<1>1. IndexInv /\ TargetsNotFailed /\ [Next]_vars =>
        [\A t \in Thread : ActivateBestChain(t) =>
           \/ target'[t] = "idle"
           \/ invalid' # invalid
           \/ Work[tip'] > Work[tip]]_vars
  <2>1. TargetsNotFailed =>
          \A t \in Thread : ~(target[t] \in Block /\ KnownBad(target[t]))
    BY Zenon DEF TargetsNotFailed, KnownBad, Failed
  <2> QED
    BY <2>1, Progress, Zenon
<1> QED
  BY <1>1, IndexInvariant, LoneTargets, PTL DEF Spec

-----------------------------------------------------------------------------
(* Failed blocks without invalidateblock and reconsiderblock.              *)

(* Only reconsiderblock takes the mark from a block and leaves it in       *)
(* gFailedBlocks: without it the assertion of AcceptBlockHeader holds, for *)
(* any number of threads and whatever is invalidated.                      *)
THEOREM HeaderAssertionHolds ==
  ASSUME Rpcs \cap {"reconsider", "undo"} = {}
  PROVE  Spec => []FailedAreMarked
<1> DEFINE I == failed \subseteq invalid
<1>1. Init => I
  BY Zenon DEF Init
<1>2. I /\ [Next]_vars => I'
  <2> SUFFICES ASSUME I, [Next]_vars
               PROVE  failed' \subseteq invalid'
    OBVIOUS
  <2>1. ASSUME NEW b \in Block, AcceptHeader(b) \/ RejectHeader(b)
        PROVE  failed' \subseteq invalid'
    BY <2>1, Zenon DEF AcceptHeader, RejectHeader
  <2>2. ASSUME NEW t \in Thread, ActivateBestChain(t)
        PROVE  failed' \subseteq invalid'
    BY <2>2, Zenon DEF ActivateBestChain, ActivateBestChainStep, InvalidBlockFound
  <2>3. ASSUME NEW t \in Thread, NEW b \in Block, ProcessNewBlock(t, b)
        PROVE  failed' \subseteq invalid'
    BY <2>3, Zenon DEF ProcessNewBlock
  <2>4. ASSUME NEW t \in Thread, NEW b \in Block, InvalidateBlock(t, b)
        PROVE  failed' \subseteq invalid'
    BY <2>4, Zenon DEF InvalidateBlock
  <2>5. ASSUME NEW t \in Thread, NEW b \in Block, ReconsiderBlock(t, b)
        PROVE  FALSE
    BY <2>5, Zenon DEF ReconsiderBlock, Reconsidered
  <2>6. ASSUME NEW t \in Thread, NEW b \in Block, PreciousBlock(t, b)
        PROVE  failed' \subseteq invalid'
    BY <2>6, Zenon DEF PreciousBlock
  <2>7. CASE UNCHANGED vars
    BY <2>7, Zenon DEF vars
  <2> QED
    BY <2>1, <2>2, <2>3, <2>4, <2>5, <2>6, <2>7, Zenon DEF Next
<1>3. I => FailedAreMarked
  BY Zenon DEF FailedAreMarked, FailedAncestors
<1> QED
  BY <1>1, <1>2, <1>3, PTL DEF Spec

(* A block above which a mark was made for good is not waited for: what    *)
(* has its data and is not linked waits, or an ancestor failed before its  *)
(* data came and will not be taken; what failed and is not linked has such *)
(* an ancestor.                                                            *)
WaitingInv ==
  /\ \A b \in data : Path[b] \subseteq data => b \in linked
  /\ \A b \in data \ linked : b \in unlinked \/ (Path[b] \cap Failed) \ data # {}
  /\ \A c \in Failed \ linked : (Path[c] \cap Failed) \ data # {}
  /\ failed \subseteq linked
  /\ \A c \in Failed : KnownBad(c)

(* Marks alone: those made leave the data as it is.                        *)
LEMMA WaitingMarks ==
  ASSUME IndexInv, WaitingInv, UNCHANGED <<data, linked, unlinked>>,
         invalid \subseteq invalid', child \subseteq child', failed' \subseteq linked,
         \A c \in Failed' \ Failed :
           KnownBad(c)' /\ (c \in linked \/ (Path[c] \cap Failed') \ data # {})
  PROVE  WaitingInv'
<1>1. Failed \subseteq Failed' /\ \A c \in Failed : KnownBad(c)'
  BY Zenon DEF Failed, KnownBad, WaitingInv
<1> QED
  BY <1>1, Zenon DEF WaitingInv

(* A header on top of a failed block: the data that is missing is missing  *)
(* above the failed block, where all is marked.                            *)
LEMMA WaitingHeader ==
  ASSUME IndexInv, WaitingInv, NEW b \in Block, RejectHeader(b)
  PROVE  WaitingInv'
<1> DEFINE p == Parent[b]
<1>1. PICK f \in FailedAncestors(p) \cap invalid : child' = child \cup (Path[p] \ Path[f])
  BY Zenon DEF RejectHeader
<1>2. /\ UNCHANGED <<index, invalid, failed>> /\ p \in known /\ p \in Block
      /\ linked \subseteq data /\ data \subseteq Block
  BY Zenon DEF RejectHeader, IndexInv
<1>3. f \in failed /\ f \in Path[p] /\ f \in linked /\ Path[f] \subseteq data
  BY <1>1, <1>2, Zenon DEF FailedAncestors, WaitingInv, IndexInv
<1>4. ASSUME NEW c \in Path[p] \ Path[f]
      PROVE  KnownBad(c) /\ (c \in linked \/ (Path[c] \cap Failed') \ data # {})
  <2>1. c \in Block /\ Path[c] \subseteq Path[p] /\ f \in Path[c] /\ c \in Path[c]
    BY <1>2, <1>3, <1>4, PathOf, PathChain, PathHolds, Zenon
  <2>2. KnownBad(c)
    BY <1>1, <2>1, Zenon DEF KnownBad
  <2>3. CASE Path[c] \subseteq data
    BY <2>1, <2>2, <2>3, Zenon DEF WaitingInv
  <2>4. CASE ~(Path[c] \subseteq data)
    <3>1. PICK y \in Path[c] : y \notin data
      BY <2>4, Zenon
    <3>2. y \in child'
      BY <1>1, <1>3, <2>1, <3>1, Zenon
    <3> QED
      BY <2>2, <3>1, <3>2, Zenon DEF Failed
  <2> QED
    BY <2>3, <2>4, Zenon
<1>5. \A c \in Failed' \ Failed : c \in Path[p] \ Path[f]
  BY <1>1, <1>2, Zenon DEF Failed
<1>6. \A c : KnownBad(c)' <=> KnownBad(c)
  BY <1>2, Zenon DEF KnownBad
<1> HIDE DEF p
<1>7. UNCHANGED <<data, linked, unlinked>> /\ failed' \subseteq linked
  BY <1>2, Zenon DEF index, WaitingInv
<1>8. \A c \in Failed' \ Failed : KnownBad(c)' /\ (c \in linked \/ (Path[c] \cap Failed') \ data # {})
  BY <1>4, <1>5, <1>6, Zenon
<1>9. invalid \subseteq invalid' /\ child \subseteq child'
  BY <1>1, <1>2, Zenon
<1> QED
  BY <1>7, <1>8, <1>9, WaitingMarks, Zenon

(* The data of a block that has not failed arrives.                        *)
LEMMA WaitingData ==
  ASSUME IndexInv, WaitingInv, NEW b \in Block, b \notin data, b \notin Failed,
         ReceivedBlockTransactions(b), UNCHANGED <<invalid, child, failed>>
  PROVE  WaitingInv'
<1>1. /\ linked \subseteq data /\ data \subseteq Block /\ unlinked \subseteq data
      /\ Failed \subseteq Block /\ data' = data \cup {b}
      /\ \A x \in linked : Path[x] \subseteq linked
  BY Zenon DEF IndexInv, Failed, ReceivedBlockTransactions
<1>2. b # Genesis
  BY <1>1, GenesisBelow, Zenon DEF IndexInv
<1>3. Parent[b] \in Block /\ Path[b] = Path[Parent[b]] \cup {b} /\ Parent[b] \in Path[Parent[b]]
  BY <1>2, PathStep, PathHolds, Zenon
<1>4. Failed' = Failed /\ \A c : KnownBad(c)' <=> KnownBad(c)
  BY Zenon DEF Failed, KnownBad
<1>5. ASSUME NEW x \in Block, (Path[x] \cap Failed) \ data # {}
      PROVE  (Path[x] \cap Failed) \ data' # {}
  BY <1>1, <1>5, Zenon
<1>6. CASE Parent[b] \in linked
  <2> DEFINE K == Linked(b)
  <2>1. /\ b \in K /\ linked' = linked \cup K /\ unlinked' = unlinked \ K
    BY <1>6, ReceivedFacts, Zenon
  <2>2. ASSUME NEW x \in data', Path[x] \subseteq data', x \notin linked
        PROVE  x \in K
    <3>1. x \in Block /\ x \in Path[x]
      BY <1>1, PathHolds, Zenon
    <3>2. b \in Path[x]
      <4> SUFFICES ASSUME b \notin Path[x]
                   PROVE  FALSE
        OBVIOUS
      <4>1. x \in data /\ Path[x] \subseteq data
        BY <1>1, <2>2, <3>1, Zenon
      <4> QED
        BY <2>2, <4>1, Zenon DEF WaitingInv
    <3>3. ASSUME NEW z \in Path[x] \ Path[b]
          PROVE  z \in unlinked
      <4>1. z \in Block /\ b \in Path[z] /\ Path[z] \subseteq Path[x] /\ z # b
        BY <3>1, <3>2, <3>3, PathChain, PathOf, PathHolds, Zenon
      <4>2. z \in data /\ z \notin linked
        BY <1>1, <2>2, <3>3, <4>1, Zenon
      <4>3. (Path[z] \cap Failed) \ data = {}
        BY <1>1, <2>2, <4>1, Zenon
      <4> QED
        BY <4>2, <4>3, Zenon DEF WaitingInv
    <3>4. x = b \/ x \in Path[x] \ Path[b]
      BY <3>1, <3>2, PathBoth, Zenon
    <3> QED
      BY <3>2, <3>3, <3>4, Zenon DEF Linked, Links
  <2> HIDE DEF K
  <2>3. \A x \in data' : Path[x] \subseteq data' => x \in linked'
    BY <2>1, <2>2, Zenon
  <2>4. \A x \in data' \ linked' : x \in unlinked' \/ (Path[x] \cap Failed') \ data' # {}
    BY <1>1, <1>4, <1>5, <2>1, Zenon DEF WaitingInv
  <2>5. \A c \in Failed' \ linked' : (Path[c] \cap Failed') \ data' # {}
    BY <1>1, <1>4, <1>5, <2>1, Zenon DEF WaitingInv
  <2> QED
    BY <1>4, <2>1, <2>3, <2>4, <2>5, Zenon DEF WaitingInv
<1>7. CASE Parent[b] \notin linked
  <2>1. /\ linked' = linked
        /\ unlinked' = unlinked \cup (IF Parent[b] \in Failed THEN {} ELSE {b})
    BY <1>7, Zenon DEF ReceivedBlockTransactions
  <2>2. ASSUME NEW x \in data', Path[x] \subseteq data'
        PROVE  x \in linked
    <3>1. CASE b \in Path[x]
      <4>1. x \in Block /\ Path[b] \subseteq data'
        BY <1>1, <2>2, <3>1, PathOf, Zenon
      <4>2. b \notin Path[Parent[b]]
        BY <1>2, <1>3, PathBoth, PathWork, TreeAssumption
      <4>3. Path[Parent[b]] \subseteq data
        BY <1>1, <1>3, <4>1, <4>2, Zenon
      <4> QED
        BY <1>3, <1>7, <4>3, Zenon DEF WaitingInv
    <3>2. CASE b \notin Path[x]
      <4>1. x \in data /\ Path[x] \subseteq data
        BY <1>1, <2>2, <3>2, PathHolds, Zenon
      <4> QED
        BY <4>1, Zenon DEF WaitingInv
    <3> QED
      BY <3>1, <3>2, Zenon
  <2>3. b \in unlinked' \/ (Path[b] \cap Failed') \ data' # {}
    <3> SUFFICES ASSUME Parent[b] \in Failed
                 PROVE  (Path[b] \cap Failed') \ data' # {}
      BY <2>1, Zenon
    <3>1. (Path[Parent[b]] \cap Failed) \ data # {}
      BY <1>7, Zenon DEF WaitingInv
    <3> QED
      BY <1>3, <1>4, <1>5, <3>1, Zenon
  <2>4. \A x \in data' \ linked' : x \in unlinked' \/ (Path[x] \cap Failed') \ data' # {}
    BY <1>1, <1>4, <1>5, <2>1, <2>3, Zenon DEF WaitingInv
  <2>5. \A c \in Failed' \ linked' : (Path[c] \cap Failed') \ data' # {}
    BY <1>1, <1>4, <1>5, <2>1, Zenon DEF WaitingInv
  <2> QED
    BY <1>4, <2>1, <2>2, <2>4, <2>5, Zenon DEF WaitingInv
<1> QED
  BY <1>6, <1>7, Zenon

(* An activation marks linked blocks only.                                 *)
LEMMA WaitingActivate ==
  ASSUME IndexInv, WaitingInv, NEW t \in Thread, ActivateBestChain(t)
  PROVE  WaitingInv'
<1>1. PICK found \in Found(t) :
        /\ child' = found.child
        /\ \/ UNCHANGED <<invalid, failed>>
           \/ /\ found.best \notin {NoTarget, tip}
              /\ invalid' = invalid \cup Rejected(found.best)
              /\ failed' = failed \cup Rejected(found.best)
  BY Zenon DEF ActivateBestChain, Found, ActivateBestChainStep, InvalidBlockFound
<1>2. /\ target[t] # "idle" /\ UNCHANGED <<data, linked, unlinked>>
      /\ tip \in Block /\ linked \subseteq Block /\ known \subseteq Block
      /\ \A x \in linked : Path[x] \subseteq linked
  BY Zenon DEF ActivateBestChain, index, IndexInv
<1>3. ASSUME NEW c \in found.child \ child
      PROVE  c \in linked /\ KnownBad(c)
  <2>1. c \in known /\ FailedOn(c) # {}
    BY <1>2, FoundFacts, Zenon
  <2>2. c \in Marked
    <3>1. found \in FindMostWorkChain
      BY <1>3 DEF Found
    <3> QED
      BY <1>3, <3>1, FindFields, Zenon
  <2>3. PICK b \in cand : c \in Path[b]
    BY <2>2, Zenon DEF Marked, Above, Tried
  <2>4. c \in linked
    BY <1>2, <2>3, Zenon DEF IndexInv
  <2>5. PICK x \in Path[c] : x \in Failed
    BY <2>1, Zenon DEF FailedOn
  <2> QED
    BY <1>2, <2>1, <2>4, <2>5, KnownBadAbove, Zenon DEF WaitingInv
<1>4. /\ invalid \subseteq invalid' /\ invalid' \ invalid \subseteq linked
      /\ failed' \subseteq linked
  <2>1. CASE UNCHANGED <<invalid, failed>>
    BY <2>1, Zenon DEF WaitingInv
  <2>2. CASE /\ found.best \notin {NoTarget, tip}
             /\ invalid' = invalid \cup Rejected(found.best)
             /\ failed' = failed \cup Rejected(found.best)
    <3>1. found.best \in linked
      BY <1>2, <2>2, FoundFacts, Zenon
    <3>2. Rejected(found.best) \subseteq linked
      BY <1>2, <3>1, StepFacts, Zenon
    <3> QED
      BY <2>2, <3>2, Zenon DEF WaitingInv
  <2> QED
    BY <1>1, <2>1, <2>2, Zenon
<1>5. child \subseteq child'
  BY <1>1, <1>2, FoundFacts, Zenon
<1>6. ASSUME NEW c \in Failed' \ Failed
      PROVE  KnownBad(c)' /\ c \in linked
  <2>1. CASE c \in invalid' \ invalid
    BY <1>2, <1>4, <2>1, PathHolds, Zenon DEF KnownBad
  <2>2. CASE c \in child' \ child
    BY <1>1, <1>3, <1>4, <2>2, Zenon DEF KnownBad
  <2> QED
    BY <1>6, <2>1, <2>2, Zenon DEF Failed
<1> QED
  BY <1>2, <1>4, <1>5, <1>6, WaitingMarks, Zenon

(* Blocks that arrive before their parents, failing ones among them, are   *)
(* all linked in the end: without invalidateblock and reconsiderblock what *)
(* CheckBlockIndex asserts of nChainTx and mapBlocksUnlinked holds at all  *)
(* times, for any number of threads.                                       *)
THEOREM WaitingBlocksAreRight ==
  ASSUME Rpcs \subseteq {"precious"}
  PROVE  Spec => []UnlinkedRight
<1>1. Init => WaitingInv
  BY Zenon DEF Init, WaitingInv, Failed
<1>2. IndexInv /\ WaitingInv /\ [Next]_vars => WaitingInv'
  <2> SUFFICES ASSUME IndexInv, WaitingInv, [Next]_vars
               PROVE  WaitingInv'
    OBVIOUS
  <2>0. ASSUME UNCHANGED <<data, linked, unlinked, invalid, child, failed>>
        PROVE  WaitingInv'
    BY <2>0, Zenon DEF WaitingInv, Failed, KnownBad
  <2>1. ASSUME NEW b \in Block, AcceptHeader(b)
        PROVE  WaitingInv'
    BY <2>0, <2>1, Zenon DEF AcceptHeader
  <2>2. ASSUME NEW b \in Block, RejectHeader(b)
        PROVE  WaitingInv'
    BY <2>2, WaitingHeader, Zenon
  <2>3. ASSUME NEW t \in Thread, ActivateBestChain(t)
        PROVE  WaitingInv'
    BY <2>3, WaitingActivate, Zenon
  <2>4. ASSUME NEW t \in Thread, NEW b \in Block, ProcessNewBlock(t, b)
        PROVE  WaitingInv'
    <3>1. UNCHANGED <<child, failed>> /\ b \notin Failed
      BY <2>4, Zenon DEF ProcessNewBlock, HeaderOk, IndexInv, Failed
    <3>2. CASE UNCHANGED <<data, linked, unlinked, invalid>>
      BY <2>0, <3>1, <3>2, Zenon
    <3>3. CASE /\ b \notin data /\ invalid' = invalid \cup {b}
               /\ UNCHANGED <<data, linked, unlinked>>
      <4>1. Failed' \ Failed \subseteq {b} /\ b \in Path[b]
        BY <3>1, <3>3, PathHolds, Zenon DEF Failed
      <4>2. KnownBad(b)' /\ b \in (Path[b] \cap Failed') \ data
        BY <3>3, <4>1, Zenon DEF KnownBad, Failed
      <4>3. failed' \subseteq linked
        BY <3>1, Zenon DEF WaitingInv
      <4> QED
        BY <3>1, <3>3, <4>1, <4>2, <4>3, WaitingMarks, Zenon
    <3>4. CASE b \notin data /\ ReceivedBlockTransactions(b) /\ UNCHANGED invalid
      BY <3>1, <3>4, WaitingData, Zenon
    <3> QED
      BY <2>4, <3>2, <3>3, <3>4, Zenon DEF ProcessNewBlock
  <2>5. ASSUME NEW t \in Thread, NEW b \in Block, InvalidateBlock(t, b) \/ ReconsiderBlock(t, b)
        PROVE  FALSE
    BY <2>5, Zenon DEF InvalidateBlock, ReconsiderBlock, Reconsidered
  <2>6. ASSUME NEW t \in Thread, NEW b \in Block, PreciousBlock(t, b)
        PROVE  WaitingInv'
    BY <2>0, <2>6, Zenon DEF PreciousBlock
  <2>7. CASE UNCHANGED vars
    BY <2>0, <2>7, Zenon DEF vars, index
  <2> QED
    BY <2>1, <2>2, <2>3, <2>4, <2>5, <2>6, <2>7, Zenon DEF Next
<1>3. ASSUME IndexInv, WaitingInv
      PROVE  UnlinkedRight
  <2>1. linked = {b \in known : Path[b] \subseteq data}
    <3>1. \A b \in linked : b \in known /\ Path[b] \subseteq data
      BY <1>3, Zenon DEF IndexInv
    <3>2. \A b \in known : Path[b] \subseteq data => b \in linked
      BY <1>3, PathHolds, Zenon DEF IndexInv, WaitingInv
    <3> QED
      BY <3>1, <3>2, Zenon
  <2>2. ASSUME NEW b \in data \ linked, ~KnownBad(b)
        PROVE  b \in unlinked
    <3> SUFFICES ASSUME NEW y \in Path[b] \cap Failed
                 PROVE  FALSE
      BY <1>3, Zenon DEF WaitingInv
    <3>1. b \in Block /\ KnownBad(y)
      BY <1>3, Zenon DEF IndexInv, WaitingInv
    <3> QED
      BY <2>2, <3>1, KnownBadAbove, Zenon
  <2> QED
    BY <1>3, <2>1, <2>2, Zenon DEF UnlinkedRight, IndexInv
<1> QED
  BY <1>1, <1>2, <1>3, IndexInvariant, PTL DEF Spec

=============================================================================
