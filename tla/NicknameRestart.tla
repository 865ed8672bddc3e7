--------------------------- MODULE NicknameRestart ---------------------------
(***************************************************************************)
(* Flush, shutdown, crash and reindex on top of the nickname ledger.       *)
(*                                                                         *)
(* ConnectBlock writes the nickname database when it connects a block; the *)
(* coins and the best block are in memory (utxo, used, height) until       *)
(* FlushStateToDisk writes them.  A process that starts takes the coins    *)
(* and the tip of the last flush, opens the nickname database as it is     *)
(* (AppInitMain reconciles nothing), and connects the stored blocks above  *)
(* its tip again, from the block files.                                    *)
(*                                                                         *)
(* A crash is the end of the process: what was handed to the operating     *)
(* system is kept.  What the node does after it rejected a stored block is *)
(* not modelled, and neither is a crash after a block that was flushed has *)
(* been disconnected again.                                                *)
(***************************************************************************)
EXTENDS NicknameTxs, Sequences

CONSTANT MayCrash   \* the process may end with unflushed coins

ASSUME MayCrashAssumption == MayCrash \in BOOLEAN

VARIABLES
  disk,    \* coins and tip of the last flush
  files,   \* the stored block at each height of the best chain known
  best,    \* its height
  filling, \* the transactions of the block being connected, if it is new
  first    \* checking only: the state after each block, when first connected

restartVars == <<vars, disk, files, best, filling, first>>

State == [db |-> db, utxo |-> utxo, used |-> used]

RestartInit ==
  /\ Init
  /\ disk = [utxo |-> utxo, used |-> used, height |-> height]
  /\ files = [h \in 1 .. MaxHeight |-> <<>>]
  /\ best = 0
  /\ filling = <<>>
  /\ first = [h \in 0 .. MaxHeight |-> State]

-----------------------------------------------------------------------------
(* New blocks.                                                             *)

NewBlock ==
  /\ height = best
  /\ BeginBlock
  /\ UNCHANGED <<disk, files, best, filling, first>>

NewTx(d) ==
  /\ height = best
  /\ Does(d)
  /\ filling' = Append(filling, d)
  /\ UNCHANGED <<disk, files, best, first>>

(* The block is already stored (AcceptBlock) when it is connected.         *)
NewCommit ==
  /\ height = best
  /\ CommitBlock
  /\ files' = [files EXCEPT ![BlockHeight] = filling]
  /\ best' = BlockHeight
  /\ filling' = <<>>
  /\ first' = [first EXCEPT ![BlockHeight] = State']
  /\ UNCHANGED disk

NewAbandon ==
  /\ height = best
  /\ AbandonBlock
  /\ filling' = <<>>
  /\ UNCHANGED <<disk, files, best, first>>

(* A competing chain has more work: the tip is disconnected and not        *)
(* connected again.                                                        *)
Disconnect ==
  /\ height = best
  /\ MayCrash => height > disk.height
  /\ DisconnectBlock
  /\ files' = [files EXCEPT ![height] = <<>>]
  /\ best' = height - 1
  /\ first' = [first EXCEPT ![height] = first[0]]
  /\ UNCHANGED <<disk, filling>>

-----------------------------------------------------------------------------
(* Stored blocks above the tip are connected again.                        *)

Stored == files[BlockHeight]

ReplayBlock ==
  /\ height < best
  /\ BeginBlock
  /\ UNCHANGED <<disk, files, best, filling, first>>

ReplayTx ==
  /\ height < best
  /\ blk # NoBlock /\ blk.txs < Len(Stored)
  /\ Does(Stored[blk.txs + 1])
  /\ UNCHANGED <<disk, files, best, filling, first>>

ReplayCommit ==
  /\ height < best
  /\ blk # NoBlock /\ blk.txs = Len(Stored)
  /\ CommitBlock
  /\ UNCHANGED <<disk, files, best, filling, first>>

-----------------------------------------------------------------------------
(* The process.                                                            *)

InMemory == [utxo |-> utxo, used |-> used, height |-> height]

(* A full flush: periodic, when the cache is full, or in Shutdown.         *)
FlushStateToDisk ==
  /\ blk = NoBlock
  /\ disk' = InMemory
  /\ UNCHANGED <<vars, files, best, filling, first>>

Kept(h) == [x \in 1 .. MaxHeight |-> IF x <= h THEN chain[x] ELSE NoBlock]

(* The process ends and starts again.  After Shutdown, disk = InMemory.    *)
Restart ==
  /\ MayCrash \/ disk = InMemory
  /\ disk.height <= height
  /\ utxo' = disk.utxo /\ used' = disk.used /\ height' = disk.height
  /\ chain' = Kept(disk.height)
  /\ blk' = NoBlock /\ tx' = NoTx /\ filling' = <<>>
  /\ UNCHANGED <<db, disk, files, best, first>>

(* Mutant: the nickname database is not wiped. *)
MutWiped == db

(* InitNicknameStateDB with fWipe.                                         *)
Wiped == EmptyDB

(* A start with -reindex-chainstate: both databases are wiped.             *)
Reindex ==
  /\ db' = Wiped
  /\ utxo' = [o \in Outpoint |-> NoCoin]
  /\ used' = {}
  /\ height' = 0
  /\ chain' = Kept(0)
  /\ blk' = NoBlock /\ tx' = NoTx /\ filling' = <<>>
  /\ disk' = [utxo |-> utxo', used |-> used', height |-> height']
  /\ UNCHANGED <<files, best, first>>

RestartNext ==
  \/ NewBlock \/ NewCommit \/ NewAbandon \/ Disconnect
  \/ \E d \in Tx : NewTx(d)
  \/ ReplayBlock \/ ReplayTx \/ ReplayCommit
  \/ FlushStateToDisk \/ Restart \/ Reindex

RestartSpec == RestartInit /\ [][RestartNext]_restartVars

-----------------------------------------------------------------------------
(* The databases are a function of the active chain: whatever blocks were  *)
(* abandoned or disconnected before, and after an orderly restart or a     *)
(* reindex, the records, indexes, counts, prices and bonds after the block *)
(* at the tip are those it had when it was first connected.                *)
StateOfChain == blk = NoBlock => State = first[height]

(* A stored block of the best chain was valid, so it is accepted when it   *)
(* is connected again.  The code states the condition for that: "Apply the *)
(* block atomically to the chain state" (ConnectTip).                      *)
ReplayAccepted ==
  height < best /\ blk # NoBlock /\ blk.txs < Len(Stored) =>
    BlockRules(Stored[blk.txs + 1])

=============================================================================
