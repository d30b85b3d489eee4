------------------------------ MODULE Indexer ------------------------------
(***************************************************************************)
(* One chain indexer (fund, ticket and marketplace differ only in how they *)
(* choose the start block): a loop that copies the contract's logs from a  *)
(* chain that grows and reorganises into the collection ChainLog, rescans  *)
(* a window behind its cursor, and can fail or restart at any await.  API  *)
(* requests write logs of their own receipts into the same collection.     *)
(*                                                                         *)
(* A transaction carries one log of the contract.  The chain is external:  *)
(* a block is the fork that made it (its hash, with its number), and the   *)
(* transaction it includes with the position of its log.                   *)
(***************************************************************************)
EXTENDS ReorgPolicy, FiniteSets, Sequences

CONSTANTS
  Txs,            \* transactions that emit a log
  LogIndexes,     \* positions a log may have in its block
  NoTx,           \* block without a log of the contract
  StartBlock,     \* <NAME>_START_BLOCK
  NearHead,       \* the fund indexer without FUND_START_BLOCK
  MaxBlocks,      \* bound: height of the chain
  MaxTxBlock,     \* bound: highest block that includes a transaction
  MaxReorgs,      \* bound: number of reorganisations
  MaxDepth,       \* blocks one reorganisation replaces at most
  MaxFails        \* bound: failed calls and restarts

ASSUME IndexerAssumption ==
  /\ NoTx \notin Txs
  /\ NearHead \in BOOLEAN
  /\ \A k \in {StartBlock, MaxBlocks, MaxTxBlock, MaxReorgs, MaxFails} : k \in Nat
  /\ LogIndexes \subseteq Nat
  /\ MaxDepth \in 0..(Confirmations + ReorgBuffer)

VARIABLES
  chain,     \* the canonical chain as the node reports it, genesis left out
  reorgs,    \* how often it was reorganised
  rows,      \* ChainLog
  unread,    \* transactions whose API request has not seen its receipt
  receipts,  \* logs of receipts that were read and not yet written
  sync,      \* BlockchainSyncState of this indexer
  run,       \* the loop: where it awaits, its range and the logs it fetched
  fails      \* failures so far

requestVars == <<unread, receipts>>
vars == <<chain, reorgs, rows, requestVars, sync, run, fails>>

Block == [hash : 0..MaxReorgs, tx : Txs \union {NoTx}, index : LogIndexes]
Row == [block : 1..MaxBlocks, hash : 0..MaxReorgs, tx : Txs, index : LogIndexes]
Awaits == {"sleep", "delete", "fetch", "store", "save", "finish"}

Sleeping == [at |-> "sleep", from |-> 0, target |-> 0, logs |-> {}]

Init ==
  /\ chain = <<>>
  /\ reorgs = 0
  /\ rows = {}
  /\ unread = Txs
  /\ receipts = {}
  /\ sync = [known |-> FALSE, last |-> 0, status |-> "synced"]
  /\ run = Sleeping
  /\ fails = 0

----------------------------------------------------------------------------
\* The chain (external)

Height == Len(chain)

\* What getLogs answers for a range of blocks.
GetLogs(from, to) ==
  {[block |-> n, hash |-> chain[n].hash, tx |-> chain[n].tx, index |-> chain[n].index] :
     n \in {k \in DOMAIN chain : k \in from..to /\ chain[k].tx # NoTx}}

\* A transaction is on a chain at most once.
WellFormed(c) ==
  \A m, n \in DOMAIN c : m # n /\ c[m].tx # NoTx => c[m].tx # c[n].tx

BlockAt(n, fork) ==
  {b \in Block : b.hash = fork /\ (b.tx # NoTx => n <= MaxTxBlock)
                 /\ (b.tx = NoTx => \A i \in LogIndexes : b.index <= i)}

Mine ==
  /\ Height < MaxBlocks
  /\ \E b \in BlockAt(Height + 1, reorgs) :
       /\ WellFormed(Append(chain, b))
       /\ chain' = Append(chain, b)
  /\ UNCHANGED <<reorgs, rows, requestVars, sync, run, fails>>

\* The last d blocks are replaced; a transaction of theirs may come back in
\* another block, at another position, or not at all.
Reorg ==
  /\ reorgs < MaxReorgs
  /\ \E d \in 1..MaxDepth :
       /\ d <= Height
       /\ \E tail \in [1..d -> UNION {BlockAt(n, reorgs + 1) : n \in 1..Height}] :
            /\ \A k \in 1..d : tail[k] \in BlockAt(Height - d + k, reorgs + 1)
            /\ WellFormed(SubSeq(chain, 1, Height - d) \o tail)
            /\ chain' = SubSeq(chain, 1, Height - d) \o tail
  /\ reorgs' = reorgs + 1
  /\ UNCHANGED <<rows, requestVars, sync, run, fails>>

----------------------------------------------------------------------------
\* ChainLog: one row per transaction and position

Taken(r) == \E q \in rows : q.tx = r.tx /\ q.index = r.index

\* An API request waits for its transaction and reads the receipt.
ReadReceipt ==
  /\ \E r \in GetLogs(1, Height) :
       /\ r.tx \in unread
       /\ unread' = unread \ {r.tx}
       /\ receipts' = receipts \union {r}
  /\ UNCHANGED <<chain, reorgs, rows, sync, run, fails>>

\* persistLogsFromReceipt: a duplicate key is ignored.  Requests are taken to
\* end before the chain has grown by the whole window behind their block.
PersistReceipt ==
  /\ \E r \in receipts :
       /\ Height < r.block + Confirmations + ReorgBuffer
       /\ rows' = rows \union {q \in {r} : ~Taken(q)}
       /\ receipts' = receipts \ {r}
  /\ UNCHANGED <<chain, reorgs, unread, sync, run, fails>>

----------------------------------------------------------------------------
\* The indexer

StartFor(latest) ==
  IF NearHead THEN Minus(latest, Confirmations + ReorgBuffer + 1) ELSE StartBlock

\* getOrInitSyncState: the cursor starts at the start block.
SyncState(start) ==
  IF sync.known THEN sync ELSE [known |-> TRUE, last |-> start, status |-> "synced"]

\* The near-head fund indexer never plans from before its start block.
EffectiveLast(start, last) == IF NearHead THEN AtLeast(last, start) ELSE last

\* A tick of the loop: read the head and the cursor, plan, mark as syncing.
\* Only this process writes the cursor, so these awaits are one step; a tick
\* that fails among them changes nothing but the status.
PlanSync ==
  LET start == StartFor(Height)
      state == SyncState(start)
      target == ComputeTargetBlock(Height)
      from == ComputeRescanFromBlock(start, EffectiveLast(start, state.last))
      shouldSync == ShouldSync(from, target)
  IN
  /\ run.at = "sleep"
  /\ sync' = IF shouldSync THEN [state EXCEPT !.status = "syncing"] ELSE state
  /\ run' = IF shouldSync
              THEN [at |-> "delete", from |-> from, target |-> target, logs |-> {}]
              ELSE Sleeping
  /\ UNCHANGED <<chain, reorgs, rows, requestVars, fails>>

ChunkEnd == CurrentTo(run.from, run.target)

DeleteLogsInRange ==
  /\ run.at = "delete"
  /\ rows' = {r \in rows : r.block \notin run.from..ChunkEnd}
  /\ run' = [run EXCEPT !.at = "fetch"]
  /\ UNCHANGED <<chain, reorgs, requestVars, sync, fails>>

FetchLogs ==
  /\ run.at = "fetch"
  /\ run' = [run EXCEPT !.at = "store", !.logs = GetLogs(run.from, ChunkEnd)]
  /\ UNCHANGED <<chain, reorgs, rows, requestVars, sync, fails>>

\* insertMany, unordered: every row without a duplicate goes in, and one
\* duplicate makes the call throw; the loop records the error and sleeps.
StoreLogs ==
  /\ run.at = "store"
  /\ rows' = rows \union {r \in run.logs : ~Taken(r)}
  /\ IF \E r \in run.logs : Taken(r)
       THEN /\ run' = Sleeping
            /\ sync' = [sync EXCEPT !.status = "error"]
       ELSE /\ run' = [run EXCEPT !.at = "save", !.logs = {}]
            /\ UNCHANGED sync
  /\ UNCHANGED <<chain, reorgs, requestVars, fails>>

\* Mutant: the loop runs once more when its range is done.
UpdateProgressOnceMore ==
  /\ run.at = "save"
  /\ sync' = [sync EXCEPT !.last = ChunkEnd, !.status = "syncing"]
  /\ run' = [run EXCEPT !.from = ChunkEnd + 1,
                        !.at = IF ChunkEnd <= run.target THEN "delete" ELSE "finish"]
  /\ UNCHANGED <<chain, reorgs, rows, requestVars, fails>>

UpdateProgress ==
  /\ run.at = "save"
  /\ sync' = [sync EXCEPT !.last = ChunkEnd, !.status = "syncing"]
  /\ run' = [run EXCEPT !.from = ChunkEnd + 1,
                        !.at = IF ChunkEnd < run.target THEN "delete" ELSE "finish"]
  /\ UNCHANGED <<chain, reorgs, rows, requestVars, fails>>

MarkSynced ==
  /\ run.at = "finish"
  /\ sync' = [sync EXCEPT !.status = "synced"]
  /\ run' = Sleeping
  /\ UNCHANGED <<chain, reorgs, rows, requestVars, fails>>

\* A call to the node or the database throws, an insert after some of its
\* rows: markError, and the loop sleeps.
CallFails ==
  /\ fails < MaxFails
  /\ run.at # "sleep"
  /\ \E some \in SUBSET {r \in run.logs : ~Taken(r)} : rows' = rows \union some
  /\ sync' = [sync EXCEPT !.status = "error"]
  /\ run' = Sleeping
  /\ fails' = fails + 1
  /\ UNCHANGED <<chain, reorgs, requestVars>>

\* The process stops, or markError throws as well; it is started again.
Restart ==
  /\ fails < MaxFails
  /\ run.at # "sleep"
  /\ run' = Sleeping
  /\ fails' = fails + 1
  /\ UNCHANGED <<chain, reorgs, rows, requestVars, sync>>

Indexing ==
  PlanSync \/ DeleteLogsInRange \/ FetchLogs \/ StoreLogs \/ UpdateProgress \/ MarkSynced

Next ==
  \/ Mine
  \/ Reorg
  \/ ReadReceipt
  \/ PersistReceipt
  \/ Indexing
  \/ CallFails
  \/ Restart

Spec == Init /\ [][Next]_vars

\* The loop never stops ticking and its calls return; blocks keep coming.
FairSpec == Spec /\ WF_vars(Indexing) /\ WF_vars(Mine)

----------------------------------------------------------------------------
\* Properties

\* The index on transaction and position.
UniqueLogs(logs) == \A r, s \in logs : r.tx = s.tx /\ r.index = s.index => r = s

\* Types; a transaction is on the chain once, and neither ChainLog nor what a pass
\* has fetched holds two logs of one transaction and position.
TypeOK ==
  /\ chain \in Seq(Block) /\ Height <= MaxBlocks /\ WellFormed(chain)
  /\ reorgs \in 0..MaxReorgs
  /\ rows \subseteq Row /\ UniqueLogs(rows) /\ UniqueLogs(run.logs)
  /\ unread \subseteq Txs /\ receipts \subseteq Row
  /\ sync \in [known : BOOLEAN, last : 0..AtLeast(MaxBlocks, StartBlock),
               status : {"synced", "syncing", "error"}]
  /\ run \in [at : Awaits, from : 0..(MaxBlocks + 1), target : 0..MaxBlocks,
              logs : SUBSET Row]
  /\ fails \in 0..MaxFails

RowsAt(n) == {r \in rows : r.block = n}
Exact(n) == RowsAt(n) = GetLogs(n, n)

\* Once the cursor is a whole window past a block, ChainLog holds exactly the
\* canonical logs of that block and keeps them, whatever failed, was fetched
\* before a reorganisation or came from an old receipt.
FinalizedExact ==
  \A n \in 1..MaxBlocks :
    n >= StartBlock /\ n + ReorgBuffer <= sync.last /\ sync.known => Exact(n)

Settled == \A n \in 1..ComputeTargetBlock(Height) : n >= StartBlock => Exact(n)

\* backend/docs/blockchain-indexing.md:202: after an error the next rounds
\* recover.  When reorganisations and failures have ended the indexer keeps
\* completing passes and, between them, ChainLog holds exactly the confirmed logs.
CatchesUp ==
  /\ []<>(run.at = "sleep")
  /\ <>[](run.at = "sleep" => Settled)

InsertRefused == run.at = "store" /\ \E r \in run.logs : Taken(r)

\* Failures, restarts, reorganisations and late receipts only delay the indexer:
\* nothing but a duplicate key met over and over keeps it from catching up.
CatchesUpUnlessRefused == []<>InsertRefused \/ CatchesUp
=============================================================================
