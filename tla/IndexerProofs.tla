---------------------------- MODULE IndexerProofs ----------------------------
(***************************************************************************)
(* ChainLog holds the canonical logs of every block the cursor is a window *)
(* past, for every number of blocks, confirmations, chunks, transactions,  *)
(* reorganisations and failures.                                           *)
(*                                                                         *)
(* Blocks as deep as confirmations and window together are final: no       *)
(* reorganisation reaches them and no receipt of theirs is still written.  *)
(* The invariant says of the final blocks what the loop has made of them:  *)
(* exact before its range, empty once deleted, matched by the logs in its  *)
(* memory once fetched, exact again once stored.  Only blocks that are     *)
(* final when a pass is planned can be a window behind its target.         *)
(***************************************************************************)
EXTENDS Indexer, SequenceTheorems, TLAPS

\* The start block is configured, and there is a window.  The near-head fund
\* indexer passes blocks over, and without a window the start block is never
\* fetched.
Windowed == ~NearHead /\ ReorgBuffer > 0

Final(n) == n + Confirmations + ReorgBuffer <= Height
LogsAt(n) == {r \in run.logs : r.block = n}

\* The cursor never gets ahead of the confirmed blocks, but for the first one.
CursorInv == sync.known => sync.last + Confirmations <= Height \/ sync.last = StartBlock

\* What the pass has made of block n.
PassInv(n) ==
  /\ n < run.from => Exact(n)
  /\ n \in run.from..ChunkEnd =>
       /\ run.at \in {"fetch", "store"} => RowsAt(n) = {}
       /\ run.at = "store" => LogsAt(n) = GetLogs(n, n)
       /\ run.at = "save" => Exact(n)

RunInv ==
  /\ run.at # "store" => run.logs = {}
  /\ run.at # "sleep" => sync.known /\ run.target + Confirmations <= Height
  /\ run.at \notin {"sleep", "finish"} =>
       /\ run.from <= run.target
       /\ sync.last < run.from + ReorgBuffer
       /\ \A r \in run.logs : r.block \in run.from..ChunkEnd
       /\ \A n \in 1..MaxBlocks : n >= StartBlock /\ n + ReorgBuffer <= run.target => PassInv(n)

IInv == TypeOK /\ CursorInv /\ RunInv /\ FinalizedExact

-----------------------------------------------------------------------------
LEMMA ConstantsType ==
  /\ Confirmations \in Nat /\ ReorgBuffer \in Nat /\ ChunkSize \in Nat /\ ChunkSize > 0
  /\ StartBlock \in Nat /\ MaxBlocks \in Nat /\ MaxReorgs \in Nat /\ MaxFails \in Nat
  /\ MaxDepth \in Nat /\ MaxDepth <= Confirmations + ReorgBuffer
<1>1. Confirmations \in Nat /\ ReorgBuffer \in Nat /\ ChunkSize \in Nat \ {0}
  BY ReorgPolicyAssumption DEF ReorgPolicyAssumption
<1>2. MaxDepth \in 0..(Confirmations + ReorgBuffer)
  BY IndexerAssumption DEF IndexerAssumption
<1>3. \A k \in {StartBlock, MaxBlocks, MaxTxBlock, MaxReorgs, MaxFails} : k \in Nat
  BY IndexerAssumption DEF IndexerAssumption
<1>4. StartBlock \in Nat /\ MaxBlocks \in Nat /\ MaxReorgs \in Nat /\ MaxFails \in Nat
  BY <1>3
<1> QED
  BY <1>1, <1>2, <1>4

\* The arithmetic of the planning.
LEMMA TargetType ==
  ASSUME NEW h \in Nat
  PROVE  /\ ComputeTargetBlock(h) \in Nat /\ ComputeTargetBlock(h) <= h
         /\ ComputeTargetBlock(h) > 0 => ComputeTargetBlock(h) + Confirmations <= h
BY ConstantsType DEF ComputeTargetBlock, Minus, AtLeast

LEMMA RescanType ==
  ASSUME NEW start \in Nat, NEW last \in Nat
  PROVE  /\ ComputeRescanFromBlock(start, last) \in Nat
         /\ ReorgBuffer > 0 =>
              /\ last < ComputeRescanFromBlock(start, last) + ReorgBuffer
              /\ \A n \in Nat : start <= n /\ n < ComputeRescanFromBlock(start, last) => n + ReorgBuffer <= last
BY ConstantsType DEF ComputeRescanFromBlock, Minus, AtLeast

LEMMA ChunkType ==
  ASSUME NEW from \in Nat, NEW target \in Nat, from <= target
  PROVE  /\ CurrentTo(from, target) \in Nat
         /\ from <= CurrentTo(from, target) /\ CurrentTo(from, target) <= target
BY ConstantsType DEF CurrentTo, AtMost

LEMMA StartType ==
  ASSUME NEW h \in 0..MaxBlocks
  PROVE  StartFor(h) \in 0..AtLeast(MaxBlocks, StartBlock)
BY ConstantsType DEF StartFor, Minus, AtLeast

\* What TypeOK says of the chain and the run.
TypedState ==
  /\ Height \in Nat /\ Height <= MaxBlocks /\ DOMAIN chain = 1..Height
  /\ \A n \in DOMAIN chain : chain[n] \in Block
  /\ sync.last \in Nat /\ run.from \in Nat /\ run.target \in Nat /\ run.target <= MaxBlocks

LEMMA Typed == TypeOK => TypedState
BY ConstantsType DEF TypeOK, TypedState, Height, AtLeast

LEMMA LogsType ==
  ASSUME TypeOK, NEW from \in Nat, NEW to \in Nat
  PROVE  /\ GetLogs(from, to) \subseteq Row
         /\ \A r \in GetLogs(from, to) : r.block \in from..to
<1> SUFFICES ASSUME NEW r \in GetLogs(from, to)
             PROVE  r \in Row /\ r.block \in from..to
  OBVIOUS
<1>1. PICK n \in DOMAIN chain :
        /\ n \in from..to /\ chain[n].tx # NoTx
        /\ r = [block |-> n, hash |-> chain[n].hash, tx |-> chain[n].tx, index |-> chain[n].index]
  BY DEF GetLogs
<1>2. n \in 1..MaxBlocks /\ chain[n] \in Block
  BY Typed, ConstantsType DEF TypedState
<1> QED
  BY <1>1, <1>2 DEF Row, Block

LEMMA TypedNext == TypeOK' => TypedState'
BY Typed, PTL

\* The logs of a range are, block by block, the logs of each.
LEMMA LogsOfBlock ==
  ASSUME NEW from \in Nat, NEW to \in Nat, NEW n \in from..to, TypeOK
  PROVE  {r \in GetLogs(from, to) : r.block = n} = GetLogs(n, n)
<1>1. \A k \in DOMAIN chain : k \in Nat
  BY Typed DEF TypedState
<1>2. ASSUME NEW r \in GetLogs(from, to), r.block = n
      PROVE  r \in GetLogs(n, n)
  <2>1. PICK k \in DOMAIN chain :
          /\ k \in from..to /\ chain[k].tx # NoTx
          /\ r = [block |-> k, hash |-> chain[k].hash, tx |-> chain[k].tx, index |-> chain[k].index]
    BY <1>2 DEF GetLogs
  <2>2. k = n /\ k \in n..n
    BY <1>1, <1>2, <2>1
  <2> QED
    BY <2>1, <2>2 DEF GetLogs
<1>3. ASSUME NEW r \in GetLogs(n, n)
      PROVE  r \in GetLogs(from, to) /\ r.block = n
  <2>1. PICK k \in DOMAIN chain :
          /\ k \in n..n /\ chain[k].tx # NoTx
          /\ r = [block |-> k, hash |-> chain[k].hash, tx |-> chain[k].tx, index |-> chain[k].index]
    BY <1>3 DEF GetLogs
  <2>2. k = n /\ k \in from..to
    BY <1>1, <2>1
  <2> QED
    BY <2>1, <2>2 DEF GetLogs
<1> QED
  BY <1>2, <1>3

\* The logs of a range, and what goes in without a duplicate.
LEMMA LogsUnique ==
  ASSUME TypeOK, NEW from, NEW to
  PROVE  UniqueLogs(GetLogs(from, to))
<1>1. WellFormed(chain)
  BY DEF TypeOK
<1> QED
  BY <1>1 DEF GetLogs, WellFormed, UniqueLogs

LEMMA InsertUnique ==
  ASSUME UniqueLogs(rows), NEW new, UniqueLogs(new), \A r \in new : ~Taken(r)
  PROVE  UniqueLogs(rows \union new)
BY DEF UniqueLogs, Taken

LEMMA SubsetUnique ==
  ASSUME NEW logs, UniqueLogs(logs), NEW some \in SUBSET logs
  PROVE  UniqueLogs(some)
BY DEF UniqueLogs

-----------------------------------------------------------------------------
(* The chain.                                                              *)

\* The chain keeps the final blocks.
Keeps ==
  /\ Height <= Height'
  /\ \A n \in 1..Height : Final(n) => chain'[n] = chain[n]

LEMMA MineChain ==
  ASSUME TypeOK, Mine
  PROVE  chain' \in Seq(Block) /\ Height' <= MaxBlocks /\ WellFormed(chain') /\ Keeps
<1>1. PICK b \in Block : WellFormed(Append(chain, b)) /\ chain' = Append(chain, b) /\ Height < MaxBlocks
  BY DEF Mine, BlockAt
<1>2. chain \in Seq(Block)
  BY DEF TypeOK
<1>3. /\ chain' \in Seq(Block) /\ Len(chain') = Len(chain) + 1
      /\ \A n \in 1..Len(chain) : chain'[n] = chain[n]
  BY <1>1, <1>2
<1> QED
  BY <1>1, <1>3, Typed, ConstantsType DEF TypedState, Keeps, Height

LEMMA ReorgChain ==
  ASSUME TypeOK, Reorg
  PROVE  chain' \in Seq(Block) /\ Height' = Height /\ WellFormed(chain') /\ Keeps
<1>1. PICK d \in 1..MaxDepth :
        /\ d <= Height
        /\ \E tail \in [1..d -> UNION {BlockAt(n, reorgs + 1) : n \in 1..Height}] :
             /\ WellFormed(SubSeq(chain, 1, Height - d) \o tail)
             /\ chain' = SubSeq(chain, 1, Height - d) \o tail
  BY DEF Reorg
<1>2. PICK tail \in [1..d -> UNION {BlockAt(n, reorgs + 1) : n \in 1..Height}] :
        /\ WellFormed(SubSeq(chain, 1, Height - d) \o tail)
        /\ chain' = SubSeq(chain, 1, Height - d) \o tail
  BY <1>1
<1>3. d \in Nat /\ d <= MaxDepth /\ Height \in Nat /\ chain \in Seq(Block) /\ Height = Len(chain)
  BY Typed, ConstantsType DEF TypedState, TypeOK, Height
<1>4. UNION {BlockAt(n, reorgs + 1) : n \in 1..Height} \subseteq Block
  BY DEF BlockAt
<1>5. tail \in Seq(Block) /\ Len(tail) = d
  <2>1. tail \in [1..d -> Block]
    BY <1>4
  <2> QED
    BY <1>3, <2>1, SeqDef, LenProperties
<1> DEFINE front == SubSeq(chain, 1, Height - d)
<1>6. /\ front \in Seq(Block) /\ Len(front) = Height - d
      /\ \A n \in 1..Height - d : front[n] = chain[n]
  BY <1>1, <1>3, SubSeqProperties
<1> HIDE DEF front
<1>7. chain' = front \o tail
  BY <1>2 DEF front
<1>8. /\ chain' \in Seq(Block) /\ Len(chain') = Height
      /\ \A n \in 1..Height - d : chain'[n] = chain[n]
  <2>0. Height - d \in Nat /\ Height - d + d = Height
    BY <1>1, <1>3
  <2>1. PICK k \in Nat : k = Height - d /\ k + d = Height
    BY <2>0
  <2>2. /\ chain' \in Seq(Block) /\ Len(chain') = Len(front) + Len(tail)
        /\ \A n \in 1..Len(front) + Len(tail) : n <= Len(front) => chain'[n] = front[n]
    BY <1>5, <1>6, <1>7, ConcatProperties
  <2>3. Len(front) = k /\ Len(tail) = d /\ \A n \in 1..k : front[n] = chain[n]
    BY <1>5, <1>6, <2>1
  <2>4. Len(chain') = Height
    BY <2>1, <2>2, <2>3
  <2>5. \A n \in 1..k : n \in 1..Len(front) + Len(tail) /\ n <= Len(front)
    BY <1>3, <2>1, <2>3
  <2>6. \A n \in 1..k : chain'[n] = chain[n]
    BY <2>2, <2>3, <2>5
  <2> QED
    BY <2>1, <2>2, <2>4, <2>6
<1>9. \A n \in 1..Height : Final(n) => n <= Height - d
  BY <1>3, ConstantsType DEF Final
<1> QED
  BY <1>2, <1>3, <1>8, <1>9 DEF Keeps, Height

LEMMA KeptLogs ==
  ASSUME TypeOK, TypeOK', Keeps, NEW n \in 1..Height, Final(n)
  PROVE  GetLogs(n, n)' = GetLogs(n, n)
<1>1. DOMAIN chain = 1..Height /\ DOMAIN chain' = 1..Height' /\ Height \in Nat /\ Height' \in Nat
  BY Typed, TypedNext DEF TypedState
<1>2. n \in DOMAIN chain /\ n \in DOMAIN chain' /\ chain'[n] = chain[n]
  BY <1>1 DEF Keeps
<1>3. \A k \in n..n : k = n
  OBVIOUS
<1> QED
  BY <1>2, <1>3 DEF GetLogs

LEMMA FinalWithin ==
  ASSUME TypeOK, NEW n \in 1..MaxBlocks, Final(n)
  PROVE  n \in 1..Height
BY Typed, ConstantsType DEF TypedState, Final

-----------------------------------------------------------------------------
(* Types.                                                                  *)

SyncType ==
  [known : BOOLEAN, last : 0..AtLeast(MaxBlocks, StartBlock), status : {"synced", "syncing", "error"}]
RunType == [at : Awaits, from : 0..(MaxBlocks + 1), target : 0..MaxBlocks, logs : SUBSET Row]

\* The state beside the chain.
Beside ==
  /\ rows \subseteq Row /\ UniqueLogs(rows) /\ UniqueLogs(run.logs)
  /\ unread \subseteq Txs /\ receipts \subseteq Row
  /\ sync \in SyncType
  /\ run \in RunType
  /\ fails \in 0..MaxFails

LEMMA ChainTypeKept ==
  ASSUME TypeOK, UNCHANGED <<chain, reorgs>>, Beside'
  PROVE  TypeOK'
BY DEF TypeOK, Beside, SyncType, RunType, Height, WellFormed

LEMMA SleepType == Sleeping \in RunType /\ UniqueLogs(Sleeping.logs)
BY ConstantsType DEF Sleeping, Awaits, RunType, UniqueLogs

LEMMA ChainStepType ==
  ASSUME TypeOK, Mine \/ Reorg
  PROVE  TypeOK' /\ Keeps
<1>1. UNCHANGED <<rows, requestVars, sync, run, fails>>
  BY DEF Mine, Reorg
<1>2. CASE Mine
  <2>1. chain' \in Seq(Block) /\ Height' <= MaxBlocks /\ WellFormed(chain') /\ Keeps
    BY <1>2, MineChain
  <2>2. reorgs' = reorgs
    BY <1>2 DEF Mine
  <2> QED
    BY <1>1, <2>1, <2>2 DEF TypeOK, requestVars
<1>3. CASE Reorg
  <2>1. chain' \in Seq(Block) /\ Height' = Height /\ WellFormed(chain') /\ Keeps
    BY <1>3, ReorgChain
  <2>2. reorgs < MaxReorgs /\ reorgs' = reorgs + 1
    BY <1>3 DEF Reorg
  <2>3. reorgs' \in 0..MaxReorgs
    BY <2>2, ConstantsType DEF TypeOK
  <2> QED
    BY <1>1, <2>1, <2>3 DEF TypeOK, requestVars
<1> QED
  BY <1>2, <1>3

LEMMA RequestStepType ==
  ASSUME TypeOK, ReadReceipt \/ PersistReceipt
  PROVE  TypeOK'
<1>1. UNCHANGED <<chain, reorgs, sync, run, fails>>
  BY DEF ReadReceipt, PersistReceipt
<1>2. CASE ReadReceipt
  <2>1. GetLogs(1, Height) \subseteq Row
    BY Typed, LogsType DEF TypedState
  <2>2. rows' = rows /\ unread' \subseteq unread /\ receipts' \subseteq Row
    BY <1>2, <2>1 DEF ReadReceipt, TypeOK
  <2> QED
    BY <1>1, <2>2, ChainTypeKept DEF TypeOK, Beside, SyncType, RunType
<1>3. CASE PersistReceipt
  <2>1. rows' \subseteq Row /\ unread' = unread /\ receipts' \subseteq receipts
    BY <1>3 DEF PersistReceipt, TypeOK
  <2>2. PICK r \in receipts : rows' = rows \union {q \in {r} : ~Taken(q)}
    BY <1>3 DEF PersistReceipt
  <2>3. UniqueLogs({q \in {r} : ~Taken(q)})
    BY DEF UniqueLogs
  <2>4. UniqueLogs(rows')
    BY <2>2, <2>3, InsertUnique DEF TypeOK
  <2> QED
    BY <1>1, <2>1, <2>4, ChainTypeKept DEF TypeOK, Beside, SyncType, RunType
<1> QED
  BY <1>2, <1>3

\* A step of the loop.
LoopType ==
  /\ rows' \subseteq Row /\ UniqueLogs(rows') /\ UniqueLogs(run'.logs)
  /\ sync' \in SyncType /\ run' \in RunType

LEMMA LoopTypeKept ==
  ASSUME TypeOK, UNCHANGED <<chain, reorgs, requestVars>>, fails' \in 0..MaxFails, LoopType
  PROVE  TypeOK'
BY ChainTypeKept DEF TypeOK, Beside, SyncType, RunType, LoopType, requestVars

LEMMA LoopState ==
  TypeOK => rows \subseteq Row /\ UniqueLogs(rows) /\ UniqueLogs(run.logs) /\ sync \in SyncType /\ run \in RunType
BY DEF TypeOK, SyncType, RunType

\* What a pass begins with.
LEMMA PlanShape ==
  ASSUME TypeOK, PlanSync, run' # Sleeping
  PROVE  \E from, target \in Nat :
           /\ run' = [at |-> "delete", from |-> from, target |-> target, logs |-> {}]
           /\ from <= target /\ target + Confirmations <= Height
           /\ Windowed => /\ sync'.last < from + ReorgBuffer
                          /\ \A n \in Nat : StartBlock <= n /\ n < from => n + ReorgBuffer <= sync'.last
<1> DEFINE start == StartFor(Height)
           state == SyncState(start)
           target == ComputeTargetBlock(Height)
           from == ComputeRescanFromBlock(start, EffectiveLast(start, state.last))
<1>1. /\ run' = [at |-> "delete", from |-> from, target |-> target, logs |-> {}]
      /\ ShouldSync(from, target) /\ sync' = [state EXCEPT !.status = "syncing"]
  BY DEF PlanSync
<1>2. start \in Nat
  BY Typed, StartType, ConstantsType DEF TypedState, AtLeast
<1>3. state \in [known : BOOLEAN, last : Nat, status : {"synced", "syncing", "error"}]
  BY <1>2, LoopState, ConstantsType DEF SyncState, SyncType, AtLeast
<1>4. sync'.last = state.last
  BY <1>1, <1>3
<1>5. EffectiveLast(start, state.last) \in Nat /\ (~NearHead => EffectiveLast(start, state.last) = state.last /\ start = StartBlock)
  BY <1>2, <1>3 DEF EffectiveLast, AtLeast, StartFor
<1>6. target \in Nat /\ (target > 0 => target + Confirmations <= Height)
  BY Typed, TargetType DEF TypedState
<1>7. from \in Nat
  BY <1>2, <1>5, RescanType
<1>8. Windowed => /\ sync'.last < from + ReorgBuffer
                  /\ \A n \in Nat : StartBlock <= n /\ n < from => n + ReorgBuffer <= sync'.last
  <2> SUFFICES ASSUME Windowed
               PROVE  /\ sync'.last < from + ReorgBuffer
                      /\ \A n \in Nat : StartBlock <= n /\ n < from => n + ReorgBuffer <= sync'.last
    OBVIOUS
  <2>1. from = ComputeRescanFromBlock(StartBlock, sync'.last) /\ sync'.last \in Nat /\ ReorgBuffer > 0
    BY <1>3, <1>4, <1>5 DEF Windowed
  <2> QED
    BY <2>1, RescanType, ConstantsType
<1>9. from <= target /\ target > 0
  BY <1>1 DEF ShouldSync
<1> HIDE DEF from, target, state, start
<1> QED
  BY <1>1, <1>6, <1>7, <1>8, <1>9

LEMMA PlanType ==
  ASSUME TypeOK, PlanSync
  PROVE  TypeOK'
<1> DEFINE state == SyncState(StartFor(Height))
<1>1. StartFor(Height) \in 0..AtLeast(MaxBlocks, StartBlock)
  BY Typed, StartType DEF TypedState
<1>2. state \in SyncType
  BY <1>1, LoopState DEF SyncState, SyncType
<1>3. sync' \in {state, [state EXCEPT !.status = "syncing"]}
  BY DEF PlanSync
<1>4. sync' \in SyncType
  BY <1>2, <1>3 DEF SyncType
<1>5. run' \in RunType /\ UniqueLogs(run'.logs)
  <2>1. CASE run' = Sleeping
    BY <2>1, SleepType
  <2>2. CASE run' # Sleeping
    <3>1. PICK from, target \in Nat :
            /\ run' = [at |-> "delete", from |-> from, target |-> target, logs |-> {}]
            /\ from <= target /\ target + Confirmations <= Height
      BY <2>2, PlanShape
    <3>2. from \in 0..(MaxBlocks + 1) /\ target \in 0..MaxBlocks
      BY <3>1, Typed, ConstantsType DEF TypedState
    <3> QED
      BY <3>1, <3>2 DEF RunType, Awaits, UniqueLogs
  <2> QED
    BY <2>1, <2>2
<1>6. UNCHANGED <<chain, reorgs, requestVars, rows, fails>>
  BY DEF PlanSync
<1> QED
  BY <1>4, <1>5, <1>6, LoopState, LoopTypeKept DEF LoopType, TypeOK

LEMMA FetchShape ==
  ASSUME TypeOK, FetchLogs
  PROVE  run' = [at |-> "store", from |-> run.from, target |-> run.target, logs |-> GetLogs(run.from, ChunkEnd)]
BY LoopState DEF FetchLogs, RunType

LEMMA StoreShape ==
  ASSUME TypeOK, StoreLogs, run' # Sleeping
  PROVE  /\ run' = [at |-> "save", from |-> run.from, target |-> run.target, logs |-> {}]
         /\ rows' = rows \union run.logs
<1>1. ~ \E r \in run.logs : Taken(r)
  BY DEF StoreLogs
<1> QED
  BY <1>1, LoopState DEF StoreLogs, RunType

LEMMA UpdateShape ==
  ASSUME TypeOK, UpdateProgress
  PROVE  /\ run' = [at |-> IF ChunkEnd < run.target THEN "delete" ELSE "finish", from |-> ChunkEnd + 1,
                    target |-> run.target, logs |-> run.logs]
         /\ sync' = [known |-> sync.known, last |-> ChunkEnd, status |-> "syncing"]
BY LoopState DEF UpdateProgress, RunType, SyncType

LEMMA ChunkEndType ==
  ASSUME TypeOK
  PROVE  /\ ChunkEnd \in Nat /\ ChunkEnd <= run.target
         /\ run.from <= run.target => run.from <= ChunkEnd
BY Typed, ConstantsType DEF TypedState, ChunkEnd, CurrentTo, AtMost

LEMMA UpdateType ==
  ASSUME TypeOK, UpdateProgress
  PROVE  TypeOK'
<1>1. ChunkEnd \in 0..AtLeast(MaxBlocks, StartBlock) /\ ChunkEnd + 1 \in 0..(MaxBlocks + 1)
  BY ChunkEndType, Typed, ConstantsType DEF TypedState, AtLeast
<1>2. sync' \in SyncType
  BY <1>1, LoopState, UpdateShape DEF SyncType
<1>3. run' \in RunType /\ UniqueLogs(run'.logs)
  BY <1>1, LoopState, UpdateShape DEF RunType, Awaits
<1>4. UNCHANGED <<chain, reorgs, rows, requestVars, fails>>
  BY DEF UpdateProgress
<1> QED
  BY <1>2, <1>3, <1>4, LoopState, LoopTypeKept DEF LoopType, TypeOK

LEMMA LoopStepType ==
  ASSUME TypeOK, DeleteLogsInRange \/ FetchLogs \/ StoreLogs \/ MarkSynced
  PROVE  TypeOK'
<1>1. UNCHANGED <<chain, reorgs, requestVars, fails>>
  BY DEF DeleteLogsInRange, FetchLogs, StoreLogs, MarkSynced
<1>2. rows \subseteq Row /\ UniqueLogs(rows) /\ UniqueLogs(run.logs) /\ sync \in SyncType /\ run \in RunType
  BY LoopState
<1>3. rows' \subseteq Row /\ UniqueLogs(rows')
  <2>1. rows' \subseteq Row
    BY <1>2 DEF DeleteLogsInRange, FetchLogs, StoreLogs, MarkSynced, RunType
  <2>2. CASE StoreLogs
    <3>1. UniqueLogs({r \in run.logs : ~Taken(r)})
      BY <1>2, SubsetUnique
    <3> QED
      BY <1>2, <2>1, <2>2, <3>1, InsertUnique DEF StoreLogs
  <2>3. CASE ~StoreLogs
    <3>1. rows' \in SUBSET rows
      BY <2>3 DEF DeleteLogsInRange, FetchLogs, MarkSynced
    <3> QED
      BY <1>2, <2>1, <3>1, SubsetUnique
  <2> QED
    BY <2>2, <2>3
<1>4. sync' \in SyncType
  BY <1>2 DEF DeleteLogsInRange, FetchLogs, StoreLogs, MarkSynced, SyncType
<1>5. run' \in RunType /\ UniqueLogs(run'.logs)
  <2>1. CASE run' = Sleeping
    BY <2>1, SleepType
  <2>2. CASE DeleteLogsInRange
    BY <1>2, <2>2 DEF DeleteLogsInRange, RunType, Awaits
  <2>3. CASE FetchLogs
    <3>1. GetLogs(run.from, ChunkEnd) \in SUBSET Row
      BY LogsType, ChunkEndType, Typed DEF TypedState
    <3> QED
      BY <1>2, <2>3, <3>1, FetchShape, LogsUnique DEF RunType, Awaits
  <2>4. CASE StoreLogs /\ run' # Sleeping
    BY <1>2, <2>4, StoreShape DEF RunType, Awaits, UniqueLogs
  <2> QED
    BY <2>1, <2>2, <2>3, <2>4 DEF MarkSynced
<1> QED
  BY <1>1, <1>3, <1>4, <1>5, LoopTypeKept DEF LoopType, TypeOK

LEMMA FailureType ==
  ASSUME TypeOK, CallFails \/ Restart
  PROVE  TypeOK'
<1>1. UNCHANGED <<chain, reorgs, requestVars>> /\ fails' = fails + 1 /\ fails < MaxFails /\ run' = Sleeping
  BY DEF CallFails, Restart
<1>2. fails' \in 0..MaxFails
  BY <1>1, ConstantsType DEF TypeOK
<1>3. rows \subseteq Row /\ UniqueLogs(rows) /\ UniqueLogs(run.logs) /\ sync \in SyncType /\ run \in RunType
  BY LoopState
<1>4. rows' \subseteq Row /\ UniqueLogs(rows')
  <2>1. PICK some \in SUBSET {r \in run.logs : ~Taken(r)} : rows' = rows \union some
    <3>1. CASE CallFails
      BY <3>1 DEF CallFails
    <3>2. CASE Restart
      <4>1. rows' = rows \union {} /\ {} \in SUBSET {r \in run.logs : ~Taken(r)}
        BY <3>2 DEF Restart
      <4> QED
        BY <4>1
    <3> QED
      BY <3>1, <3>2
  <2>2. UniqueLogs(some)
    BY <1>3, SubsetUnique
  <2> QED
    BY <1>3, <2>1, <2>2, InsertUnique DEF RunType
<1>5. sync' \in SyncType
  BY <1>3 DEF CallFails, Restart, SyncType
<1> QED
  BY <1>1, <1>2, <1>4, <1>5, SleepType, LoopTypeKept DEF LoopType

LEMMA TypeInit == Init => TypeOK
<1> SUFFICES ASSUME Init
             PROVE  TypeOK
  OBVIOUS
<1>1. chain = <<>> /\ chain \in Seq(Block) /\ Len(chain) = 0 /\ WellFormed(chain)
  BY DEF Init, WellFormed
<1>2. run \in RunType /\ UniqueLogs(run.logs) /\ UniqueLogs(rows)
  BY SleepType DEF Init, UniqueLogs
<1>3. sync \in SyncType
  BY ConstantsType DEF Init, SyncType, AtLeast
<1> QED
  BY <1>1, <1>2, <1>3, ConstantsType DEF Init, TypeOK, Height, SyncType, RunType

LEMMA TypeStep == TypeOK /\ [Next]_vars => TypeOK'
<1> SUFFICES ASSUME TypeOK, [Next]_vars
             PROVE  TypeOK'
  OBVIOUS
<1>1. CASE Mine \/ Reorg
  BY <1>1, ChainStepType
<1>2. CASE ReadReceipt \/ PersistReceipt
  BY <1>2, RequestStepType
<1>3. CASE Indexing
  BY <1>3, PlanType, UpdateType, LoopStepType DEF Indexing
<1>4. CASE CallFails \/ Restart
  BY <1>4, FailureType
<1>5. CASE UNCHANGED vars
  BY <1>5, LoopState, ChainTypeKept DEF vars, requestVars, TypeOK, Beside
<1> QED
  BY <1>1, <1>2, <1>3, <1>4, <1>5 DEF Next

\* Cursor and range stay within the chain, a transaction is on the chain once,
\* and ChainLog has one row for each transaction and position, whichever of the
\* loop and the requests wrote it.
THEOREM IndexerTypeCorrect == Spec => []TypeOK
BY TypeInit, TypeStep, PTL DEF Spec

-----------------------------------------------------------------------------
(* Final blocks.                                                           *)

\* Blocks a window behind the cursor, or behind the target, are final.
LEMMA BehindCursor ==
  ASSUME TypeOK, CursorInv, Windowed, sync.known,
         NEW n \in 1..MaxBlocks, n >= StartBlock, n + ReorgBuffer <= sync.last
  PROVE  Final(n)
BY Typed, ConstantsType DEF TypedState, CursorInv, Windowed, Final

LEMMA BehindTarget ==
  ASSUME TypeOK, RunInv, run.at # "sleep", NEW n \in 1..MaxBlocks, n + ReorgBuffer <= run.target
  PROVE  Final(n)
BY Typed, ConstantsType DEF TypedState, RunInv, Final

\* The chain or a request moves, and leaves the final blocks as they were.
LEMMA OutsideKept ==
  ASSUME Windowed, IInv, TypeOK', UNCHANGED <<sync, run>>, Height <= Height',
         \A n \in 1..MaxBlocks : Final(n) => GetLogs(n, n)' = GetLogs(n, n) /\ RowsAt(n)' = RowsAt(n)
  PROVE  IInv'
<1>1. Height \in Nat /\ Height' \in Nat
  BY Typed, TypedNext DEF TypedState, IInv
<1>2. CursorInv'
  BY <1>1, Typed, ConstantsType DEF IInv, CursorInv, TypedState
<1>3. FinalizedExact'
  BY BehindCursor DEF IInv, FinalizedExact, Exact
<1>4. RunInv'
  <2>1. run.at # "sleep" => run.target + Confirmations <= Height'
    BY <1>1, Typed, ConstantsType DEF IInv, RunInv, TypedState
  <2>2. ASSUME run.at \notin {"sleep", "finish"}, NEW n \in 1..MaxBlocks,
               n >= StartBlock, n + ReorgBuffer <= run.target
        PROVE  PassInv(n)'
    <3>1. PassInv(n)
      BY <2>2 DEF IInv, RunInv
    <3>2. GetLogs(n, n)' = GetLogs(n, n) /\ RowsAt(n)' = RowsAt(n)
      BY <2>2, BehindTarget DEF IInv
    <3> QED
      BY <3>1, <3>2 DEF PassInv, Exact, ChunkEnd, LogsAt
  <2>3. ChunkEnd' = ChunkEnd
    BY DEF ChunkEnd
  <2> QED
    BY <2>1, <2>2, <2>3 DEF IInv, RunInv
<1> QED
  BY <1>2, <1>3, <1>4 DEF IInv

LEMMA ChainKept ==
  ASSUME Windowed, IInv, Mine \/ Reorg
  PROVE  IInv'
<1>1. TypeOK' /\ Keeps
  BY ChainStepType DEF IInv
<1>2. UNCHANGED <<rows, sync, run>> /\ Height <= Height'
  BY <1>1 DEF Mine, Reorg, Keeps
<1>3. \A n \in 1..MaxBlocks : Final(n) => GetLogs(n, n)' = GetLogs(n, n) /\ RowsAt(n)' = RowsAt(n)
  BY <1>1, <1>2, FinalWithin, KeptLogs DEF IInv, RowsAt
<1> QED
  BY <1>1, <1>2, <1>3, OutsideKept

\* No receipt of a final block is written any more.
LEMMA RequestKept ==
  ASSUME Windowed, IInv, ReadReceipt \/ PersistReceipt
  PROVE  IInv'
<1>1. TypeOK'
  BY RequestStepType DEF IInv
<1>2. UNCHANGED <<chain, sync, run>>
  BY DEF ReadReceipt, PersistReceipt
<1>3. Height' = Height /\ Height \in Nat
  BY <1>2, Typed DEF Height, IInv, TypedState
<1>4. \A n \in 1..MaxBlocks : Final(n) => RowsAt(n)' = RowsAt(n)
  <2>1. CASE ReadReceipt
    BY <2>1 DEF ReadReceipt, RowsAt
  <2>2. CASE PersistReceipt
    <3>1. PICK r \in receipts :
            /\ Height < r.block + Confirmations + ReorgBuffer
            /\ rows' = rows \union {q \in {r} : ~Taken(q)}
      BY <2>2 DEF PersistReceipt
    <3>2. \A n \in 1..MaxBlocks : Final(n) => n # r.block
      BY <1>3, <3>1, ConstantsType DEF Final
    <3> QED
      BY <3>1, <3>2 DEF RowsAt
  <2> QED
    BY <2>1, <2>2
<1>5. \A n : GetLogs(n, n)' = GetLogs(n, n)
  BY <1>2 DEF GetLogs
<1> QED
  BY <1>1, <1>2, <1>3, <1>4, <1>5, OutsideKept

-----------------------------------------------------------------------------
(* The loop.                                                               *)

\* The pass ends, however: rows it added are of its range.
LEMMA StopKept ==
  ASSUME Windowed, IInv, TypeOK', run.at # "sleep", run' = Sleeping, UNCHANGED chain,
         sync'.known = sync.known, sync'.last = sync.last,
         NEW some \in SUBSET run.logs, rows' = rows \union some
  PROVE  IInv'
<1>1. Height' = Height
  BY DEF Height
<1>2. CursorInv'
  BY <1>1 DEF IInv, CursorInv
<1>3. RunInv'
  BY DEF RunInv, Sleeping
<1>4. ASSUME NEW n \in 1..MaxBlocks, n >= StartBlock, n + ReorgBuffer <= sync.last, sync.known
      PROVE  Exact(n)'
  <2>1. Exact(n)
    BY <1>4 DEF IInv, FinalizedExact
  <2>2. \A r \in some : r.block # n
    <3>1. CASE run.at = "store"
      <4>1. /\ run.from \in Nat /\ sync.last \in Nat /\ sync.last < run.from + ReorgBuffer
            /\ \A r \in run.logs : r.block \in run.from..ChunkEnd
        BY <3>1, Typed DEF IInv, RunInv, TypedState
      <4>2. n < run.from
        BY <1>4, <4>1, ConstantsType
      <4> QED
        BY <4>1, <4>2
    <3>2. CASE run.at # "store"
      BY <3>2 DEF IInv, RunInv
    <3> QED
      BY <3>1, <3>2
  <2>3. RowsAt(n)' = RowsAt(n)
    BY <2>2 DEF RowsAt
  <2>4. GetLogs(n, n)' = GetLogs(n, n)
    BY DEF GetLogs
  <2> QED
    BY <2>1, <2>3, <2>4 DEF Exact
<1>5. FinalizedExact'
  BY <1>4 DEF FinalizedExact
<1> QED
  BY <1>2, <1>3, <1>5 DEF IInv

LEMMA FailureKept ==
  ASSUME Windowed, IInv, CallFails \/ Restart \/ MarkSynced
  PROVE  IInv'
<1>1. TypeOK'
  BY FailureType, LoopStepType DEF IInv
<1>2. run.at # "sleep" /\ run' = Sleeping /\ UNCHANGED chain
  BY DEF CallFails, Restart, MarkSynced
<1>3. sync'.known = sync.known /\ sync'.last = sync.last
  BY LoopState DEF IInv, SyncType, CallFails, Restart, MarkSynced
<1>4. PICK some \in SUBSET run.logs : rows' = rows \union some
  <2>1. CASE CallFails
    BY <2>1 DEF CallFails
  <2>2. CASE Restart \/ MarkSynced
    <3>1. rows' = rows \union {}
      BY <2>2 DEF Restart, MarkSynced
    <3> QED
      BY <3>1
  <2> QED
    BY <2>1, <2>2
<1> QED
  BY <1>1, <1>2, <1>3, <1>4, StopKept

LEMMA PlanKept ==
  ASSUME Windowed, IInv, PlanSync
  PROVE  IInv'
<1>1. TypeOK'
  BY PlanType DEF IInv
<1>2. UNCHANGED <<chain, rows>> /\ Height' = Height /\ ChunkEnd' = CurrentTo(run'.from, run'.target)
  BY DEF PlanSync, Height, ChunkEnd
<1>3. sync'.known /\ (IF sync.known THEN sync'.last = sync.last ELSE sync'.last = StartBlock)
  BY LoopState DEF IInv, PlanSync, SyncState, SyncType, StartFor, Windowed
<1>4. CursorInv'
  BY <1>2, <1>3 DEF IInv, CursorInv
<1>5. ASSUME NEW n \in 1..MaxBlocks, n >= StartBlock, n + ReorgBuffer <= sync'.last
      PROVE  Exact(n)'
  <2>1. sync.known
    BY <1>3, <1>5, ConstantsType DEF Windowed
  <2>2. Exact(n)
    BY <1>3, <1>5, <2>1 DEF IInv, FinalizedExact
  <2> QED
    BY <1>2, <2>2 DEF Exact, RowsAt, GetLogs
<1>6. FinalizedExact'
  BY <1>5 DEF FinalizedExact
<1>7. RunInv'
  <2>1. CASE run' = Sleeping
    BY <2>1 DEF RunInv, Sleeping
  <2>2. CASE run' # Sleeping
    <3>1. PICK from, target \in Nat :
            /\ run' = [at |-> "delete", from |-> from, target |-> target, logs |-> {}]
            /\ from <= target /\ target + Confirmations <= Height
            /\ sync'.last < from + ReorgBuffer
            /\ \A n \in Nat : StartBlock <= n /\ n < from => n + ReorgBuffer <= sync'.last
      BY <2>2, PlanShape DEF IInv
    <3>2. run'.at = "delete" /\ run'.from = from /\ run'.target = target /\ run'.logs = {}
      BY <3>1
    <3>3. ASSUME NEW n \in 1..MaxBlocks, n >= StartBlock
          PROVE  PassInv(n)'
      <4>1. n < from => Exact(n)'
        BY <1>5, <3>1, <3>3, ConstantsType
      <4> QED
        BY <3>2, <4>1 DEF PassInv
    <3> QED
      BY <1>2, <1>3, <3>1, <3>2, <3>3 DEF RunInv
  <2> QED
    BY <2>1, <2>2
<1> QED
  BY <1>1, <1>4, <1>6, <1>7 DEF IInv

\* Only rows of the chunk change, or none.
LEMMA BeforeChunk ==
  ASSUME IInv, UNCHANGED chain, run.at \notin {"sleep", "finish"},
         \A r : r \in rows' /\ r.block < run.from <=> r \in rows /\ r.block < run.from
  PROVE  /\ \A n \in 1..MaxBlocks : n < run.from /\ Exact(n) => Exact(n)'
         /\ UNCHANGED sync => FinalizedExact' /\ CursorInv'
<1>1. \A n \in 1..MaxBlocks : n < run.from /\ Exact(n) => Exact(n)'
  BY DEF Exact, RowsAt, GetLogs
<1>2. run.from \in Nat /\ sync.last \in Nat /\ sync.last < run.from + ReorgBuffer
  BY Typed DEF IInv, RunInv, TypedState
<1>3. ASSUME UNCHANGED sync
      PROVE  FinalizedExact'
  <2> SUFFICES ASSUME NEW n \in 1..MaxBlocks, n >= StartBlock, n + ReorgBuffer <= sync.last, sync.known
               PROVE  Exact(n)'
    BY <1>3 DEF FinalizedExact
  <2>1. Exact(n) /\ n < run.from
    BY <1>2, ConstantsType DEF IInv, FinalizedExact
  <2> QED
    BY <1>1, <2>1
<1>4. UNCHANGED sync => CursorInv'
  BY DEF IInv, CursorInv, Height
<1> QED
  BY <1>1, <1>3, <1>4

\* The range of a pass under way.
LEMMA InRange ==
  ASSUME IInv, run.at \notin {"sleep", "finish"}
  PROVE  /\ run.from \in Nat /\ run.target \in Nat /\ ChunkEnd \in Nat
         /\ run.from <= ChunkEnd /\ ChunkEnd <= run.target /\ run.target + Confirmations <= Height
         /\ sync.known /\ sync.last < run.from + ReorgBuffer
         /\ \A n \in 1..MaxBlocks : n >= StartBlock /\ n + ReorgBuffer <= run.target => PassInv(n)
BY Typed, ChunkEndType DEF IInv, RunInv, TypedState

LEMMA DeleteKept ==
  ASSUME Windowed, IInv, DeleteLogsInRange
  PROVE  IInv'
<1>1. TypeOK'
  BY LoopStepType DEF IInv
<1>2. /\ run.at = "delete" /\ rows' = {r \in rows : r.block \notin run.from..ChunkEnd}
      /\ UNCHANGED <<chain, sync>>
  BY DEF DeleteLogsInRange
<1>3. run'.at = "fetch" /\ run'.from = run.from /\ run'.target = run.target /\ run'.logs = run.logs /\ run.logs = {}
  BY <1>2, LoopState DEF IInv, DeleteLogsInRange, RunType, RunInv
<1>4. ChunkEnd' = ChunkEnd /\ Height' = Height
  BY <1>2, <1>3 DEF ChunkEnd, Height
<1>5. \A r : r \in rows' /\ r.block < run.from <=> r \in rows /\ r.block < run.from
  BY <1>2, InRange
<1>6. ASSUME NEW n \in 1..MaxBlocks, n >= StartBlock, n + ReorgBuffer <= run.target
      PROVE  PassInv(n)'
  <2>1. PassInv(n)
    BY <1>2, <1>6, InRange
  <2>2. n < run.from => Exact(n)'
    BY <1>2, <1>5, <2>1, BeforeChunk DEF PassInv
  <2>3. n \in run.from..ChunkEnd => RowsAt(n)' = {}
    BY <1>2 DEF RowsAt
  <2> QED
    BY <1>3, <1>4, <2>2, <2>3 DEF PassInv
<1>7. RunInv'
  BY <1>2, <1>3, <1>4, <1>6, InRange DEF RunInv
<1> QED
  BY <1>1, <1>2, <1>5, <1>7, BeforeChunk DEF IInv

LEMMA FetchKept ==
  ASSUME Windowed, IInv, FetchLogs
  PROVE  IInv'
<1>1. TypeOK'
  BY LoopStepType DEF IInv
<1>2. run.at = "fetch" /\ UNCHANGED <<chain, rows, sync>>
  BY DEF FetchLogs
<1>3. /\ run'.at = "store" /\ run'.from = run.from /\ run'.target = run.target
      /\ run'.logs = GetLogs(run.from, ChunkEnd)
  BY FetchShape DEF IInv
<1>4. ChunkEnd' = ChunkEnd /\ Height' = Height
  BY <1>2, <1>3 DEF ChunkEnd, Height
<1>5. \A r \in run'.logs : r.block \in run.from..ChunkEnd
  BY <1>2, <1>3, InRange, LogsType DEF IInv
<1>6. ASSUME NEW n \in 1..MaxBlocks, n >= StartBlock, n + ReorgBuffer <= run.target
      PROVE  PassInv(n)'
  <2>1. PassInv(n)
    BY <1>2, <1>6, InRange
  <2>2. n < run.from => Exact(n)'
    BY <1>2, <2>1, BeforeChunk DEF PassInv
  <2>3. n \in run.from..ChunkEnd => RowsAt(n)' = {}
    BY <1>2, <2>1 DEF PassInv, RowsAt
  <2>4. n \in run.from..ChunkEnd => LogsAt(n)' = GetLogs(n, n)'
    <3>1. n \in run.from..ChunkEnd => {r \in GetLogs(run.from, ChunkEnd) : r.block = n} = GetLogs(n, n)
      BY <1>2, InRange, LogsOfBlock DEF IInv
    <3>2. GetLogs(n, n)' = GetLogs(n, n)
      BY <1>2 DEF GetLogs
    <3> QED
      BY <1>3, <3>1, <3>2 DEF LogsAt
  <2> QED
    BY <1>3, <1>4, <2>2, <2>3, <2>4 DEF PassInv
<1>7. RunInv'
  BY <1>2, <1>3, <1>4, <1>5, <1>6, InRange DEF RunInv
<1> QED
  BY <1>1, <1>2, <1>7, BeforeChunk DEF IInv

LEMMA StoreKept ==
  ASSUME Windowed, IInv, StoreLogs
  PROVE  IInv'
<1>1. TypeOK'
  BY LoopStepType DEF IInv
<1>2. run.at = "store" /\ UNCHANGED chain /\ \A r \in run.logs : r.block \in run.from..ChunkEnd
  BY DEF IInv, RunInv, StoreLogs
<1>3. CASE run' = Sleeping
  <2>1. PICK some \in SUBSET run.logs : rows' = rows \union some
    BY DEF StoreLogs
  <2>2. sync'.known = sync.known /\ sync'.last = sync.last
    BY LoopState DEF IInv, SyncType, StoreLogs
  <2> QED
    BY <1>1, <1>2, <1>3, <2>1, <2>2, StopKept
<1>4. CASE run' # Sleeping
  <2>1. /\ run'.at = "save" /\ run'.from = run.from /\ run'.target = run.target /\ run'.logs = {}
        /\ rows' = rows \union run.logs
    BY <1>4, StoreShape DEF IInv
  <2>2. UNCHANGED sync
    BY <1>4 DEF StoreLogs
  <2>3. ChunkEnd' = ChunkEnd /\ Height' = Height
    BY <1>2, <2>1 DEF ChunkEnd, Height
  <2>4. \A r : r \in rows' /\ r.block < run.from <=> r \in rows /\ r.block < run.from
    BY <1>2, <2>1, InRange
  <2>5. ASSUME NEW n \in 1..MaxBlocks, n >= StartBlock, n + ReorgBuffer <= run.target
        PROVE  PassInv(n)'
    <3>1. PassInv(n)
      BY <1>2, <2>5, InRange
    <3>2. n < run.from => Exact(n)'
      BY <1>2, <2>4, <3>1, BeforeChunk DEF PassInv
    <3>3. n \in run.from..ChunkEnd => Exact(n)'
      <4>1. RowsAt(n)' = RowsAt(n) \union LogsAt(n)
        BY <2>1 DEF RowsAt, LogsAt
      <4>2. GetLogs(n, n)' = GetLogs(n, n)
        BY <1>2 DEF GetLogs
      <4>3. n \in run.from..ChunkEnd => RowsAt(n) = {} /\ LogsAt(n) = GetLogs(n, n)
        BY <1>2, <3>1 DEF PassInv
      <4> QED
        BY <4>1, <4>2, <4>3 DEF Exact
    <3> QED
      BY <2>1, <2>3, <3>2, <3>3 DEF PassInv
  <2>6. RunInv'
    BY <1>2, <2>1, <2>2, <2>3, <2>5, InRange DEF RunInv
  <2> QED
    BY <1>1, <1>2, <2>2, <2>4, <2>6, BeforeChunk DEF IInv
<1> QED
  BY <1>3, <1>4

\* The cursor moves to the end of the chunk, whose final blocks are exact.
LEMMA UpdateKept ==
  ASSUME Windowed, IInv, UpdateProgress
  PROVE  IInv'
<1>1. TypeOK'
  BY UpdateType DEF IInv
<1>2. run.at = "save" /\ UNCHANGED <<chain, rows>>
  BY DEF UpdateProgress
<1>3. /\ run'.at \in {"delete", "finish"} /\ (run'.at = "delete" => ChunkEnd < run.target)
      /\ run'.from = ChunkEnd + 1 /\ run'.target = run.target /\ run'.logs = {}
      /\ sync'.known = sync.known /\ sync'.last = ChunkEnd
  BY <1>2, UpdateShape DEF IInv, RunInv
<1>4. Height' = Height
  BY <1>2 DEF Height
<1>5. \A n \in 1..MaxBlocks : Exact(n) => Exact(n)'
  BY <1>2 DEF Exact, RowsAt, GetLogs
<1>6. \A n \in 1..MaxBlocks :
        n >= StartBlock /\ n + ReorgBuffer <= run.target /\ n < ChunkEnd + 1 => Exact(n)'
  <2> SUFFICES ASSUME NEW n \in 1..MaxBlocks, n >= StartBlock, n + ReorgBuffer <= run.target, n < ChunkEnd + 1
               PROVE  Exact(n)
    BY <1>5
  <2>1. PassInv(n)
    BY <1>2, InRange
  <2>2. n < run.from \/ n \in run.from..ChunkEnd
    BY <1>2, InRange
  <2> QED
    BY <1>2, <2>1, <2>2 DEF PassInv
<1>7. CursorInv'
  BY <1>2, <1>3, <1>4, InRange, Typed, ConstantsType DEF CursorInv, IInv, TypedState
<1>8. FinalizedExact'
  <2> SUFFICES ASSUME NEW n \in 1..MaxBlocks, n >= StartBlock, n + ReorgBuffer <= ChunkEnd
               PROVE  Exact(n)'
    BY <1>3 DEF FinalizedExact
  <2>1. n + ReorgBuffer <= run.target /\ n < ChunkEnd + 1
    BY <1>2, InRange, ConstantsType
  <2> QED
    BY <1>6, <2>1
<1>9. RunInv'
  <2>1. ASSUME run'.at = "delete", NEW n \in 1..MaxBlocks, n >= StartBlock, n + ReorgBuffer <= run.target
        PROVE  PassInv(n)'
    <3>1. n < run'.from => Exact(n)'
      BY <1>3, <1>6, <2>1
    <3> QED
      BY <2>1, <3>1 DEF PassInv
  <2>2. run'.at = "delete" => run'.from <= run'.target /\ sync'.last < run'.from + ReorgBuffer
    BY <1>2, <1>3, InRange, ConstantsType DEF Windowed
  <2> QED
    BY <1>2, <1>3, <1>4, <2>1, <2>2, InRange DEF RunInv
<1> QED
  BY <1>1, <1>7, <1>8, <1>9 DEF IInv

LEMMA InvInit == Init => IInv
BY TypeInit DEF Init, IInv, CursorInv, RunInv, FinalizedExact, Sleeping

LEMMA InvStep ==
  ASSUME Windowed, IInv, [Next]_vars
  PROVE  IInv'
<1>1. CASE Indexing
  BY <1>1, PlanKept, DeleteKept, FetchKept, StoreKept, UpdateKept, FailureKept DEF Indexing
<1>2. CASE UNCHANGED vars
  <2>1. TypeOK'
    BY TypeStep DEF IInv
  <2>2. UNCHANGED <<chain, rows, sync, run>> /\ Height' = Height
    BY <1>2 DEF vars, Height
  <2>3. Height \in Nat
    BY Typed DEF IInv, TypedState
  <2>4. \A n : GetLogs(n, n)' = GetLogs(n, n) /\ RowsAt(n)' = RowsAt(n)
    BY <2>2 DEF GetLogs, RowsAt
  <2> QED
    BY <2>1, <2>2, <2>3, <2>4, OutsideKept
<1> QED
  BY <1>1, <1>2, ChainKept, RequestKept, FailureKept DEF Next

\* However passes fail, processes restart, requests write receipts and the
\* chain reorganises within its depth: a window behind the cursor ChainLog is
\* the canonical log.
THEOREM FinalizedStaysExact ==
  ASSUME Windowed
  PROVE  Spec => []FinalizedExact
<1>1. Init => IInv
  BY InvInit
<1>2. IInv /\ [Next]_vars => IInv'
  BY InvStep
<1>3. IInv => FinalizedExact
  BY DEF IInv
<1> QED
  BY <1>1, <1>2, <1>3, PTL DEF Spec

=============================================================================
