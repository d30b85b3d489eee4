--------------------------- MODULE FundProcessor ---------------------------
(***************************************************************************)
(* The documents the backend keeps of one funded event, and everything     *)
(* that writes them: the fund processor, which replays ChainLog behind the *)
(* fund indexer, cleans up after what it takes for a reorganisation and    *)
(* rebuilds the event from the logs, and the API requests that confirm     *)
(* one transaction each.                                                   *)
(*                                                                         *)
(* The chain (external) is the order in which the contract lets its logs   *)
(* appear, one transaction of the event per block.  A read of an event     *)
(* that the cache answers is a read that happened earlier.                 *)
(***************************************************************************)
EXTENDS ReorgPolicy, FiniteSets, Sequences, Sums

CONSTANTS
  Investors,
  Txs,            \* transactions of this event
  NoTx,           \* block without one
  Kind, Who, Amount,   \* what a transaction does, for whom, how much
  Goal,           \* fundingGoal
  LongMax,        \* largest amount $toLong reads from a string
  Requests,       \* confirm requests; bound: each is made once
  Pasts,          \* what may be mined before the backend starts, a block each
  MaxBlocks,      \* bound: height of the chain
  MaxReorgs,      \* bound: number of reorganisations, each of one block
  MaxUpsets,      \* bound: reorganisations, failed calls, restarts and requests together
  MaxCleanUps     \* bound: clean-ups until the processor stops meeting the gap

Kinds == {"contribute", "reach", "cancel", "complete", "refund", "claim", "penalty"}
MoneyKinds == {"contribute", "reach", "refund"}
Contributions == {t \in Txs : Kind[t] \in {"contribute", "reach"}}

ASSUME FundProcessorAssumption ==
  /\ NoTx \notin Txs /\ IsFiniteSet(Txs)
  /\ Kind \in [Txs -> Kinds] /\ Who \in [Txs -> Investors]
  /\ Amount \in [Txs -> Nat \ {0}]
  /\ \A p \in Pasts : p \in Seq(Txs \union {NoTx}) /\ Len(p) <= MaxBlocks
  /\ \A k \in {Goal, LongMax, MaxBlocks, MaxReorgs, MaxUpsets} : k \in Nat
  /\ MaxCleanUps \in Nat \ {0}

VARIABLES
  chain,   \* canonical blocks: the fork that made each and its transaction
  forks,   \* reorganisations so far
  rows,    \* ChainLog
  gap,     \* blocks whose rows the indexer deleted and has not inserted again
  pass,    \* the indexer: its cursor, and the rest of the pass it is on
  docs,    \* status of each donator contribution document
  evt,     \* the event document
  shares,  \* rewards claimed per holder, with the transactions counted
  store,   \* BlockchainSyncState of the processor: cursor and recentBlockHashes
  proc,    \* the processor's loop: where it awaits and what it holds in memory
  reqs,    \* the confirm requests, likewise
  fails,   \* failures so far
  cleanUps \* passes that cleaned up so far, as many as are counted

chainVars == <<chain, forks>>
indexVars == <<rows, gap, pass>>
docVars == <<docs, evt, shares>>
ends == <<fails, cleanUps>>
vars == <<chainVars, indexVars, docVars, store, proc, reqs, ends>>

Total(ts) == SumOver(Amount, ts)
On(c) == {c[n].tx : n \in DOMAIN c} \ {NoTx}
OfKind(ts, k) == {t \in ts : Kind[t] = k}
Paid(ts, who) == {t \in ts \intersect Contributions : Who[t] = who}

Sleeping == [at |-> "sleep", from |-> 0, target |-> 0, read |-> {}, logs |-> {},
             dead |-> {}, rebuild |-> FALSE, total |-> 0]
Fresh == [at |-> "new", tx |-> NoTx, total |-> 0, status |-> "funding", refunded |-> 0]
NewEvent == [status |-> "funding", funding |-> 0, refunded |-> 0, penalty |-> 0,
             processed |-> {}]
NoClaims == [i \in Investors |-> [claimed |-> 0, txs |-> {}]]

Init ==
  /\ \E p \in Pasts : chain = [n \in DOMAIN p |-> [fork |-> 0, tx |-> p[n]]]
  /\ forks = 0
  /\ rows = {} /\ gap = {}
  /\ pass = [last |-> 0, next |-> 1, target |-> 0]
  /\ docs = [t \in Contributions |-> "none"]
  /\ evt = NewEvent
  /\ shares = NoClaims
  /\ store = [last |-> 0, hashes |-> {}]
  /\ proc = Sleeping
  /\ reqs = [q \in Requests |-> Fresh]
  /\ fails = 0 /\ cleanUps = 0

----------------------------------------------------------------------------
\* The chain and the fund indexer (external here; modules Fund and Indexer)

\* Whether the contract emits t's logs after those of the transactions past.
Legal(past, t) ==
  LET k == Kind[t]  closed == OfKind(past, "cancel") \union OfKind(past, "complete") IN
  /\ t \notin past
  /\ k \in {"contribute", "reach"} =>
       /\ closed = {} /\ OfKind(past, "reach") = {}
       /\ (k = "reach") = (Total(past \intersect Contributions) + Amount[t] >= Goal)
  /\ k \in {"cancel", "complete"} => closed = {}
  /\ k = "complete" => OfKind(past, "reach") # {}
  /\ k = "refund" => /\ OfKind(past, "cancel") # {}
                     /\ Amount[t] = Total(Paid(past, Who[t]))
                     /\ \A r \in OfKind(past, "refund") : Who[r] # Who[t]
  /\ k = "claim" => /\ OfKind(past, "complete") # {} /\ Paid(past, Who[t]) # {}
                    /\ \A r \in OfKind(past, "claim") : Who[r] # Who[t]

Started == {q \in Requests : reqs[q].at # "new"}
Upsets == forks + fails + Cardinality(Started)

Height == Len(chain)
Blocks(past, fork) == {[fork |-> fork, tx |-> t] : t \in {u \in Txs : Legal(past, u)} \union {NoTx}}

Mine ==
  /\ Height < MaxBlocks
  /\ \E b \in Blocks(On(chain), forks) : chain' = Append(chain, b)
  /\ UNCHANGED <<forks, indexVars, docVars, store, proc, reqs, ends>>

\* The newest block is replaced; its transaction may come back later.
Reorg ==
  /\ forks < MaxReorgs /\ Upsets < MaxUpsets
  /\ Height > 0
  /\ LET kept == SubSeq(chain, 1, Height - 1) IN
       \E b \in Blocks(On(kept), forks + 1) : chain' = Append(kept, b)
  /\ forks' = forks + 1
  /\ UNCHANGED <<indexVars, docVars, store, proc, reqs, ends>>

RowsIn(c, from, to) ==
  {[block |-> n, fork |-> c[n].fork, tx |-> c[n].tx] :
     n \in {k \in DOMAIN c : k \in from..to /\ c[k].tx # NoTx}}

\* The indexer, another process: a pass over its window, in chunks whose rows
\* go and come back as the chain has them then.
NextChunk ==
  LET fresh == pass.next > pass.target
  IN [from |-> IF fresh THEN ComputeRescanFromBlock(1, pass.last) ELSE pass.next,
      target |-> IF fresh THEN ComputeTargetBlock(Height) ELSE pass.target]
RowsWithout(blocks) == {r \in rows : r.block \notin blocks}
RowsOf(blocks) == {r \in RowsIn(chain, 1, Height) : r.block \in blocks}
AfterChunk(to) == [pass EXCEPT !.last = to, !.next = to + 1]

IndexerDeletes ==
  LET c == NextChunk IN
  /\ gap = {} /\ cleanUps < MaxCleanUps
  /\ ShouldSync(c.from, c.target)
  /\ gap' = c.from..CurrentTo(c.from, c.target)
  /\ rows' = RowsWithout(gap')
  /\ pass' = [pass EXCEPT !.next = c.from, !.target = c.target]
  /\ UNCHANGED <<chainVars, docVars, store, proc, reqs, ends>>

IndexerInserts ==
  /\ gap # {}
  /\ rows' = rows \union RowsOf(gap)
  /\ pass' = AfterChunk(CurrentTo(pass.next, pass.target))
  /\ gap' = {}
  /\ UNCHANGED <<chainVars, docVars, store, proc, reqs, ends>>

\* Bound: the same when the clean-ups are used up, and no gap to be met.
IndexerRewrites ==
  LET c == NextChunk  to == CurrentTo(c.from, c.target) IN
  /\ gap = {} /\ cleanUps = MaxCleanUps
  /\ ShouldSync(c.from, c.target)
  /\ rows' = RowsWithout(c.from..to) \union RowsOf(c.from..to)
  /\ pass' = [last |-> to, next |-> to + 1, target |-> c.target]
  /\ UNCHANGED <<gap, chainVars, docVars, store, proc, reqs, ends>>

Indexing == IndexerDeletes \/ IndexerInserts \/ IndexerRewrites

----------------------------------------------------------------------------
\* The documents

Confirmed == {t \in Contributions : docs[t] = "confirmed"}
Funding == Total(Confirmed)

MarkRefundedOf(who) ==
  [t \in Contributions |-> IF t \in Confirmed /\ Who[t] = who THEN "refunded" ELSE docs[t]]

\* Mutant: the guard is written and never read.
ApplyDeltaAgain(e, t, field, set) ==
  [set EXCEPT !.processed = @ \union {<<t, field>>},
              ![field] = e[field] + Amount[t]]

\* The counters are strings, added as longs: $toLong throws on an amount beyond
\* one, and on what an earlier sum beyond one has left.
Throws(e, t, field) ==
  /\ <<t, field>> \notin e.processed
  /\ Amount[t] > LongMax \/ e[field] > LongMax

\* applyIdempotentDeltaByTxHash, one atomic update; set is the event with the
\* fields the handler sets.
ApplyDelta(e, t, field, set) ==
  IF <<t, field>> \in e.processed THEN set
  ELSE [set EXCEPT !.processed = @ \union {<<t, field>>},
                   ![field] = e[field] + Amount[t]]

\* incrementClaimedReward: is the transaction counted, what is claimed so far,
\* and a write of what that gave, each in an await of its own.
ClaimCounted(t) == t \in shares[Who[t]].txs
ClaimedWith(t) == shares[Who[t]].claimed + Amount[t]
WithClaim(s, t, total) ==
  [s EXCEPT ![Who[t]] = [claimed |-> total, txs |-> @.txs \union {t}]]

----------------------------------------------------------------------------
\* The processor

Plan ==
  LET target == ComputeTargetBlock(Height)
      from == ComputeRescanFromBlock(1, store.last)
  IN
  /\ proc.at = "sleep"
  /\ ShouldSync(from, target)
  /\ proc' = [Sleeping EXCEPT !.at = "chunk", !.from = from, !.target = target]
  /\ UNCHANGED <<chainVars, indexVars, docVars, store, reqs, ends>>

\* The order of findLogs; a block has two rows when a receipt's outlived a fork.
Before(a, b) == a.block < b.block \/ (a.block = b.block /\ a.fork < b.fork)
First(rs) == CHOOSE r \in rs : \A q \in rs : ~Before(q, r)
Latest(rs) == CHOOSE r \in rs : \A q \in rs : ~Before(r, q)

\* What recentBlockHashes keeps of rows: per block the first hash met and all
\* transactions.
HashesOf(rs) ==
  {[block |-> n, txs |-> {r.tx : r \in {q \in rs : q.block = n}},
    fork |-> (CHOOSE r \in rs : r.block = n /\ \A q \in rs : q.block = n => r.fork <= q.fork).fork] :
     n \in {r.block : r \in rs}}

\* Blocks of the chunk that were saved with a hash and now have none or another.
Stale(rs, from, to) ==
  {h \in store.hashes : h.block \in from..to
     /\ \A g \in HashesOf(rs) : g.block = h.block => g.fork # h.fork}

\* findLogs of a chunk, and the detection against the saved hashes.
ReadChunk ==
  /\ proc.at = "chunk"
  /\ LET to == CurrentTo(proc.from, proc.target)
         rs == {r \in rows : r.block \in proc.from..to}
         stale == Stale(rs, proc.from, to)
     IN proc' = [proc EXCEPT !.at = "log", !.read = rs, !.logs = rs,
                             !.dead = @ \union UNION {h.txs : h \in stale},
                             !.rebuild = @ \/ stale # {}]
  /\ UNCHANGED <<chainVars, indexVars, docVars, store, reqs, ends>>

\* processFundLog: the handler of the next log of the chunk, one action each.
Current == First(proc.logs).tx
Handled == [proc EXCEPT !.at = "log", !.logs = @ \ {First(@)}, !.total = 0]

Handling(kinds) ==
  /\ proc.at = "log" /\ proc.logs # {}
  /\ Kind[Current] \in kinds
  /\ UNCHANGED <<chainVars, indexVars, store, reqs, ends>>

\* handleContributionMade, handleSharesIssued: upsert, then rebuildFundState.
HandleContribution ==
  /\ Handling({"contribute", "reach"})
  /\ docs' = [docs EXCEPT ![Current] = "confirmed"]
  /\ proc' = [proc EXCEPT !.at = "sum"]
  /\ UNCHANGED <<evt, shares>>

\* handleEventCancelled, handleCompleted and handleRevenueReleased set the
\* status whatever it was.  The refunds a cancellation schedules are in
\* module AutoRefund.
HandleStatus ==
  /\ Handling({"cancel", "complete"})
  /\ evt' = [evt EXCEPT !.status = IF Kind[Current] = "cancel" THEN "cancelled" ELSE "completed"]
  /\ proc' = Handled
  /\ UNCHANGED <<docs, shares>>

\* handlePenaltyApplied; the other handlers that only add differ in the field.
\* A throw ends the pass.
HandlePenalty ==
  /\ Handling({"penalty"})
  /\ IF Throws(evt, Current, "penalty")
       THEN UNCHANGED evt /\ proc' = Sleeping
       ELSE evt' = ApplyDelta(evt, Current, "penalty", evt) /\ proc' = Handled
  /\ UNCHANGED <<docs, shares>>

\* Mutant: the contributions are marked by the first update only.
HandleRefundOnce ==
  /\ Handling({"refund"})
  /\ docs' = IF <<Current, "refunded">> \in evt.processed THEN docs
             ELSE MarkRefundedOf(Who[Current])
  /\ IF Throws(evt, Current, "refunded")
       THEN UNCHANGED evt /\ proc' = Sleeping
       ELSE /\ evt' = ApplyDelta(evt, Current, "refunded", [evt EXCEPT !.status = "cancelled"])
            /\ proc' = [proc EXCEPT !.at = "sum"]
  /\ UNCHANGED shares

\* handleContributionRefunded: the contributions are marked before the update
\* that may throw.
HandleRefund ==
  /\ Handling({"refund"})
  /\ docs' = MarkRefundedOf(Who[Current])
  /\ IF Throws(evt, Current, "refunded")
       THEN UNCHANGED evt /\ proc' = Sleeping
       ELSE /\ evt' = ApplyDelta(evt, Current, "refunded", [evt EXCEPT !.status = "cancelled"])
            /\ proc' = [proc EXCEPT !.at = "sum"]
  /\ UNCHANGED shares

\* handleRewardClaimed up to the first read of incrementClaimedReward.
HandleClaim ==
  /\ Handling({"claim"})
  /\ proc' = IF ClaimCounted(Current) THEN Handled ELSE [proc EXCEPT !.at = "share"]
  /\ UNCHANGED docVars

ReadShare ==
  /\ proc.at = "share"
  /\ proc' = [proc EXCEPT !.at = "claim", !.total = ClaimedWith(Current)]
  /\ UNCHANGED <<chainVars, indexVars, docVars, store, reqs, ends>>

WriteClaim ==
  /\ proc.at = "claim"
  /\ shares' = WithClaim(shares, Current, proc.total)
  /\ proc' = Handled
  /\ UNCHANGED <<chainVars, indexVars, docs, evt, store, reqs, ends>>

\* rebuildFundState and rebuildShareStateFromContributions: the contributions
\* are read in one await and the total is written in another.
SumContributions ==
  /\ proc.at = "sum"
  /\ proc' = [proc EXCEPT !.at = "put", !.total = Funding]
  /\ UNCHANGED <<chainVars, indexVars, docVars, store, reqs, ends>>

\* A FundingSuccessful log follows in the transaction that reaches the goal;
\* after a rebuild there is no log in hand.
PutFunding ==
  /\ proc.at = "put"
  /\ evt' = [evt EXCEPT !.funding = proc.total,
                        !.status = IF proc.logs # {} /\ Kind[Current] = "reach"
                                     THEN "funded" ELSE @]
  /\ proc' = IF proc.logs = {} THEN Sleeping ELSE Handled
  /\ UNCHANGED <<chainVars, indexVars, docs, shares, store, reqs, ends>>

\* Mutant: old hashes are never dropped.
RecentHashesAll(read) ==
  LET new == HashesOf(read)
  IN new \union {h \in store.hashes : \A g \in new : g.block # h.block}

\* The newest ReorgBuffer hashes, the chunk's own before older ones.
RecentHashes(read) ==
  LET new == HashesOf(read)
      merged == new \union {h \in store.hashes : \A g \in new : g.block # h.block}
  IN {h \in merged : Cardinality({g \in merged : g.block > h.block}) < ReorgBuffer}

SaveChunk ==
  /\ proc.at = "log" /\ proc.logs = {}
  /\ LET to == CurrentTo(proc.from, proc.target) IN
       /\ store' = [last |-> to, hashes |-> RecentHashes(proc.read)]
       /\ proc' = CASE to < proc.target -> [proc EXCEPT !.at = "chunk", !.from = to + 1, !.read = {}]
                    [] to = proc.target /\ proc.rebuild -> [proc EXCEPT !.at = "clean", !.read = {}]
                    [] OTHER -> Sleeping
  /\ UNCHANGED <<chainVars, indexVars, docVars, reqs, ends>>

\* Derived documents of the transactions in dead go, and their guards; then
\* rebuildFullEventStateFromChainLog reads all logs ...
CleanUp ==
  /\ proc.at = "clean"
  /\ cleanUps' = IF cleanUps < MaxCleanUps THEN cleanUps + 1 ELSE cleanUps
  /\ docs' = [t \in Contributions |-> IF t \in proc.dead THEN "none" ELSE docs[t]]
  /\ evt' = [evt EXCEPT !.processed = {p \in @ : p[1] \notin proc.dead}]
  /\ shares' = [i \in Investors |-> [shares[i] EXCEPT !.txs = @ \ proc.dead]]
  /\ proc' = IF rows = {} THEN Sleeping ELSE [proc EXCEPT !.at = "restore", !.read = rows]
  /\ UNCHANGED <<chainVars, indexVars, store, reqs, fails>>

StatusKinds == {"reach", "complete", "cancel", "refund"}
\* The status the replay of all logs leaves: that of the last one to set any.
StatusFrom(rs) ==
  LET setting == {r \in rs : Kind[r.tx] \in StatusKinds}
      last == Kind[Latest(setting).tx]
  IN CASE setting = {} -> "funding"
       [] setting # {} /\ last = "reach" -> "funded"
       [] setting # {} /\ last = "complete" -> "completed"
       [] OTHER -> "cancelled"

\* ... and the event is set from them, with no transaction counted as
\* processed; shares are deleted and claims counted again from the logs.
\* What is between these writes touches other documents.
Restore ==
  /\ proc.at = "restore"
  /\ LET ts == {r.tx : r \in proc.read} IN
       /\ evt' = [evt EXCEPT
            !.status = StatusFrom(proc.read),
            !.refunded = Total(OfKind(ts, "refund")),
            !.penalty = Total(OfKind(ts, "penalty")),
            !.processed = {}]
       /\ shares' = [i \in Investors |->
            LET claims == {t \in OfKind(ts, "claim") : Who[t] = i}
            IN [claimed |-> Total(claims), txs |-> claims]]
  /\ proc' = [proc EXCEPT !.at = "sum", !.read = {}]
  /\ UNCHANGED <<chainVars, indexVars, docs, store, reqs, ends>>

\* A call throws or the process restarts: what was in memory is gone.
Fails ==
  /\ Upsets < MaxUpsets
  /\ proc.at # "sleep"
  /\ proc' = Sleeping
  /\ fails' = fails + 1
  /\ UNCHANGED <<chainVars, indexVars, docVars, store, reqs, cleanUps>>

Processing ==
  \/ Plan \/ ReadChunk
  \/ HandleContribution \/ HandleStatus \/ HandlePenalty \/ HandleRefund
  \/ HandleClaim \/ ReadShare \/ WriteClaim \/ SumContributions \/ PutFunding
  \/ SaveChunk \/ CleanUp \/ Restore

----------------------------------------------------------------------------
\* Confirm requests: each reads the receipt of one transaction and writes the
\* same documents.  A request may stop anywhere.

At(q, where) == reqs[q].at = where
Moves(q, where) == reqs' = [reqs EXCEPT ![q].at = where]
ByRequest == UNCHANGED <<chainVars, pass, gap, store, proc, ends>>

\* The event is read, the receipt is there, and its log goes to ChainLog.
StartRequest(q) ==
  \E t \in On(chain) :
  /\ At(q, "new") /\ Upsets < MaxUpsets
  /\ Kind[t] \in {"contribute", "reach", "refund", "claim"}
  /\ rows' = rows \union {r \in RowsIn(chain, 1, Height) :
                            r.tx = t /\ \A o \in rows : o.tx # t}
  /\ reqs' = [reqs EXCEPT ![q].at = Kind[t], ![q].tx = t, ![q].refunded = evt.refunded]
  /\ UNCHANGED docVars
  /\ ByRequest

\* confirmInvestmentTransaction: a document is created if there is none.
CreateContribution(q) ==
  LET t == reqs[q].tx IN
  /\ At(q, "contribute") \/ At(q, "reach")
  /\ docs' = [docs EXCEPT ![t] = IF @ = "none" THEN "confirmed" ELSE @]
  /\ Moves(q, "sum")
  /\ UNCHANGED <<rows, evt, shares>>
  /\ ByRequest

\* confirmContributionRefundTransaction: nothing to do without a confirmed
\* contribution of the investor.
MarkRefunded(q) ==
  LET who == Who[reqs[q].tx] IN
  /\ At(q, "refund")
  /\ docs' = MarkRefundedOf(who)
  /\ Moves(q, IF Paid(Confirmed, who) = {} THEN "done" ELSE "sum")
  /\ UNCHANGED <<rows, evt, shares>>
  /\ ByRequest

\* rebuildSharePercentagesAndFunding.
ReadFunding(q) ==
  /\ At(q, "sum")
  /\ reqs' = [reqs EXCEPT
       ![q].at = "put", ![q].total = Funding,
       ![q].status = IF Funding >= Goal /\ evt.status = "funding" THEN "funded" ELSE evt.status]
  /\ UNCHANGED <<rows, docVars>>
  /\ ByRequest

WriteFunding(q) ==
  LET t == reqs[q].tx IN
  /\ At(q, "put")
  /\ evt' = IF Kind[t] = "refund"
              THEN [evt EXCEPT !.funding = reqs[q].total, !.status = "cancelled",
                               !.refunded = reqs[q].refunded + Amount[t]]
              ELSE [evt EXCEPT !.funding = reqs[q].total, !.status = reqs[q].status]
  /\ Moves(q, "done")
  /\ UNCHANGED <<rows, docs, shares>>
  /\ ByRequest

\* confirmRewardClaimTransaction: incrementClaimedReward as the processor does.
ReadClaim(q) ==
  /\ At(q, "claim")
  /\ Moves(q, IF ClaimCounted(reqs[q].tx) THEN "done" ELSE "share")
  /\ UNCHANGED <<rows, docVars>>
  /\ ByRequest

ReadClaimed(q) ==
  /\ At(q, "share")
  /\ reqs' = [reqs EXCEPT ![q].at = "claimed", ![q].total = ClaimedWith(reqs[q].tx)]
  /\ UNCHANGED <<rows, docVars>>
  /\ ByRequest

CountClaim(q) ==
  /\ At(q, "claimed")
  /\ shares' = WithClaim(shares, reqs[q].tx, reqs[q].total)
  /\ Moves(q, "done")
  /\ UNCHANGED <<rows, docs, evt>>
  /\ ByRequest

Request(q) ==
  \/ StartRequest(q) \/ CreateContribution(q) \/ MarkRefunded(q) \/ ReadFunding(q)
  \/ WriteFunding(q) \/ ReadClaim(q) \/ ReadClaimed(q) \/ CountClaim(q)

----------------------------------------------------------------------------

Next ==
  \/ Mine \/ Reorg
  \/ Indexing
  \/ Processing \/ Fails
  \/ \E q \in Requests : Request(q)

Spec == Init /\ [][Next]_vars

\* Both loops keep ticking and blocks keep coming; no request has to go on.
FairSpec ==
  /\ Spec
  /\ WF_vars(Mine)
  /\ WF_vars(Indexing)
  /\ WF_vars(Processing)

----------------------------------------------------------------------------
\* Properties

TypeOK ==
  /\ chain \in Seq([fork : 0..MaxReorgs, tx : Txs \union {NoTx}])
  /\ rows \subseteq [block : 1..MaxBlocks, fork : 0..MaxReorgs, tx : Txs]
  /\ docs \in [Contributions -> {"none", "confirmed", "refunded"}]
  /\ evt.status \in {"funding", "funded", "completed", "cancelled"}
  /\ evt.funding \in Nat /\ evt.refunded \in Nat /\ evt.penalty \in Nat
  /\ evt.processed \subseteq Txs \X {"refunded", "penalty"}
  /\ store.last \in 0..MaxBlocks
  /\ Cardinality(store.hashes) <= ReorgBuffer
  /\ proc.target <= MaxBlocks /\ proc.from <= MaxBlocks + 1

Rebuilding == proc.at = "clean"

\* backend/docs/blockchain-indexing.md:11: running again creates no wrong data.
\* Until an event is rebuilt, no rescan, retry or restart counts a penalty twice.
PenaltyCountedOnce == evt.penalty <= Total(OfKind(Txs, "penalty"))
PenaltyOnceUnlessRebuilt == cleanUps = 0 => PenaltyCountedOnce

\* The blocks whose log was not in ChainLog when the chunk in hand was read.
Unread ==
  {n \in proc.from..CurrentTo(proc.from, proc.target) :
     /\ proc.at = "log"
     /\ chain[n].tx # NoTx
     /\ \A r \in proc.read : r.block # n}

\* One of them lies before the blocks the next pass reads again.
Missed == \E n \in Unread : n < ComputeRescanFromBlock(1, proc.target)

\* The processor does not pass a log that throws: what it gets to of the chain.
DeltaOf == [refund |-> "refunded", penalty |-> "penalty"]
ThrowsAt(n) ==
  LET t == chain[n].tx IN
  t # NoTx /\ Kind[t] \in DOMAIN DeltaOf /\ Throws(evt, t, DeltaOf[Kind[t]])
Reached == {r \in RowsIn(chain, 1, Height) : \A n \in 1..r.block - 1 : ~ThrowsAt(n)}
ReachedTxs == {r.tx : r \in Reached}

\* What a pass that met a gap in that log's place may have gone on to.
Extents == {rs \in {RowsIn(chain, 1, n) : n \in 0..Height} : Reached \subseteq rs}

\* Every pass reads the row again.
InWindow(r) == r.block >= ComputeRescanFromBlock(1, Height)

Confirming(kinds) == \E q \in Requests : reqs[q].tx # NoTx /\ Kind[reqs[q].tx] \in kinds

\* A request wrote what a receipt said, and the receipt's block is gone.
Orphaned(who) ==
  \E q \in Requests : reqs[q].tx \notin On(chain) \union {NoTx} /\ Who[reqs[q].tx] = who

\* A pass may have ended early that cleaned up, or knew it had to.
Interrupted ==
  /\ forks > 0 \/ cleanUps > 0
  /\ fails > 0 \/ \E n \in DOMAIN chain : ThrowsAt(n)

\* The documents of contributions.  Nothing takes back a refund that a
\* reorganisation removed.
ContributionExact(t) ==
  LET refunds == {r \in OfKind(ReachedTxs, "refund") : Who[r] = Who[t]} IN
  /\ t \in ReachedTxs =>
       \/ docs[t] = IF refunds = {} THEN "confirmed" ELSE "refunded"
       \/ docs[t] = "refunded" /\ forks > 0
  /\ t \in On(chain) \/ docs[t] = "none" \/ Interrupted

\* Each penalty of the chain is counted once.
PenaltyExact ==
  LET counted == {t \in OfKind(Txs, "penalty") : <<t, "penalty">> \in evt.processed} IN
  /\ evt.penalty = Total(counted) /\ counted \subseteq On(chain)
  /\ \A r \in Reached : r.tx \in OfKind(Txs, "penalty") => r.tx \in counted \/ ThrowsAt(r.block)

\* What a late confirmation wrote stands when no log sums or sets it again.
FundingExact ==
  \/ evt.funding = Funding
  \/ /\ Confirming(MoneyKinds)
     /\ \A r \in Reached : Kind[r.tx] \in MoneyKinds => ~InWindow(r)

StatusExact ==
  LET setting == {r \in Reached : Kind[r.tx] \in StatusKinds} IN
  \/ evt.status \in {StatusFrom(rs) : rs \in Extents}
  \/ Confirming(MoneyKinds) /\ (setting = {} \/ ~InWindow(Latest(setting)))

\* A claim that is confirmed by a request too can be counted twice, or lost.
ClaimsExact(i) ==
  \/ \E rs \in Extents :
       shares[i].claimed = Total({t \in OfKind({r.tx : r \in rs}, "claim") : Who[t] = i})
  \/ Confirming({"claim"})

\* After a clean-up the deltas of the window are added again (the finding).
DocsExact ==
  /\ \A t \in Contributions : Orphaned(Who[t]) \/ ContributionExact(t)
  /\ Interrupted \/ cleanUps > 0 \/ PenaltyExact
  /\ \/ Interrupted
     \/ FundingExact /\ StatusExact /\ \A i \in Investors : ClaimsExact(i)

\* The event is rebuilt from a ChainLog that lacks logs, or from rows the
\* processor has no hash of and will not miss when their block is lost.
Unhashed(r) ==
  /\ r.block >= ComputeRescanFromBlock(1, store.last)
  /\ \A h \in store.hashes : h.block = r.block => h.fork # r.fork
Blind ==
  /\ Rebuilding
  /\ ~(RowsIn(chain, 1, Height) \subseteq rows) \/ \E r \in rows : Unhashed(r)

\* Whatever fails, restarts, is replaced on the chain or confirmed by a request,
\* the documents come to agree with the chain up to the first log that throws,
\* unless the processor missed a log, keeps meeting the indexer's gap, or
\* rebuilt the event blindly.
DocumentsSettle ==
  \/ <>Missed
  \/ <>Blind
  \/ []<>(Unread # {})
  \/ <>[](proc.at = "sleep" => DocsExact)
=============================================================================
