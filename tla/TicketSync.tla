----------------------------- MODULE TicketSync -----------------------------
(***************************************************************************)
(* The documents the backend keeps of one ticket, its listings and its     *)
(* event's ticket counters: what the ticket and marketplace processors     *)
(* materialize from ChainLog, and what the API requests write that confirm *)
(* one transaction each or prepare a purchase.                             *)
(*                                                                         *)
(* The chain (external) is the order in which the contracts let the        *)
(* ticket's transactions happen, one per block.  ChainLog is taken to hold *)
(* the canonical logs of the blocks a processor asks for: where it does    *)
(* not is the subject of modules Indexer and FundProcessor.                *)
(***************************************************************************)
EXTENDS ReorgPolicy, FiniteSets, Sequences

CONSTANTS
  Organizer,      \* owner of a minted ticket
  Market,         \* address of the Marketplace contract
  Users,
  Listings, NoListing,
  Txs, NoTx,      \* transactions of the ticket, a block without one
  Kind, By, Listing,   \* what a transaction does, for whom, on which listing
  Requests,       \* API requests; bound: each is made once
  Deployments,    \* which of the two processors run, each a process of its own
  Pasts,          \* what may be mined before the backend starts: chains
  MaxBlocks,      \* bound: height of the chain
  MaxReorgs,      \* bound: reorganisations, each of one block
  MaxFaults       \* bound: reorganisations, failed calls and restarts together

TicketKinds == {"mint", "buy", "use", "refund"}
ListingKinds == {"list", "sell", "unlist"}

ASSUME TicketSyncAssumption ==
  /\ NoTx \notin Txs /\ NoListing \notin Listings
  /\ Kind \in [Txs -> TicketKinds \union ListingKinds]
  /\ By \in [Txs -> Users]
  /\ \A t \in Txs : Kind[t] \in ListingKinds => Listing[t] \in Listings
  /\ Deployments \subseteq SUBSET {"ticket", "marketplace"}
  /\ \A k \in {MaxBlocks, MaxReorgs, MaxFaults} : k \in Nat

VARIABLES
  chain,    \* canonical blocks: the fork that made each and its transaction
  mined,    \* transactions mined on some fork: a receipt of each was there
  forks, fails,   \* reorganisations, failures and restarts so far
  ticket,   \* the ticket document
  listings, \* status of each listing document
  counters, \* ticketsSold and totalTicketsUsed of the event document
  tevents,  \* TicketEvent
  stats,    \* TicketStats of the event
  up,       \* the processors that run
  tproc,    \* the ticket processor: saved cursor, where it awaits, its pass
  mproc,    \* the marketplace processor, with the block hashes it saved
  reqs,     \* the requests: where each awaits and what it has read
  synced,   \* history: the transactions whose requests wrote the ticket, in order
  wrote     \* history: what requests wrote to listings, and whether they did so
            \* after the processor

chainVars == <<chain, mined, forks>>
ticketVars == <<ticket, counters>>
statVars == <<tevents, stats>>
history == <<synced, wrote>>
vars == <<chainVars, fails, ticketVars, listings, statVars, up, tproc, mproc, reqs, history>>

\* A block has the fork that made it, its transaction, and the ticket after it.
On(c) == {c[n].tx : n \in DOMAIN c} \ {NoTx}
Height == Len(chain)
Indexed ==
  {[block |-> n, fork |-> chain[n].fork, tx |-> chain[n].tx] :
     n \in {k \in 1..ComputeTargetBlock(Height) : chain[k].tx # NoTx}}

----------------------------------------------------------------------------
\* The ticket on the chain (external; modules Ticket and Marketplace)

Statuses == {"none", "minted", "sold", "used", "refunded"}
Owners == Users \union {Organizer, Market}
TicketState == [status : Statuses, owner : Owners, listing : Listings \union {NoListing}]
Unminted == [status |-> "none", owner |-> Organizer, listing |-> NoListing]

After(s, t) ==
  IF t = NoTx THEN s ELSE
  CASE Kind[t] = "mint"   -> [s EXCEPT !.status = "minted"]
    [] Kind[t] = "buy"    -> [s EXCEPT !.status = "sold", !.owner = By[t]]
    [] Kind[t] = "list"   -> [s EXCEPT !.owner = Market, !.listing = Listing[t]]
    [] Kind[t] \in {"sell", "unlist"} -> [s EXCEPT !.owner = By[t], !.listing = NoListing]
    [] Kind[t] = "use"    -> [s EXCEPT !.status = "used"]
    [] Kind[t] = "refund" -> [s EXCEPT !.status = "refunded"]

State(c) == IF c = <<>> THEN Unminted ELSE c[Len(c)].after
Sellers(c, l) == {By[t] : t \in {u \in On(c) : Kind[u] = "list" /\ Listing[u] = l}}

Legal(c, t) ==
  LET s == State(c)  k == Kind[t] IN
  /\ t \notin On(c)
  /\ s.status = CASE k = "mint" -> "none" [] k = "buy" -> "minted" [] OTHER -> "sold"
  /\ k = "list" => s.owner = By[t] /\ Sellers(c, Listing[t]) = {}
  /\ k \in {"sell", "unlist"} => s.listing = Listing[t]
  /\ k = "sell" => By[t] \notin Sellers(c, Listing[t])
  /\ k = "unlist" => By[t] \in Sellers(c, Listing[t])

Blocks(c, fork) ==
  {[fork |-> fork, tx |-> t, after |-> After(State(c), t)] :
     t \in {u \in Txs : Legal(c, u)} \union {NoTx}}

ASSUME PastsAssumption ==
  \A p \in Pasts :
    /\ p \in Seq([fork : {0}, tx : Txs \union {NoTx}, after : TicketState])
    /\ Len(p) <= MaxBlocks
    /\ \A n \in DOMAIN p : p[n] \in Blocks(SubSeq(p, 1, n - 1), 0)

Extend(c, fork) ==
  \E b \in Blocks(c, fork) :
    /\ chain' = Append(c, b)
    /\ mined' = mined \union ({b.tx} \ {NoTx})

Mine ==
  /\ Height < MaxBlocks
  /\ Extend(chain, forks)
  /\ UNCHANGED <<forks, fails, ticketVars, listings, statVars, up, tproc, mproc, reqs, history>>

\* The newest block is replaced; its transaction may come back later.
Reorg ==
  /\ forks < MaxReorgs /\ forks + fails < MaxFaults
  /\ Height > 0
  /\ Extend(SubSeq(chain, 1, Height - 1), forks + 1)
  /\ forks' = forks + 1
  /\ UNCHANGED <<fails, ticketVars, listings, statVars, up, tproc, mproc, reqs, history>>

----------------------------------------------------------------------------
\* The two processors' loops

\* planReorgSafeSync from the saved cursor.
Planned(p, at) ==
  [p EXCEPT !.at = at, !.from = ComputeRescanFromBlock(1, p.last),
            !.target = ComputeTargetBlock(Height)]
MayPlan(p) ==
  /\ p.at = "sleep"
  /\ ShouldSync(ComputeRescanFromBlock(1, p.last), ComputeTargetBlock(Height))

\* updateProgress at the end of a chunk, then the next chunk or the end.
Saved(p, next, end) ==
  LET to == CurrentTo(p.from, p.target) IN
  IF to < p.target THEN [p EXCEPT !.last = to, !.from = to + 1, !.at = next]
                   ELSE [p EXCEPT !.last = to, !.from = 0, !.target = 0, !.at = end]

\* The pass is over; what it held in memory is gone.
Stopped(p) ==
  [p EXCEPT !.at = "sleep", !.from = 0, !.target = 0, !.logs = {}]

----------------------------------------------------------------------------
\* The ticket processor

NoDocument == [status |-> "none", owner |-> Organizer, listed |-> FALSE]
Minted(owner) == [status |-> "minted", owner |-> owner, listed |-> FALSE]
NoStats == [k \in TicketKinds |-> 0]
Counts(txs) == [k \in TicketKinds |-> Cardinality({t \in txs : Kind[t] = k})]
ByTicketProcessor == UNCHANGED <<chainVars, fails, counters, listings, up, mproc, reqs, history>>

PlanTicket ==
  /\ "ticket" \in up
  /\ MayPlan(tproc)
  /\ tproc' = Planned(tproc, "delete")
  /\ UNCHANGED <<ticket, statVars>>
  /\ ByTicketProcessor

\* A chunk: findLogs, findEventIdsInRange, and deleteInRange.
DeleteInRange ==
  /\ tproc.at = "delete"
  /\ LET range == tproc.from..CurrentTo(tproc.from, tproc.target) IN
       /\ tproc' = [tproc EXCEPT
            !.at = "insert", !.affected = \E e \in tevents : e.block \in range,
            !.logs = {r \in Indexed : r.block \in range /\ Kind[r.tx] \in TicketKinds}]
       /\ tevents' = {e \in tevents : e.block \notin range}
  /\ UNCHANGED <<ticket, stats>>
  /\ ByTicketProcessor

\* insertMany, unordered: rows whose transaction has a row already are left
\* out and the call throws.
InsertEvents ==
  /\ tproc.at = "insert"
  /\ LET new == {r \in tproc.logs : \A e \in tevents : e.tx # r.tx} IN
       /\ tevents' = tevents \union {[block |-> r.block, tx |-> r.tx] : r \in new}
       /\ tproc' = IF new = tproc.logs THEN [tproc EXCEPT !.at = "mint"]
                   ELSE Stopped(tproc)
  /\ UNCHANGED <<ticket, stats>>
  /\ ByTicketProcessor

\* Mutant: the document is set whatever it says.
UpsertMintedAnew ==
  /\ tproc.at = "mint"
  /\ ticket' = IF \E r \in tproc.logs : Kind[r.tx] = "mint" THEN Minted(Organizer) ELSE ticket
  /\ tproc' = [tproc EXCEPT !.at = "stats"]
  /\ UNCHANGED statVars
  /\ ByTicketProcessor

\* syncMintedTicketsFromLogs: the only log that reaches the ticket document,
\* and only inserts it.
UpsertMinted ==
  /\ tproc.at = "mint"
  /\ ticket' = IF ticket.status = "none" /\ \E r \in tproc.logs : Kind[r.tx] = "mint"
                 THEN Minted(Organizer) ELSE ticket
  /\ tproc' = [tproc EXCEPT !.at = "stats"]
  /\ UNCHANGED statVars
  /\ ByTicketProcessor

\* Mutant: events whose logs are gone are not counted again.
RebuildStatsOfLogs ==
  /\ tproc.at = "stats"
  /\ stats' = IF tproc.logs # {} THEN Counts({e.tx : e \in tevents}) ELSE stats
  /\ tproc' = [Saved(tproc, "delete", "sleep") EXCEPT !.logs = {}, !.affected = FALSE]
  /\ UNCHANGED <<ticket, tevents>>
  /\ ByTicketProcessor

\* rebuildForEventIds for the events met before or after, and updateProgress.
RebuildStats ==
  /\ tproc.at = "stats"
  /\ stats' = IF tproc.affected \/ tproc.logs # {}
                THEN Counts({e.tx : e \in tevents}) ELSE stats
  /\ tproc' = [Saved(tproc, "delete", "sleep") EXCEPT !.logs = {}, !.affected = FALSE]
  /\ UNCHANGED <<ticket, tevents>>
  /\ ByTicketProcessor

ProcessTickets ==
  PlanTicket \/ DeleteInRange \/ InsertEvents \/ UpsertMinted \/ RebuildStats

----------------------------------------------------------------------------
\* The marketplace processor

ListingRows(rows) == {r \in rows : Kind[r.tx] \in ListingKinds}
First(rows) == CHOOSE r \in rows : \A q \in rows : r.block <= q.block
HashesOf(rows) ==
  {[block |-> r.block, fork |-> r.fork, listing |-> Listing[r.tx]] : r \in rows}
ByMarketProcessor ==
  UNCHANGED <<chainVars, fails, ticketVars, statVars, up, tproc, reqs, history>>

PlanListings ==
  /\ "marketplace" \in up
  /\ MayPlan(mproc)
  /\ mproc' = Planned(mproc, "read")
  /\ UNCHANGED listings
  /\ ByMarketProcessor

\* Listings of saved blocks of the chunk that have no log now, or another hash;
\* with the latter, the listings of their new logs too.
ReorgAffected(rows, from, to) ==
  LET stale == {h \in mproc.hashes : h.block \in from..to
                  /\ \A r \in rows : r.block = h.block => r.fork # h.fork}
  IN {h.listing : h \in stale}
       \union {Listing[r.tx] : r \in {q \in rows : \E h \in stale : h.block = q.block}}

ReadListingLogs ==
  /\ mproc.at = "read"
  /\ LET to == CurrentTo(mproc.from, mproc.target)
         rows == {r \in ListingRows(Indexed) : r.block \in mproc.from..to}
     IN mproc' = [mproc EXCEPT
          !.at = "log", !.logs = rows, !.read = rows,
          !.dead = @ \union ReorgAffected(rows, mproc.from, to)]
  /\ UNCHANGED listings
  /\ ByMarketProcessor

\* Mutant: a listing document is inserted once and never set again.
ListingAfterOnce(doc, t) ==
  CASE Kind[t] = "list" -> IF doc = "none" THEN "active" ELSE doc
    [] Kind[t] = "sell" -> IF doc = "none" THEN "sold" ELSE doc
    [] Kind[t] = "unlist" -> IF doc = "none" THEN "none" ELSE "cancelled"

\* upsertListingCreated and upsertListingSold insert what is missing and set
\* the status whatever it was; updateListingCancelled only updates.
ListingAfter(doc, t) ==
  CASE Kind[t] = "list" -> "active"
    [] Kind[t] = "sell" -> "sold"
    [] Kind[t] = "unlist" -> IF doc = "none" THEN "none" ELSE "cancelled"

\* processMarketplaceLog, in a chunk and in a rebuild.
ProcessMarketplaceLog ==
  LET t == First(mproc.logs).tx  l == Listing[t] IN
  /\ mproc.at \in {"log", "replay"} /\ mproc.logs # {}
  /\ listings' = [listings EXCEPT ![l] = ListingAfter(@, t)]
  /\ mproc' = [mproc EXCEPT !.logs = @ \ {First(@)}]
  /\ ByMarketProcessor

\* Mutant: one hash too many.
RecentHashesOneMore(read) ==
  LET new == HashesOf(read)
      merged == new \union {h \in mproc.hashes : \A g \in new : g.block # h.block}
  IN {h \in merged : Cardinality({g \in merged : g.block > h.block}) <= ReorgBuffer}

\* The newest ReorgBuffer block hashes are kept with the cursor.
RecentHashes(read) ==
  LET new == HashesOf(read)
      merged == new \union {h \in mproc.hashes : \A g \in new : g.block # h.block}
  IN {h \in merged : Cardinality({g \in merged : g.block > h.block}) < ReorgBuffer}

SaveListings ==
  /\ mproc.at = "log" /\ mproc.logs = {}
  /\ mproc' = [Saved(mproc, "read", "rebuild") EXCEPT !.hashes = RecentHashes(mproc.read), !.read = {}]
  /\ UNCHANGED listings
  /\ ByMarketProcessor

\* rebuildListingFromChainLog of one listing: all its logs, or none and the
\* document goes.
RebuildListing ==
  /\ mproc.at = "rebuild" /\ mproc.dead # {}
  /\ \E l \in mproc.dead :
       LET rows == {r \in ListingRows(Indexed) : Listing[r.tx] = l} IN
       /\ listings' = IF rows = {} THEN [listings EXCEPT ![l] = "none"] ELSE listings
       /\ mproc' = [mproc EXCEPT !.at = "replay", !.logs = rows, !.dead = @ \ {l}]
  /\ ByMarketProcessor

EndOfListing ==
  /\ \/ mproc.at = "replay" /\ mproc.logs = {}
     \/ mproc.at = "rebuild" /\ mproc.dead = {}
  /\ mproc' = [mproc EXCEPT !.at = IF mproc.dead = {} THEN "sleep" ELSE "rebuild"]
  /\ UNCHANGED listings
  /\ ByMarketProcessor

ProcessListings ==
  \/ PlanListings \/ ReadListingLogs \/ ProcessMarketplaceLog
  \/ SaveListings \/ RebuildListing \/ EndOfListing

\* A call throws or a processor restarts: what was in memory is gone.
TicketProcessorFails ==
  /\ forks + fails < MaxFaults /\ tproc.at # "sleep"
  /\ fails' = fails + 1
  /\ tproc' = [Stopped(tproc) EXCEPT !.affected = FALSE]
  /\ UNCHANGED <<chainVars, ticketVars, listings, statVars, up, mproc, reqs, history>>

MarketProcessorFails ==
  /\ forks + fails < MaxFaults /\ mproc.at # "sleep"
  /\ fails' = fails + 1
  /\ mproc' = [Stopped(mproc) EXCEPT !.read = {}, !.dead = {}]
  /\ UNCHANGED <<chainVars, ticketVars, listings, statVars, up, tproc, reqs, history>>

----------------------------------------------------------------------------
\* Requests.  Each may stop anywhere; the receipt it works from was there at
\* some moment before, on a fork that may be gone.

Request == [at |-> "new", tx |-> NoTx, listing |-> NoListing, status |-> "none"]
At(q, where) == reqs[q].at = where
Goes(q, where) == reqs' = [reqs EXCEPT ![q].at = where]
ByRequest == UNCHANGED <<chainVars, fails, statVars, up, tproc, mproc>>

\* What each confirmation takes for done already.
AlreadySynced(t, l) ==
  CASE Kind[t] = "buy" -> ticket.status = "sold" /\ ticket.owner = By[t]
    [] Kind[t] = "use" -> ticket.status = "used"
    [] Kind[t] = "refund" -> ticket.status = "refunded"
    [] Kind[t] = "list" -> listings[l] = "active"
    [] Kind[t] = "sell" -> listings[l] = "sold"
    [] Kind[t] = "unlist" -> listings[l] = "cancelled"

\* The documents a confirmation must find.
Found(t, l) ==
  IF Kind[t] \in {"sell", "unlist"} THEN listings[l] # "none" ELSE ticket.status # "none"

\* A sale names its listing by id, or takes an active one of the ticket.
ListingOf(t) ==
  IF Kind[t] \in TicketKinds THEN {NoListing}
  ELSE {Listing[t]} \union (IF Kind[t] = "sell" THEN {l \in Listings : listings[l] = "active"}
                                                ELSE {})

\* The reads of confirmPurchase, confirmUseTicket, confirmRefund and the three
\* confirmListing functions.
ReadDocuments(q) ==
  \E t \in mined : \E l \in ListingOf(t) :
  /\ At(q, "new") /\ Kind[t] # "mint"
  /\ reqs' = [reqs EXCEPT ![q] =
       [@ EXCEPT !.tx = t, !.listing = l,
                 !.at = IF ~Found(t, l) THEN "refused" ELSE IF AlreadySynced(t, l) THEN "done"
                        ELSE IF Kind[t] \in TicketKinds THEN "ticket" ELSE "listing"]]
  /\ UNCHANGED <<ticketVars, listings, history>>
  /\ ByRequest

\* The block of a transaction, 0 when it is not on the chain.
BlockOf(t) ==
  IF t \in On(chain) THEN CHOOSE n \in DOMAIN chain : chain[n].tx = t ELSE 0

\* The processor has read the logs up to here.
PassedBlock ==
  IF mproc.at = "log" THEN CurrentTo(mproc.from, mproc.target) ELSE mproc.last

\* A listing is written first; updateStatus finds it by id.
WriteListing(q) ==
  LET t == reqs[q].tx  l == reqs[q].listing IN
  /\ At(q, "listing")
  /\ listings' = [listings EXCEPT ![l] =
       IF Kind[t] # "list" /\ @ = "none" THEN @
       ELSE CASE Kind[t] = "list" -> "active" [] Kind[t] = "sell" -> "sold" [] OTHER -> "cancelled"]
  /\ wrote' = wrote \union {[listing |-> l, tx |-> t, late |-> BlockOf(t) <= PassedBlock]}
  /\ Goes(q, "ticket")
  /\ UNCHANGED <<ticketVars, synced>>
  /\ ByRequest

\* markAsSold, markAsUsedFromChain, markAsRefundedFromChain and updateStatus,
\* each one atomic update without a look at the status it replaces.
TicketAfter(doc, t) ==
  CASE Kind[t] = "buy" -> [doc EXCEPT !.status = "sold", !.owner = By[t]]
    [] Kind[t] = "list" -> [status |-> "sold", owner |-> Market, listed |-> TRUE]
    [] Kind[t] \in {"sell", "unlist"} -> [status |-> "sold", owner |-> By[t], listed |-> FALSE]
    [] Kind[t] = "use" -> [doc EXCEPT !.status = "used"]
    [] Kind[t] = "refund" -> [doc EXCEPT !.status = "refunded"]

\* updateStatus finds the ticket by token and inserts none.
WriteTicket(q) ==
  LET t == reqs[q].tx IN
  /\ At(q, "ticket")
  /\ IF ticket.status = "none" THEN UNCHANGED <<ticket, synced>>
     ELSE ticket' = TicketAfter(ticket, t) /\ synced' = Append(synced, t)
  /\ Goes(q, IF Kind[t] \in {"buy", "use"} THEN "count" ELSE "done")
  /\ UNCHANGED <<counters, listings, wrote>>
  /\ ByRequest

\* incrementTicketCounters, whoever else counted this transaction.
IncrementTicketCounters(q) ==
  /\ At(q, "count")
  /\ counters' = [counters EXCEPT ![Kind[reqs[q].tx]] = @ + 1]
  /\ Goes(q, "done")
  /\ UNCHANGED <<ticket, listings, history>>
  /\ ByRequest

\* createPurchaseIntent of an event: a ticket shown as minted is looked up on
\* the chain; without one, the chain is searched (hydrateMintedTicketFromChain).
FindMintedTicket(q) ==
  /\ At(q, "new")
  /\ ticket.status \in {"none", "minted"}
  /\ Goes(q, IF ticket.status = "none" THEN "hydrate" ELSE "lookup")
  /\ UNCHANGED <<ticketVars, listings, history>>
  /\ ByRequest

GetTicketStatus(q) ==
  LET s == State(chain) IN
  /\ At(q, "lookup") \/ At(q, "hydrate")
  /\ LET shown == At(q, "lookup")
         next == CASE shown /\ s.status \notin {"minted", "none"} -> "refresh"
                   [] ~shown /\ s.status = "minted" -> "upsert"
                   [] OTHER -> "done"
     IN reqs' = [reqs EXCEPT ![q].at = next, ![q].status = s.status]
  /\ UNCHANGED <<ticketVars, listings, history>>
  /\ ByRequest

\* The status found is written over whatever the document says by now.
RefreshStatus(q) ==
  /\ At(q, "refresh")
  /\ ticket' = [ticket EXCEPT !.status = reqs[q].status]
  /\ synced' = Append(synced, NoTx)
  /\ Goes(q, "done")
  /\ UNCHANGED <<counters, listings, wrote>>
  /\ ByRequest

UpsertFromChain(q) ==
  /\ At(q, "upsert")
  /\ ticket' = IF ticket.status = "none" THEN Minted(Organizer) ELSE ticket
  /\ Goes(q, "done")
  /\ UNCHANGED <<counters, listings, history>>
  /\ ByRequest

Requesting(q) ==
  \/ ReadDocuments(q) \/ WriteListing(q) \/ WriteTicket(q) \/ IncrementTicketCounters(q)
  \/ FindMintedTicket(q) \/ GetTicketStatus(q) \/ RefreshStatus(q) \/ UpsertFromChain(q)

----------------------------------------------------------------------------

\* The ticket document is there already when the tickets were minted through
\* the backend (module Lifecycle).
Init ==
  /\ chain \in Pasts /\ mined = On(chain)
  /\ forks = 0 /\ fails = 0
  /\ ticket \in {NoDocument} \union (IF mined = {} THEN {} ELSE {Minted(Organizer)})
  /\ listings = [l \in Listings |-> "none"]
  /\ counters = [k \in {"buy", "use"} |-> 0]
  /\ tevents = {} /\ stats = NoStats
  /\ up \in Deployments
  /\ tproc = [at |-> "sleep", last |-> 0, from |-> 0, target |-> 0,
              logs |-> {}, affected |-> FALSE]
  /\ mproc = [at |-> "sleep", last |-> 0, from |-> 0, target |-> 0,
              logs |-> {}, read |-> {}, dead |-> {}, hashes |-> {}]
  /\ reqs = [q \in Requests |-> Request]
  /\ synced = <<>> /\ wrote = {}

Next ==
  \/ Mine \/ Reorg
  \/ ProcessTickets \/ TicketProcessorFails
  \/ ProcessListings \/ MarketProcessorFails
  \/ \E q \in Requests : Requesting(q)

Spec == Init /\ [][Next]_vars

\* The processors that run keep ticking; no block or request has to come.
FairSpec ==
  /\ Spec
  /\ WF_vars(ProcessTickets)
  /\ WF_vars(ProcessListings)

----------------------------------------------------------------------------
\* Properties

TypeOK ==
  /\ ticket \in [status : Statuses, owner : Owners, listed : BOOLEAN]
  /\ listings \in [Listings -> {"none", "active", "sold", "cancelled"}]
  /\ \A p \in {tproc, mproc} : p.last \in 0..MaxBlocks /\ p.target \in 0..MaxBlocks
  /\ Cardinality(mproc.hashes) <= ReorgBuffer
  /\ mproc.at = "sleep" => mproc.logs = {} /\ mproc.read = {} /\ mproc.dead = {}

CrashAndReorg == fails > 0 /\ forks > 0

\* TicketStats comes to agree with the chain, and stays so: after a failure or
\* restart anywhere in the processor, or after a reorganisation.  Both
\* together can lose an event between its deletion and its count.
StatsExact == stats = Counts({r.tx : r \in {q \in Indexed : Kind[q.tx] \in TicketKinds}})
StatsSettle ==
  \/ <>CrashAndReorg
  \/ <>[]("ticket" \in up /\ tproc.at = "sleep" => StatsExact)

ListingState(l) ==
  LET done == {Kind[r.tx] : r \in {q \in ListingRows(Indexed) : Listing[q.tx] = l}} IN
  CASE "sell" \in done -> "sold" [] "unlist" \in done -> "cancelled"
    [] "list" \in done -> "active" [] OTHER -> "none"

\* A request wrote this listing for a transaction of another, one that is off
\* the chain, or one the processor was past and does not read again.
Outrun(l) ==
  \E w \in wrote :
    /\ w.listing = l
    /\ \/ Listing[w.tx] # l
       \/ w.tx \notin On(chain)
       \/ w.late /\ BlockOf(w.tx) < ComputeRescanFromBlock(1, mproc.last)

\* Listings come to agree with the chain whatever requests write: only one
\* later than the processor's window, or of a lost block, leaves its mark.
ListingsSettle ==
  \/ <>CrashAndReorg
  \/ <>[]("marketplace" \in up /\ mproc.at = "sleep" =>
            \A l \in Listings : listings[l] = ListingState(l) \/ Outrun(l))

\* The last of a sequence of transactions that is of these kinds.
LastOf(ts, kinds) ==
  LET ns == {n \in DOMAIN ts : ts[n] # NoTx /\ Kind[ts[n]] \in kinds} IN
  IF ns = {} THEN NoTx ELSE ts[CHOOSE n \in ns : \A k \in ns : k <= n]

OnChain(kinds) == LastOf([n \in DOMAIN chain |-> chain[n].tx], kinds)
Confirmed(kinds) == LastOf(synced, kinds)

\* What a transaction sets, a confirmation of that transaction heals, whatever
\* confirmations before it were lost, late or of a block that is gone, and
\* whatever the processors and the purchases write beside it.  The status once
\* the last write is of the last transaction of the ticket; the owner once the
\* last confirmed move is the last move; and the mark of a listing once the
\* last of the listings' transactions was confirmed last among them.
TicketHealed ==
  LET s == State(chain)  moves == ListingKinds \union {"buy"}
      last == OnChain((ListingKinds \union TicketKinds) \ {"mint"})
  IN
  /\ synced # <<>> /\ synced[Len(synced)] = last /\ last # NoTx =>
       ticket.status = s.status
  /\ Confirmed(moves) = OnChain(moves) => ticket.owner = s.owner
  /\ Confirmed(ListingKinds) = OnChain(ListingKinds) =>
       ticket.listed = (s.listing # NoListing)
=============================================================================
