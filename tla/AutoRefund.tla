----------------------------- MODULE AutoRefund ------------------------------
(***************************************************************************)
(* The automatic refunds of one cancelled event: jobs that every process   *)
(* keeps in a queue of its own memory, one at a time and one per event,    *)
(* first force-cancelling the listings of its tickets, then claiming the   *)
(* refund of each ticket, and in a second queue of each contribution.      *)
(*                                                                         *)
(* The contracts (modules Ticket, Marketplace, Fund) pay each refund once  *)
(* and refuse the refund of a listed ticket, which the marketplace holds.  *)
(* Past the event's end date, when one is set on the chain, a sold ticket  *)
(* reads as expired and does not move, but its refund is still paid.       *)
(***************************************************************************)
EXTENDS Naturals

CONSTANTS
  Tokens, Contributors,
  Deployments,    \* which refunds are enabled: sets of queues
  MaxMoves,       \* bound: listings, refunds and marks from a wallet
  MaxRequests,    \* bound: cancellations the worker reports to its queues
  MaxFaults,      \* bound: failed calls and restarts
  MaxUpsets       \* bound: all three together

\* The fund processor, and a process that ticks or serves requests.
Processes == {"processor", "worker"}
Queues == {"tickets", "contributions"}

ASSUME AutoRefundAssumption ==
  /\ Deployments \subseteq SUBSET Queues
  /\ Tokens \intersect Contributors = {}
  /\ {MaxMoves, MaxRequests, MaxFaults, MaxUpsets} \subseteq Nat

VARIABLES
  tickets,   \* status the chain stores of each ticket of the event
  ended,     \* whether the event's end date on the chain has passed
  listed,    \* tickets with an active listing, held by the marketplace
  owed,      \* contributors whose contribution is not refunded
  docs,      \* status of each ticket document
  known,     \* contributors with a confirmed contribution document
  enabled,   \* the queues in use
  jobs,      \* the job of each process and queue
  recent,    \* whether the processor's window still has the EventCancelled log
  bounds,    \* moves, requests and faults so far
  missed,    \* history: tickets and contributors whose last job failed for them,
             \* and tickets listed since it began
  overlooked, \* history: sold tickets the last job took for expired
  outside,   \* history: tickets whose status a holder or a verifier changed
  late       \* history: tickets whose document a page's confirmation wrote last

chainVars == <<tickets, ended, listed, owed>>
history == <<missed, overlooked, outside, late>>
vars == <<chainVars, docs, known, enabled, jobs, recent, bounds, history>>

Idle == [at |-> "idle", todo |-> {}, blocked |-> {}, cur |-> {}]

Sold(t) == tickets[t] = "sold"

\* _effectiveStatus.
Effective(t) == IF Sold(t) /\ ended THEN "expired" ELSE tickets[t]
Transferable(t) == Effective(t) = "sold"
Count(what) == bounds' = [bounds EXCEPT ![what] = @ + 1]
Within(what, most) ==
  bounds[what] < most /\ bounds.moves + bounds.requests + bounds.faults < MaxUpsets

----------------------------------------------------------------------------
\* Holders, verifiers and the organizer (external)

ByWallet == UNCHANGED <<owed, docs, known, enabled, jobs, recent, overlooked, late>>

ListTicket(t) ==
  /\ Within("moves", MaxMoves) /\ Count("moves")
  /\ Transferable(t) /\ t \notin listed
  /\ listed' = listed \union {t}
  /\ missed' = missed \union {t}
  /\ UNCHANGED <<tickets, ended, outside>>
  /\ ByWallet

\* Bought or taken back.
EndListing(t) ==
  /\ t \in listed /\ Transferable(t)
  /\ listed' = listed \ {t}
  /\ UNCHANGED <<tickets, ended, bounds, missed, outside>>
  /\ ByWallet

RefundOwnTicket(t) ==
  /\ Within("moves", MaxMoves) /\ Count("moves")
  /\ Sold(t) /\ t \notin listed
  /\ tickets' = [tickets EXCEPT ![t] = "refunded"]
  /\ outside' = outside \union {t}
  /\ UNCHANGED <<ended, listed, missed>>
  /\ ByWallet

\* markAsUsed, markAsExpired and markAsRefunded, whoever holds the ticket.
MarkTicket(t) ==
  /\ Within("moves", MaxMoves) /\ Count("moves")
  /\ Sold(t)
  /\ \E s \in {"used", "expired", "refunded"} :
       /\ s = "used" => Transferable(t)
       /\ tickets' = [tickets EXCEPT ![t] = s]
  /\ outside' = outside \union {t}
  /\ UNCHANGED <<ended, listed, missed>>
  /\ ByWallet

\* The date passes, or setEventEndDate moves it.
EndDateMoves ==
  /\ ended' = ~ended
  /\ UNCHANGED <<tickets, listed, bounds, missed, outside>>
  /\ ByWallet

\* The confirmation of a purchase, or of a listing made, sold or cancelled,
\* which may come at any time after its transaction.
ConfirmLate(t) ==
  /\ docs[t] # "sold"
  /\ docs' = [docs EXCEPT ![t] = "sold"]
  /\ late' = late \union {t}
  /\ UNCHANGED <<chainVars, known, enabled, jobs, recent, bounds, missed, overlooked, outside>>

----------------------------------------------------------------------------
\* Scheduling

\* scheduleAutoRefundsForTerminalEvent: a queue that has a job of this event
\* waiting or running drops the new one.
Scheduled(p) ==
  [jobs EXCEPT ![p] = [q \in Queues |->
     IF q \in enabled /\ @[q].at = "idle" THEN [Idle EXCEPT !.at = "queued"] ELSE @[q]]]

\* handleEventCancelled, on every pass that meets the log; contributions come
\* before it in the chain's order.
ReplayCancellation ==
  /\ recent
  /\ recent' \in BOOLEAN
  /\ known' = Contributors
  /\ jobs' = Scheduled("processor")
  /\ UNCHANGED <<chainVars, docs, enabled, bounds, history>>

\* updateEventStatus and the resolving ticks after their own transaction.
ReportCancellation ==
  /\ Within("requests", MaxRequests)
  /\ Count("requests")
  /\ jobs' = Scheduled("worker")
  /\ UNCHANGED <<chainVars, docs, known, enabled, recent, history>>

----------------------------------------------------------------------------
\* The jobs

At(p, q, where) == jobs[p][q].at = where
Becomes(p, q, job) == jobs' = [jobs EXCEPT ![p][q] = job]
Cur(p, q) == jobs[p][q].cur

\* Lists are worked off in one order.
First(list) == CHOOSE x \in list : TRUE

ByJob == UNCHANGED <<ended, owed, known, enabled, recent, outside>>

\* getEventTokenIds.
StartTickets(p) ==
  /\ At(p, "tickets", "queued")
  /\ Becomes(p, "tickets", [Idle EXCEPT !.at = "scan", !.todo = Tokens])
  /\ missed' = missed \ Tokens /\ overlooked' = {}
  /\ UNCHANGED <<tickets, listed, docs, bounds, late>>
  /\ ByJob

\* Mutant: active listings are left to their sellers.
ScanListingsOnly(p) ==
  LET job == jobs[p]["tickets"] IN
  /\ At(p, "tickets", "scan")
  /\ IF job.todo = {}
       THEN Becomes(p, "tickets", [job EXCEPT !.at = "claim", !.todo = Tokens \ job.blocked])
       ELSE LET t == First(job.todo) IN Becomes(p, "tickets", [job EXCEPT !.todo = @ \ {t}])
  /\ UNCHANGED <<tickets, listed, docs, bounds, missed, overlooked, late>>
  /\ ByJob

\* getActiveListingByTokenId of each ticket; when all are seen, the claims
\* begin with those no listing blocks.
ScanListings(p) ==
  LET job == jobs[p]["tickets"] IN
  /\ At(p, "tickets", "scan")
  /\ IF job.todo = {}
       THEN Becomes(p, "tickets", [job EXCEPT !.at = "claim", !.todo = Tokens \ job.blocked])
       ELSE LET t == First(job.todo) IN
              Becomes(p, "tickets", [job EXCEPT !.todo = @ \ {t}, !.cur = {t} \intersect listed,
                                                !.at = IF t \in listed THEN "force" ELSE @])
  /\ UNCHANGED <<tickets, listed, docs, bounds, missed, overlooked, late>>
  /\ ByJob

\* forceCancelListing; a listing that has ended meanwhile, or a ticket that does
\* not move, reverts it and blocks the ticket's refund.
ForceCancelListing(p) ==
  LET job == jobs[p]["tickets"] IN
  /\ At(p, "tickets", "force")
  /\ IF \A t \in job.cur : t \in listed /\ Transferable(t)
       THEN /\ listed' = listed \ job.cur
            /\ Becomes(p, "tickets", [job EXCEPT !.at = "return"])
            /\ UNCHANGED missed
       ELSE /\ Becomes(p, "tickets",
                 [job EXCEPT !.at = "scan", !.cur = {}, !.blocked = @ \union job.cur])
            /\ missed' = missed \union job.cur
            /\ UNCHANGED listed
  /\ UNCHANGED <<tickets, docs, bounds, overlooked, late>>
  /\ ByJob

\* The ticket document goes back to its seller as sold.
ReturnTicket(p) ==
  LET job == jobs[p]["tickets"] IN
  /\ At(p, "tickets", "return")
  /\ docs' = [t \in Tokens |-> IF t \in job.cur THEN "sold" ELSE docs[t]]
  /\ late' = late \ job.cur
  /\ Becomes(p, "tickets", [job EXCEPT !.at = "scan", !.cur = {}])
  /\ UNCHANGED <<tickets, listed, bounds, missed, overlooked>>
  /\ ByJob

Overlooks(t) == overlooked' = overlooked \union {x \in {t} : Sold(x)}

\* Mutant: a ticket refunded already is passed over.
ReadTicketSkips(p) ==
  LET job == jobs[p]["tickets"]  t == First(job.todo) IN
  /\ At(p, "tickets", "claim")
  /\ IF job.todo = {} THEN Becomes(p, "tickets", Idle) /\ UNCHANGED overlooked
     ELSE IF Effective(t) = "sold"
       THEN /\ Becomes(p, "tickets",
                 [job EXCEPT !.todo = @ \ {t}, !.at = "send", !.cur = {t}])
            /\ UNCHANGED overlooked
       ELSE Becomes(p, "tickets", [job EXCEPT !.todo = @ \ {t}]) /\ Overlooks(t)
  /\ UNCHANGED <<tickets, listed, docs, bounds, missed, late>>
  /\ ByJob

\* getTicketStatus, which is the effective one: a refunded ticket only has its
\* document written, and one that reads neither refunded nor sold is passed over.
ReadTicket(p) ==
  LET job == jobs[p]["tickets"]  t == First(job.todo) IN
  /\ At(p, "tickets", "claim")
  /\ IF job.todo = {} THEN Becomes(p, "tickets", Idle) /\ UNCHANGED overlooked
     ELSE IF Effective(t) \in {"sold", "refunded"}
       THEN /\ Becomes(p, "tickets",
                 [job EXCEPT !.todo = @ \ {t}, !.cur = {t},
                             !.at = IF Effective(t) = "sold" THEN "send" ELSE "sync"])
            /\ UNCHANGED overlooked
       ELSE Becomes(p, "tickets", [job EXCEPT !.todo = @ \ {t}]) /\ Overlooks(t)
  /\ UNCHANGED <<tickets, listed, docs, bounds, missed, late>>
  /\ ByJob

\* Mutant: the refund of a listed ticket goes to the marketplace.
ClaimRefundForAnyOwner(p) ==
  LET job == jobs[p]["tickets"] IN
  /\ At(p, "tickets", "send")
  /\ tickets' = [t \in Tokens |-> IF t \in job.cur THEN "refunded" ELSE tickets[t]]
  /\ Becomes(p, "tickets", [job EXCEPT !.at = "sync"])
  /\ UNCHANGED <<listed, docs, bounds, missed, overlooked, late>>
  /\ ByJob

\* claimRefundFor; a ticket listed or refunded since reverts it, and the job
\* does not come back to it.
ClaimRefundFor(p) ==
  LET job == jobs[p]["tickets"] IN
  /\ At(p, "tickets", "send")
  /\ IF \A t \in job.cur : Sold(t) /\ t \notin listed
       THEN /\ tickets' = [t \in Tokens |-> IF t \in job.cur THEN "refunded" ELSE tickets[t]]
            /\ Becomes(p, "tickets", [job EXCEPT !.at = "sync"])
       ELSE /\ Becomes(p, "tickets", [job EXCEPT !.at = "claim", !.cur = {}])
            /\ UNCHANGED tickets
  /\ UNCHANGED <<listed, docs, bounds, missed, overlooked, late>>
  /\ ByJob

\* syncRefundedTicketRecord.
SyncTicket(p) ==
  LET job == jobs[p]["tickets"] IN
  /\ At(p, "tickets", "sync")
  /\ docs' = [t \in Tokens |-> IF t \in job.cur THEN "refunded" ELSE docs[t]]
  /\ late' = late \ job.cur
  /\ Becomes(p, "tickets", [job EXCEPT !.at = "claim", !.cur = {}])
  /\ UNCHANGED <<tickets, listed, bounds, missed, overlooked>>
  /\ ByJob

\* A call for one ticket fails, its error is caught, and the loop goes on.  A
\* listing that could not be looked up or cancelled, or whose documents could not
\* both be written, blocks the refund of its ticket.
TicketCallFails(p) ==
  LET job == jobs[p]["tickets"]
      sold == [t \in Tokens |-> IF t \in job.cur THEN "sold" ELSE docs[t]]
      hit == IF At(p, "tickets", "scan") /\ job.todo # {} THEN {First(job.todo)} ELSE job.cur
      Skips(blocked) == Becomes(p, "tickets",
        [job EXCEPT !.at = IF @ \in {"send", "sync"} THEN "claim" ELSE "scan",
                    !.todo = @ \ hit, !.cur = {}, !.blocked = blocked])
  IN
  /\ Within("faults", MaxFaults)
  /\ Count("faults")
  /\ hit # {}
  /\ missed' = missed \union hit
  /\ \/ /\ At(p, "tickets", "scan") \/ At(p, "tickets", "force")
        /\ Skips(job.blocked \union hit)
        /\ UNCHANGED <<docs, late>>
     \/ /\ At(p, "tickets", "return") /\ Skips(job.blocked \union hit)
        /\ \/ UNCHANGED <<docs, late>>
           \/ docs' = sold /\ late' = late \ hit
     \/ /\ At(p, "tickets", "send") \/ At(p, "tickets", "sync")
        /\ Skips(job.blocked)
        /\ UNCHANGED <<docs, late>>
  /\ UNCHANGED <<tickets, listed, overlooked>>
  /\ ByJob

TicketJob(p) ==
  \/ StartTickets(p) \/ ScanListings(p) \/ ForceCancelListing(p) \/ ReturnTicket(p)
  \/ ReadTicket(p) \/ ClaimRefundFor(p) \/ SyncTicket(p)

\* findRefundableContributors.
StartContributions(p) ==
  /\ At(p, "contributions", "queued")
  /\ Becomes(p, "contributions", [Idle EXCEPT !.at = "claim", !.todo = known])
  /\ missed' = missed \ known
  /\ UNCHANGED <<chainVars, docs, known, enabled, recent, bounds, overlooked, outside, late>>

\* Mutant: the first failure ends the job.
ClaimContributionOrStop(p) ==
  LET job == jobs[p]["contributions"] IN
  /\ At(p, "contributions", "claim")
  /\ IF job.todo = {} THEN Becomes(p, "contributions", Idle) /\ UNCHANGED <<owed, bounds, missed>>
     ELSE LET c == First(job.todo) IN
       \/ /\ Becomes(p, "contributions", [job EXCEPT !.todo = @ \ {c}])
          /\ owed' = owed \ {c}
          /\ UNCHANGED <<bounds, missed>>
       \/ /\ Within("faults", MaxFaults)
          /\ Count("faults")
          /\ Becomes(p, "contributions", Idle)
          /\ missed' = missed \union {c}
          /\ UNCHANGED owed
  /\ UNCHANGED <<tickets, ended, listed, docs, known, enabled, recent, overlooked, outside, late>>

\* claimContributionRefundFor each; one refunded already reverts, a failed
\* call is caught, and the loop goes on.
ClaimContribution(p) ==
  LET job == jobs[p]["contributions"] IN
  /\ At(p, "contributions", "claim")
  /\ IF job.todo = {} THEN Becomes(p, "contributions", Idle) /\ UNCHANGED <<owed, bounds, missed>>
     ELSE LET c == First(job.todo) IN
       /\ Becomes(p, "contributions", [job EXCEPT !.todo = @ \ {c}])
       /\ \/ /\ owed' = owed \ {c}
             /\ UNCHANGED <<bounds, missed>>
          \/ /\ Within("faults", MaxFaults)
             /\ Count("faults")
             /\ missed' = missed \union {c}
             /\ UNCHANGED owed
  /\ UNCHANGED <<tickets, ended, listed, docs, known, enabled, recent, overlooked, outside, late>>

ContributionJob(p) == StartContributions(p) \/ ClaimContribution(p)

Left(p, q) ==
  CASE At(p, q, "idle") -> {}
    [] At(p, q, "queued") \/ At(p, q, "scan") \/ At(p, q, "force") \/ At(p, q, "return") ->
         IF q = "tickets" THEN Tokens ELSE Contributors
    [] OTHER -> jobs[p][q].todo \union Cur(p, q)

\* A job throws before its first item.
JobThrows(p, q) ==
  /\ Within("faults", MaxFaults)
  /\ At(p, q, "queued")
  /\ Count("faults")
  /\ missed' = missed \union Left(p, q)
  /\ Becomes(p, q, Idle)
  /\ UNCHANGED <<chainVars, docs, known, enabled, recent, overlooked, outside, late>>

\* The queues are memory: a restart loses what waits and what runs.
Restart(p) ==
  /\ Within("faults", MaxFaults)
  /\ \E q \in Queues : ~At(p, q, "idle")
  /\ Count("faults")
  /\ missed' = missed \union UNION {Left(p, q) : q \in Queues}
  /\ jobs' = [jobs EXCEPT ![p] = [q \in Queues |-> Idle]]
  /\ UNCHANGED <<chainVars, docs, known, enabled, recent, overlooked, outside, late>>

----------------------------------------------------------------------------
\* The event was cancelled just now; other tickets than sold ones take no part.
Init ==
  /\ tickets = [t \in Tokens |-> "sold"]
  /\ ended \in BOOLEAN
  /\ listed \in SUBSET Tokens
  /\ enabled \in Deployments
  /\ owed = Contributors
  /\ docs = tickets
  /\ known \in IF "contributions" \in enabled THEN {{}, Contributors} ELSE {Contributors}
  /\ jobs = [p \in Processes |-> [q \in Queues |-> Idle]]
  /\ recent = TRUE
  /\ bounds = [moves |-> 0, requests |-> 0, faults |-> 0]
  /\ missed = {} /\ overlooked = {} /\ outside = {} /\ late = {}

Next ==
  \/ \E t \in Tokens :
       \/ ListTicket(t) \/ EndListing(t) \/ RefundOwnTicket(t) \/ MarkTicket(t)
       \/ ConfirmLate(t)
  \/ EndDateMoves
  \/ ReplayCancellation \/ ReportCancellation
  \/ \E p \in Processes :
       \/ TicketJob(p) \/ TicketCallFails(p) \/ ContributionJob(p) \/ Restart(p)
       \/ \E q \in Queues : JobThrows(p, q)

\* The processor polls and the chain grows, so the log leaves its window; calls
\* return or throw.
Fairness ==
  /\ WF_vars(ReplayCancellation /\ ~recent')
  /\ \A p \in Processes : WF_vars(TicketJob(p)) /\ WF_vars(ContributionJob(p))

Spec == Init /\ [][Next]_vars
FairSpec == Spec /\ Fairness

----------------------------------------------------------------------------
\* Properties

\* Types; a job works on at most one ticket, and on none its list still has; no
\* job has refunded a ticket that the marketplace holds.
TypeOK ==
  /\ tickets \in [Tokens -> {"sold", "used", "expired", "refunded"}]
  /\ docs \in [Tokens -> {"sold", "refunded"}]
  /\ \A t \in listed : Sold(t) \/ t \in outside
  /\ owed \subseteq Contributors /\ known \subseteq Contributors
  /\ missed \subseteq Tokens \union Contributors
  /\ \A p \in Processes, q \in Queues :
       LET job == jobs[p][q] IN
       /\ job.todo \subseteq (IF q = "tickets" THEN Tokens ELSE Contributors)
       /\ job.cur \intersect job.todo = {}
       /\ job.at \in {"force", "return", "send", "sync"} <=> job.cur # {}

\* Every sold ticket is refunded in the end, listed or not, whoever else runs
\* the same job and whatever failed in an earlier one: what is left are tickets
\* the last job took for expired, those listed since it began, and those a
\* failure, a restart or a listing it could not cancel (ended under its hands, or
\* of a ticket that does not move) kept it from refunding.  Nothing retries
\* those, although the chain would still pay.
TicketsRefunded ==
  "tickets" \in enabled => <>[](\A t \in Tokens : Sold(t) => t \in missed \union overlooked)

\* The same of contributions, those included the first job did not know of.
ContributionsRefunded == "contributions" \in enabled => <>[](owed \subseteq missed)

\* The document of a ticket the jobs refunded says so for good, although the
\* other process may still write it back as the seller's: only a job that
\* failed for this ticket, a refund past the backend, or the confirmation of an
\* older purchase or listing that came after the refund leaves it behind.
RefundsDocumented ==
  <>[](\A t \in Tokens :
         tickets[t] = "refunded" =>
           docs[t] = "refunded" \/ t \in outside \union missed \union late)
=============================================================================
