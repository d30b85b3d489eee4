------------------------------- MODULE Ticket -------------------------------
(***************************************************************************)
(* contracts/contracts/Ticket.sol: the ERC-721 contract of the tickets.    *)
(*                                                                         *)
(* A ticket goes Minted -> Sold -> Used | Expired | Refunded.  Expiry is   *)
(* lazy: once an event has ended, a ticket whose STORED status is Sold     *)
(* reads as Expired (_effectiveStatus), and the functions differ in which  *)
(* of the two they look at.  What the Fund contract answers or does in the *)
(* same transaction is a parameter here; module Platform supplies it.      *)
(* Excess payment is returned within purchaseTicket and leaves no trace.   *)
(***************************************************************************)
EXTENDS Naturals, FiniteSets, Sums

CONSTANTS
  Accounts, Admin, NoAccount,
  FundContract,         \* the address of Fund
  MarketplaceContract,  \* the address of Marketplace, a holder of tickets
  Wired,                \* whether deployAll.js has already wired the contracts
  MaxEvents,            \* bound: number of events
  MaxTokens,            \* bound: tickets minted in all
  EndDates,             \* the dates callers give setEventEndDate; 0 is none
  RoleTargets,          \* bound: accounts whose ORGANIZER_ROLE the admin edits
  Verifiers,            \* bound: accounts organizers appoint as verifiers
  Managers              \* bound: callers of the administration functions

VARIABLES
  tickets,         \* _tickets: [Tokens -> TicketInfo]
  owner,           \* ownerOf: [Tokens -> Holders \cup {NoAccount}]
  eventTickets,    \* _eventTickets: [Events -> EventTicketInfo]
  eventOrganizer,
  eventEndDate,
  eventVerifiers,  \* the pairs <<event, account>> that are set
  organizerRole,   \* holders of ORGANIZER_ROLE
  nextTicketId,
  fundSet,         \* fundContract # address(0)
  now              \* block.timestamp

ticketVars == <<tickets, owner, eventTickets, eventOrganizer, eventEndDate,
                eventVerifiers, organizerRole, nextTicketId, fundSet>>
vars == <<ticketVars, now>>

adminVars == <<eventOrganizer, eventEndDate, eventVerifiers, organizerRole, fundSet>>

-----------------------------------------------------------------------------
Events == 1 .. MaxEvents
Tokens == 1 .. MaxTokens
Holders == Accounts \cup {MarketplaceContract}

TicketStatus == {"None", "Minted", "Sold", "Used", "Expired", "Refunded"}

TicketInfo == [eventId: Events \cup {0}, price: Nat, status: TicketStatus]

EventTicketInfo ==
  [totalMinted: Nat, totalSold: Nat, totalUsed: Nat, totalRevenue: Nat,
   salesActive: BOOLEAN]

Init ==
  /\ tickets = [t \in Tokens |-> [eventId |-> 0, price |-> 0, status |-> "None"]]
  /\ owner = [t \in Tokens |-> NoAccount]
  /\ eventTickets = [e \in Events |->
       [totalMinted |-> 0, totalSold |-> 0, totalUsed |-> 0,
        totalRevenue |-> 0, salesActive |-> FALSE]]
  /\ eventOrganizer = [e \in Events |-> NoAccount]
  /\ eventEndDate = [e \in Events |-> 0]
  /\ eventVerifiers = {}
  /\ organizerRole = {}
  /\ nextTicketId = 1
  /\ fundSet = Wired
  /\ now = 0

Exists(t) == tickets[t].status # "None"
EventOf(t) == tickets[t].eventId

EventEnded(e) == eventEndDate[e] # 0 /\ now > eventEndDate[e]

EffectiveStatus(t) ==
  IF tickets[t].status = "Sold" /\ EventEnded(EventOf(t))
    THEN "Expired"
    ELSE tickets[t].status

IsTransferable(t) == EffectiveStatus(t) = "Sold"

AdminOrOrganizer(c, e) == c \in {Admin, eventOrganizer[e]}

IsEventVerifier(c, e) == <<e, c>> \in eventVerifiers

-----------------------------------------------------------------------------
(* Administration.                                                         *)

SetFundContract ==
  /\ fundSet' = TRUE
  /\ UNCHANGED <<tickets, owner, eventTickets, eventOrganizer, eventEndDate,
                 eventVerifiers, organizerRole, nextTicketId>>

SetEventEndDate(c, e, date) ==
  /\ AdminOrOrganizer(c, e)
  /\ eventEndDate' = [eventEndDate EXCEPT ![e] = date]
  /\ UNCHANGED <<tickets, owner, eventTickets, eventOrganizer, eventVerifiers,
                 organizerRole, nextTicketId, fundSet>>

SetSalesActive(c, e, active) ==
  /\ AdminOrOrganizer(c, e)
  /\ eventTickets' = [eventTickets EXCEPT ![e].salesActive = active]
  /\ UNCHANGED <<tickets, owner, adminVars, nextTicketId>>

AddEventVerifier(c, e, v) ==
  /\ AdminOrOrganizer(c, e)
  /\ eventVerifiers' = eventVerifiers \cup {<<e, v>>}
  /\ UNCHANGED <<tickets, owner, eventTickets, eventOrganizer, eventEndDate,
                 organizerRole, nextTicketId, fundSet>>

RemoveEventVerifier(c, e, v) ==
  /\ AdminOrOrganizer(c, e)
  /\ eventVerifiers' = eventVerifiers \ {<<e, v>>}
  /\ UNCHANGED <<tickets, owner, eventTickets, eventOrganizer, eventEndDate,
                 organizerRole, nextTicketId, fundSet>>

\* grantRole and revokeRole, inherited from AccessControl.
EditOrganizerRole(u) ==
  /\ organizerRole' \in {organizerRole \cup {u}, organizerRole \ {u}}
  /\ UNCHANGED <<tickets, owner, eventTickets, eventOrganizer, eventEndDate,
                 eventVerifiers, nextTicketId, fundSet>>

-----------------------------------------------------------------------------
(* Minting and selling.                                                    *)

\* The first mint of an event turns its sales on and binds its organizer.
MayMintBatch(caller, to, e, price, quantity) ==
  /\ \/ caller = FundContract /\ fundSet
     \/ caller = Admin
  /\ to \in Accounts
  /\ price > 0
  /\ quantity > 0
  /\ eventOrganizer[e] \in {NoAccount, to}
  /\ eventTickets[e].totalMinted = 0 \/ eventTickets[e].salesActive

MintBatch(caller, to, e, price, quantity) ==
  LET minted == nextTicketId .. nextTicketId + quantity - 1 IN
  /\ MayMintBatch(caller, to, e, price, quantity)
  /\ minted \subseteq Tokens
  /\ tickets' = [t \in Tokens |->
       IF t \in minted THEN [eventId |-> e, price |-> price, status |-> "Minted"]
                       ELSE tickets[t]]
  /\ owner' = [t \in Tokens |-> IF t \in minted THEN to ELSE owner[t]]
  /\ eventTickets' = [eventTickets EXCEPT ![e].totalMinted = @ + quantity,
                                          ![e].salesActive = TRUE]
  /\ eventOrganizer' = [eventOrganizer EXCEPT ![e] = to]
  /\ organizerRole' = IF eventOrganizer[e] = NoAccount
                        THEN organizerRole \cup {to}
                        ELSE organizerRole
  /\ nextTicketId' = nextTicketId + quantity
  /\ UNCHANGED <<eventEndDate, eventVerifiers, fundSet>>

MayPurchase(t, fundStatus) ==
  /\ fundSet
  /\ fundStatus = "Ticketing"
  /\ tickets[t].status = "Minted"
  /\ eventTickets[EventOf(t)].salesActive
  /\ ~EventEnded(EventOf(t))
  /\ owner[t] \in organizerRole

\* fundStatus is what Fund.getEventStatus answers.
PurchaseTicket(c, t, fundStatus) ==
  /\ MayPurchase(t, fundStatus)
  /\ tickets' = [tickets EXCEPT ![t].status = "Sold"]
  /\ owner' = [owner EXCEPT ![t] = c]
  /\ eventTickets' = [eventTickets EXCEPT
                        ![EventOf(t)].totalSold = @ + 1,
                        ![EventOf(t)].totalRevenue = @ + tickets[t].price]
  /\ UNCHANGED <<adminVars, nextTicketId>>

-----------------------------------------------------------------------------
(* Transfers.                                                              *)

MovableAfterExpiry(t) == tickets[t].status \in {"Minted", "Sold", "Expired"}

\* _update: lazily expired tickets are blocked too.
Movable(t) == EffectiveStatus(t) \in {"Minted", "Sold"}

TransferFrom(from, to, t) ==
  /\ Exists(t)
  /\ owner[t] = from
  /\ Movable(t)
  /\ owner' = [owner EXCEPT ![t] = to]
  /\ UNCHANGED <<tickets, eventTickets, adminVars, nextTicketId>>

-----------------------------------------------------------------------------
(* The end of a ticket.                                                    *)

SetStatus(t, s) == tickets' = [tickets EXCEPT ![t].status = s]

UsableAgain(t) == EffectiveStatus(t) \in {"Sold", "Used"}

Usable(t) == EffectiveStatus(t) = "Sold"

MarkAsUsed(c, t) ==
  /\ IsEventVerifier(c, EventOf(t))
  /\ Usable(t)
  /\ SetStatus(t, "Used")
  /\ eventTickets' = [eventTickets EXCEPT ![EventOf(t)].totalUsed = @ + 1]
  /\ UNCHANGED <<owner, adminVars, nextTicketId>>

MarkAsExpired(c, t) ==
  /\ tickets[t].status = "Sold"
  /\ \/ EventEnded(EventOf(t))
     \/ IsEventVerifier(c, EventOf(t))
     \/ c = eventOrganizer[EventOf(t)]
  /\ SetStatus(t, "Expired")
  /\ UNCHANGED <<owner, eventTickets, adminVars, nextTicketId>>

\* A verifier's record that the ticket was refunded; no ether moves.
MarkAsRefunded(c, t) ==
  /\ tickets[t].status = "Sold"
  /\ IsEventVerifier(c, EventOf(t))
  /\ SetStatus(t, "Refunded")
  /\ UNCHANGED <<owner, eventTickets, adminVars, nextTicketId>>

RefundableAgain(t) == tickets[t].status \in {"Sold", "Refunded"}

Refundable(t) == tickets[t].status = "Sold"

ClaimRefundUnmarked(t) ==
  /\ fundSet
  /\ Refundable(t)
  /\ UNCHANGED ticketVars

\* claimRefund by the owner, claimRefundFor by anyone; Fund pays owner[t].
ClaimRefund(t) ==
  /\ fundSet
  /\ Refundable(t)
  /\ SetStatus(t, "Refunded")
  /\ UNCHANGED <<owner, eventTickets, adminVars, nextTicketId>>

-----------------------------------------------------------------------------
(* Calls that touch no other contract.                                     *)

AdminStep ==
  \/ SetFundContract
  \/ \E c \in Managers, e \in Events :
       \/ \E d \in EndDates : SetEventEndDate(c, e, d)
       \/ \E b \in BOOLEAN : SetSalesActive(c, e, b)
       \/ \E v \in Verifiers : AddEventVerifier(c, e, v) \/ RemoveEventVerifier(c, e, v)
  \/ \E u \in RoleTargets : EditOrganizerRole(u)

UseStep ==
  \E c \in Accounts, t \in Tokens :
    \/ MarkAsUsed(c, t)
    \/ MarkAsExpired(c, t)
    \/ MarkAsRefunded(c, t)

-----------------------------------------------------------------------------
(* Properties.                                                             *)

TypeOK ==
  /\ tickets \in [Tokens -> TicketInfo]
  /\ owner \in [Tokens -> Holders \cup {NoAccount}]
  /\ eventTickets \in [Events -> EventTicketInfo]
  /\ eventOrganizer \in [Events -> Accounts \cup {NoAccount}]
  /\ eventEndDate \in [Events -> Nat]
  /\ eventVerifiers \subseteq Events \X Accounts
  /\ organizerRole \subseteq Accounts
  /\ nextTicketId \in Nat \ {0}
  /\ fundSet \in BOOLEAN
  /\ now \in Nat

TokensOf(e, statuses) ==
  {t \in Tokens : EventOf(t) = e /\ tickets[t].status \in statuses}

\* The counters the completion threshold and the statistics are computed from
\* agree with the tickets themselves, whatever became of those later.
CountersExact ==
  \A e \in Events :
    /\ eventTickets[e].totalMinted = Cardinality(TokensOf(e, TicketStatus \ {"None"}))
    /\ eventTickets[e].totalSold = Cardinality(TokensOf(e, TicketStatus \ {"None", "Minted"}))
    /\ eventTickets[e].totalUsed = Cardinality(TokensOf(e, {"Used"}))
=============================================================================
