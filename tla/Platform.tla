------------------------------ MODULE Platform ------------------------------
(***************************************************************************)
(* The three contracts as deployed: Fund, Ticket and Marketplace on one    *)
(* chain, calling each other inside one transaction.  A step is one        *)
(* transaction; it conjoins the halves the contracts play in it, and it is *)
(* no step if any half reverts.                                            *)
(***************************************************************************)
EXTENDS Integers, FiniteSets, Sums

CONSTANTS
  Accounts, Admin, Rejecting, NoAccount, FundContract, MarketplaceContract,
  Wired, MaxEvents, MaxTokens, MaxListings, MaxTime, MaxBalance,
  CreateArgs, Amounts, Gifts, TopUps, PenaltyRates, Quantities, BatchPrices,
  EndDates, RoleTargets, Verifiers, Managers,
  Senders,          \* bound: accounts that move tickets by plain transfer
  AdminQuantities,  \* the quantities the admin mints past Fund
  ListingPrices, RoyaltyRates, InitialRoyalty, FundTargets,
  PLATFORM_FEE_BPS, COMPLETION_BPS, BPS_DENOM, REWARD_SCALE,
  PRICE_CAP_NUMERATOR, PRICE_CAP_DENOMINATOR

VARIABLES
  \* Fund
  ev, shareOf, rewardDebt, pending, nextEventId, ticketSet, marketplaceSet,
  balance, rewardReserve,
  \* Ticket
  tickets, owner, eventTickets, eventOrganizer, eventEndDate, eventVerifiers,
  organizerRole, nextTicketId, fundSet,
  \* Marketplace
  listings, listingCounter, activeListing, royaltyBps, fundContract,
  \* the chain
  now

F == INSTANCE Fund
T == INSTANCE Ticket
M == INSTANCE Marketplace

ASSUME PlatformAssumption ==
  /\ IsFiniteSet(Accounts) /\ Admin \in Accounts /\ Rejecting \subseteq Accounts
  /\ {NoAccount, FundContract, MarketplaceContract} \cap Accounts = {}
  /\ Wired \in BOOLEAN
  /\ Senders \cup RoleTargets \cup Verifiers \cup Managers \subseteq Accounts
  /\ {MaxEvents, MaxTime, MaxBalance} \cup EndDates \subseteq Nat
  /\ AdminQuantities \cup BatchPrices \cup Quantities \cup Amounts \subseteq Nat
  /\ Gifts \cup TopUps \cup PenaltyRates \cup ListingPrices \cup RoyaltyRates \subseteq Nat
  /\ CreateArgs \subseteq F!CreateArgsType
  /\ {MaxTokens, MaxListings, PRICE_CAP_NUMERATOR} \subseteq Nat
  /\ {BPS_DENOM, REWARD_SCALE, PRICE_CAP_DENOMINATOR} \subseteq Nat \ {0}
  /\ {PLATFORM_FEE_BPS, COMPLETION_BPS, InitialRoyalty} \subseteq 0 .. BPS_DENOM
  /\ NoAccount \notin FundTargets \cup {FundContract}

fundVars == <<ev, shareOf, rewardDebt, pending, nextEventId, ticketSet,
              marketplaceSet, balance, rewardReserve>>
ticketVars == <<tickets, owner, eventTickets, eventOrganizer, eventEndDate,
                eventVerifiers, organizerRole, nextTicketId, fundSet>>
marketVars == <<listings, listingCounter, activeListing, royaltyBps, fundContract>>
vars == <<fundVars, ticketVars, marketVars, now>>

Events == 1 .. MaxEvents
Tokens == 1 .. MaxTokens
Listings == 1 .. MaxListings

Init == F!Init /\ T!Init /\ M!Init

-----------------------------------------------------------------------------
(* Transactions of one contract alone.                                     *)

FundAlone(A) == A /\ UNCHANGED <<ticketVars, marketVars>>
TicketAlone(A) == A /\ UNCHANGED <<fundVars, marketVars, now>>

FundStep ==
  \/ F!SetTicketContract
  \/ F!SetMarketplaceContract
  \/ F!Tick
  \/ \E v \in Gifts : F!ReceiveEther(v)
  \/ \E c \in Accounts, a \in CreateArgs, v \in Amounts : F!CreateEvent(c, a, v)
  \/ \E e \in Events, p \in PenaltyRates : F!ApplyPenalty(e, p)
  \/ \E c \in Accounts, e \in Events :
       \/ \E v \in Amounts : F!Contribute(c, e, v)
       \/ \E v \in TopUps : F!DepositRefundPool(c, e, v)
       \/ F!FinalizeFunding(c, e)
       \/ \E reason \in F!Reasons : F!CancelEvent(c, e, reason)
       \/ F!ReleaseRevenue(c, e)
       \/ F!ClaimReward(c, e)
       \/ F!RefundTickets(c, e)
       \/ F!ClaimContributionRefund(e, c)
       \/ F!WithdrawStake(c, e)

TicketStep ==
  \/ T!AdminStep
  \/ T!UseStep
  \/ \E from \in Senders, to \in Accounts, t \in Tokens : from # to /\ T!TransferFrom(from, to, t)

\* A holder may send a ticket straight to the marketplace without listing it;
\* the contract has no way to send it back.
StrayTransfer ==
  \E c \in Senders, t \in Tokens : T!TransferFrom(c, MarketplaceContract, t)

AdminMint ==
  \E to \in Accounts, e \in Events, p \in Amounts, q \in AdminQuantities :
    T!MintBatch(Admin, to, e, p, q)

-----------------------------------------------------------------------------
(* Transactions across contracts.                                          *)

StartTicketing(c, e, quantity, batchPrice) ==
  /\ F!StartTicketing(c, e, quantity)
  /\ T!MintBatch(FundContract, ev[e].organizer, e,
                 F!EffectivePrice(e, batchPrice), quantity)
  /\ UNCHANGED marketVars

SetCompletedIfThresholdMet(c, e) ==
  /\ F!SetCompletedIfThresholdMet(c, e, eventTickets[e].totalSold, eventTickets[e].totalUsed)
  /\ UNCHANGED <<ticketVars, marketVars>>

PurchaseTicket(c, t) ==
  LET e == tickets[t].eventId IN
  /\ e \in Events
  /\ T!PurchaseTicket(c, t, ev[e].status)
  /\ F!DepositTicketRevenue(e, tickets[t].price)
  /\ UNCHANGED marketVars

\* Fund pays the current owner; a marketplace holding a listed ticket takes no
\* ether, so the refund of a listed ticket reverts.
ClaimTicketRefund(t) ==
  /\ owner[t] \in Accounts
  /\ T!ClaimRefund(t)
  /\ F!ClaimTicketRefund(tickets[t].eventId, tickets[t].price, owner[t])
  /\ UNCHANGED marketVars

CreateListing(c, t, price) ==
  /\ M!CreateListing(c, t, price, owner[t], T!IsTransferable(t), tickets[t].price)
  /\ T!TransferFrom(c, MarketplaceContract, t)
  /\ UNCHANGED <<fundVars, now>>

\* The royalty goes to whatever Fund the marketplace is pointed at; a target
\* other than Fund is no contract, and the sale reverts.
BuyListing(c, l) ==
  LET t == listings[l].tokenId IN
  /\ M!BuyListing(c, l)
  /\ T!TransferFrom(MarketplaceContract, c, t)
  /\ IF M!Royalty(l) > 0
       THEN /\ fundContract = FundContract
            /\ F!DepositRoyalty(tickets[t].eventId, M!Royalty(l))
       ELSE UNCHANGED <<fundVars, now>>

ReturnTicket(l) ==
  /\ T!TransferFrom(MarketplaceContract, listings[l].seller, listings[l].tokenId)
  /\ UNCHANGED <<fundVars, now>>

CancelListing(c, l) == M!CancelListing(c, l) /\ ReturnTicket(l)

ForceCancelListing(l) == M!ForceCancelListing(l) /\ ReturnTicket(l)

-----------------------------------------------------------------------------
TicketSaleStep ==
  \/ \E c \in Accounts, e \in Events, q \in Quantities, p \in BatchPrices :
       StartTicketing(c, e, q, p)
  \/ \E c \in Accounts, e \in Events : SetCompletedIfThresholdMet(c, e)
  \/ \E c \in Accounts, t \in Tokens : PurchaseTicket(c, t)
  \/ \E t \in Tokens : ClaimTicketRefund(t)

MarketStep ==
  \/ \E c \in Accounts, t \in Tokens, p \in ListingPrices : CreateListing(c, t, p)
  \/ \E c \in Accounts, l \in Listings : BuyListing(c, l) \/ CancelListing(c, l)
  \/ \E l \in Listings : ForceCancelListing(l)
  \/ \E b \in RoyaltyRates : M!SetRoyaltyBps(b) /\ UNCHANGED <<fundVars, ticketVars, now>>
  \/ \E f \in FundTargets : M!SetFundContract(f) /\ UNCHANGED <<fundVars, ticketVars, now>>

Next ==
  \/ FundAlone(FundStep)
  \/ TicketAlone(TicketStep)
  \/ TicketAlone(StrayTransfer)
  \/ TicketAlone(AdminMint)
  \/ TicketSaleStep
  \/ MarketStep

Spec == Init /\ [][Next]_vars

-----------------------------------------------------------------------------
(* Properties.                                                             *)

TypeOK == F!TypeOK /\ T!TypeOK /\ M!TypeOK

SoldTokens(e) == T!TokensOf(e, {"Sold"})

PriceOf(t) == tickets[t].price

\* Until the revenue of an event is released its escrow and refund pool hold
\* the price of every ticket that may still be refunded, however many batches,
\* prices, resales, penalties and refunds came before.
RefundsCovered ==
  \A e \in Events : ~ev[e].revenueReleased =>
    ev[e].escrowedRevenue + ev[e].refundPool
      >= SumOver([t \in SoldTokens(e) |-> PriceOf(t)], SoldTokens(e))

\* When an event is cancelled the refund pool alone pays every ticket still
\* Sold, in whatever order the holders come, and refunds are open to them.
CancelledRefundable ==
  \A e \in Events : ev[e].status = "Cancelled" /\ SoldTokens(e) # {} =>
    /\ ev[e].refundsEnabled
    /\ ev[e].refundPool >= SumOver([t \in SoldTokens(e) |-> PriceOf(t)], SoldTokens(e))

\* A ticket with an active listing is in the marketplace's hands and can be
\* listed only once; the listing's seller cannot have moved it away.
ListedInCustody ==
  /\ M!IndexExact
  /\ \A l \in Listings : M!Active(l) => owner[listings[l].tokenId] = MarketplaceContract

\* A ticket leaves the refundable state with money only once and its owner gets
\* exactly its price: whenever the refund pool shrinks, one Sold ticket of the
\* event becomes Refunded and the balance falls by its price.
RefundPaysOneTicket ==
  [][\A e \in Events : ev'[e].refundPool < ev[e].refundPool =>
       \E t \in SoldTokens(e) :
         /\ tickets'[t].status = "Refunded"
         /\ ev'[e].refundPool = ev[e].refundPool - PriceOf(t)
         /\ balance' = balance - PriceOf(t)]_vars

\* The counters the completion threshold and the statistics are computed from
\* agree with the tickets themselves, whatever the three contracts did to them.
CountersExact == T!CountersExact

\* A ticket that was used, expired or refunded is out of circulation for good:
\* it never changes its status, its price or its owner again, not even when the
\* end date of its event is moved.
FinalTicketsFrozen ==
  [][\A t \in Tokens :
       tickets[t].status \in {"Used", "Expired", "Refunded"} =>
         tickets'[t] = tickets[t] /\ owner'[t] = owner[t]]_vars
=============================================================================
