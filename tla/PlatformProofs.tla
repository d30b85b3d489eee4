---------------------------- MODULE PlatformProofs ----------------------------
(***************************************************************************)
(* What the three contracts keep together, for every number of accounts,   *)
(* events, tickets and listings and for all prices, quantities and rates.  *)
(*                                                                         *)
(* Fund's own theorems carry over: Platform implements Fund in its open    *)
(* environment, where Ticket and Marketplace may pass any natural number   *)
(* (OpenFund).  What is proved here anew is what relates two contracts:    *)
(* tickets and their counters, listings and custody, and at the end the    *)
(* money Fund keeps for the tickets that can still be refunded.            *)
(***************************************************************************)
EXTENDS Platform, FiniteSetTheorems, FunctionTheorems, WellFoundedInduction, TLAPS

OpenFund == INSTANCE FundProofs WITH Amounts <- Nat, Quantities <- Nat

\* Ids not yet handed out have the zero record.
TicketsNumbered == \A t \in Tokens : nextTicketId <= t => tickets[t].status = "None"

ListingsNumbered == \A l \in Listings : listingCounter < l => ~ M!Active(l)

\* A minted ticket belongs to an event and has a price.
TicketKnown(t) == T!Exists(t) => tickets[t].eventId \in Events /\ tickets[t].price > 0

\* A listed token was minted and is a ticket the index names.
ListedKnown(l) == M!Active(l) =>
  listings[l].tokenId \in Tokens /\ T!Exists(listings[l].tokenId)

TicketInv == TicketsNumbered /\ \A t \in Tokens : TicketKnown(t)

MarketInv ==
  /\ ListingsNumbered
  /\ \A l \in Listings : ListedKnown(l)
  /\ ListedInCustody

PlatformInv == TypeOK /\ TicketInv /\ MarketInv

-----------------------------------------------------------------------------
(* The instances name the same sets.                                       *)

LEMMA Names ==
  /\ F!Events = Events /\ T!Events = Events /\ OpenFund!Events = Events
  /\ T!Tokens = Tokens /\ M!Tokens = Tokens /\ M!Listings = Listings
  /\ Events \subseteq Nat \ {0} /\ Tokens \subseteq Nat \ {0} /\ Listings \subseteq Nat \ {0}
  /\ MaxEvents \in Nat /\ MaxTokens \in Nat /\ MaxListings \in Nat
BY PlatformAssumption
   DEF PlatformAssumption, Events, Tokens, Listings, F!Events, T!Events, OpenFund!Events,
       T!Tokens, M!Tokens, M!Listings

LEMMA SameFinite == \A S : OpenFund!IsFiniteSet(S) <=> IsFiniteSet(S)
BY DEF OpenFund!IsFiniteSet, IsFiniteSet

\* So Fund's theorems hold of OpenFund.
LEMMA OpenAssumption == OpenFund!FundAssumption
BY PlatformAssumption, SameFinite
   DEF PlatformAssumption, OpenFund!FundAssumption, OpenFund!CreateArgsType, F!CreateArgsType

-----------------------------------------------------------------------------
(* The laws of totals and of division are FundProofs'.                     *)

LEMMA SameTotal == \A f, S : OpenFund!SumOver(f, S) = SumOver(f, S)
BY DEF OpenFund!SumOver, SumOver, OpenFund!Units, Units, OpenFund!Cardinality, Cardinality,
       OpenFund!IsFiniteSet, IsFiniteSet

LEMMA QuotientBound ==
  ASSUME NEW x \in Nat, NEW d \in Nat \ {0}
  PROVE  x \div d \in Nat /\ d * (x \div d) <= x
OBVIOUS

LEMMA UnitsFinite ==
  ASSUME NEW S, IsFiniteSet(S), NEW f, \A s \in S : f[s] \in Nat
  PROVE  SumOver(f, S) \in Nat
BY OpenAssumption, SameFinite, OpenFund!UnitsFinite, SameTotal

LEMMA SumSplit ==
  ASSUME NEW S, IsFiniteSet(S), NEW f, \A s \in S : f[s] \in Nat, NEW x \in S
  PROVE  SumOver(f, S) = SumOver(f, S \ {x}) + f[x]
BY OpenAssumption, SameFinite, OpenFund!SumSplit, SameTotal

LEMMA SumSame ==
  ASSUME NEW S, NEW f, NEW g, \A s \in S : g[s] = f[s]
  PROVE  SumOver(g, S) = SumOver(f, S)
BY OpenAssumption, OpenFund!SumSame, SameTotal

LEMMA SumBound ==
  ASSUME NEW S, IsFiniteSet(S), NEW f \in [S -> Nat], NEW x \in S
  PROVE  f[x] <= SumOver(f, S)
BY OpenAssumption, SameFinite, OpenFund!SumBound, SameTotal

LEMMA SumZero ==
  ASSUME NEW S, NEW f, \A s \in S : f[s] = 0
  PROVE  SumOver(f, S) = 0
BY OpenAssumption, OpenFund!SumZero, SameTotal

LEMMA SumMonotone ==
  ASSUME NEW S, NEW R \in SUBSET S, IsFiniteSet(S), NEW f, NEW g,
         \A s \in S : f[s] \in Nat, \A s \in R : g[s] \in Nat /\ g[s] <= f[s]
  PROVE  SumOver(g, R) <= SumOver(f, S)
BY OpenAssumption, SameFinite, OpenFund!SumMonotone, SameTotal

LEMMA SumGrown ==
  ASSUME NEW S, IsFiniteSet(S), NEW x, x \notin S, NEW f, NEW g, \A s \in S : f[s] \in Nat,
         \A s \in S : g[s] = f[s], g[x] \in Nat
  PROVE  SumOver(g, S \cup {x}) = SumOver(f, S) + g[x]
BY OpenAssumption, SameFinite, OpenFund!SumGrown, SameTotal

-----------------------------------------------------------------------------
(* Fund in its open environment.                                           *)

LEMMA OpenTypes == OpenFund!TypeOK <=> F!TypeOK
BY Names
   DEF OpenFund!TypeOK, F!TypeOK, OpenFund!EventConfig, F!EventConfig,
       OpenFund!EventStatus, F!EventStatus

-----------------------------------------------------------------------------
(* Tickets.                                                                *)

\* What every transaction leaves of a minted ticket.
TicketFrame == \A t \in Tokens : T!Exists(t) =>
  /\ tickets'[t].eventId = tickets[t].eventId
  /\ tickets'[t].price = tickets[t].price
  /\ tickets'[t].status # "None"

CustodyFrame == \A t \in Tokens :
  T!Exists(t) /\ owner[t] = MarketplaceContract => owner'[t] = MarketplaceContract

TicketTypes ==
  /\ tickets \in [Tokens -> T!TicketInfo]
  /\ owner \in [Tokens -> T!Holders \cup {NoAccount}]
  /\ eventTickets \in [Events -> T!EventTicketInfo]
  /\ eventOrganizer \in [Events -> Accounts \cup {NoAccount}]
  /\ eventEndDate \in [Events -> Nat]
  /\ eventVerifiers \subseteq Events \X Accounts
  /\ organizerRole \subseteq Accounts
  /\ nextTicketId \in Nat \ {0}
  /\ fundSet \in BOOLEAN

\* All of it, about the tickets.
TicketsKept == TicketTypes' /\ TicketInv' /\ TicketFrame

\* Updates of several counters are taken apart into these.
LEMMA CounterUpdate ==
  ASSUME NEW r \in T!EventTicketInfo
  PROVE  /\ \A n \in Nat : [r EXCEPT !.totalMinted = n] \in T!EventTicketInfo
         /\ \A n \in Nat : [r EXCEPT !.totalSold = n] \in T!EventTicketInfo
         /\ \A n \in Nat : [r EXCEPT !.totalRevenue = n] \in T!EventTicketInfo
         /\ \A b \in BOOLEAN : [r EXCEPT !.salesActive = b] \in T!EventTicketInfo
         /\ r.totalMinted \in Nat /\ r.totalSold \in Nat /\ r.totalRevenue \in Nat
BY DEF T!EventTicketInfo

LEMMA AdminKept ==
  ASSUME TicketTypes, TicketInv, T!AdminStep
  PROVE  TicketsKept /\ CustodyFrame
<1> USE Names
<1>1. tickets' = tickets /\ owner' = owner /\ nextTicketId' = nextTicketId
  BY DEF T!AdminStep, T!SetFundContract, T!SetEventEndDate, T!SetSalesActive,
         T!AddEventVerifier, T!RemoveEventVerifier, T!EditOrganizerRole, T!adminVars
<1>2. TicketTypes'
  <2>1. CASE T!SetFundContract
    BY <2>1 DEF T!SetFundContract, TicketTypes
  <2>2. CASE \E u \in RoleTargets : T!EditOrganizerRole(u)
    BY <2>2, PlatformAssumption DEF PlatformAssumption, T!EditOrganizerRole, TicketTypes
  <2>3. ASSUME NEW c \in Managers, NEW e \in Events, NEW d \in EndDates, T!SetEventEndDate(c, e, d)
        PROVE  TicketTypes'
    BY <2>3, PlatformAssumption DEF PlatformAssumption, T!SetEventEndDate, TicketTypes
  <2>4. ASSUME NEW c \in Managers, NEW e \in Events, NEW b \in BOOLEAN, T!SetSalesActive(c, e, b)
        PROVE  TicketTypes'
    BY <2>4 DEF T!SetSalesActive, TicketTypes, T!adminVars, T!EventTicketInfo
  <2>5. ASSUME NEW c \in Managers, NEW e \in Events, NEW v \in Verifiers,
               T!AddEventVerifier(c, e, v) \/ T!RemoveEventVerifier(c, e, v)
        PROVE  TicketTypes'
    BY <2>5, PlatformAssumption
       DEF PlatformAssumption, T!AddEventVerifier, T!RemoveEventVerifier, TicketTypes
  <2> QED
    BY <2>1, <2>2, <2>3, <2>4, <2>5 DEF T!AdminStep
<1> QED
  BY <1>1, <1>2 DEF TicketsKept, TicketInv, TicketsNumbered, TicketKnown, TicketFrame,
                    CustodyFrame, T!Exists

LEMMA MintKept ==
  ASSUME TicketTypes, TicketInv, NEW caller, NEW to, NEW e \in Events, NEW p \in Nat,
         NEW q \in Nat, T!MintBatch(caller, to, e, p, q)
  PROVE  TicketsKept /\ CustodyFrame
<1> USE Names
<1> DEFINE minted == nextTicketId .. nextTicketId + q - 1
<1>1. /\ to \in Accounts /\ p > 0 /\ q > 0 /\ minted \subseteq Tokens
      /\ tickets' = [t \in Tokens |->
           IF t \in minted THEN [eventId |-> e, price |-> p, status |-> "Minted"] ELSE tickets[t]]
      /\ owner' = [t \in Tokens |-> IF t \in minted THEN to ELSE owner[t]]
      /\ nextTicketId' = nextTicketId + q
  BY DEF T!MintBatch, T!MayMintBatch
<1>2. [eventId |-> e, price |-> p, status |-> "Minted"] \in T!TicketInfo
  BY DEF T!TicketInfo, T!TicketStatus
<1>3. TicketTypes'
  <2>1. tickets' \in [Tokens -> T!TicketInfo]
    BY <1>1, <1>2 DEF TicketTypes
  <2>2. owner' \in [Tokens -> T!Holders \cup {NoAccount}]
    BY <1>1 DEF TicketTypes, T!Holders
  <2>3. eventTickets' \in [Events -> T!EventTicketInfo]
    <3> DEFINE r == eventTickets[e]
               r1 == [r EXCEPT !.totalMinted = r.totalMinted + q]
               r2 == [r1 EXCEPT !.salesActive = TRUE]
    <3>1. r \in T!EventTicketInfo
      BY DEF TicketTypes
    <3>2. r1 \in T!EventTicketInfo
      BY <3>1, CounterUpdate
    <3>3. r2 \in T!EventTicketInfo
      <4> HIDE DEF r1
      <4> QED
        BY <3>2, CounterUpdate
    <3>4. eventTickets' = [eventTickets EXCEPT ![e] = r2]
      BY DEF T!MintBatch, TicketTypes
    <3> QED
      BY <3>3, <3>4 DEF TicketTypes
  <2>4. eventOrganizer' \in [Events -> Accounts \cup {NoAccount}] /\ organizerRole' \subseteq Accounts
    BY <1>1 DEF T!MintBatch, TicketTypes
  <2>5. nextTicketId' \in Nat \ {0}
    BY <1>1 DEF TicketTypes
  <2> QED
    BY <2>1, <2>2, <2>3, <2>4, <2>5 DEF T!MintBatch, TicketTypes
<1>4. nextTicketId \in Nat \ {0}
  BY DEF TicketTypes
<1>5. \A t \in Tokens : T!Exists(t) => t \notin minted
  BY <1>4 DEF TicketInv, TicketsNumbered, T!Exists
<1>6. TicketsNumbered'
  BY <1>1, <1>4 DEF TicketInv, TicketsNumbered
<1>7. \A t \in Tokens : TicketKnown(t)'
  BY <1>1 DEF TicketInv, TicketKnown, T!Exists
<1>8. TicketFrame /\ CustodyFrame
  BY <1>1, <1>5 DEF TicketFrame, CustodyFrame, T!Exists
<1> QED
  BY <1>3, <1>6, <1>7, <1>8 DEF TicketsKept, TicketInv

\* A ticket that moves on to another status, the owner and the counters apart.
LEMMA StatusKept ==
  ASSUME TicketTypes, TicketInv, NEW t \in Tokens, NEW s \in T!TicketStatus \ {"None"},
         T!Exists(t), T!SetStatus(t, s), nextTicketId' = nextTicketId
  PROVE  /\ tickets' \in [Tokens -> T!TicketInfo]
         /\ TicketInv' /\ TicketFrame
<1> USE Names
<1>1. tickets' = [tickets EXCEPT ![t].status = s]
  BY DEF T!SetStatus
<1>2. tickets' \in [Tokens -> T!TicketInfo]
  BY <1>1 DEF TicketTypes, T!TicketInfo
<1>3. \A u \in Tokens : /\ tickets'[u].eventId = tickets[u].eventId
                        /\ tickets'[u].price = tickets[u].price
                        /\ tickets'[u].status = IF u = t THEN s ELSE tickets[u].status
  BY <1>1 DEF TicketTypes, T!TicketInfo
<1> QED
  BY <1>2, <1>3 DEF TicketInv, TicketsNumbered, TicketKnown, TicketFrame, T!Exists

LEMMA UseKept ==
  ASSUME TicketTypes, TicketInv, T!UseStep
  PROVE  TicketsKept /\ CustodyFrame
<1> USE Names
<1>1. PICK c \in Accounts, t \in Tokens :
        T!MarkAsUsed(c, t) \/ T!MarkAsExpired(c, t) \/ T!MarkAsRefunded(c, t)
  BY DEF T!UseStep
<1>2. tickets[t].status = "Sold" /\ owner' = owner /\ nextTicketId' = nextTicketId
  BY <1>1 DEF T!MarkAsUsed, T!MarkAsExpired, T!MarkAsRefunded, T!Usable, T!EffectiveStatus
<1>3. tickets[t].eventId \in Events
  BY <1>2 DEF TicketInv, TicketKnown, T!Exists
<1>4. PICK s \in {"Used", "Expired", "Refunded"} : T!SetStatus(t, s)
  BY <1>1 DEF T!MarkAsUsed, T!MarkAsExpired, T!MarkAsRefunded
<1>5. tickets' \in [Tokens -> T!TicketInfo] /\ TicketInv' /\ TicketFrame
  BY <1>2, <1>4, StatusKept DEF T!Exists, T!TicketStatus
<1>6. eventTickets' \in [Events -> T!EventTicketInfo]
  BY <1>1, <1>3
     DEF T!MarkAsUsed, T!MarkAsExpired, T!MarkAsRefunded, T!EventOf, TicketTypes, T!EventTicketInfo
<1>7. TicketTypes'
  BY <1>1, <1>5, <1>6 DEF T!MarkAsUsed, T!MarkAsExpired, T!MarkAsRefunded, TicketTypes, T!adminVars
<1> QED
  BY <1>2, <1>5, <1>7 DEF TicketsKept, CustodyFrame

LEMMA PurchaseKept ==
  ASSUME TicketTypes, TicketInv, NEW c \in Accounts, NEW t \in Tokens, NEW s,
         T!PurchaseTicket(c, t, s)
  PROVE  TicketsKept /\ CustodyFrame
<1> USE Names
<1>1. /\ tickets[t].status = "Minted" /\ T!SetStatus(t, "Sold") /\ owner[t] \in organizerRole
      /\ owner' = [owner EXCEPT ![t] = c] /\ nextTicketId' = nextTicketId
  BY DEF T!PurchaseTicket, T!MayPurchase, T!SetStatus
<1>2. tickets[t].eventId \in Events /\ tickets[t].price \in Nat
  BY <1>1 DEF TicketInv, TicketKnown, T!Exists, TicketTypes, T!TicketInfo
<1>3. tickets' \in [Tokens -> T!TicketInfo] /\ TicketInv' /\ TicketFrame
  BY <1>1, StatusKept DEF T!Exists, T!TicketStatus
<1>4. eventTickets' \in [Events -> T!EventTicketInfo]
  <2> DEFINE e == tickets[t].eventId
             r == eventTickets[e]
             r1 == [r EXCEPT !.totalSold = r.totalSold + 1]
             r2 == [r1 EXCEPT !.totalRevenue = r.totalRevenue + tickets[t].price]
  <2>1. r \in T!EventTicketInfo
    BY <1>2 DEF TicketTypes
  <2>2. r1 \in T!EventTicketInfo
    BY <2>1, CounterUpdate
  <2>3. r2 \in T!EventTicketInfo
    <3> HIDE DEF r1
    <3>1. r.totalRevenue + tickets[t].price \in Nat
      BY <1>2, <2>1, CounterUpdate
    <3> QED
      BY <2>2, <3>1, CounterUpdate
  <2>4. eventTickets' = [eventTickets EXCEPT ![e] = r2]
    BY <1>2 DEF T!PurchaseTicket, T!EventOf, TicketTypes
  <2> QED
    BY <1>2, <2>3, <2>4 DEF TicketTypes
<1>5. owner' \in [Tokens -> T!Holders \cup {NoAccount}]
  BY <1>1 DEF TicketTypes, T!Holders
<1>6. TicketTypes'
  BY <1>3, <1>4, <1>5 DEF T!PurchaseTicket, TicketTypes, T!adminVars
<1>7. owner[t] # MarketplaceContract
  BY <1>1, PlatformAssumption DEF PlatformAssumption, TicketTypes
<1> QED
  BY <1>1, <1>3, <1>6, <1>7 DEF TicketsKept, CustodyFrame, TicketTypes

LEMMA TransferKept ==
  ASSUME TicketTypes, TicketInv, NEW from, NEW to \in T!Holders \cup {NoAccount},
         NEW t \in Tokens, T!TransferFrom(from, to, t)
  PROVE  /\ TicketsKept /\ T!Exists(t) /\ owner' = [owner EXCEPT ![t] = to]
         /\ from # MarketplaceContract => CustodyFrame
<1> USE Names
<1>1. /\ tickets' = tickets /\ nextTicketId' = nextTicketId /\ T!Exists(t)
      /\ owner[t] = from /\ owner' = [owner EXCEPT ![t] = to]
  BY DEF T!TransferFrom
<1>2. TicketTypes'
  BY <1>1 DEF T!TransferFrom, TicketTypes, T!adminVars
<1> QED
  BY <1>1, <1>2 DEF TicketsKept, TicketInv, TicketsNumbered, TicketKnown, TicketFrame,
                    CustodyFrame, T!Exists, TicketTypes

LEMMA RefundKept ==
  ASSUME TicketTypes, TicketInv, NEW t \in Tokens, T!ClaimRefund(t)
  PROVE  TicketsKept /\ CustodyFrame
<1> USE Names
<1>1. /\ tickets[t].status = "Sold" /\ T!SetStatus(t, "Refunded")
      /\ owner' = owner /\ nextTicketId' = nextTicketId
  BY DEF T!ClaimRefund, T!Refundable
<1>2. tickets' \in [Tokens -> T!TicketInfo] /\ TicketInv' /\ TicketFrame
  BY <1>1, StatusKept DEF T!Exists, T!TicketStatus
<1>3. TicketTypes'
  BY <1>2 DEF T!ClaimRefund, TicketTypes, T!adminVars
<1> QED
  BY <1>1, <1>2, <1>3 DEF TicketsKept, CustodyFrame

LEMMA SameTickets ==
  ASSUME TicketTypes, TicketInv, UNCHANGED ticketVars
  PROVE  TicketsKept /\ CustodyFrame
BY DEF ticketVars, TicketsKept, TicketTypes, TicketInv, TicketsNumbered, TicketKnown,
       TicketFrame, CustodyFrame, T!Exists

-----------------------------------------------------------------------------
(* Every transaction is, for Fund, a step of its open environment.         *)

LEMMA SameWiring ==
  /\ F!SetTicketContract => OpenFund!SetTicketContract
  /\ F!SetMarketplaceContract => OpenFund!SetMarketplaceContract
  /\ F!Tick => OpenFund!Tick
  /\ \A v : F!ReceiveEther(v) => OpenFund!ReceiveEther(v)
BY DEF F!SetTicketContract, F!SetMarketplaceContract, F!Tick, F!ReceiveEther, F!Receive,
       F!userVars, F!wiringVars,
       OpenFund!SetTicketContract, OpenFund!SetMarketplaceContract, OpenFund!Tick,
       OpenFund!ReceiveEther, OpenFund!Receive, OpenFund!userVars, OpenFund!wiringVars

LEMMA SameFunding ==
  ASSUME NEW c, NEW e, NEW v, NEW a
  PROVE  /\ F!CreateEvent(c, a, v) => OpenFund!CreateEvent(c, a, v)
         /\ F!Contribute(c, e, v) => OpenFund!Contribute(c, e, v)
         /\ F!FinalizeFunding(c, e) => OpenFund!FinalizeFunding(c, e)
         /\ F!CancelEvent(c, e, a) => OpenFund!CancelEvent(c, e, a)
         /\ F!Reasons = OpenFund!Reasons
<1>1. F!CreateEvent(c, a, v) => OpenFund!CreateEvent(c, a, v)
  BY Zenon
     DEF F!CreateEvent, F!ValidArgs, F!Receive, F!CreatedEvent, F!NoEvent, F!userVars, F!wiringVars,
         OpenFund!CreateEvent, OpenFund!ValidArgs, OpenFund!Receive, OpenFund!CreatedEvent,
         OpenFund!NoEvent, OpenFund!userVars, OpenFund!wiringVars
<1>2. F!Contribute(c, e, v) => OpenFund!Contribute(c, e, v)
  BY Zenon
     DEF F!Contribute, F!FundingOpen, F!Receive, F!PendingReward, F!Accumulated, F!Contributed,
         F!wiringVars,
         OpenFund!Contribute, OpenFund!FundingOpen, OpenFund!Receive, OpenFund!PendingReward,
         OpenFund!Accumulated, OpenFund!Contributed, OpenFund!wiringVars
<1>3. F!FinalizeFunding(c, e) => OpenFund!FinalizeFunding(c, e)
  BY Zenon
     DEF F!FinalizeFunding, F!OrganizerOrAdmin, F!Exists, F!Finalized, F!Cancelled, F!userVars,
         F!wiringVars,
         OpenFund!FinalizeFunding, OpenFund!OrganizerOrAdmin, OpenFund!Exists, OpenFund!Finalized,
         OpenFund!Cancelled, OpenFund!userVars, OpenFund!wiringVars
<1>4. F!CancelEvent(c, e, a) => OpenFund!CancelEvent(c, e, a)
  BY Zenon
     DEF F!CancelEvent, F!OrganizerOrAdmin, F!Exists, F!CancelAllowed, F!Cancelled, F!userVars,
         F!wiringVars,
         OpenFund!CancelEvent, OpenFund!OrganizerOrAdmin, OpenFund!Exists, OpenFund!CancelAllowed,
         OpenFund!Cancelled, OpenFund!userVars, OpenFund!wiringVars
<1> QED
  BY <1>1, <1>2, <1>3, <1>4 DEF F!Reasons, OpenFund!Reasons

LEMMA SameTicketing ==
  ASSUME NEW c, NEW e, NEW v, NEW w
  PROVE  /\ F!StartTicketing(c, e, v) => OpenFund!StartTicketing(c, e, v)
         /\ F!SetCompletedIfThresholdMet(c, e, v, w)
              => OpenFund!SetCompletedIfThresholdMet(c, e, v, w)
         /\ F!ReleaseRevenue(c, e) => OpenFund!ReleaseRevenue(c, e)
         /\ F!ClaimReward(c, e) => OpenFund!ClaimReward(c, e)
         /\ F!RefundTickets(c, e) => OpenFund!RefundTickets(c, e)
<1>1. F!StartTicketing(c, e, v) => OpenFund!StartTicketing(c, e, v)
  BY Zenon
     DEF F!StartTicketing, F!OrganizerOrAdmin, F!Exists, F!MayMint, F!userVars, F!wiringVars,
         OpenFund!StartTicketing, OpenFund!OrganizerOrAdmin, OpenFund!Exists, OpenFund!MayMint,
         OpenFund!userVars, OpenFund!wiringVars
<1>2. F!SetCompletedIfThresholdMet(c, e, v, w) => OpenFund!SetCompletedIfThresholdMet(c, e, v, w)
  BY Zenon
     DEF F!SetCompletedIfThresholdMet, F!OrganizerOrAdmin, F!Exists, F!ThresholdMet, F!userVars,
         F!wiringVars,
         OpenFund!SetCompletedIfThresholdMet, OpenFund!OrganizerOrAdmin, OpenFund!Exists,
         OpenFund!ThresholdMet, OpenFund!userVars, OpenFund!wiringVars
<1>3. F!ReleaseRevenue(c, e) => OpenFund!ReleaseRevenue(c, e)
  BY Zenon
     DEF F!ReleaseRevenue, F!OrganizerOrAdmin, F!Exists, F!MayRelease, F!CanPay, F!PlatformFee,
         F!OrganizerShare, F!DonatorPool, F!RewardPerShare, F!userVars, F!wiringVars,
         OpenFund!ReleaseRevenue, OpenFund!OrganizerOrAdmin, OpenFund!Exists, OpenFund!MayRelease,
         OpenFund!CanPay, OpenFund!PlatformFee, OpenFund!OrganizerShare, OpenFund!DonatorPool,
         OpenFund!RewardPerShare, OpenFund!userVars, OpenFund!wiringVars
<1>4. F!ClaimReward(c, e) => OpenFund!ClaimReward(c, e)
  BY Zenon
     DEF F!ClaimReward, F!Exists, F!Pay, F!CanPay, F!PendingReward, F!Accumulated, F!wiringVars,
         OpenFund!ClaimReward, OpenFund!Exists, OpenFund!Pay, OpenFund!CanPay,
         OpenFund!PendingReward, OpenFund!Accumulated, OpenFund!wiringVars
<1>5. F!RefundTickets(c, e) => OpenFund!RefundTickets(c, e)
  BY Zenon
     DEF F!RefundTickets, F!OrganizerOrAdmin, F!Exists, F!MayRefundTickets, F!userVars, F!wiringVars,
         OpenFund!RefundTickets, OpenFund!OrganizerOrAdmin, OpenFund!Exists,
         OpenFund!MayRefundTickets, OpenFund!userVars, OpenFund!wiringVars
<1> QED
  BY <1>1, <1>2, <1>3, <1>4, <1>5

LEMMA SameMoney ==
  ASSUME NEW c, NEW e, NEW v
  PROVE  /\ F!ClaimContributionRefund(e, c) => OpenFund!ClaimContributionRefund(e, c)
         /\ F!WithdrawStake(c, e) => OpenFund!WithdrawStake(c, e)
         /\ F!ClaimTicketRefund(e, v, c) => OpenFund!ClaimTicketRefund(e, v, c)
         /\ F!ApplyPenalty(e, v) => OpenFund!ApplyPenalty(e, v)
         /\ F!DepositTicketRevenue(e, v) => OpenFund!DepositTicketRevenue(e, v)
         /\ F!DepositRoyalty(e, v) => OpenFund!DepositRoyalty(e, v)
         /\ F!DepositRefundPool(c, e, v) => OpenFund!DepositRefundPool(c, e, v)
<1>1. F!ClaimContributionRefund(e, c) => OpenFund!ClaimContributionRefund(e, c)
  BY Zenon
     DEF F!ClaimContributionRefund, F!Pay, F!CanPay, F!wiringVars,
         OpenFund!ClaimContributionRefund, OpenFund!Pay, OpenFund!CanPay, OpenFund!wiringVars
<1>2. F!WithdrawStake(c, e) => OpenFund!WithdrawStake(c, e)
  BY Zenon
     DEF F!WithdrawStake, F!OrganizerOrAdmin, F!Exists, F!MayWithdrawStake, F!Pay, F!CanPay,
         F!userVars, F!wiringVars,
         OpenFund!WithdrawStake, OpenFund!OrganizerOrAdmin, OpenFund!Exists,
         OpenFund!MayWithdrawStake, OpenFund!Pay, OpenFund!CanPay, OpenFund!userVars,
         OpenFund!wiringVars
<1>3. F!ClaimTicketRefund(e, v, c) => OpenFund!ClaimTicketRefund(e, v, c)
  BY Zenon
     DEF F!ClaimTicketRefund, F!Exists, F!Pay, F!CanPay, F!userVars, F!wiringVars,
         OpenFund!ClaimTicketRefund, OpenFund!Exists, OpenFund!Pay, OpenFund!CanPay,
         OpenFund!userVars, OpenFund!wiringVars
<1>4. F!ApplyPenalty(e, v) => OpenFund!ApplyPenalty(e, v)
  BY Zenon
     DEF F!ApplyPenalty, F!Exists, F!PenaltyRateValid, F!userVars, F!wiringVars,
         OpenFund!ApplyPenalty, OpenFund!Exists, OpenFund!PenaltyRateValid, OpenFund!userVars,
         OpenFund!wiringVars
<1>5. /\ F!DepositTicketRevenue(e, v) => OpenFund!DepositTicketRevenue(e, v)
      /\ F!DepositRoyalty(e, v) => OpenFund!DepositRoyalty(e, v)
  BY Zenon
     DEF F!DepositTicketRevenue, F!DepositRoyalty, F!Exists, F!Receive, F!userVars, F!wiringVars,
         OpenFund!DepositTicketRevenue, OpenFund!DepositRoyalty, OpenFund!Exists,
         OpenFund!Receive, OpenFund!userVars, OpenFund!wiringVars
<1>6. F!DepositRefundPool(c, e, v) => OpenFund!DepositRefundPool(c, e, v)
  BY Zenon
     DEF F!DepositRefundPool, F!OrganizerOrAdmin, F!Exists, F!Receive, F!userVars, F!wiringVars,
         OpenFund!DepositRefundPool, OpenFund!OrganizerOrAdmin, OpenFund!Exists,
         OpenFund!Receive, OpenFund!userVars, OpenFund!wiringVars
<1> QED
  BY <1>1, <1>2, <1>3, <1>4, <1>5, <1>6

LEMMA SameFundStep ==
  ASSUME FundStep
  PROVE  OpenFund!Next
<1> USE Names
<1>1. CASE F!SetTicketContract \/ F!SetMarketplaceContract \/ F!Tick \/ \E v \in Gifts : F!ReceiveEther(v)
  BY <1>1, SameWiring DEF OpenFund!Next
<1>2. CASE \E c \in Accounts, a \in CreateArgs, v \in Amounts : F!CreateEvent(c, a, v)
  BY <1>2, SameFunding, PlatformAssumption DEF PlatformAssumption, OpenFund!Next
<1>3. CASE \E e \in Events, p \in PenaltyRates : F!ApplyPenalty(e, p)
  BY <1>3, SameMoney DEF OpenFund!Next, OpenFund!ContractStep
<1>4. ASSUME NEW c \in Accounts, NEW e \in Events,
             \/ F!FinalizeFunding(c, e)
             \/ \E reason \in F!Reasons : F!CancelEvent(c, e, reason)
             \/ F!ReleaseRevenue(c, e)
             \/ F!RefundTickets(c, e)
      PROVE  OpenFund!Next
  <2>1. OpenFund!LifecycleStep(c, e)
    BY <1>4, SameFunding, SameTicketing DEF OpenFund!LifecycleStep
  <2> QED
    BY <2>1 DEF OpenFund!Next
<1>5. ASSUME NEW c \in Accounts, NEW e \in Events,
             \/ \E v \in Amounts : F!Contribute(c, e, v)
             \/ \E v \in TopUps : F!DepositRefundPool(c, e, v)
             \/ F!ClaimReward(c, e)
             \/ F!ClaimContributionRefund(e, c)
             \/ F!WithdrawStake(c, e)
      PROVE  OpenFund!Next
  <2>1. Amounts \subseteq Nat
    BY PlatformAssumption DEF PlatformAssumption
  <2>2. OpenFund!MoneyStep(c, e)
    BY <1>5, <2>1, SameFunding, SameTicketing, SameMoney DEF OpenFund!MoneyStep
  <2> QED
    BY <2>2 DEF OpenFund!Next
<1> QED
  BY <1>1, <1>2, <1>3, <1>4, <1>5 DEF FundStep

-----------------------------------------------------------------------------
(* Listings.                                                               *)

Custody(l) == M!Active(l) => owner[listings[l].tokenId] = MarketplaceContract

\* No listing changes, and no listed ticket moves.
LEMMA SameListings ==
  ASSUME M!TypeOK, MarketInv, TicketFrame, CustodyFrame,
         UNCHANGED <<listings, listingCounter, activeListing>>
  PROVE  MarketInv'
<1> USE Names
<1>1. \A l \in Listings : M!Active(l) =>
        /\ listings[l].tokenId \in Tokens /\ T!Exists(listings[l].tokenId)
        /\ owner[listings[l].tokenId] = MarketplaceContract
  BY DEF MarketInv, ListedKnown, ListedInCustody
<1>2. \A l \in Listings : M!Active(l) =>
        /\ T!Exists(listings[l].tokenId)'
        /\ owner'[listings[l].tokenId] = MarketplaceContract
  BY <1>1 DEF TicketFrame, CustodyFrame, T!Exists
<1> QED
  BY <1>1, <1>2 DEF MarketInv, ListingsNumbered, ListedKnown, ListedInCustody, M!IndexExact,
                    M!Active, T!Exists

LEMMA CreateListingKept ==
  ASSUME TicketTypes, TicketInv, M!TypeOK, MarketInv,
         NEW c \in Accounts, NEW t \in Tokens, NEW p \in Nat, CreateListing(c, t, p)
  PROVE  TicketsKept /\ M!TypeOK' /\ MarketInv'
<1> USE Names
<1> DEFINE id == listingCounter + 1
           new == [tokenId |-> t, seller |-> c, price |-> p, status |-> "Active"]
<1>1. /\ owner[t] = c /\ activeListing[t] = 0 /\ id \in Listings /\ listingCounter' = id
      /\ listings' = [listings EXCEPT ![id] = new]
      /\ activeListing' = [activeListing EXCEPT ![t] = id]
      /\ UNCHANGED <<royaltyBps, fundContract>>
  BY DEF CreateListing, M!CreateListing
<1>2. T!TransferFrom(c, MarketplaceContract, t) /\ c # MarketplaceContract
  BY PlatformAssumption DEF CreateListing, PlatformAssumption
<1>3. /\ TicketsKept /\ CustodyFrame /\ T!Exists(t)
      /\ owner' = [owner EXCEPT ![t] = MarketplaceContract]
  BY <1>2, TransferKept DEF T!Holders
<1>4. listingCounter \in Nat /\ listings \in [Listings -> M!Listing]
      /\ activeListing \in [Tokens -> Listings \cup {0}]
  BY DEF M!TypeOK
<1>5. new \in M!Listing
  BY DEF M!Listing
<1>6. M!TypeOK'
  BY <1>1, <1>4, <1>5 DEF M!TypeOK
<1>7. ~ M!Active(id)
  BY <1>1, <1>4 DEF MarketInv, ListingsNumbered
<1>8. \A l \in Listings : M!Active(l)' <=> l = id \/ M!Active(l)
  BY <1>1, <1>4 DEF M!Active
<1>9. \A l \in Listings \ {id} : listings'[l] = listings[l]
  BY <1>1, <1>4
<1>10. listings'[id] = new /\ activeListing'[t] = id
  BY <1>1, <1>4
<1>11. ListingsNumbered'
  BY <1>1, <1>4, <1>8 DEF MarketInv, ListingsNumbered
<1>12. \A l \in Listings : ListedKnown(l)' /\ Custody(l)'
  <2> SUFFICES ASSUME NEW l \in Listings, M!Active(l)'
               PROVE  /\ listings'[l].tokenId \in Tokens
                      /\ T!Exists(listings[l].tokenId)'
                      /\ owner'[listings'[l].tokenId] = MarketplaceContract
    BY DEF ListedKnown, Custody
  <2>1. CASE l = id
    <3>1. listings'[l].tokenId = t
      BY <2>1, <1>10
    <3>2. T!Exists(t)'
      BY <1>3 DEF TicketsKept, TicketFrame, T!Exists
    <3>3. owner'[t] = MarketplaceContract
      BY <1>3 DEF TicketTypes
    <3> QED
      BY <3>1, <3>2, <3>3 DEF T!Exists
  <2>2. CASE l # id
    <3>1. M!Active(l) /\ listings'[l] = listings[l]
      BY <2>2, <1>8, <1>9
    <3>2. /\ listings[l].tokenId \in Tokens /\ T!Exists(listings[l].tokenId)
          /\ owner[listings[l].tokenId] = MarketplaceContract
      BY <3>1 DEF MarketInv, ListedKnown, ListedInCustody
    <3> QED
      BY <1>3, <3>1, <3>2 DEF TicketsKept, TicketFrame, CustodyFrame, T!Exists
  <2> QED
    BY <2>1, <2>2
<1>13. M!IndexExact'
  <2>1. M!IndexExact
    BY DEF MarketInv, ListedInCustody
  <2>2. \A l \in Listings : M!Active(l)' => activeListing'[listings'[l].tokenId] = l
    <3> SUFFICES ASSUME NEW l \in Listings, M!Active(l)'
                 PROVE  activeListing'[listings'[l].tokenId] = l
      OBVIOUS
    <3>1. CASE l = id
      BY <3>1, <1>10
    <3>2. CASE l # id
      <4>1. M!Active(l) /\ listings'[l] = listings[l]
        BY <3>2, <1>8, <1>9
      <4>2. listings[l].tokenId \in Tokens /\ activeListing[listings[l].tokenId] = l
        BY <2>1, <4>1 DEF M!IndexExact, MarketInv, ListedKnown
      <4> QED
        BY <1>1, <1>4, <4>1, <4>2
    <3> QED
      BY <3>1, <3>2
  <2>3. \A u \in Tokens : activeListing'[u] # 0 =>
          M!Active(activeListing[u])' /\ listings'[activeListing'[u]].tokenId = u
    <3> SUFFICES ASSUME NEW u \in Tokens, activeListing'[u] # 0
                 PROVE  listings'[activeListing'[u]].status = "Active" /\ listings'[activeListing'[u]].tokenId = u
      BY DEF M!Active
    <3>1. CASE u = t
      BY <3>1, <1>10
    <3>2. CASE u # t
      <4>1. activeListing'[u] = activeListing[u] /\ activeListing[u] \in Listings
        BY <3>2, <1>1, <1>4
      <4>2. M!Active(activeListing[u]) /\ listings[activeListing[u]].tokenId = u
        BY <2>1, <4>1, Names DEF M!IndexExact
      <4>3. activeListing[u] # id
        BY <1>7, <4>2
      <4> QED
        BY <1>9, <4>1, <4>2, <4>3 DEF M!Active
    <3> QED
      BY <3>1, <3>2
  <2> QED
    BY <2>2, <2>3 DEF M!IndexExact, M!Active
<1> QED
  BY <1>3, <1>6, <1>11, <1>12, <1>13 DEF MarketInv, ListedInCustody, Custody

\* The end of a listing, whoever ends it: the token goes to whom it goes.
LEMMA CloseKept ==
  ASSUME TicketTypes, TicketInv, M!TypeOK, MarketInv, NEW l \in Listings,
         NEW s \in {"Sold", "Cancelled"}, NEW to \in T!Holders \cup {NoAccount},
         M!CloseListing(l, s), T!TransferFrom(MarketplaceContract, to, listings[l].tokenId)
  PROVE  TicketsKept /\ M!TypeOK' /\ MarketInv'
<1> USE Names
<1> DEFINE t == listings[l].tokenId
<1>1. /\ M!Active(l) /\ listings' = [listings EXCEPT ![l].status = s]
      /\ activeListing' = [activeListing EXCEPT ![t] = 0]
      /\ UNCHANGED <<listingCounter, royaltyBps, fundContract>>
  BY DEF M!CloseListing, M!Active
<1>2. t \in Tokens
  BY <1>1 DEF MarketInv, ListedKnown
<1>3. TicketsKept /\ owner' = [owner EXCEPT ![t] = to]
  BY <1>2, TransferKept
<1>4. /\ listings \in [Listings -> M!Listing]
      /\ activeListing \in [Tokens -> Listings \cup {0}]
  BY DEF M!TypeOK
<1>5. listings' \in [Listings -> M!Listing]
  BY <1>1, <1>4 DEF M!Listing
<1>6. M!TypeOK'
  BY <1>1, <1>2, <1>4, <1>5 DEF M!TypeOK
<1>7. /\ \A k \in Listings \ {l} : listings'[k] = listings[k]
      /\ listings'[l].status = s /\ s # "Active"
  BY <1>1, <1>4 DEF M!Listing
<1>8. \A k \in Listings : M!Active(k)' <=> k # l /\ M!Active(k)
  BY <1>7 DEF M!Active
<1>9. M!IndexExact
  BY DEF MarketInv, ListedInCustody
\* Another active listing is of another token: the index names both.
<1>10. ASSUME NEW k \in Listings, M!Active(k)'
       PROVE  /\ M!Active(k) /\ k # l /\ listings'[k] = listings[k]
              /\ listings[k].tokenId \in Tokens \ {t} /\ T!Exists(listings[k].tokenId)
              /\ owner[listings[k].tokenId] = MarketplaceContract
              /\ activeListing[listings[k].tokenId] = k
  BY <1>1, <1>7, <1>8, <1>9, <1>10 DEF M!IndexExact, MarketInv, ListedKnown, ListedInCustody
<1>11. ListingsNumbered'
  BY <1>1, <1>8 DEF MarketInv, ListingsNumbered
<1>12. \A k \in Listings : ListedKnown(k)' /\ Custody(k)'
  <2> SUFFICES ASSUME NEW k \in Listings, M!Active(k)'
               PROVE  /\ listings'[k].tokenId \in Tokens
                      /\ T!Exists(listings[k].tokenId)'
                      /\ owner'[listings'[k].tokenId] = MarketplaceContract
    BY DEF ListedKnown, Custody
  <2> QED
    BY <1>3, <1>10 DEF TicketsKept, TicketFrame, T!Exists, TicketTypes
<1>13. M!IndexExact'
  <2>1. \A k \in Listings : M!Active(k)' => activeListing'[listings'[k].tokenId] = k
    BY <1>1, <1>4, <1>10
  <2>2. \A u \in Tokens : activeListing'[u] # 0 =>
          M!Active(activeListing[u])' /\ listings'[activeListing'[u]].tokenId = u
    <3> SUFFICES ASSUME NEW u \in Tokens, activeListing'[u] # 0
                 PROVE  listings'[activeListing'[u]].status = "Active" /\ listings'[activeListing'[u]].tokenId = u
      BY DEF M!Active
    <3>1. u # t /\ activeListing'[u] = activeListing[u] /\ activeListing[u] \in Listings
      BY <1>1, <1>2, <1>4
    <3>2. M!Active(activeListing[u]) /\ listings[activeListing[u]].tokenId = u
      BY <1>9, <3>1 DEF M!IndexExact
    <3> QED
      BY <1>7, <3>1, <3>2 DEF M!Active
  <2> QED
    BY <2>1, <2>2 DEF M!IndexExact, M!Active
<1> QED
  BY <1>3, <1>6, <1>11, <1>12, <1>13 DEF MarketInv, ListedInCustody, Custody

-----------------------------------------------------------------------------
(* The three contracts together.                                           *)

LEMMA TypesApart ==
  /\ T!TypeOK <=> TicketTypes /\ now \in Nat
  /\ F!TypeOK => now \in Nat
BY Names DEF T!TypeOK, TicketTypes, F!TypeOK

LEMMA RoyaltyType ==
  ASSUME M!TypeOK, NEW l \in Listings
  PROVE  M!Royalty(l) \in Nat
<1> USE Names
<1>1. listings[l].price \in Nat /\ royaltyBps \in Nat
  BY PlatformAssumption DEF PlatformAssumption, M!TypeOK, M!Listing
<1>2. listings[l].price * royaltyBps \in Nat
  BY <1>1
<1> QED
  BY <1>2, QuotientBound, PlatformAssumption DEF PlatformAssumption, M!Royalty

FundOpen == [OpenFund!Next]_(OpenFund!vars)

MarketKept == M!TypeOK' /\ MarketInv'

LEMMA FundStill ==
  ASSUME UNCHANGED <<fundVars, now>>
  PROVE  FundOpen
BY DEF FundOpen, OpenFund!vars, fundVars

LEMMA ContractCall ==
  ASSUME NEW e \in Events, NEW v \in Nat,
         \/ F!DepositTicketRevenue(e, v)
         \/ F!DepositRoyalty(e, v)
         \/ \E c \in Accounts : F!ClaimTicketRefund(e, v, c)
  PROVE  FundOpen
<1> USE Names
<1>1. CASE F!DepositTicketRevenue(e, v) \/ F!DepositRoyalty(e, v)
  <2>1. OpenFund!ContractStep(e)
    BY <1>1, SameMoney DEF OpenFund!ContractStep
  <2> QED
    BY <2>1 DEF FundOpen, OpenFund!Next
<1>2. CASE \E c \in Accounts : F!ClaimTicketRefund(e, v, c)
  <2>1. PICK c \in Accounts : F!ClaimTicketRefund(e, v, c)
    BY <1>2
  <2>2. OpenFund!MoneyStep(c, e)
    BY <2>1, SameMoney DEF OpenFund!MoneyStep
  <2> QED
    BY <2>2 DEF FundOpen, OpenFund!Next
<1> QED
  BY <1>1, <1>2

LEMMA TicketSaleKept ==
  ASSUME PlatformInv, TicketSaleStep
  PROVE  FundOpen /\ TicketsKept /\ MarketKept
<1> USE Names
<1>1. /\ TicketTypes /\ TicketInv /\ M!TypeOK /\ MarketInv
      /\ ev \in [Events -> F!EventConfig] /\ F!TypeOK
  BY TypesApart DEF PlatformInv, TypeOK, F!TypeOK
<1>2. ASSUME NEW c \in Accounts, NEW e \in Events, NEW q \in Quantities, NEW p \in BatchPrices,
             StartTicketing(c, e, q, p)
      PROVE  FundOpen /\ TicketsKept /\ MarketKept
  <2>1. q \in Nat /\ p \in Nat
    BY PlatformAssumption DEF PlatformAssumption
  <2>2. F!EffectivePrice(e, p) \in Nat
    BY <1>1, <2>1 DEF F!EffectivePrice, F!EventConfig
  <2>3. TicketsKept /\ CustodyFrame
    BY <1>1, <1>2, <2>1, <2>2, MintKept DEF StartTicketing
  <2>4. OpenFund!LifecycleStep(c, e)
    BY <1>2, <2>1, SameTicketing DEF StartTicketing, OpenFund!LifecycleStep
  <2>5. MarketKept
    BY <1>1, <1>2, <2>3, SameListings
       DEF StartTicketing, MarketKept, marketVars, TicketsKept, M!TypeOK
  <2> QED
    BY <2>3, <2>4, <2>5 DEF FundOpen, OpenFund!Next
<1>3. ASSUME NEW c \in Accounts, NEW e \in Events, SetCompletedIfThresholdMet(c, e)
      PROVE  FundOpen /\ TicketsKept /\ MarketKept
  <2>1. eventTickets[e].totalSold \in Nat /\ eventTickets[e].totalUsed \in Nat
    BY <1>1 DEF TicketTypes, T!EventTicketInfo
  <2>2. OpenFund!LifecycleStep(c, e)
    BY <1>3, <2>1, SameTicketing DEF SetCompletedIfThresholdMet, OpenFund!LifecycleStep
  <2>3. TicketsKept /\ CustodyFrame
    BY <1>1, <1>3, SameTickets DEF SetCompletedIfThresholdMet
  <2>4. MarketKept
    BY <1>1, <1>3, <2>3, SameListings
       DEF SetCompletedIfThresholdMet, MarketKept, marketVars, TicketsKept, M!TypeOK
  <2> QED
    BY <2>2, <2>3, <2>4 DEF FundOpen, OpenFund!Next
<1>4. ASSUME NEW c \in Accounts, NEW t \in Tokens, PurchaseTicket(c, t)
      PROVE  FundOpen /\ TicketsKept /\ MarketKept
  <2>1. tickets[t].price \in Nat
    BY <1>1 DEF TicketTypes, T!TicketInfo
  <2>2. FundOpen
    BY <1>4, <2>1, ContractCall DEF PurchaseTicket
  <2>3. TicketsKept /\ CustodyFrame
    BY <1>1, <1>4, PurchaseKept DEF PurchaseTicket
  <2>4. MarketKept
    BY <1>1, <1>4, <2>3, SameListings
       DEF PurchaseTicket, MarketKept, marketVars, TicketsKept, M!TypeOK
  <2> QED
    BY <2>2, <2>3, <2>4
<1>5. ASSUME NEW t \in Tokens, ClaimTicketRefund(t)
      PROVE  FundOpen /\ TicketsKept /\ MarketKept
  <2>1. tickets[t].price \in Nat
    BY <1>1 DEF TicketTypes, T!TicketInfo
  <2>2. tickets[t].eventId \in Events
    BY <1>1, <1>5 DEF ClaimTicketRefund, T!ClaimRefund, T!Refundable, TicketInv, TicketKnown, T!Exists
  <2>3. FundOpen
    BY <1>5, <2>1, <2>2, ContractCall DEF ClaimTicketRefund
  <2>4. TicketsKept /\ CustodyFrame
    BY <1>1, <1>5, RefundKept DEF ClaimTicketRefund
  <2>5. MarketKept
    BY <1>1, <1>5, <2>4, SameListings
       DEF ClaimTicketRefund, MarketKept, marketVars, TicketsKept, M!TypeOK
  <2> QED
    BY <2>3, <2>4, <2>5
<1> QED
  BY <1>2, <1>3, <1>4, <1>5 DEF TicketSaleStep

LEMMA MarketStepKept ==
  ASSUME PlatformInv, MarketStep
  PROVE  FundOpen /\ TicketsKept /\ MarketKept
<1> USE Names
<1>1. TicketTypes /\ TicketInv /\ M!TypeOK /\ MarketInv
  BY TypesApart DEF PlatformInv, TypeOK
<1>2. \A l \in Listings : listings[l].seller \in T!Holders \cup {NoAccount}
  BY <1>1 DEF M!TypeOK, M!Listing, T!Holders
<1>3. ASSUME NEW c \in Accounts, NEW t \in Tokens, NEW p \in ListingPrices, CreateListing(c, t, p)
      PROVE  FundOpen /\ TicketsKept /\ MarketKept
  <2>1. p \in Nat
    BY PlatformAssumption DEF PlatformAssumption
  <2> QED
    BY <1>1, <1>3, <2>1, CreateListingKept, FundStill DEF CreateListing, MarketKept
<1>4. ASSUME NEW c \in Accounts, NEW l \in Listings, BuyListing(c, l)
      PROVE  FundOpen /\ TicketsKept /\ MarketKept
  <2> DEFINE t == listings[l].tokenId
  <2>1. M!CloseListing(l, "Sold") /\ T!TransferFrom(MarketplaceContract, c, t)
    BY <1>4 DEF BuyListing, M!BuyListing
  <2>2. TicketsKept /\ MarketKept
    BY <1>1, <2>1, CloseKept DEF MarketKept, T!Holders
  <2>3. FundOpen
    <3>1. CASE UNCHANGED <<fundVars, now>>
      BY <3>1, FundStill
    <3>2. CASE F!DepositRoyalty(tickets[t].eventId, M!Royalty(l))
      <4>1. t \in Tokens /\ T!Exists(t)
        BY <1>1, <2>1 DEF M!CloseListing, M!Active, MarketInv, ListedKnown
      <4>2. tickets[t].eventId \in Events
        BY <1>1, <4>1 DEF TicketInv, TicketKnown
      <4>3. M!Royalty(l) \in Nat
        BY <1>1, RoyaltyType
      <4> QED
        BY <3>2, <4>2, <4>3, ContractCall
    <3> QED
      BY <1>4, <3>1, <3>2 DEF BuyListing
  <2> QED
    BY <2>2, <2>3
<1>5. ASSUME NEW l \in Listings, M!CloseListing(l, "Cancelled"), ReturnTicket(l)
      PROVE  FundOpen /\ TicketsKept /\ MarketKept
  BY <1>1, <1>2, <1>5, CloseKept, FundStill DEF ReturnTicket, MarketKept
<1>6. ASSUME NEW c, NEW l \in Listings, CancelListing(c, l) \/ ForceCancelListing(l)
      PROVE  FundOpen /\ TicketsKept /\ MarketKept
  BY <1>5, <1>6 DEF CancelListing, ForceCancelListing, M!CancelListing, M!ForceCancelListing
<1>7. ASSUME NEW b \in RoyaltyRates, M!SetRoyaltyBps(b), UNCHANGED <<fundVars, ticketVars, now>>
      PROVE  FundOpen /\ TicketsKept /\ MarketKept
  <2>1. b \in 0 .. BPS_DENOM
    BY <1>7, PlatformAssumption DEF PlatformAssumption, M!SetRoyaltyBps, M!RoyaltyRateValid
  <2>2. M!TypeOK'
    BY <1>1, <1>7, <2>1 DEF M!SetRoyaltyBps, M!TypeOK
  <2> QED
    BY <1>1, <1>7, <2>2, SameTickets, SameListings, FundStill
       DEF M!SetRoyaltyBps, MarketKept, TicketsKept
<1>8. ASSUME NEW f \in FundTargets, M!SetFundContract(f), UNCHANGED <<fundVars, ticketVars, now>>
      PROVE  FundOpen /\ TicketsKept /\ MarketKept
  <2>1. M!TypeOK'
    BY <1>1, <1>8 DEF M!SetFundContract, M!TypeOK
  <2> QED
    BY <1>1, <1>8, <2>1, SameTickets, SameListings, FundStill
       DEF M!SetFundContract, MarketKept, TicketsKept
<1> QED
  BY <1>3, <1>4, <1>6, <1>7, <1>8 DEF MarketStep

LEMMA AloneKept ==
  ASSUME PlatformInv,
         FundAlone(FundStep) \/ TicketAlone(TicketStep) \/ TicketAlone(StrayTransfer)
           \/ TicketAlone(AdminMint)
  PROVE  FundOpen /\ TicketsKept /\ MarketKept
<1> USE Names
<1>1. TicketTypes /\ TicketInv /\ M!TypeOK /\ MarketInv
  BY TypesApart DEF PlatformInv, TypeOK
<1>2. CASE FundAlone(FundStep)
  <2>1. FundOpen
    BY <1>2, SameFundStep DEF FundAlone, FundOpen
  <2>2. TicketsKept /\ CustodyFrame
    BY <1>1, <1>2, SameTickets DEF FundAlone
  <2>3. MarketKept
    BY <1>1, <1>2, <2>2, SameListings DEF FundAlone, MarketKept, marketVars, TicketsKept, M!TypeOK
  <2> QED
    BY <2>1, <2>2, <2>3
<1>3. ASSUME UNCHANGED <<fundVars, marketVars, now>>, TicketsKept, CustodyFrame
      PROVE  FundOpen /\ TicketsKept /\ MarketKept
  BY <1>1, <1>3, FundStill, SameListings DEF MarketKept, marketVars, TicketsKept, M!TypeOK
<1>4. ASSUME NEW from \in Accounts, NEW to \in T!Holders, NEW t \in Tokens,
             T!TransferFrom(from, to, t)
      PROVE  TicketsKept /\ CustodyFrame
  <2>1. from # MarketplaceContract
    BY PlatformAssumption DEF PlatformAssumption
  <2> QED
    BY <1>1, <1>4, <2>1, TransferKept
<1>5. Senders \subseteq Accounts /\ Accounts \subseteq T!Holders /\ MarketplaceContract \in T!Holders
  BY PlatformAssumption DEF PlatformAssumption, T!Holders
<1>6. CASE TicketAlone(TicketStep)
  <2>1. CASE T!AdminStep
    BY <1>1, <1>3, <1>6, <2>1, AdminKept DEF TicketAlone
  <2>2. CASE T!UseStep
    BY <1>1, <1>3, <1>6, <2>2, UseKept DEF TicketAlone
  <2>3. CASE \E from \in Senders, to \in Accounts, t \in Tokens : from # to /\ T!TransferFrom(from, to, t)
    BY <1>3, <1>4, <1>5, <1>6, <2>3 DEF TicketAlone
  <2> QED
    BY <1>6, <2>1, <2>2, <2>3 DEF TicketAlone, TicketStep
<1>7. CASE TicketAlone(StrayTransfer)
  BY <1>3, <1>4, <1>5, <1>7 DEF TicketAlone, StrayTransfer
<1>8. CASE TicketAlone(AdminMint)
  <2>1. AdminQuantities \subseteq Nat /\ Amounts \subseteq Nat
    BY PlatformAssumption DEF PlatformAssumption
  <2>2. PICK to \in Accounts, e \in Events, p \in Amounts, q \in AdminQuantities :
          T!MintBatch(Admin, to, e, p, q)
    BY <1>8 DEF TicketAlone, AdminMint
  <2>3. p \in Nat /\ q \in Nat
    BY <2>1
  <2>4. TicketsKept /\ CustodyFrame
    BY <1>1, <2>2, <2>3, MintKept
  <2> QED
    BY <1>3, <1>8, <2>4 DEF TicketAlone
<1> QED
  BY <1>2, <1>6, <1>7, <1>8

LEMMA PlatformStep ==
  ASSUME PlatformInv, [Next]_vars
  PROVE  PlatformInv' /\ FundOpen /\ TicketFrame
<1>1. FundOpen /\ TicketsKept /\ MarketKept
  <2>1. CASE UNCHANGED vars
    <3>1. TicketTypes /\ TicketInv /\ M!TypeOK /\ MarketInv
      BY TypesApart DEF PlatformInv, TypeOK
    <3>2. UNCHANGED <<fundVars, now>> /\ UNCHANGED ticketVars /\ UNCHANGED marketVars
      BY <2>1 DEF vars
    <3>3. TicketsKept /\ CustodyFrame
      BY <3>1, <3>2, SameTickets
    <3> QED
      BY <3>1, <3>2, <3>3, FundStill, SameListings DEF MarketKept, marketVars, TicketsKept, M!TypeOK
  <2>2. CASE TicketSaleStep
    BY <2>2, TicketSaleKept
  <2>3. CASE MarketStep
    BY <2>3, MarketStepKept
  <2> QED
    BY <2>1, <2>2, <2>3, AloneKept DEF Next
<1>2. OpenFund!TypeOK'
  <2>1. OpenFund!TypeOK
    BY OpenTypes DEF PlatformInv, TypeOK
  <2> QED
    BY <1>1, <2>1, OpenFund!TypeStep, OpenAssumption DEF FundOpen, OpenFund!FundAssumption
<1>3. F!TypeOK' /\ now' \in Nat
  BY <1>2, Names
     DEF OpenFund!TypeOK, F!TypeOK, OpenFund!EventConfig, F!EventConfig, OpenFund!EventStatus, F!EventStatus
<1>4. T!TypeOK'
  BY <1>1, <1>3, Names DEF TicketsKept, T!TypeOK, TicketTypes
<1> QED
  BY <1>1, <1>3, <1>4 DEF PlatformInv, TypeOK, TicketsKept, MarketKept

LEMMA PlatformInit == Init => PlatformInv /\ OpenFund!Init
<1> USE Names
<1> SUFFICES ASSUME Init
             PROVE  PlatformInv /\ OpenFund!Init
  OBVIOUS
<1>1. OpenFund!Init
  BY Zenon DEF Init, F!Init, F!NoEvent, OpenFund!Init, OpenFund!NoEvent, F!Events, OpenFund!Events
<1>2. F!TypeOK
  BY <1>1, OpenFund!TypeInit, OpenAssumption, OpenTypes DEF OpenFund!FundAssumption
<1>3. TicketTypes
  BY PlatformAssumption
     DEF PlatformAssumption, Init, T!Init, TicketTypes, T!TicketInfo, T!TicketStatus, T!EventTicketInfo
<1>4. TicketInv
  BY DEF Init, T!Init, TicketInv, TicketsNumbered, TicketKnown, T!Exists
<1>5. M!TypeOK
  BY PlatformAssumption DEF PlatformAssumption, Init, M!Init, M!TypeOK, M!NoListing, M!Listing
<1>6. MarketInv
  BY DEF Init, M!Init, M!NoListing, MarketInv, ListingsNumbered, ListedKnown, ListedInCustody,
         M!IndexExact, M!Active
<1> QED
  BY <1>1, <1>2, <1>3, <1>4, <1>5, <1>6, TypesApart DEF PlatformInv, TypeOK

\* The inductive invariant of the three contracts.
THEOREM PlatformInvariant == Spec => []PlatformInv
<1>1. Init => PlatformInv
  BY PlatformInit
<1>2. PlatformInv /\ [Next]_vars => PlatformInv'
  BY PlatformStep
<1> QED
  BY <1>1, <1>2, PTL DEF Spec

\* Every field of the three contracts keeps its type through every transaction.
THEOREM PlatformTypeCorrect == Spec => []TypeOK
<1>1. PlatformInv => TypeOK
  BY DEF PlatformInv
<1> QED
  BY <1>1, PlatformInvariant, PTL

\* A listed ticket stays with the marketplace, and the index of active listings
\* is exact, whatever its seller and the other contracts do.
THEOREM ListedStayInCustody == Spec => []ListedInCustody
<1>1. PlatformInv => ListedInCustody
  BY DEF PlatformInv, MarketInv
<1> QED
  BY <1>1, PlatformInvariant, PTL

\* For Fund a behaviour of the platform is one of its open environment.
THEOREM PlatformImplementsFund == Spec => OpenFund!Spec
<1>1. Init => OpenFund!Init
  BY PlatformInit
<1>2. PlatformInv /\ [Next]_vars => [OpenFund!Next]_(OpenFund!vars)
  BY PlatformStep DEF FundOpen
<1> QED
  BY <1>1, <1>2, PlatformInvariant, PTL DEF Spec, OpenFund!Spec

\* So what is proved of Fund alone holds with the real Ticket and Marketplace.
THEOREM PlatformKeepsFund == Spec => []OpenFund!IInv
BY PlatformImplementsFund, OpenFund!Invariant, OpenAssumption, PTL DEF OpenFund!FundAssumption

\* Nor do Ticket and Marketplace take an event off its abstract lifecycle.
THEOREM PlatformImplementsLifecycle == Spec => OpenFund!ImplementsLifecycle
BY PlatformImplementsFund, OpenFund!Implementation, OpenAssumption, PTL DEF OpenFund!FundAssumption

-----------------------------------------------------------------------------
(* The counters of the tickets.                                            *)

\* What a transaction of the platform is for Ticket.
LEMMA TicketSteps ==
  ASSUME [Next]_vars, PlatformInv
  PROVE  \/ UNCHANGED ticketVars
         \/ T!AdminStep
         \/ T!UseStep
         \/ \E caller, to : \E e \in Events, p \in Nat, q \in Nat : T!MintBatch(caller, to, e, p, q)
         \/ \E c, s : \E t \in Tokens : T!PurchaseTicket(c, t, s)
         \/ \E from, to : \E t \in Tokens : T!TransferFrom(from, to, t)
         \/ \E t \in Tokens : T!ClaimRefund(t)
<1> USE Names
<1>1. CASE FundAlone(FundStep) \/ UNCHANGED vars
  BY <1>1 DEF FundAlone, vars
<1>2. CASE TicketAlone(TicketStep)
  BY <1>2 DEF TicketAlone, TicketStep
<1>3. CASE TicketAlone(StrayTransfer)
  BY <1>3 DEF TicketAlone, StrayTransfer
<1>4. CASE TicketAlone(AdminMint)
  <2>1. AdminQuantities \subseteq Nat /\ Amounts \subseteq Nat
    BY PlatformAssumption DEF PlatformAssumption
  <2> QED
    BY <1>4, <2>1 DEF TicketAlone, AdminMint
<1>5. CASE TicketSaleStep
  <2>1. ASSUME NEW c \in Accounts, NEW e \in Events, NEW q \in Quantities, NEW p \in BatchPrices,
               StartTicketing(c, e, q, p)
        PROVE  \E caller, to : \E f \in Events, b \in Nat, n \in Nat : T!MintBatch(caller, to, f, b, n)
    <3>1. q \in Nat /\ p \in Nat
      BY PlatformAssumption DEF PlatformAssumption
    <3>2. F!EffectivePrice(e, p) \in Nat
      BY <3>1 DEF F!EffectivePrice, F!EventConfig, PlatformInv, TypeOK, F!TypeOK
    <3> QED
      BY <2>1, <3>1, <3>2 DEF StartTicketing
  <2> QED
    BY <1>5, <2>1 DEF TicketSaleStep, SetCompletedIfThresholdMet, PurchaseTicket, ClaimTicketRefund
<1>6. CASE MarketStep
  <2>1. \A l \in Listings : M!Active(l) => listings[l].tokenId \in Tokens
    BY DEF PlatformInv, MarketInv, ListedKnown
  <2>2. ASSUME NEW c, NEW l \in Listings, BuyListing(c, l) \/ CancelListing(c, l) \/ ForceCancelListing(l)
        PROVE  \E from, to : \E t \in Tokens : T!TransferFrom(from, to, t)
    <3>1. M!Active(l)
      BY <2>2 DEF BuyListing, CancelListing, ForceCancelListing, M!BuyListing, M!CancelListing,
                  M!ForceCancelListing, M!CloseListing, M!Active
    <3> QED
      BY <2>1, <2>2, <3>1 DEF BuyListing, CancelListing, ForceCancelListing, ReturnTicket
  <2>3. CASE \E c \in Accounts, t \in Tokens, p \in ListingPrices : CreateListing(c, t, p)
    BY <2>3 DEF CreateListing
  <2> QED
    BY <1>6, <2>2, <2>3 DEF MarketStep
<1> QED
  BY <1>1, <1>2, <1>3, <1>4, <1>5, <1>6 DEF Next

MintedOnes == T!TicketStatus \ {"None"}
SoldOnes == T!TicketStatus \ {"None", "Minted"}

CountersInv == \A e \in Events :
  /\ eventTickets[e].totalMinted = Cardinality(T!TokensOf(e, MintedOnes))
  /\ eventTickets[e].totalSold = Cardinality(T!TokensOf(e, SoldOnes))
  /\ eventTickets[e].totalUsed = Cardinality(T!TokensOf(e, {"Used"}))

LEMMA CountersAre == CountersInv <=> CountersExact
<1>1. \A S : T!Cardinality(S) = Cardinality(S)
  BY Zenon DEF T!Cardinality, Cardinality
<1> QED
  BY <1>1, Names DEF CountersInv, CountersExact, T!CountersExact, MintedOnes, SoldOnes

LEMMA TokensFinite ==
  ASSUME NEW e, NEW statuses
  PROVE  /\ IsFiniteSet(T!TokensOf(e, statuses))
         /\ Cardinality(T!TokensOf(e, statuses)) \in Nat
<1>1. IsFiniteSet(Tokens)
  BY FS_Interval, Names DEF Tokens
<1>2. T!TokensOf(e, statuses) \subseteq Tokens
  BY Names DEF T!TokensOf
<1> QED
  BY <1>1, <1>2, FS_Subset, FS_CardinalityType

\* A status change between two statuses that are counted alike changes no count.
LEMMA CountSame ==
  ASSUME TicketTypes, NEW t \in Tokens, NEW s, T!SetStatus(t, s), NEW statuses,
         s \in statuses <=> tickets[t].status \in statuses, NEW e
  PROVE  T!TokensOf(e, statuses)' = T!TokensOf(e, statuses)
BY Names DEF TicketTypes, T!TicketInfo, T!SetStatus, T!TokensOf, T!EventOf

\* A ticket that enters a count adds one to its event's and nothing to another's.
LEMMA CountOneMore ==
  ASSUME TicketTypes, NEW t \in Tokens, NEW s, T!SetStatus(t, s), NEW statuses,
         s \in statuses, tickets[t].status \notin statuses, NEW e
  PROVE  Cardinality(T!TokensOf(e, statuses)') =
           IF e = tickets[t].eventId THEN Cardinality(T!TokensOf(e, statuses)) + 1
                                     ELSE Cardinality(T!TokensOf(e, statuses))
<1> USE Names
<1> DEFINE old == T!TokensOf(e, statuses)
           new == T!TokensOf(e, statuses)'
<1>1. \A u \in Tokens : /\ tickets'[u].eventId = tickets[u].eventId
                        /\ tickets'[u].status = IF u = t THEN s ELSE tickets[u].status
  BY DEF TicketTypes, T!TicketInfo, T!SetStatus
<1>2. CASE e = tickets[t].eventId
  <2>1. new = old \cup {t} /\ t \notin old
    BY <1>1, <1>2 DEF T!TokensOf, T!EventOf
  <2>2. Cardinality(old \cup {t}) = Cardinality(old) + 1
    BY <2>1, TokensFinite, FS_AddElement
  <2> QED
    BY <1>2, <2>1, <2>2
<1>3. CASE e # tickets[t].eventId
  <2>1. new = old
    BY <1>1, <1>3 DEF T!TokensOf, T!EventOf
  <2> QED
    BY <1>3, <2>1
<1> QED
  BY <1>2, <1>3

LEMMA CountersMint ==
  ASSUME TicketTypes, TicketInv, CountersInv, NEW caller, NEW to, NEW e \in Events,
         NEW p \in Nat, NEW q \in Nat, T!MintBatch(caller, to, e, p, q)
  PROVE  CountersInv'
<1> USE Names
<1> DEFINE minted == nextTicketId .. nextTicketId + q - 1
<1>1. /\ q > 0 /\ minted \subseteq Tokens
      /\ tickets' = [t \in Tokens |->
           IF t \in minted THEN [eventId |-> e, price |-> p, status |-> "Minted"] ELSE tickets[t]]
  BY DEF T!MintBatch, T!MayMintBatch
<1>2. /\ nextTicketId \in Nat \ {0} /\ eventTickets \in [Events -> T!EventTicketInfo]
  BY DEF TicketTypes
<1>3. \A t \in minted : tickets[t].status = "None"
  BY <1>1, <1>2 DEF TicketInv, TicketsNumbered
<1>4. \A t \in minted : tickets'[t].status = "Minted" /\ tickets'[t].eventId = e
  BY <1>1
<1>5. \A t \in Tokens \ minted : tickets'[t] = tickets[t]
  BY <1>1
<1>6. \A f \in Events : /\ T!TokensOf(f, SoldOnes)' = T!TokensOf(f, SoldOnes)
                        /\ T!TokensOf(f, {"Used"})' = T!TokensOf(f, {"Used"})
  BY <1>1, <1>3, <1>4, <1>5 DEF T!TokensOf, T!EventOf, SoldOnes
<1>7. \A f \in Events \ {e} : T!TokensOf(f, MintedOnes)' = T!TokensOf(f, MintedOnes)
  BY <1>1, <1>3, <1>4, <1>5 DEF T!TokensOf, T!EventOf, MintedOnes
<1>8. Cardinality(T!TokensOf(e, MintedOnes)') = Cardinality(T!TokensOf(e, MintedOnes)) + q
  <2> DEFINE old == T!TokensOf(e, MintedOnes)
  <2>1. T!TokensOf(e, MintedOnes)' = old \cup minted /\ old \cap minted = {}
    BY <1>1, <1>3, <1>4, <1>5 DEF T!TokensOf, T!EventOf, MintedOnes, T!TicketStatus
  <2>2. nextTicketId \in Int /\ nextTicketId + q - 1 \in Int
    BY <1>2
  <2>3. IsFiniteSet(minted) /\ Cardinality(minted) = q
    BY <1>1, <1>2, <2>2, FS_Interval
  <2>4. IsFiniteSet(old) /\ Cardinality(old) \in Nat
    BY TokensFinite
  <2> HIDE DEF minted
  <2>5. Cardinality(old \cup minted) = Cardinality(old) + Cardinality(minted) - Cardinality(old \cap minted)
    BY <2>3, <2>4, FS_Union
  <2>6. Cardinality(old \cap minted) = 0
    BY <2>1, FS_EmptySet
  <2> QED
    BY <2>1, <2>3, <2>4, <2>5, <2>6
<1>9. \A f \in Events :
        /\ eventTickets'[f].totalSold = eventTickets[f].totalSold
        /\ eventTickets'[f].totalUsed = eventTickets[f].totalUsed
        /\ eventTickets'[f].totalMinted = IF f = e THEN eventTickets[f].totalMinted + q
                                                  ELSE eventTickets[f].totalMinted
  BY <1>2 DEF T!MintBatch, T!EventTicketInfo
<1> QED
  BY <1>6, <1>7, <1>8, <1>9 DEF CountersInv

LEMMA CountersPurchase ==
  ASSUME TicketTypes, TicketInv, CountersInv, NEW c, NEW t \in Tokens, NEW s,
         T!PurchaseTicket(c, t, s)
  PROVE  CountersInv'
<1> USE Names
<1>1. tickets[t].status = "Minted" /\ T!SetStatus(t, "Sold")
  BY DEF T!PurchaseTicket, T!MayPurchase, T!SetStatus
<1>2. eventTickets \in [Events -> T!EventTicketInfo]
  BY DEF TicketTypes
<1>3. \A e \in Events :
        /\ eventTickets'[e].totalMinted = eventTickets[e].totalMinted
        /\ eventTickets'[e].totalUsed = eventTickets[e].totalUsed
        /\ eventTickets'[e].totalSold = IF e = tickets[t].eventId THEN eventTickets[e].totalSold + 1
                                                                  ELSE eventTickets[e].totalSold
  BY <1>2 DEF T!PurchaseTicket, T!EventTicketInfo, T!EventOf
<1>4. \A e : /\ T!TokensOf(e, MintedOnes)' = T!TokensOf(e, MintedOnes)
            /\ T!TokensOf(e, {"Used"})' = T!TokensOf(e, {"Used"})
  BY <1>1, CountSame DEF MintedOnes, T!TicketStatus
<1>5. \A e : Cardinality(T!TokensOf(e, SoldOnes)') =
             IF e = tickets[t].eventId THEN Cardinality(T!TokensOf(e, SoldOnes)) + 1
                                       ELSE Cardinality(T!TokensOf(e, SoldOnes))
  <2>1. "Sold" \in SoldOnes /\ tickets[t].status \notin SoldOnes
    BY <1>1 DEF SoldOnes, T!TicketStatus
  <2> QED
    BY <1>1, <2>1, CountOneMore
<1> QED
  BY <1>3, <1>4, <1>5 DEF CountersInv

LEMMA CountersUse ==
  ASSUME TicketTypes, TicketInv, CountersInv, NEW c, NEW t \in Tokens, T!MarkAsUsed(c, t)
  PROVE  CountersInv'
<1> USE Names
<1>1. tickets[t].status = "Sold" /\ T!SetStatus(t, "Used")
  BY DEF T!MarkAsUsed, T!Usable, T!EffectiveStatus
<1>2. eventTickets \in [Events -> T!EventTicketInfo]
  BY DEF TicketTypes
<1>3. \A e \in Events :
        /\ eventTickets'[e].totalMinted = eventTickets[e].totalMinted
        /\ eventTickets'[e].totalSold = eventTickets[e].totalSold
        /\ eventTickets'[e].totalUsed = IF e = tickets[t].eventId THEN eventTickets[e].totalUsed + 1
                                                                  ELSE eventTickets[e].totalUsed
  BY <1>2 DEF T!MarkAsUsed, T!EventTicketInfo, T!EventOf
<1>4. \A e : /\ T!TokensOf(e, MintedOnes)' = T!TokensOf(e, MintedOnes)
            /\ T!TokensOf(e, SoldOnes)' = T!TokensOf(e, SoldOnes)
  BY <1>1, CountSame DEF MintedOnes, SoldOnes, T!TicketStatus
<1>5. \A e : Cardinality(T!TokensOf(e, {"Used"})') =
             IF e = tickets[t].eventId THEN Cardinality(T!TokensOf(e, {"Used"})) + 1
                                       ELSE Cardinality(T!TokensOf(e, {"Used"}))
  BY <1>1, CountOneMore
<1> QED
  BY <1>3, <1>4, <1>5 DEF CountersInv

\* A Sold ticket that ends Expired or Refunded stays minted and sold, and unused.
LEMMA CountersEnd ==
  ASSUME TicketTypes, CountersInv, NEW t \in Tokens, NEW s \in {"Expired", "Refunded"},
         tickets[t].status = "Sold", T!SetStatus(t, s), eventTickets' = eventTickets
  PROVE  CountersInv'
<1>1. \A e : /\ T!TokensOf(e, MintedOnes)' = T!TokensOf(e, MintedOnes)
            /\ T!TokensOf(e, SoldOnes)' = T!TokensOf(e, SoldOnes)
            /\ T!TokensOf(e, {"Used"})' = T!TokensOf(e, {"Used"})
  BY CountSame DEF MintedOnes, SoldOnes, T!TicketStatus
<1> QED
  BY <1>1 DEF CountersInv

LEMMA CountersKept ==
  ASSUME CountersInv, tickets' = tickets,
         \A e \in Events : /\ eventTickets'[e].totalMinted = eventTickets[e].totalMinted
                           /\ eventTickets'[e].totalSold = eventTickets[e].totalSold
                           /\ eventTickets'[e].totalUsed = eventTickets[e].totalUsed
  PROVE  CountersInv'
<1>1. \A e, statuses : T!TokensOf(e, statuses)' = T!TokensOf(e, statuses)
  BY DEF T!TokensOf, T!EventOf
<1> QED
  BY <1>1 DEF CountersInv

LEMMA CountersStep ==
  ASSUME PlatformInv, CountersInv, [Next]_vars
  PROVE  CountersInv'
<1> USE Names
<1>1. TicketTypes /\ TicketInv
  BY TypesApart DEF PlatformInv, TypeOK
<1>2. eventTickets \in [Events -> T!EventTicketInfo]
  BY <1>1 DEF TicketTypes
<1>3. CASE UNCHANGED ticketVars
  BY <1>3, CountersKept DEF ticketVars
<1>4. CASE T!AdminStep
  <2>1. tickets' = tickets
    BY <1>4 DEF T!AdminStep, T!SetFundContract, T!SetEventEndDate, T!SetSalesActive,
                T!AddEventVerifier, T!RemoveEventVerifier, T!EditOrganizerRole
  <2>2. \/ eventTickets' = eventTickets
        \/ \E e \in Events, b \in BOOLEAN : eventTickets' = [eventTickets EXCEPT ![e].salesActive = b]
    BY <1>4 DEF T!AdminStep, T!SetFundContract, T!SetEventEndDate, T!SetSalesActive,
                T!AddEventVerifier, T!RemoveEventVerifier, T!EditOrganizerRole
  <2>3. \A e \in Events : /\ eventTickets'[e].totalMinted = eventTickets[e].totalMinted
                          /\ eventTickets'[e].totalSold = eventTickets[e].totalSold
                          /\ eventTickets'[e].totalUsed = eventTickets[e].totalUsed
    BY <1>2, <2>2 DEF T!EventTicketInfo
  <2> QED
    BY <2>1, <2>3, CountersKept
<1>5. CASE T!UseStep
  <2>1. PICK c \in Accounts, t \in Tokens : T!MarkAsUsed(c, t) \/ T!MarkAsExpired(c, t) \/ T!MarkAsRefunded(c, t)
    BY <1>5 DEF T!UseStep
  <2>2. CASE T!MarkAsUsed(c, t)
    BY <1>1, <2>2, CountersUse
  <2>3. CASE T!MarkAsExpired(c, t)
    BY <1>1, <2>3, CountersEnd DEF T!MarkAsExpired
  <2>4. CASE T!MarkAsRefunded(c, t)
    BY <1>1, <2>4, CountersEnd DEF T!MarkAsRefunded
  <2> QED
    BY <2>1, <2>2, <2>3, <2>4
<1>6. CASE \E caller, to : \E e \in Events, p \in Nat, q \in Nat : T!MintBatch(caller, to, e, p, q)
  BY <1>1, <1>6, CountersMint
<1>7. CASE \E c, s : \E t \in Tokens : T!PurchaseTicket(c, t, s)
  BY <1>1, <1>7, CountersPurchase
<1>8. CASE \E from, to : \E t \in Tokens : T!TransferFrom(from, to, t)
  BY <1>8, CountersKept DEF T!TransferFrom
<1>9. CASE \E t \in Tokens : T!ClaimRefund(t)
  BY <1>1, <1>9, CountersEnd DEF T!ClaimRefund, T!Refundable
<1> QED
  BY <1>3, <1>4, <1>5, <1>6, <1>7, <1>8, <1>9, TicketSteps

\* totalMinted, totalSold and totalUsed, from which Fund computes the completion
\* threshold, agree with the tickets after every transaction.
THEOREM CountersStayExact == Spec => []CountersExact
<1>1. Init => CountersInv
  <2> SUFFICES ASSUME Init PROVE CountersInv
    OBVIOUS
  <2>1. \A e \in Events : /\ eventTickets[e].totalMinted = 0
                          /\ eventTickets[e].totalSold = 0
                          /\ eventTickets[e].totalUsed = 0
    BY Names DEF Init, T!Init
  <2>2. \A t \in Tokens : tickets[t].status = "None"
    BY Names DEF Init, T!Init
  <2>3. \A e : /\ T!TokensOf(e, MintedOnes) = {} /\ T!TokensOf(e, SoldOnes) = {}
              /\ T!TokensOf(e, {"Used"}) = {}
    BY <2>2, Names DEF T!TokensOf, MintedOnes, SoldOnes
  <2> QED
    BY <2>1, <2>3, FS_EmptySet DEF CountersInv
<1>2. PlatformInv /\ CountersInv /\ [Next]_vars => CountersInv'
  BY CountersStep
<1>3. CountersInv <=> CountersExact
  BY CountersAre
<1> QED
  BY <1>1, <1>2, <1>3, PlatformInvariant, PTL DEF Spec

Frozen == \A t \in Tokens :
  tickets[t].status \in {"Used", "Expired", "Refunded"} =>
    tickets'[t] = tickets[t] /\ owner'[t] = owner[t]

\* A ticket that was used, expired or refunded keeps its status, price and owner
\* for ever, even when the end date of its event is moved.
THEOREM FinalTicketsStayFrozen == Spec => FinalTicketsFrozen
<1> USE Names
<1>1. ASSUME PlatformInv, [Next]_vars
      PROVE  Frozen
  <2>1. TicketTypes /\ TicketInv
    BY <1>1, TypesApart DEF PlatformInv, TypeOK
  <2>2. tickets \in [Tokens -> T!TicketInfo] /\ DOMAIN owner = Tokens
    BY <2>1 DEF TicketTypes
  <2>3. CASE UNCHANGED ticketVars
    BY <2>3 DEF ticketVars, Frozen
  <2>4. CASE T!AdminStep
    BY <2>4 DEF T!AdminStep, T!SetFundContract, T!SetEventEndDate, T!SetSalesActive,
                T!AddEventVerifier, T!RemoveEventVerifier, T!EditOrganizerRole, Frozen
  <2>5. CASE T!UseStep
    BY <2>2, <2>5 DEF T!UseStep, T!MarkAsUsed, T!MarkAsExpired, T!MarkAsRefunded, T!Usable,
                      T!EffectiveStatus, T!SetStatus, Frozen
  <2>6. CASE \E caller, to : \E e \in Events, p \in Nat, q \in Nat : T!MintBatch(caller, to, e, p, q)
    BY <2>1, <2>6 DEF T!MintBatch, TicketTypes, TicketInv, TicketsNumbered, Frozen
  <2>7. CASE \E c, s : \E t \in Tokens : T!PurchaseTicket(c, t, s)
    BY <2>2, <2>7 DEF T!PurchaseTicket, T!MayPurchase, Frozen
  <2>8. CASE \E from, to : \E t \in Tokens : T!TransferFrom(from, to, t)
    BY <2>2, <2>8 DEF T!TransferFrom, T!Movable, T!EffectiveStatus, Frozen
  <2>9. CASE \E t \in Tokens : T!ClaimRefund(t)
    BY <2>2, <2>9 DEF T!ClaimRefund, T!Refundable, T!SetStatus, Frozen
  <2> QED
    BY <1>1, <2>3, <2>4, <2>5, <2>6, <2>7, <2>8, <2>9, TicketSteps
<1>2. PlatformInv /\ [Next]_vars => [Frozen]_vars
  BY <1>1
<1> QED
  BY <1>2, PlatformInvariant, PTL DEF Spec, FinalTicketsFrozen, Frozen

-----------------------------------------------------------------------------
(* Ticket holders get their money back.  Fund keeps the money and Ticket   *)
(* knows who is owed; neither knows of the other's half, and no call       *)
(* checks that they agree.  The invariant relates, event by event, the     *)
(* ticket money Fund has not released to the prices of the tickets still   *)
(* Sold.                                                                   *)

\* What the holders of the tickets of e may still ask back.
Prices(e) == [t \in SoldTokens(e) |-> PriceOf(t)]
Due(e) == SumOver(Prices(e), SoldTokens(e))

RefundInv(e) ==
  /\ ev[e].status = "None" => SoldTokens(e) = {}
  /\ ~ev[e].revenueReleased => OpenFund!TicketMoney(ev[e]) >= Due(e)
  /\ ev[e].status = "Cancelled" =>
       /\ ev[e].refundPool >= Due(e)
       /\ Due(e) > 0 => ev[e].refundsEnabled

AllRefundInv == \A e \in Events : RefundInv(e)

-----------------------------------------------------------------------------
(* The tickets still Sold and their prices.                                *)

LEMMA SoldFinite ==
  ASSUME TypeOK, NEW e
  PROVE  /\ IsFiniteSet(SoldTokens(e))
         /\ \A t \in SoldTokens(e) : t \in Tokens /\ Prices(e)[t] = tickets[t].price /\ Prices(e)[t] \in Nat
         /\ Due(e) \in Nat
<1> USE Names
<1>1. IsFiniteSet(SoldTokens(e))
  BY TokensFinite DEF SoldTokens
<1>2. \A t \in SoldTokens(e) : t \in Tokens
  BY DEF SoldTokens, T!TokensOf
<1>3. \A t \in SoldTokens(e) : Prices(e)[t] = tickets[t].price /\ Prices(e)[t] \in Nat
  BY <1>2 DEF Prices, PriceOf, TypeOK, T!TypeOK, T!TicketInfo
<1> QED
  BY <1>1, <1>2, <1>3, UnitsFinite DEF Due

\* No ticket becomes Sold.
SoldKept == \A t \in Tokens : tickets'[t].status = "Sold" => tickets[t].status = "Sold"

LEMMA DueShrinks ==
  ASSUME TypeOK, TypeOK', TicketFrame, SoldKept, NEW e
  PROVE  /\ SoldTokens(e)' \subseteq SoldTokens(e)
         /\ Due(e)' \in Nat /\ Due(e)' <= Due(e)
<1> USE Names
<1>1. \A t \in Tokens : tickets'[t].status = "Sold" =>
        /\ tickets[t].status = "Sold"
        /\ tickets'[t].eventId = tickets[t].eventId
        /\ tickets'[t].price = tickets[t].price
  BY DEF SoldKept, TicketFrame, T!Exists
<1>2. SoldTokens(e)' \subseteq SoldTokens(e)
  BY <1>1 DEF SoldTokens, T!TokensOf, T!EventOf
<1>3. /\ IsFiniteSet(SoldTokens(e))
      /\ \A t \in SoldTokens(e) : t \in Tokens /\ Prices(e)[t] = tickets[t].price /\ Prices(e)[t] \in Nat
  BY SoldFinite
<1>4. \A t \in SoldTokens(e)' : Prices(e)'[t] = tickets'[t].price /\ tickets'[t].status = "Sold"
  BY DEF Prices, PriceOf, SoldTokens, T!TokensOf
<1>5. \A t \in SoldTokens(e)' : Prices(e)'[t] = Prices(e)[t] /\ Prices(e)[t] \in Nat
  BY <1>1, <1>2, <1>3, <1>4
<1>6. Due(e)' <= Due(e)
  <2> DEFINE S == SoldTokens(e)
             R == SoldTokens(e)'
             f == Prices(e)
             g == Prices(e)'
  <2>1. /\ R \in SUBSET S /\ IsFiniteSet(S) /\ \A s \in S : f[s] \in Nat
        /\ \A s \in R : g[s] \in Nat /\ g[s] <= f[s]
    BY <1>2, <1>3, <1>5
  <2> HIDE DEF S, R, f, g
  <2>2. SumOver(g, R) <= SumOver(f, S)
    BY <2>1, SumMonotone
  <2> QED
    BY <2>2 DEF S, R, f, g, Due
<1>7. Due(e)' \in Nat
  <2>1. IsFiniteSet(SoldTokens(e)')
    BY <1>2, <1>3, FS_Subset
  <2>2. \A t \in SoldTokens(e)' : Prices(e)'[t] \in Nat
    BY <1>5
  <2> DEFINE R == SoldTokens(e)'
             g == Prices(e)'
  <2> HIDE DEF R, g
  <2>3. SumOver(g, R) \in Nat
    BY <2>1, <2>2, UnitsFinite DEF R, g
  <2> QED
    BY <2>3 DEF R, g, Due
<1> QED
  BY <1>2, <1>6, <1>7

\* Whoever may ask a refund is owed something.
LEMMA SoldDue ==
  ASSUME TypeOK, TicketInv, NEW e, SoldTokens(e) # {}
  PROVE  Due(e) > 0
<1>1. PICK t \in SoldTokens(e) : TRUE
  OBVIOUS
<1>2. /\ IsFiniteSet(SoldTokens(e)) /\ t \in Tokens /\ Prices(e)[t] = tickets[t].price
      /\ Prices(e) \in [SoldTokens(e) -> Nat] /\ Due(e) \in Nat
  BY <1>1, SoldFinite DEF Prices
<1>3. tickets[t].status = "Sold"
  BY <1>1 DEF SoldTokens, T!TokensOf
<1>4. tickets[t].price > 0
  BY <1>2, <1>3 DEF TicketInv, TicketKnown, T!Exists
<1>5. Prices(e)[t] <= Due(e)
  BY <1>1, <1>2, SumBound DEF Due
<1>6. Prices(e)[t] \in Nat
  BY <1>1, <1>2
<1> QED
  BY <1>2, <1>4, <1>5, <1>6

-----------------------------------------------------------------------------
(* What the transactions do to the two halves.                             *)

LEMMA SoldStays ==
  ASSUME TicketTypes, TicketInv,
         \/ UNCHANGED ticketVars
         \/ T!AdminStep
         \/ T!UseStep
         \/ \E caller, to, e, p, q : T!MintBatch(caller, to, e, p, q)
         \/ \E from, to, t : T!TransferFrom(from, to, t)
  PROVE  SoldKept
<1> USE Names
<1>1. CASE tickets' = tickets
  BY <1>1 DEF SoldKept
<1>2. CASE T!UseStep
  BY <1>2 DEF T!UseStep, T!MarkAsUsed, T!MarkAsExpired, T!MarkAsRefunded, T!SetStatus,
              TicketTypes, T!TicketInfo, SoldKept
<1>3. CASE \E caller, to, e, p, q : T!MintBatch(caller, to, e, p, q)
  BY <1>3 DEF T!MintBatch, SoldKept
<1>4. CASE T!AdminStep
  BY <1>1, <1>4 DEF T!AdminStep, T!SetFundContract, T!SetEventEndDate, T!SetSalesActive,
                    T!AddEventVerifier, T!RemoveEventVerifier, T!EditOrganizerRole
<1> QED
  BY <1>1, <1>2, <1>3, <1>4 DEF ticketVars, T!TransferFrom

LEMMA FundUntouched ==
  ASSUME TypeOK, ev' = ev
  PROVE  OpenFund!AllMoneyKept
<1>1. \A e \in OpenFund!Events : ev[e] \in OpenFund!EventConfig
  BY OpenTypes DEF TypeOK, OpenFund!TypeOK
<1> QED
  BY <1>1, OpenFund!MoneyUntouched, OpenAssumption DEF OpenFund!FundAssumption, OpenFund!AllMoneyKept

LEMMA AddedMoney ==
  ASSUME OpenFund!IInv, NEW e \in Events,
         \/ \E v \in Nat : F!DepositTicketRevenue(e, v)
         \/ \E v \in Nat : F!DepositRoyalty(e, v)
         \/ \E c : \E v \in Nat : F!DepositRefundPool(c, e, v)
         \/ \E p \in PenaltyRates : F!ApplyPenalty(e, p)
  PROVE  OpenFund!AllMoneyKept
<1> USE Names
<1>1. \/ \E v \in Nat : OpenFund!DepositTicketRevenue(e, v) \/ OpenFund!DepositRoyalty(e, v)
      \/ \E c : \E v \in Nat : OpenFund!DepositRefundPool(c, e, v)
      \/ \E p \in PenaltyRates : OpenFund!ApplyPenalty(e, p)
  BY SameMoney
<1> QED
  BY <1>1, OpenFund!DepositMoney, OpenAssumption DEF OpenFund!FundAssumption

LEMMA PhaseStepMoney ==
  ASSUME OpenFund!IInv, NEW c \in Accounts, NEW e \in Events,
         \/ \E q \in Nat : F!StartTicketing(c, e, q)
         \/ \E sold, used : F!SetCompletedIfThresholdMet(c, e, sold, used)
         \/ F!WithdrawStake(c, e)
  PROVE  OpenFund!AllMoneyKept
<1> USE Names
<1>1. \/ \E q \in Nat : OpenFund!StartTicketing(c, e, q)
      \/ \E sold, used : OpenFund!SetCompletedIfThresholdMet(c, e, sold, used)
      \/ OpenFund!WithdrawStake(c, e)
  BY SameTicketing, SameMoney
<1> QED
  BY <1>1, OpenFund!PhaseMoney, OpenAssumption DEF OpenFund!FundAssumption

LEMMA FundStepMoney ==
  ASSUME TypeOK, OpenFund!IInv, FundStep
  PROVE  OpenFund!AllMoneyKept
<1> USE Names
<1>1. CASE F!SetTicketContract \/ F!SetMarketplaceContract \/ F!Tick \/ \E v \in Gifts : F!ReceiveEther(v)
  BY <1>1, FundUntouched DEF F!SetTicketContract, F!SetMarketplaceContract, F!Tick, F!ReceiveEther
<1>2. CASE \E c \in Accounts, a \in CreateArgs, v \in Amounts : F!CreateEvent(c, a, v)
  BY <1>2, SameFunding, OpenFund!CreateMoney, OpenAssumption DEF OpenFund!FundAssumption
<1>3. CASE \E e \in Events, p \in PenaltyRates : F!ApplyPenalty(e, p)
  BY <1>3, AddedMoney
<1>4. ASSUME NEW c \in Accounts, NEW e \in Events,
             \/ F!FinalizeFunding(c, e)
             \/ \E reason \in F!Reasons : F!CancelEvent(c, e, reason)
             \/ F!ReleaseRevenue(c, e)
             \/ F!RefundTickets(c, e)
      PROVE  OpenFund!AllMoneyKept
  BY <1>4, SameFunding, SameTicketing, OpenFund!FinalizeMoney, OpenFund!CancelMoney,
     OpenFund!ReleaseMoney, OpenFund!RefundTicketsMoney, OpenAssumption DEF OpenFund!FundAssumption
<1>5. ASSUME NEW c \in Accounts, NEW e \in Events,
             \/ \E v \in Amounts : F!Contribute(c, e, v)
             \/ \E v \in TopUps : F!DepositRefundPool(c, e, v)
      PROVE  OpenFund!AllMoneyKept
  <2>1. TopUps \subseteq Nat
    BY PlatformAssumption DEF PlatformAssumption
  <2> QED
    BY <1>5, <2>1, SameFunding, AddedMoney, OpenFund!ContributeMoney,
       OpenAssumption DEF OpenFund!FundAssumption
<1>6. ASSUME NEW c \in Accounts, NEW e \in Events,
             \/ F!ClaimContributionRefund(e, c)
             \/ F!WithdrawStake(c, e)
      PROVE  OpenFund!AllMoneyKept
  BY <1>6, PhaseStepMoney, SameMoney, OpenFund!ContributionRefundMoney,
     OpenAssumption DEF OpenFund!FundAssumption
<1>7. ASSUME NEW c \in Accounts, NEW e \in Events, F!ClaimReward(c, e)
      PROVE  OpenFund!AllMoneyKept
  BY <1>7, FundUntouched DEF F!ClaimReward
<1> QED
  BY <1>1, <1>2, <1>3, <1>4, <1>5, <1>6, <1>7 DEF FundStep

\* A transaction sells a ticket, refunds a ticket, or leaves both halves alone
\* in the sense above.
LEMMA RefundSteps ==
  ASSUME PlatformInv, OpenFund!IInv, [Next]_vars
  PROVE  \/ \E c \in Accounts, t \in Tokens : PurchaseTicket(c, t)
         \/ \E t \in Tokens : ClaimTicketRefund(t)
         \/ SoldKept /\ OpenFund!AllMoneyKept
<1> USE Names
<1>1. TypeOK /\ TicketTypes /\ TicketInv /\ MarketInv
  BY TypesApart DEF PlatformInv, TypeOK
<1>2. CASE FundAlone(FundStep)
  BY <1>1, <1>2, SoldStays, FundStepMoney DEF FundAlone
<1>3. CASE TicketAlone(TicketStep) \/ TicketAlone(StrayTransfer) \/ TicketAlone(AdminMint)
  <2>1. SoldKept
    BY <1>1, <1>3, SoldStays DEF TicketAlone, TicketStep, StrayTransfer, AdminMint
  <2> QED
    BY <1>1, <1>3, <2>1, FundUntouched DEF TicketAlone, fundVars
<1>4. CASE TicketSaleStep
  <2>1. ASSUME NEW c \in Accounts, NEW e \in Events, NEW q \in Quantities, NEW p \in BatchPrices,
               StartTicketing(c, e, q, p)
        PROVE  SoldKept /\ OpenFund!AllMoneyKept
    <3>1. q \in Nat
      BY PlatformAssumption DEF PlatformAssumption
    <3> QED
      BY <1>1, <2>1, <3>1, SoldStays, PhaseStepMoney DEF StartTicketing
  <2>2. ASSUME NEW c \in Accounts, NEW e \in Events, SetCompletedIfThresholdMet(c, e)
        PROVE  SoldKept /\ OpenFund!AllMoneyKept
    BY <1>1, <2>2, SoldStays, PhaseStepMoney DEF SetCompletedIfThresholdMet
  <2> QED
    BY <1>4, <2>1, <2>2 DEF TicketSaleStep
<1>5. CASE MarketStep
  <2>1. ASSUME NEW c \in Accounts, NEW t \in Tokens, NEW p \in ListingPrices, CreateListing(c, t, p)
        PROVE  SoldKept /\ OpenFund!AllMoneyKept
    BY <1>1, <2>1, SoldStays, FundUntouched DEF CreateListing, fundVars
  <2>2. ASSUME NEW c \in Accounts, NEW l \in Listings, BuyListing(c, l)
        PROVE  SoldKept /\ OpenFund!AllMoneyKept
    <3> DEFINE t == listings[l].tokenId
    <3>1. SoldKept
      BY <1>1, <2>2, SoldStays DEF BuyListing
    <3>2. CASE UNCHANGED <<fundVars, now>>
      BY <1>1, <3>1, <3>2, FundUntouched DEF fundVars
    <3>3. CASE F!DepositRoyalty(tickets[t].eventId, M!Royalty(l))
      <4>1. t \in Tokens /\ T!Exists(t)
        BY <1>1, <2>2 DEF BuyListing, M!BuyListing, M!CloseListing, M!Active, MarketInv, ListedKnown
      <4>2. tickets[t].eventId \in Events
        BY <1>1, <4>1 DEF TicketInv, TicketKnown
      <4>3. M!Royalty(l) \in Nat
        BY <1>1, RoyaltyType DEF TypeOK
      <4> QED
        BY <3>1, <3>3, <4>2, <4>3, AddedMoney
    <3> QED
      BY <2>2, <3>2, <3>3 DEF BuyListing
  <2>3. ASSUME NEW c, NEW l \in Listings, CancelListing(c, l) \/ ForceCancelListing(l)
        PROVE  SoldKept /\ OpenFund!AllMoneyKept
    BY <1>1, <2>3, SoldStays, FundUntouched DEF CancelListing, ForceCancelListing, ReturnTicket, fundVars
  <2>4. CASE UNCHANGED <<fundVars, ticketVars, now>>
    BY <1>1, <2>4, SoldStays, FundUntouched DEF fundVars
  <2> QED
    BY <1>5, <2>1, <2>2, <2>3, <2>4 DEF MarketStep
<1>6. CASE UNCHANGED vars
  BY <1>1, <1>6, SoldStays, FundUntouched DEF vars, fundVars
<1> QED
  BY <1>2, <1>3, <1>4, <1>5, <1>6 DEF Next

-----------------------------------------------------------------------------
(* The invariant through each kind of transaction.                         *)

LEMMA QuietRefund ==
  ASSUME TypeOK, TypeOK', TicketFrame, SoldKept, NEW e \in Events, RefundInv(e),
         OpenFund!MoneyKept(ev[e], ev'[e])
  PROVE  RefundInv(e)'
<1> DEFINE old == ev[e]
           new == ev'[e]
           due == Due(e)
           less == Due(e)'
<1>1. /\ old.escrowedRevenue \in Nat /\ old.refundPool \in Nat
      /\ new.escrowedRevenue \in Nat /\ new.refundPool \in Nat
  BY Names DEF TypeOK, F!TypeOK, F!EventConfig
<1>2. due \in Nat /\ less \in Nat /\ less <= due
  BY SoldFinite, DueShrinks
<1>3. SoldTokens(e)' \subseteq SoldTokens(e)
  BY DueShrinks
<1>4. SoldTokens(e) = {} => due = 0
  BY SumZero DEF Due
<1>5. SoldTokens(e)' = {} => less = 0
  <2>1. SoldTokens(e)' = {} => SumOver(Prices(e)', SoldTokens(e)') = 0
    BY SumZero
  <2> QED
    BY <2>1 DEF Due
<1>6. /\ old.status = "None" => SoldTokens(e) = {}
      /\ ~old.revenueReleased => old.escrowedRevenue + old.refundPool >= due
      /\ old.status = "Cancelled" => old.refundPool >= due /\ (due > 0 => old.refundsEnabled)
  BY DEF RefundInv, OpenFund!TicketMoney
<1>7. /\ new.status = "None" => old.status = "None"
      /\ new.refundPool >= old.refundPool
      /\ old.status # "None" /\ ~new.revenueReleased =>
           ~old.revenueReleased /\ new.escrowedRevenue + new.refundPool >= old.escrowedRevenue + old.refundPool
      /\ old.status # "None" /\ new.status = "Cancelled" =>
           \/ old.status = "Cancelled" /\ (old.refundsEnabled => new.refundsEnabled)
           \/ /\ ~old.revenueReleased
              /\ new.refundPool = old.escrowedRevenue + old.refundPool
              /\ old.escrowedRevenue + old.refundPool > 0 => new.refundsEnabled
  BY DEF OpenFund!MoneyKept, OpenFund!TicketMoney
<1> HIDE DEF old, new, due, less
<1>8. new.status = "None" => SoldTokens(e)' = {}
  BY <1>3, <1>6, <1>7
<1>9. ~new.revenueReleased => new.escrowedRevenue + new.refundPool >= less
  BY <1>1, <1>2, <1>3, <1>5, <1>6, <1>7
<1>10. new.status = "Cancelled" => new.refundPool >= less
  BY <1>1, <1>2, <1>3, <1>5, <1>6, <1>7
<1>11. new.status = "Cancelled" => (less > 0 => new.refundsEnabled)
  BY <1>1, <1>2, <1>3, <1>5, <1>6, <1>7
<1> QED
  BY <1>8, <1>9, <1>10, <1>11 DEF RefundInv, OpenFund!TicketMoney, new, less

\* A sale adds the price to the escrow and to what is due, and happens only
\* while the event sells.
LEMMA PurchaseRefund ==
  ASSUME PlatformInv, PlatformInv', AllRefundInv, OpenFund!IInv,
         NEW c \in Accounts, NEW t \in Tokens, PurchaseTicket(c, t)
  PROVE  AllRefundInv'
<1> USE Names
<1>0. PICK e \in Events, price \in Nat : e = tickets[t].eventId /\ price = tickets[t].price
  BY DEF PurchaseTicket, PlatformInv, TypeOK, T!TypeOK, T!TicketInfo
<1> DEFINE old == ev[e]
           new == ev'[e]
<1>1. /\ old.status = "Ticketing" /\ tickets[t].status = "Minted"
      /\ tickets' = [tickets EXCEPT ![t].status = "Sold"]
      /\ ev' = [ev EXCEPT ![e].escrowedRevenue = @ + price]
  BY <1>0 DEF PurchaseTicket, T!PurchaseTicket, T!MayPurchase, F!DepositTicketRevenue
<1>2. /\ tickets \in [Tokens -> T!TicketInfo] /\ ev \in [Events -> F!EventConfig]
      /\ price \in Nat /\ old \in F!EventConfig
  BY <1>0 DEF PlatformInv, TypeOK, T!TypeOK, F!TypeOK, T!TicketInfo
<1>3. /\ \A u \in Tokens : /\ tickets'[u].eventId = tickets[u].eventId
                           /\ tickets'[u].price = tickets[u].price
                           /\ tickets'[u].status = IF u = t THEN "Sold" ELSE tickets[u].status
      /\ \A f \in Events \ {e} : ev'[f] = ev[f]
      /\ new.escrowedRevenue = old.escrowedRevenue + price
      /\ new.refundPool = old.refundPool /\ new.status = old.status
      /\ new.revenueReleased = old.revenueReleased
  BY <1>1, <1>2 DEF T!TicketInfo, F!EventConfig
<1>4. ~old.revenueReleased
  BY <1>1 DEF OpenFund!IInv, OpenFund!EventInv, OpenFund!Released
<1>5. SoldTokens(e)' = SoldTokens(e) \cup {t} /\ t \notin SoldTokens(e)
  BY <1>0, <1>1, <1>3 DEF SoldTokens, T!TokensOf, T!EventOf
<1>6. Due(e)' = Due(e) + price
  <2> DEFINE S == SoldTokens(e)
             f == Prices(e)
             g == Prices(e)'
  <2>1. \A u \in S \cup {t} : g[u] = tickets'[u].price
    BY <1>5 DEF Prices, PriceOf
  <2>2. \A u \in S : u \in Tokens /\ f[u] = tickets[u].price /\ f[u] \in Nat
    BY SoldFinite DEF PlatformInv
  <2>3. \A u \in S : g[u] = f[u]
    <3> HIDE DEF S, f, g
    <3> QED
      BY <1>3, <2>1, <2>2
  <2>6. g[t] = price
    BY <1>0, <1>3, <2>1
  <2>4. IsFiniteSet(S) /\ t \notin S
    BY <1>5, SoldFinite DEF PlatformInv
  <2> HIDE DEF S, f, g
  <2>5. SumOver(g, S \cup {t}) = SumOver(f, S) + g[t]
    <3>1. g[t] \in Nat /\ \A u \in S : f[u] \in Nat
      BY <1>2, <2>2, <2>6
    <3> QED
      BY <2>3, <2>4, <3>1, SumGrown
  <2> QED
    BY <1>5, <2>5, <2>6 DEF S, f, g, Due
<1>7. RefundInv(e)'
  <2>1. old.escrowedRevenue \in Nat /\ old.refundPool \in Nat /\ Due(e) \in Nat
    BY <1>2, SoldFinite DEF F!EventConfig, PlatformInv
  <2>2. old.escrowedRevenue + old.refundPool >= Due(e)
    BY <1>1, <1>4 DEF AllRefundInv, RefundInv, OpenFund!TicketMoney
  <2>3. new.escrowedRevenue + new.refundPool >= Due(e) + price
    BY <1>2, <1>3, <2>1, <2>2
  <2> QED
    BY <1>1, <1>3, <1>6, <2>3 DEF RefundInv, OpenFund!TicketMoney
<1>8. ASSUME NEW f \in Events, f # e
      PROVE  RefundInv(f)'
  <2>1. SoldTokens(f)' = SoldTokens(f)
    BY <1>0, <1>1, <1>3, <1>8 DEF SoldTokens, T!TokensOf, T!EventOf
  <2>2. \A u \in SoldTokens(f) : u \in Tokens
    BY DEF SoldTokens, T!TokensOf
  <2>3. Prices(f)' = Prices(f)
    BY <1>3, <2>1, <2>2 DEF Prices, PriceOf
  <2> QED
    BY <1>3, <1>8, <2>1, <2>3 DEF AllRefundInv, RefundInv, Due
<1> QED
  BY <1>7, <1>8 DEF AllRefundInv

\* A refund takes the price out of the pool and out of what is due.
LEMMA ClaimRefundInv ==
  ASSUME PlatformInv, PlatformInv', AllRefundInv, NEW t \in Tokens, ClaimTicketRefund(t)
  PROVE  AllRefundInv'
<1> USE Names
<1>0. PICK e, price : e = tickets[t].eventId /\ price = tickets[t].price
  OBVIOUS
<1> DEFINE old == ev[e]
           new == ev'[e]
<1>1. /\ tickets[t].status = "Sold"
      /\ tickets' = [tickets EXCEPT ![t].status = "Refunded"]
      /\ ev' = [ev EXCEPT ![e].refundPool = @ - price]
      /\ old.status # "None" /\ old.refundsEnabled /\ price <= old.refundPool
  BY <1>0 DEF ClaimTicketRefund, T!ClaimRefund, T!Refundable, T!SetStatus, F!ClaimTicketRefund, F!Exists
<1>2. e \in Events
  BY <1>0, <1>1 DEF PlatformInv, TicketInv, TicketKnown, T!Exists
<1>3. /\ tickets \in [Tokens -> T!TicketInfo] /\ ev \in [Events -> F!EventConfig]
      /\ price \in Nat /\ old \in F!EventConfig
  BY <1>0, <1>2 DEF PlatformInv, TypeOK, T!TypeOK, F!TypeOK, T!TicketInfo
<1>4. /\ \A u \in Tokens : /\ tickets'[u].eventId = tickets[u].eventId
                           /\ tickets'[u].price = tickets[u].price
                           /\ tickets'[u].status = IF u = t THEN "Refunded" ELSE tickets[u].status
      /\ \A f \in Events \ {e} : ev'[f] = ev[f]
      /\ new.escrowedRevenue = old.escrowedRevenue
      /\ new.refundPool = old.refundPool - price /\ new.status = old.status
      /\ new.revenueReleased = old.revenueReleased /\ new.refundsEnabled = old.refundsEnabled
  BY <1>1, <1>2, <1>3 DEF T!TicketInfo, F!EventConfig
<1>5. SoldTokens(e)' = SoldTokens(e) \ {t} /\ t \in SoldTokens(e)
  BY <1>0, <1>1, <1>4 DEF SoldTokens, T!TokensOf, T!EventOf
<1>6. Due(e) = Due(e)' + price
  <2> DEFINE S == SoldTokens(e)
             f == Prices(e)
             g == Prices(e)'
  <2>1. \A u \in S \ {t} : g[u] = tickets'[u].price
    BY <1>5 DEF Prices, PriceOf
  <2>2. \A u \in S : u \in Tokens /\ f[u] = tickets[u].price /\ f[u] \in Nat
    BY SoldFinite DEF PlatformInv
  <2>7. f[t] = price /\ t \in S
    BY <1>0, <1>5, <2>2
  <2>3. \A u \in S \ {t} : g[u] = f[u]
    <3> HIDE DEF S, f, g
    <3> QED
      BY <1>4, <2>1, <2>2
  <2>4. IsFiniteSet(S)
    BY SoldFinite DEF PlatformInv
  <2> HIDE DEF S, f, g
  <2>5. SumOver(f, S) = SumOver(f, S \ {t}) + f[t]
    BY <2>2, <2>4, <2>7, SumSplit
  <2>6. SumOver(g, S \ {t}) = SumOver(f, S \ {t})
    BY <2>3, SumSame
  <2> QED
    BY <1>5, <2>5, <2>6, <2>7 DEF S, f, g, Due
<1>7. RefundInv(e)'
  <2>1. /\ old.escrowedRevenue \in Nat /\ old.refundPool \in Nat /\ Due(e) \in Nat
    BY <1>3, SoldFinite DEF F!EventConfig, PlatformInv
  <2>2. Due(e)' \in Nat
    <3>1. IsFiniteSet(SoldTokens(e)') /\ \A u \in SoldTokens(e)' : Prices(e)'[u] \in Nat
      <4>1. IsFiniteSet(SoldTokens(e)')
        BY <1>5, SoldFinite, FS_Subset DEF PlatformInv
      <4>2. \A u \in SoldTokens(e)' : u \in Tokens /\ Prices(e)'[u] = tickets'[u].price
        BY <1>5, SoldFinite DEF Prices, PriceOf, PlatformInv
      <4>3. \A u \in Tokens : tickets[u].price \in Nat
        BY <1>3 DEF T!TicketInfo
      <4>4. \A u \in SoldTokens(e)' : Prices(e)'[u] = tickets[u].price
        BY <1>4, <4>2
      <4> QED
        BY <4>1, <4>2, <4>3, <4>4
    <3> DEFINE R == SoldTokens(e)'
               g == Prices(e)'
    <3> HIDE DEF R, g
    <3>2. SumOver(g, R) \in Nat
      BY <3>1, UnitsFinite DEF R, g
    <3> QED
      BY <3>2 DEF R, g, Due
  <2>3. /\ ~old.revenueReleased => old.escrowedRevenue + old.refundPool >= Due(e)
        /\ old.status = "Cancelled" => old.refundPool >= Due(e)
    BY <1>2 DEF AllRefundInv, RefundInv, OpenFund!TicketMoney
  <2>4. /\ ~new.revenueReleased => new.escrowedRevenue + new.refundPool >= Due(e)'
        /\ new.status = "Cancelled" => new.refundPool >= Due(e)'
    BY <1>3, <1>4, <1>6, <2>1, <2>2, <2>3
  <2> QED
    BY <1>1, <1>4, <2>4 DEF RefundInv, OpenFund!TicketMoney
<1>8. ASSUME NEW f \in Events, f # e
      PROVE  RefundInv(f)'
  <2>1. SoldTokens(f)' = SoldTokens(f)
    BY <1>0, <1>1, <1>4, <1>8 DEF SoldTokens, T!TokensOf, T!EventOf
  <2>2. \A u \in SoldTokens(f) : u \in Tokens
    BY DEF SoldTokens, T!TokensOf
  <2>3. Prices(f)' = Prices(f)
    BY <1>4, <2>1, <2>2 DEF Prices, PriceOf
  <2> QED
    BY <1>4, <1>8, <2>1, <2>3 DEF AllRefundInv, RefundInv, Due
<1> QED
  BY <1>7, <1>8 DEF AllRefundInv

LEMMA RefundStep ==
  ASSUME PlatformInv, OpenFund!IInv, AllRefundInv, [Next]_vars
  PROVE  AllRefundInv'
<1> USE Names
<1>1. PlatformInv' /\ TicketFrame
  BY PlatformStep
<1>2. CASE \E c \in Accounts, t \in Tokens : PurchaseTicket(c, t)
  BY <1>1, <1>2, PurchaseRefund
<1>3. CASE \E t \in Tokens : ClaimTicketRefund(t)
  BY <1>1, <1>3, ClaimRefundInv
<1>4. CASE SoldKept /\ OpenFund!AllMoneyKept
  <2>1. TypeOK /\ TypeOK'
    BY <1>1 DEF PlatformInv
  <2>2. \A e \in Events : OpenFund!MoneyKept(ev[e], ev'[e])
    BY <1>4 DEF OpenFund!AllMoneyKept
  <2> QED
    BY <1>1, <1>4, <2>1, <2>2, QuietRefund DEF AllRefundInv
<1> QED
  BY <1>2, <1>3, <1>4, RefundSteps

LEMMA RefundInit == Init => AllRefundInv
<1> USE Names
<1> SUFFICES ASSUME Init, NEW e \in Events
             PROVE  RefundInv(e)
  BY DEF AllRefundInv
<1>1. SoldTokens(e) = {}
  BY DEF Init, T!Init, SoldTokens, T!TokensOf
<1>2. Due(e) = 0
  BY <1>1, SumZero DEF Due
<1>3. ev[e].escrowedRevenue = 0 /\ ev[e].refundPool = 0
  BY DEF Init, F!Init, F!NoEvent
<1> QED
  BY <1>1, <1>2, <1>3 DEF RefundInv, OpenFund!TicketMoney

LEMMA RefundInvariant == Spec => []AllRefundInv
<1>1. Init => AllRefundInv
  BY RefundInit
<1>2. PlatformInv /\ OpenFund!IInv /\ AllRefundInv /\ [Next]_vars => AllRefundInv'
  BY RefundStep
<1> QED
  BY <1>1, <1>2, PlatformInvariant, PlatformKeepsFund, PTL DEF Spec

\* Until the revenue of an event is released, Fund holds the price of every
\* ticket of it that is still Sold.
THEOREM RefundsStayCovered == Spec => []RefundsCovered
<1>1. AllRefundInv => RefundsCovered
  BY DEF AllRefundInv, RefundInv, RefundsCovered, Due, Prices, OpenFund!TicketMoney
<1> QED
  BY <1>1, RefundInvariant, PTL

\* After a cancellation the refund pool alone pays every ticket still Sold, and
\* refunds are open.
THEOREM CancelledStaysRefundable == Spec => []CancelledRefundable
<1>1. PlatformInv /\ AllRefundInv => CancelledRefundable
  <2> SUFFICES ASSUME PlatformInv, AllRefundInv, NEW e \in Events,
                      ev[e].status = "Cancelled", SoldTokens(e) # {}
               PROVE  ev[e].refundsEnabled /\ ev[e].refundPool >= Due(e)
    BY DEF CancelledRefundable, Due, Prices
  <2>1. Due(e) > 0
    BY SoldDue DEF PlatformInv
  <2> QED
    BY <2>1 DEF AllRefundInv, RefundInv
<1> QED
  BY <1>1, PlatformInvariant, RefundInvariant, PTL

\* The refund pool shrinks only by the price of one Sold ticket of the event,
\* which is Refunded in the same transaction.
THEOREM EveryRefundPaysOneTicket == Spec => RefundPaysOneTicket
<1> USE Names
<1> DEFINE PaysOne == \A e \in Events : ev'[e].refundPool < ev[e].refundPool =>
             \E t \in SoldTokens(e) :
               /\ tickets'[t].status = "Refunded"
               /\ ev'[e].refundPool = ev[e].refundPool - PriceOf(t)
               /\ balance' = balance - PriceOf(t)
<1>1. ASSUME PlatformInv, OpenFund!IInv, [Next]_vars
      PROVE  PaysOne
  <2> SUFFICES ASSUME NEW e \in Events, ev'[e].refundPool < ev[e].refundPool
               PROVE  \E t \in SoldTokens(e) :
                        /\ tickets'[t].status = "Refunded"
                        /\ ev'[e].refundPool = ev[e].refundPool - PriceOf(t)
                        /\ balance' = balance - PriceOf(t)
    OBVIOUS
  <2>1. /\ ev \in [Events -> F!EventConfig] /\ ev[e].refundPool \in Nat
        /\ tickets \in [Tokens -> T!TicketInfo]
    BY <1>1 DEF PlatformInv, TypeOK, T!TypeOK, F!TypeOK, F!EventConfig
  <2>2. CASE \E c \in Accounts, t \in Tokens : PurchaseTicket(c, t)
    <3>1. ev'[e].refundPool = ev[e].refundPool
      BY <2>1, <2>2 DEF PurchaseTicket, F!DepositTicketRevenue, F!EventConfig
    <3> QED
      BY <2>1, <3>1
  <2>3. CASE \E t \in Tokens : ClaimTicketRefund(t)
    <3>1. PICK t \in Tokens : ClaimTicketRefund(t)
      BY <2>3
    <3>2. PICK f, price : f = tickets[t].eventId /\ price = tickets[t].price
      OBVIOUS
    <3>3. /\ tickets[t].status = "Sold" /\ tickets'[t].status = "Refunded"
          /\ ev' = [ev EXCEPT ![f].refundPool = @ - price] /\ balance' = balance - price
      BY <2>1, <3>1, <3>2 DEF ClaimTicketRefund, T!ClaimRefund, T!Refundable, T!SetStatus,
                              F!ClaimTicketRefund, F!Pay, T!TicketInfo
    <3>4. f = e
      BY <2>1, <3>3
    <3>5. t \in SoldTokens(e)
      BY <3>2, <3>3, <3>4 DEF SoldTokens, T!TokensOf, T!EventOf
    <3>6. ev'[e].refundPool = ev[e].refundPool - price
      BY <2>1, <3>3, <3>4 DEF F!EventConfig
    <3> QED
      BY <3>2, <3>3, <3>5, <3>6 DEF PriceOf
  <2>4. CASE OpenFund!AllMoneyKept
    <3>1. ev'[e].refundPool >= ev[e].refundPool
      BY <2>4 DEF OpenFund!AllMoneyKept, OpenFund!MoneyKept
    <3>2. ev'[e].refundPool \in Nat
      BY <1>1, PlatformStep DEF PlatformInv, TypeOK, F!TypeOK, F!EventConfig
    <3> QED
      BY <2>1, <3>1, <3>2
  <2> QED
    BY <1>1, <2>2, <2>3, <2>4, RefundSteps
<1>2. PlatformInv /\ OpenFund!IInv /\ [Next]_vars => [PaysOne]_vars
  BY <1>1
<1> QED
  BY <1>2, PlatformInvariant, PlatformKeepsFund, PTL DEF Spec, RefundPaysOneTicket
=============================================================================
