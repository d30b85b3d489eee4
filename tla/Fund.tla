-------------------------------- MODULE Fund --------------------------------
(***************************************************************************)
(* contracts/contracts/Fund.sol: the escrow contract.  It keeps, for every *)
(* event, the organizer's stake, the contributions (one share per wei),    *)
(* the ticket revenue, the refund pool and the rewards owed to donators,   *)
(* all in ONE ether balance.                                               *)
(*                                                                         *)
(* One action is one successful transaction: a call that reverts changes   *)
(* nothing and is no step.  The calls Ticket and Marketplace make are      *)
(* actions here with the values they pass left open; module Platform ties  *)
(* them to the contracts.  usedThreshold and minStakeRequired are stored   *)
(* by the contract and never read again, so they are not kept.             *)
(***************************************************************************)
EXTENDS Integers, FiniteSets, Sums

CONSTANTS
  Accounts,        \* externally owned addresses
  Admin,           \* the deployer: immutable admin
  Rejecting,       \* addresses whose receive() reverts
  NoAccount,       \* address(0)
  Wired,           \* whether deployAll.js has already wired the contracts
  MaxEvents,       \* bound: number of events created
  CreateArgs,      \* the argument records callers give createEvent
  Amounts,         \* the ether amounts callers, Ticket and Marketplace send
  Gifts, TopUps,   \* the amounts sent by plain transfer, to the refund pool
  PenaltyRates,    \* the penaltyBps values the admin uses
  Quantities,      \* the ticket quantities callers mint; usage counts in the open environment
  MaxTime,         \* bound: block timestamps
  MaxBalance,      \* bound: ether in the contract
  PLATFORM_FEE_BPS,
  COMPLETION_BPS,  \* the hard-coded 3600
  BPS_DENOM,
  REWARD_SCALE     \* the 1e18 of accRewardPerShare

CreateArgsType ==
  [investmentEnabled: BOOLEAN, fundingGoal: Nat, fundingDeadline: Nat,
   minStakeRequired: Nat, organizerShareBps: Nat, ticketPrice: Nat,
   maxTickets: Nat]

ASSUME FundAssumption ==
  /\ IsFiniteSet(Accounts)
  /\ Admin \in Accounts
  /\ Rejecting \subseteq Accounts
  /\ NoAccount \notin Accounts
  /\ Wired \in BOOLEAN
  /\ CreateArgs \subseteq CreateArgsType
  /\ Amounts \cup Gifts \cup TopUps \subseteq Nat
  /\ PenaltyRates \subseteq Nat
  /\ Quantities \subseteq Nat
  /\ {MaxEvents, MaxTime, MaxBalance} \subseteq Nat
  /\ {BPS_DENOM, REWARD_SCALE} \subseteq Nat \ {0}
  /\ PLATFORM_FEE_BPS \in 0 .. BPS_DENOM
  /\ COMPLETION_BPS \in 0 .. BPS_DENOM

VARIABLES
  ev,             \* events_: [Events -> EventConfig]
  shareOf,        \* e.shareOf: [Events -> [Accounts -> Nat]]
  rewardDebt,     \* e.rewardDebt
  pending,        \* e.pending
  nextEventId,
  ticketSet,      \* ticket # address(0)
  marketplaceSet, \* marketplace # address(0)
  balance,        \* address(this).balance
  now,            \* block.timestamp
  rewardReserve   \* history: per event, donatorPool released and not yet claimed

vars == <<ev, shareOf, rewardDebt, pending, nextEventId, ticketSet,
          marketplaceSet, balance, now, rewardReserve>>

userVars == <<shareOf, rewardDebt, pending>>
wiringVars == <<ticketSet, marketplaceSet>>

-----------------------------------------------------------------------------
Events == 1 .. MaxEvents

EventStatus == {"None", "Funding", "Funded", "Ticketing", "Completed", "Cancelled"}

EventConfig ==
  [organizer: Accounts \cup {NoAccount}, investmentEnabled: BOOLEAN,
   fundingGoal: Nat, currentFunding: Nat, fundingDeadline: Nat,
   organizerStakeLocked: Nat, ticketPrice: Nat, maxTickets: Nat,
   refundPool: Nat, refundsEnabled: BOOLEAN, escrowedRevenue: Nat,
   organizerShareBps: 0 .. BPS_DENOM, sharesFinalized: BOOLEAN,
   revenueReleased: BOOLEAN, totalShares: Nat, accRewardPerShare: Nat,
   status: EventStatus, totalMinted: Nat]

\* The zero value of a mapping entry nobody has written.
NoEvent ==
  [organizer |-> NoAccount, investmentEnabled |-> FALSE, fundingGoal |-> 0,
   currentFunding |-> 0, fundingDeadline |-> 0, organizerStakeLocked |-> 0,
   ticketPrice |-> 0, maxTickets |-> 0, refundPool |-> 0,
   refundsEnabled |-> FALSE, escrowedRevenue |-> 0, organizerShareBps |-> 0,
   sharesFinalized |-> FALSE, revenueReleased |-> FALSE, totalShares |-> 0,
   accRewardPerShare |-> 0, status |-> "None", totalMinted |-> 0]

Exists(e) == ev[e].status # "None"

OrganizerOrAdmin(c, e) == Exists(e) /\ c \in {ev[e].organizer, Admin}

Init ==
  /\ ev = [e \in Events |-> NoEvent]
  /\ shareOf = [e \in Events |-> [u \in Accounts |-> 0]]
  /\ rewardDebt = [e \in Events |-> [u \in Accounts |-> 0]]
  /\ pending = [e \in Events |-> [u \in Accounts |-> 0]]
  /\ nextEventId = 1
  /\ ticketSet = Wired
  /\ marketplaceSet = Wired
  /\ balance = 0
  /\ now = 0
  /\ rewardReserve = [e \in Events |-> 0]

-----------------------------------------------------------------------------
(* Ether in and out.                                                       *)

Receive(v) ==
  /\ v > 0
  /\ balance + v <= MaxBalance
  /\ balance' = balance + v

\* to.call{value: v}: reverts the transaction when the recipient refuses or
\* the contract cannot pay.
CanPay(to, v) == v <= balance /\ (v > 0 => to \notin Rejecting)

Pay(to, v) ==
  /\ CanPay(to, v)
  /\ balance' = balance - v

-----------------------------------------------------------------------------
(* Wiring, time, plain transfers.                                          *)

\* Whichever address the admin sets, now or again: what it may then call and
\* answer is left open below.
SetTicketContract ==
  /\ ticketSet' = TRUE
  /\ UNCHANGED <<ev, userVars, nextEventId, marketplaceSet, balance, now, rewardReserve>>

SetMarketplaceContract ==
  /\ marketplaceSet' = TRUE
  /\ UNCHANGED <<ev, userVars, nextEventId, ticketSet, balance, now, rewardReserve>>

Tick ==
  /\ now < MaxTime
  /\ now' = now + 1
  /\ UNCHANGED <<ev, userVars, nextEventId, wiringVars, balance, rewardReserve>>

\* receive(): ether that belongs to no event.
ReceiveEther(v) ==
  /\ Receive(v)
  /\ UNCHANGED <<ev, userVars, nextEventId, wiringVars, now, rewardReserve>>

-----------------------------------------------------------------------------
(* Creating and funding an event.                                          *)

ValidArgs(a, stake) ==
  /\ stake > 0
  /\ a.investmentEnabled =>
       /\ a.fundingGoal > 0
       /\ a.fundingDeadline > now
       /\ a.minStakeRequired > 0
       /\ stake >= a.minStakeRequired
  /\ a.organizerShareBps <= BPS_DENOM
  /\ a.ticketPrice > 0
  /\ a.maxTickets > 0

CreatedEvent(c, a, stake) ==
  LET invest == a.investmentEnabled IN
  [NoEvent EXCEPT
     !.organizer = c,
     !.investmentEnabled = invest,
     !.fundingGoal = IF invest THEN a.fundingGoal ELSE 0,
     !.fundingDeadline = IF invest THEN a.fundingDeadline ELSE 0,
     !.organizerStakeLocked = stake,
     !.organizerShareBps = a.organizerShareBps,
     !.ticketPrice = a.ticketPrice,
     !.maxTickets = a.maxTickets,
     !.status = IF invest THEN "Funding" ELSE "Funded",
     !.sharesFinalized = ~invest]

CreateEvent(c, a, stake) ==
  /\ nextEventId <= MaxEvents
  /\ ValidArgs(a, stake)
  /\ Receive(stake)
  /\ ev' = [ev EXCEPT ![nextEventId] = CreatedEvent(c, a, stake)]
  /\ nextEventId' = nextEventId + 1
  /\ UNCHANGED <<userVars, wiringVars, now, rewardReserve>>

\* _updateUser: what accRewardPerShare has earned u beyond the recorded debt.
Accumulated(e, u) == (shareOf[e][u] * ev[e].accRewardPerShare) \div REWARD_SCALE

PendingRewardForgetsDebt(e, u) == pending[e][u] + Accumulated(e, u)

PendingReward(e, u) ==
  LET earned == Accumulated(e, u) - rewardDebt[e][u] IN
  pending[e][u] + (IF earned > 0 THEN earned ELSE 0)

FundingOpenUntilDeadline(r) == r.investmentEnabled /\ now <= r.fundingDeadline

FundingOpen(r) ==
  /\ r.investmentEnabled
  /\ r.status = "Funding"
  /\ now <= r.fundingDeadline
  /\ ~r.sharesFinalized

ContributedCapped(r, v) ==
  LET reached == r.currentFunding + v >= r.fundingGoal IN
  [r EXCEPT !.totalShares = IF reached THEN r.fundingGoal ELSE @ + v,
            !.currentFunding = @ + v,
            !.status = IF reached THEN "Funded" ELSE @,
            !.sharesFinalized = @ \/ reached]

Contributed(r, v) ==
  LET reached == r.currentFunding + v >= r.fundingGoal IN
  [r EXCEPT !.totalShares = @ + v,
            !.currentFunding = @ + v,
            !.status = IF reached THEN "Funded" ELSE @,
            !.sharesFinalized = @ \/ reached]

Contribute(c, e, v) ==
  /\ FundingOpen(ev[e])
  /\ Receive(v)
  /\ pending' = [pending EXCEPT ![e][c] = PendingReward(e, c)]
  /\ rewardDebt' = [rewardDebt EXCEPT ![e][c] = Accumulated(e, c)]
  /\ shareOf' = [shareOf EXCEPT ![e][c] = @ + v]
  /\ ev' = [ev EXCEPT ![e] = Contributed(@, v)]
  /\ UNCHANGED <<nextEventId, wiringVars, now, rewardReserve>>

-----------------------------------------------------------------------------
(* Finalizing and cancelling.                                              *)

CancelledCopiesEscrow(r) ==
  [r EXCEPT !.status = "Cancelled", !.sharesFinalized = TRUE,
            !.refundPool = @ + r.escrowedRevenue, !.refundsEnabled = TRUE]

CancelledKeepsEscrow(r) ==
  [r EXCEPT !.status = "Cancelled", !.sharesFinalized = TRUE, !.refundsEnabled = TRUE]

\* _cancelEvent: the escrow joins the refund pool, and refunds open when
\* there is a ticket or a pool to refund from.
Cancelled(r) ==
  [r EXCEPT !.status = "Cancelled",
            !.sharesFinalized = TRUE,
            !.refundPool = @ + r.escrowedRevenue,
            !.escrowedRevenue = 0,
            !.refundsEnabled = @ \/ r.totalMinted > 0
                                 \/ r.refundPool + r.escrowedRevenue > 0]

\* The revert before the deadline is the missing else branch.
Finalized(r) ==
  IF ~r.investmentEnabled
    THEN [r EXCEPT !.status = "Funded", !.sharesFinalized = TRUE]
    ELSE IF r.status = "Funded" THEN [r EXCEPT !.sharesFinalized = TRUE]
                                ELSE Cancelled(r)

FinalizeFunding(c, e) ==
  /\ OrganizerOrAdmin(c, e)
  /\ ~ev[e].sharesFinalized
  /\ \/ ~ev[e].investmentEnabled
     \/ now > ev[e].fundingDeadline
     \/ ev[e].status = "Funded"
  /\ ev' = [ev EXCEPT ![e] = Finalized(@)]
  /\ UNCHANGED <<userVars, nextEventId, wiringVars, balance, now, rewardReserve>>

Reasons == {"organizer_cancelled", "ticket_sales_not_met"}

CancelAllowedOnce(r, reason) ==
  ~r.revenueReleased /\ r.status \notin {"None", "Cancelled"}

CancelAllowed(r, reason) ==
  /\ ~r.revenueReleased
  /\ r.status \in IF reason = "organizer_cancelled"
                    THEN {"Funding", "Funded", "Ticketing"}
                    ELSE {"Ticketing"}

CancelEvent(c, e, reason) ==
  /\ OrganizerOrAdmin(c, e)
  /\ CancelAllowed(ev[e], reason)
  /\ ev' = [ev EXCEPT ![e] = Cancelled(@)]
  /\ UNCHANGED <<userVars, nextEventId, wiringVars, balance, now, rewardReserve>>

-----------------------------------------------------------------------------
(* Ticketing and completion.                                               *)

\* startTicketing is startTicketingWithPrice with batchPrice = 0.
EffectivePrice(e, batchPrice) ==
  IF batchPrice = 0 THEN ev[e].ticketPrice ELSE batchPrice

MayMint(r, quantity) ==
  /\ r.status \in {"Funded", "Ticketing"}
  /\ r.sharesFinalized
  /\ quantity > 0
  /\ r.totalMinted + quantity <= r.maxTickets

\* ticket.mintBatch(organizer, e, EffectivePrice(e, batchPrice), ...) is the
\* Ticket contract's half of the transaction.
StartTicketing(c, e, quantity) ==
  /\ OrganizerOrAdmin(c, e)
  /\ ticketSet
  /\ MayMint(ev[e], quantity)
  /\ ev' = [ev EXCEPT ![e].totalMinted = @ + quantity, ![e].status = "Ticketing"]
  /\ UNCHANGED <<userVars, nextEventId, wiringVars, balance, now, rewardReserve>>

\* used >= 36% of sold, rounded up.
ThresholdMet(sold, used) ==
  /\ sold > 0
  /\ used >= (sold * COMPLETION_BPS + (BPS_DENOM - 1)) \div BPS_DENOM

\* sold and used are what ticket.getUsageStats returns.
SetCompletedIfThresholdMet(c, e, sold, used) ==
  /\ OrganizerOrAdmin(c, e)
  /\ ticketSet
  /\ ev[e].status = "Ticketing"
  /\ ThresholdMet(sold, used)
  /\ ev' = [ev EXCEPT ![e].status = "Completed"]
  /\ UNCHANGED <<userVars, nextEventId, wiringVars, balance, now, rewardReserve>>

-----------------------------------------------------------------------------
(* Releasing revenue and claiming rewards.                                 *)

MayReleaseRefunding(r) ==
  r.sharesFinalized /\ ~r.revenueReleased /\ r.status = "Completed" /\ r.escrowedRevenue > 0

MayRelease(r) ==
  /\ r.sharesFinalized
  /\ ~r.revenueReleased
  /\ r.status = "Completed"
  /\ ~r.refundsEnabled
  /\ r.escrowedRevenue > 0

PlatformFee(r) == (r.escrowedRevenue * PLATFORM_FEE_BPS) \div BPS_DENOM

OrganizerShare(r) ==
  LET afterFee == r.escrowedRevenue - PlatformFee(r) IN
  IF ~r.investmentEnabled \/ r.totalShares = 0
    THEN afterFee
    ELSE (afterFee * r.organizerShareBps) \div BPS_DENOM

DonatorPool(r) == r.escrowedRevenue - PlatformFee(r) - OrganizerShare(r)

RewardPerShare(pool, shares) ==
  IF pool = 0 THEN 0 ELSE (pool * REWARD_SCALE) \div shares

ReleaseRevenue(c, e) ==
  LET r == ev[e] IN
  /\ OrganizerOrAdmin(c, e)
  /\ ticketSet
  /\ MayRelease(r)
  /\ CanPay(Admin, PlatformFee(r))
  /\ CanPay(r.organizer, OrganizerShare(r))
  /\ PlatformFee(r) + OrganizerShare(r) <= balance
  /\ balance' = balance - (PlatformFee(r) + OrganizerShare(r))
  /\ ev' = [ev EXCEPT
              ![e].escrowedRevenue = 0,
              ![e].revenueReleased = TRUE,
              ![e].accRewardPerShare = @ + RewardPerShare(DonatorPool(r), r.totalShares)]
  /\ rewardReserve' = [rewardReserve EXCEPT ![e] = @ + DonatorPool(r)]
  /\ UNCHANGED <<userVars, nextEventId, wiringVars, now>>

ClaimReward(c, e) ==
  /\ Exists(e)
  /\ PendingReward(e, c) > 0
  /\ Pay(c, PendingReward(e, c))
  /\ pending' = [pending EXCEPT ![e][c] = 0]
  /\ rewardDebt' = [rewardDebt EXCEPT ![e][c] = Accumulated(e, c)]
  /\ rewardReserve' = [rewardReserve EXCEPT ![e] = @ - PendingReward(e, c)]
  /\ UNCHANGED <<ev, shareOf, nextEventId, wiringVars, now>>

-----------------------------------------------------------------------------
(* Refunds, stake and penalties.                                           *)

MayRefundTickets(r) ==
  /\ r.sharesFinalized
  /\ ~r.revenueReleased
  /\ r.status \in {"Ticketing", "Completed"}

RefundTickets(c, e) ==
  /\ OrganizerOrAdmin(c, e)
  /\ ticketSet
  /\ MayRefundTickets(ev[e])
  /\ ev' = [ev EXCEPT ![e].refundPool = @ + ev[e].escrowedRevenue,
                      ![e].escrowedRevenue = 0,
                      ![e].refundsEnabled = TRUE]
  /\ UNCHANGED <<userVars, nextEventId, wiringVars, balance, now, rewardReserve>>

\* claimContributionRefund by the donator, claimContributionRefundFor by anyone.
ClaimContributionRefund(e, u) ==
  LET amount == shareOf[e][u] IN
  /\ ev[e].status = "Cancelled"
  /\ amount > 0
  /\ Pay(u, amount)
  /\ shareOf' = [shareOf EXCEPT ![e][u] = 0]
  /\ rewardDebt' = [rewardDebt EXCEPT ![e][u] = 0]
  /\ pending' = [pending EXCEPT ![e][u] = 0]
  /\ ev' = [ev EXCEPT ![e].totalShares = IF @ >= amount THEN @ - amount ELSE 0]
  /\ UNCHANGED <<nextEventId, wiringVars, now, rewardReserve>>

MayWithdrawStake(r) ==
  /\ r.status = "Completed"
  /\ r.revenueReleased \/ r.refundsEnabled

WithdrawStake(c, e) ==
  /\ OrganizerOrAdmin(c, e)
  /\ MayWithdrawStake(ev[e])
  /\ ev[e].organizerStakeLocked > 0
  /\ Pay(ev[e].organizer, ev[e].organizerStakeLocked)
  /\ ev' = [ev EXCEPT ![e].organizerStakeLocked = 0]
  /\ UNCHANGED <<userVars, nextEventId, wiringVars, now, rewardReserve>>

\* Called by Ticket; amount is ticket.getTicketPrice(tokenId).
ClaimTicketRefund(e, amount, to) ==
  /\ ticketSet
  /\ Exists(e)
  /\ ev[e].refundsEnabled
  /\ amount > 0
  /\ amount <= ev[e].refundPool
  /\ Pay(to, amount)
  /\ ev' = [ev EXCEPT ![e].refundPool = @ - amount]
  /\ UNCHANGED <<userVars, nextEventId, wiringVars, now, rewardReserve>>

PenaltyRateUnchecked(penaltyBps) == TRUE

PenaltyRateValid(penaltyBps) == penaltyBps <= BPS_DENOM

ApplyPenalty(e, penaltyBps) ==
  LET amount == (ev[e].organizerStakeLocked * penaltyBps) \div BPS_DENOM IN
  /\ Exists(e)
  /\ PenaltyRateValid(penaltyBps)
  /\ amount > 0
  /\ ev' = [ev EXCEPT ![e].organizerStakeLocked = @ - amount,
                      ![e].refundPool = @ + amount]
  /\ UNCHANGED <<userVars, nextEventId, wiringVars, balance, now, rewardReserve>>

-----------------------------------------------------------------------------
(* Deposits.                                                               *)

\* Called by Ticket.
DepositTicketRevenue(e, v) ==
  /\ ticketSet
  /\ Exists(e)
  /\ Receive(v)
  /\ ev' = [ev EXCEPT ![e].escrowedRevenue = @ + v]
  /\ UNCHANGED <<userVars, nextEventId, wiringVars, now, rewardReserve>>

\* Called by Marketplace.
DepositRoyalty(e, v) ==
  /\ marketplaceSet
  /\ Exists(e)
  /\ Receive(v)
  /\ ev' = [ev EXCEPT ![e].escrowedRevenue = @ + v]
  /\ UNCHANGED <<userVars, nextEventId, wiringVars, now, rewardReserve>>

DepositRefundPool(c, e, v) ==
  /\ OrganizerOrAdmin(c, e)
  /\ Receive(v)
  /\ ev' = [ev EXCEPT ![e].refundPool = @ + v]
  /\ UNCHANGED <<userVars, nextEventId, wiringVars, now, rewardReserve>>

-----------------------------------------------------------------------------
(* The contract in an open environment: Ticket and Marketplace may pass    *)
(* any amounts.                                                            *)

LifecycleStep(c, e) ==
  \/ FinalizeFunding(c, e)
  \/ \E reason \in Reasons : CancelEvent(c, e, reason)
  \/ \E q \in Quantities : StartTicketing(c, e, q)
  \/ \E sold, used \in Quantities : SetCompletedIfThresholdMet(c, e, sold, used)
  \/ ReleaseRevenue(c, e)
  \/ RefundTickets(c, e)

MoneyStep(c, e) ==
  \/ \E v \in Amounts : Contribute(c, e, v)
  \/ ClaimReward(c, e)
  \/ ClaimContributionRefund(e, c)
  \/ WithdrawStake(c, e)
  \/ \E v \in Amounts : ClaimTicketRefund(e, v, c)
  \/ \E v \in TopUps : DepositRefundPool(c, e, v)

ContractStep(e) ==
  \/ \E p \in PenaltyRates : ApplyPenalty(e, p)
  \/ \E v \in Amounts : DepositTicketRevenue(e, v)
  \/ \E v \in Amounts : DepositRoyalty(e, v)

Next ==
  \/ SetTicketContract
  \/ SetMarketplaceContract
  \/ Tick
  \/ \E v \in Gifts : ReceiveEther(v)
  \/ \E c \in Accounts, a \in CreateArgs, v \in Amounts : CreateEvent(c, a, v)
  \/ \E c \in Accounts, e \in Events : LifecycleStep(c, e) \/ MoneyStep(c, e)
  \/ \E e \in Events : ContractStep(e)

Spec == Init /\ [][Next]_vars

-----------------------------------------------------------------------------
(* Properties.                                                             *)

TypeOK ==
  /\ ev \in [Events -> EventConfig]
  /\ shareOf \in [Events -> [Accounts -> Nat]]
  /\ rewardDebt \in [Events -> [Accounts -> Nat]]
  /\ pending \in [Events -> [Accounts -> Nat]]
  /\ nextEventId \in Nat \ {0}
  /\ ticketSet \in BOOLEAN
  /\ marketplaceSet \in BOOLEAN
  /\ balance \in Nat
  /\ now \in Nat
  /\ rewardReserve \in [Events -> Int]

\* The ether the contract holds for event e: stake, ticket money, refund pool,
\* contributions not refunded, and rewards released but not claimed.
Held(e) ==
  ev[e].organizerStakeLocked + ev[e].escrowedRevenue + ev[e].refundPool
    + ev[e].totalShares + rewardReserve[e]

\* Every wei the books of any event promise is in the contract's one balance:
\* no sequence of releases, refunds, penalties and withdrawals of one event
\* spends what another event holds.
Solvent == balance >= SumOver([e \in Events |-> Held(e)], Events)

\* The rewards the donators of an event can still claim never exceed what its
\* release left for them, whatever the rounding of accRewardPerShare and in
\* whatever order they claim.
RewardsBacked ==
  \A e \in Events :
    SumOver([u \in Accounts |-> PendingReward(e, u)], Accounts) <= rewardReserve[e]

\* totalShares, the divisor of every reward, is the sum of the shares the
\* donators hold, through contributions and refunds.
SharesAddUp ==
  \A e \in Events : ev[e].totalShares = SumOver(shareOf[e], Accounts)

\* Once revenue was released refunds are never enabled and vice versa: the same
\* ticket money is never promised to the organizer and to the ticket holders.
SettlementExclusive ==
  \A e \in Events : ~(ev[e].revenueReleased /\ ev[e].refundsEnabled)

\* A cancelled event owes each donator what she put in, so nothing of it was
\* released and no reward, claimable or reserved, is left on it.
CancelledNeverReleased ==
  \A e \in Events : ev[e].status = "Cancelled" =>
     /\ ~ev[e].revenueReleased
     /\ rewardReserve[e] = 0
     /\ \A u \in Accounts : PendingReward(e, u) = 0

\* After the shares of an event are finalized nobody gains or loses a share,
\* except a donator of a cancelled event who is paid back all of hers.
SharesFrozen ==
  [][\A e \in Events, u \in Accounts :
       ev[e].sharesFinalized /\ shareOf'[e][u] # shareOf[e][u] =>
         /\ ev[e].status = "Cancelled"
         /\ shareOf'[e][u] = 0
         /\ balance' = balance - shareOf[e][u]]_vars

\* Fund keeps the promise of EventLifecycle.  A state with both flags set has
\* no abstract image.
SettlementOf(r) ==
  CASE r.revenueReleased /\ ~r.refundsEnabled -> "released"
    [] r.refundsEnabled /\ ~r.revenueReleased -> "refunding"
    [] ~r.refundsEnabled /\ ~r.revenueReleased -> "open"
    [] OTHER -> "conflict"

Lifecycle == INSTANCE EventLifecycle
  WITH phase <- [e \in Events |-> ev[e].status],
       settlement <- [e \in Events |-> SettlementOf(ev[e])]

ImplementsLifecycle == Lifecycle!Spec
=============================================================================
