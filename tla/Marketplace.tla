----------------------------- MODULE Marketplace -----------------------------
(***************************************************************************)
(* contracts/contracts/Marketplace.sol: the secondary market.  A listed    *)
(* ticket is held by the contract until it is bought or the listing is     *)
(* cancelled.  What Ticket answers about a token is a parameter here;      *)
(* module Platform supplies it together with the token transfer of the     *)
(* same transaction.  The constructor wires the one Ticket contract for   *)
(* good and a Fund the owner may replace; no ether stays in the contract.  *)
(***************************************************************************)
EXTENDS Naturals

CONSTANTS
  Accounts, Admin, Rejecting, NoAccount,
  MaxTokens,
  MaxListings,    \* bound: listings created
  ListingPrices,  \* the prices sellers ask
  RoyaltyRates,   \* the royaltyBps values the owner sets
  FundContract,   \* the address of Fund, given to the constructor
  FundTargets,    \* bound: the addresses the owner gives setFundContract
  InitialRoyalty,
  BPS_DENOM,
  PRICE_CAP_NUMERATOR, PRICE_CAP_DENOMINATOR

VARIABLES
  listings,        \* _listings: [Listings -> Listing]
  listingCounter,
  activeListing,   \* _activeListingByTokenId: [Tokens -> Listings \cup {0}]
  royaltyBps,
  fundContract

marketVars == <<listings, listingCounter, activeListing, royaltyBps, fundContract>>

-----------------------------------------------------------------------------
Tokens == 1 .. MaxTokens
Listings == 1 .. MaxListings

Listing ==
  [tokenId: Tokens \cup {0}, seller: Accounts \cup {NoAccount}, price: Nat,
   status: {"None", "Active", "Sold", "Cancelled"}]

\* The zero value of the code's ListingStatus is Active; an id nobody listed
\* names token 0, which no mint creates, so every call on it reverts.
NoListing == [tokenId |-> 0, seller |-> NoAccount, price |-> 0, status |-> "None"]

Init ==
  /\ listings = [l \in Listings |-> NoListing]
  /\ listingCounter = 0
  /\ activeListing = [t \in Tokens |-> 0]
  /\ royaltyBps = InitialRoyalty
  /\ fundContract = FundContract

Royalty(l) == (listings[l].price * royaltyBps) \div BPS_DENOM

RoyaltyRateUnchecked(bps) == TRUE

RoyaltyRateValid(bps) == bps <= BPS_DENOM

SetRoyaltyBps(bps) ==
  /\ RoyaltyRateValid(bps)
  /\ royaltyBps' = bps
  /\ UNCHANGED <<listings, listingCounter, activeListing, fundContract>>

\* onlyOwner; any address but zero.
SetFundContract(f) ==
  /\ fundContract' = f
  /\ UNCHANGED <<listings, listingCounter, activeListing, royaltyBps>>

PriceAllowed(price, originalPrice) ==
  /\ price > 0
  /\ price <= (originalPrice * PRICE_CAP_NUMERATOR) \div PRICE_CAP_DENOMINATOR

\* owner, transferable and originalPrice are Ticket's ownerOf, isTransferable
\* and getTicketPrice of the token.
CreateListing(c, t, price, owner, transferable, originalPrice) ==
  LET id == listingCounter + 1 IN
  /\ owner = c
  /\ activeListing[t] = 0
  /\ transferable
  /\ PriceAllowed(price, originalPrice)
  /\ id \in Listings
  /\ listingCounter' = id
  /\ listings' = [listings EXCEPT ![id] =
       [tokenId |-> t, seller |-> c, price |-> price, status |-> "Active"]]
  /\ activeListing' = [activeListing EXCEPT ![t] = id]
  /\ UNCHANGED <<royaltyBps, fundContract>>

CloseListingKeepsIndex(l, status) ==
  /\ listings[l].status = "Active"
  /\ listings' = [listings EXCEPT ![l].status = status]
  /\ UNCHANGED <<listingCounter, activeListing, royaltyBps, fundContract>>

\* Every end of a listing frees its token for the next one.
CloseListing(l, status) ==
  /\ listings[l].status = "Active"
  /\ listings' = [listings EXCEPT ![l].status = status]
  /\ activeListing' = [activeListing EXCEPT ![listings[l].tokenId] = 0]
  /\ UNCHANGED <<listingCounter, royaltyBps, fundContract>>

BuyListing(c, l) ==
  /\ c # listings[l].seller
  /\ listings[l].seller \notin Rejecting
  /\ CloseListing(l, "Sold")

CancelListing(c, l) ==
  /\ c = listings[l].seller
  /\ CloseListing(l, "Cancelled")

\* onlyOwner.
ForceCancelListing(l) == CloseListing(l, "Cancelled")

TypeOK ==
  /\ listings \in [Listings -> Listing]
  /\ listingCounter \in Nat
  /\ activeListing \in [Tokens -> Listings \cup {0}]
  /\ royaltyBps \in 0 .. BPS_DENOM
  /\ fundContract \in FundTargets \cup {FundContract}

Active(l) == listings[l].status = "Active"

\* The index of active listings and the listings agree: each token has at most
\* one active listing and the index names it.
IndexExact ==
  /\ \A l \in Listings : Active(l) => activeListing[listings[l].tokenId] = l
  /\ \A t \in Tokens : activeListing[t] # 0 =>
       /\ Active(activeListing[t])
       /\ listings[activeListing[t]].tokenId = t
=============================================================================
