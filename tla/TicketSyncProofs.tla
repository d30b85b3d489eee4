--------------------------- MODULE TicketSyncProofs ---------------------------
(***************************************************************************)
(* What module TicketSync keeps for every chain, every number of requests  *)
(* and failures and every policy of the processors: its type invariant,    *)
(* and that a ticket's document is healed by the confirmation of the last  *)
(* transaction (TicketHealed).                                             *)
(*                                                                         *)
(* Neither side of TicketHealed can be compared with the other directly:   *)
(* the chain and the writes of the requests are two sequences that share   *)
(* nothing but transactions.  The invariant therefore reads both the same  *)
(* way: the ticket at the end of a chain is what the last transaction of   *)
(* each kind made of it (Told), for every prefix of the chain, so that a   *)
(* reorganisation keeps it; and the document is what the last write of     *)
(* each kind made of it (DocInv), since no processor and no purchase       *)
(* touches a document that is there, but for its status.                   *)
(***************************************************************************)
EXTENDS TicketSync, FiniteSetTheorems, SequenceTheorems, WellFoundedInduction, TLAPS

Moves == ListingKinds \union {"buy"}
Later == (ListingKinds \union TicketKinds) \ {"mint"}

\* What a transaction leaves behind.
StatusBy(t) ==
  CASE Kind[t] = "use" -> "used" [] Kind[t] = "refund" -> "refunded" [] OTHER -> "sold"
OwnerBy(t) == IF t = NoTx THEN Organizer ELSE IF Kind[t] = "list" THEN Market ELSE By[t]
ListingBy(t) == IF t # NoTx /\ Kind[t] = "list" THEN Listing[t] ELSE NoListing

TxsOf(c) == [n \in DOMAIN c |-> c[n].tx]

\* The ticket at the end of a chain is what the last transaction of each kind
\* made of it.
Told(c) ==
  LET s == State(c) IN
  /\ LastOf(TxsOf(c), Later) # NoTx => s.status = StatusBy(LastOf(TxsOf(c), Later))
  /\ s.owner = OwnerBy(LastOf(TxsOf(c), Moves))
  /\ s.listing = ListingBy(LastOf(TxsOf(c), ListingKinds))

Block == [fork : Nat, tx : Txs \union {NoTx}, after : TicketState]
ChainOK(c) ==
  /\ c \in Seq(Block) /\ Len(c) <= MaxBlocks
  /\ \A n \in 0..Len(c) : Told(SubSeq(c, 1, n))
ChainInv == ChainOK(chain) /\ mined \subseteq Txs /\ forks \in Nat

\* The document has what the last confirmation of each kind made of it, and
\* while it is not there none was written.
Document == [status : Statuses, owner : Owners, listed : BOOLEAN]
DocInv ==
  /\ ticket \in Document
  /\ synced \in Seq(Txs \union {NoTx})
  /\ ticket.status = "none" => ticket = NoDocument /\ synced = <<>>
  /\ synced # <<>> /\ synced[Len(synced)] # NoTx => ticket.status = StatusBy(synced[Len(synced)])
  /\ ticket.owner = OwnerBy(LastOf(synced, Moves))
  /\ ticket.listed = (ListingBy(LastOf(synced, ListingKinds)) # NoListing)

ListingsInv == listings \in [Listings -> {"none", "active", "sold", "cancelled"}]

Row == [block : 1..MaxBlocks, fork : Nat, tx : Txs]
TicketMemory ==
  [at : {"sleep", "delete", "insert", "mint", "stats"}, last : 0..MaxBlocks, from : Nat,
   target : 0..MaxBlocks, logs : SUBSET Row, affected : BOOLEAN]
TProcInv == tproc \in TicketMemory

\* One row, and one saved hash, per block.
OnePerBlock(rs) == \A g, h \in rs : g.block = h.block => g = h
Hash == [block : 1..MaxBlocks, fork : Nat, listing : Listings]
MarketMemory ==
  [at : {"sleep", "read", "log", "rebuild", "replay"}, last : 0..MaxBlocks, from : Nat,
   target : 0..MaxBlocks, logs : SUBSET ListingRows(Row), read : SUBSET ListingRows(Row),
   dead : SUBSET Listings, hashes : SUBSET Hash]
MProcInv ==
  /\ mproc \in MarketMemory
  /\ OnePerBlock(mproc.read)
  /\ OnePerBlock(mproc.hashes) /\ Cardinality(mproc.hashes) <= ReorgBuffer
  /\ mproc.at \in {"sleep", "read", "rebuild"} => mproc.logs = {}
  /\ mproc.at # "log" => mproc.read = {}
  /\ mproc.at = "sleep" => mproc.dead = {}

\* A request confirms a transaction, or refreshes a document that is there.
RequestType ==
  [at : {"new", "refused", "done", "ticket", "listing", "count", "lookup", "hydrate",
         "refresh", "upsert"},
   tx : Txs \union {NoTx}, listing : Listings \union {NoListing}, status : Statuses]
RequestOK(r) ==
  /\ r.at \in {"ticket", "listing"} => r.tx \in Txs /\ Kind[r.tx] # "mint"
  /\ r.at = "listing" => r.listing \in Listings
  /\ r.at \in {"lookup", "refresh"} => ticket.status # "none"
  /\ r.at = "refresh" => r.status \notin {"none", "minted"}
ReqsInv == reqs \in [Requests -> RequestType] /\ \A q \in Requests : RequestOK(reqs[q])

IInv == ChainInv /\ DocInv /\ ListingsInv /\ TProcInv /\ MProcInv /\ ReqsInv

-----------------------------------------------------------------------------
LEMMA ConstantsType ==
  /\ NoTx \notin Txs /\ NoListing \notin Listings
  /\ Kind \in [Txs -> TicketKinds \union ListingKinds] /\ By \in [Txs -> Users]
  /\ \A t \in Txs : Kind[t] \in ListingKinds => Listing[t] \in Listings
  /\ MaxBlocks \in Nat /\ MaxReorgs \in Nat /\ MaxFaults \in Nat
  /\ Confirmations \in Nat /\ ReorgBuffer \in Nat /\ ChunkSize \in Nat /\ ChunkSize > 0
<1>1. \A k \in {MaxBlocks, MaxReorgs, MaxFaults} : k \in Nat
  BY TicketSyncAssumption DEF TicketSyncAssumption
<1>2. MaxBlocks \in Nat /\ MaxReorgs \in Nat /\ MaxFaults \in Nat
  BY <1>1
<1>3. /\ NoTx \notin Txs /\ NoListing \notin Listings
      /\ Kind \in [Txs -> TicketKinds \union ListingKinds] /\ By \in [Txs -> Users]
      /\ \A t \in Txs : Kind[t] \in ListingKinds => Listing[t] \in Listings
  BY TicketSyncAssumption DEF TicketSyncAssumption
<1>4. Confirmations \in Nat /\ ReorgBuffer \in Nat /\ ChunkSize \in Nat /\ ChunkSize > 0
  BY ReorgPolicyAssumption DEF ReorgPolicyAssumption
<1> QED
  BY <1>2, <1>3, <1>4

\* A set has an element with the smallest of its numbers.
LEMMA Smallest ==
  ASSUME NEW S, S # {}, NEW f, \A s \in S : f[s] \in Nat
  PROVE  \E m \in S : \A s \in S : f[m] <= f[s]
<1> DEFINE N == {f[s] : s \in S}
<1>1. N \subseteq Nat /\ N # {}
  OBVIOUS
<1>2. PICK x \in N : \A y \in N : ~(<<y, x>> \in OpToRel(<, Nat))
  <2> HIDE DEF N
  <2> QED
    BY <1>1, NatLessThanWellFounded, WFMin, Zenon
<1>3. PICK m \in S : x = f[m]
  OBVIOUS
<1>4. \A s \in S : f[m] <= f[s]
  <2> SUFFICES ASSUME NEW s \in S
               PROVE  f[m] <= f[s]
    OBVIOUS
  <2>1. f[s] \in N /\ f[s] \in Nat /\ x \in Nat
    BY <1>1
  <2>2. ~(f[s] < x)
    BY <1>2, <2>1 DEF OpToRel
  <2> QED
    BY <1>3, <2>1, <2>2
<1> QED
  BY <1>4

\* There is a next log while logs are left.
LEMMA FirstIsOne ==
  ASSUME NEW rs \in SUBSET Row, rs # {}
  PROVE  First(rs) \in rs
<1> DEFINE block == [r \in rs |-> r.block]
<1>1. \A r \in rs : block[r] \in Nat
  BY ConstantsType DEF Row
<1>2. \E b \in rs : \A r \in rs : block[b] <= block[r]
  <2> HIDE DEF block
  <2> QED
    BY <1>1, Smallest
<1> QED
  BY <1>2 DEF First

-----------------------------------------------------------------------------
(* The last transaction of some kinds.                                     *)

\* A set of positions of a sequence has a last one.
LEMMA Largest ==
  ASSUME NEW k \in Nat, NEW ns \in SUBSET (1..k), ns # {}
  PROVE  \E n \in ns : \A m \in ns : m <= n
<1> DEFINE back == [n \in ns |-> k - n]
<1>1. \A n \in ns : back[n] \in Nat
  OBVIOUS
<1>2. PICK n \in ns : \A m \in ns : back[n] <= back[m]
  <2> HIDE DEF back
  <2> QED
    BY <1>1, Smallest
<1>3. \A m \in ns : m <= n
  <2> SUFFICES ASSUME NEW m \in ns
               PROVE  m <= n
    OBVIOUS
  <2>1. k - n <= k - m /\ m \in Nat /\ n \in Nat
    BY <1>2
  <2> QED
    BY <2>1
<1> QED
  BY <1>3

Positions(ts, kinds) == {n \in DOMAIN ts : ts[n] # NoTx /\ Kind[ts[n]] \in kinds}

\* It is there when one of these kinds is.
LEMMA LastIsOne ==
  ASSUME NEW ts \in Seq(Txs \union {NoTx}), NEW kinds, Positions(ts, kinds) # {}
  PROVE  \E n \in Positions(ts, kinds) :
           LastOf(ts, kinds) = ts[n] /\ \A k \in Positions(ts, kinds) : k <= n
<1> DEFINE ns == Positions(ts, kinds)
           n == CHOOSE m \in ns : \A k \in ns : k <= m
<1>1. ns \in SUBSET (1..Len(ts)) /\ ns # {} /\ Len(ts) \in Nat
  BY DEF Positions
<1>2. \E m \in ns : \A k \in ns : k <= m
  <2>1. PICK k \in Nat : ns \in SUBSET (1..k)
    BY <1>1
  <2> HIDE DEF ns
  <2> QED
    BY <1>1, <2>1, Largest
<1>3. n \in ns /\ \A k \in ns : k <= n
  <2> HIDE DEF ns
  <2> QED
    BY <1>2
<1>4. LastOf(ts, kinds) = ts[n]
  BY DEF LastOf, Positions
<1> QED
  BY <1>3, <1>4

LEMMA LastOfNone ==
  ASSUME NEW ts, NEW kinds, Positions(ts, kinds) = {}
  PROVE  LastOf(ts, kinds) = NoTx
BY DEF LastOf, Positions

\* It is a transaction of these kinds.
LEMMA LastOfKind ==
  ASSUME NEW ts \in Seq(Txs \union {NoTx}), NEW kinds, LastOf(ts, kinds) # NoTx
  PROVE  LastOf(ts, kinds) \in Txs /\ Kind[LastOf(ts, kinds)] \in kinds
<1>1. Positions(ts, kinds) # {}
  BY LastOfNone
<1>2. PICK n \in Positions(ts, kinds) : LastOf(ts, kinds) = ts[n]
  BY <1>1, LastIsOne
<1> QED
  BY <1>2 DEF Positions

\* One more transaction is the last, or leaves the last what it was.
LEMMA LastOfAppend ==
  ASSUME NEW ts \in Seq(Txs \union {NoTx}), NEW t \in Txs \union {NoTx}, NEW kinds
  PROVE  LastOf(Append(ts, t), kinds) =
           IF t # NoTx /\ Kind[t] \in kinds THEN t ELSE LastOf(ts, kinds)
<1> DEFINE us == Append(ts, t)
           last == Len(ts) + 1
<1>1. /\ us \in Seq(Txs \union {NoTx}) /\ DOMAIN us = 1..last /\ us[last] = t
      /\ Len(ts) \in Nat /\ DOMAIN ts = 1..Len(ts)
      /\ \A n \in 1..Len(ts) : us[n] = ts[n]
  BY AppendProperties
<1> HIDE DEF us
<1>2. CASE t # NoTx /\ Kind[t] \in kinds
  <2>1. last \in Positions(us, kinds)
    BY <1>1, <1>2 DEF Positions
  <2>2. PICK n \in Positions(us, kinds) :
          LastOf(us, kinds) = us[n] /\ \A k \in Positions(us, kinds) : k <= n
    BY <1>1, <2>1, LastIsOne
  <2>3. n \in 1..last /\ last <= n
    BY <1>1, <2>1, <2>2 DEF Positions
  <2>4. n = last
    BY <1>1, <2>3
  <2> QED
    BY <1>1, <1>2, <2>2, <2>4 DEF us
<1>3. CASE ~(t # NoTx /\ Kind[t] \in kinds)
  <2>1. Positions(us, kinds) = Positions(ts, kinds)
    BY <1>1, <1>3 DEF Positions
  <2>2. CASE Positions(ts, kinds) = {}
    BY <2>1, <2>2, <1>3, LastOfNone DEF us
  <2>3. CASE Positions(ts, kinds) # {}
    <3>1. PICK n \in Positions(us, kinds) :
            LastOf(us, kinds) = us[n] /\ \A k \in Positions(us, kinds) : k <= n
      BY <1>1, <2>1, <2>3, LastIsOne
    <3>2. PICK m \in Positions(ts, kinds) :
            LastOf(ts, kinds) = ts[m] /\ \A k \in Positions(ts, kinds) : k <= m
      BY <2>3, LastIsOne
    <3>3. n \in 1..Len(ts) /\ m \in 1..Len(ts) /\ n <= m /\ m <= n
      BY <1>1, <2>1, <3>1, <3>2 DEF Positions
    <3>4. n = m
      BY <1>1, <3>3
    <3> QED
      BY <1>1, <1>3, <3>1, <3>2, <3>3, <3>4 DEF us
  <2> QED
    BY <2>2, <2>3
<1> QED
  BY <1>2, <1>3

LEMMA LastOfNothing ==
  ASSUME NEW kinds
  PROVE  LastOf(<<>>, kinds) = NoTx
<1>1. Positions(<<>>, kinds) = {}
  BY DEF Positions
<1> QED
  BY <1>1, LastOfNone

-----------------------------------------------------------------------------
(* The chain.                                                              *)

\* A block more is a transaction more.
LEMMA TxsOfAppend ==
  ASSUME NEW c \in Seq(Block), NEW b \in Block
  PROVE  /\ TxsOf(c) \in Seq(Txs \union {NoTx})
         /\ TxsOf(Append(c, b)) = Append(TxsOf(c), b.tx)
         /\ State(Append(c, b)) = b.after
<1>1. /\ Append(c, b) \in Seq(Block) /\ Len(Append(c, b)) = Len(c) + 1
      /\ DOMAIN Append(c, b) = 1..(Len(c) + 1) /\ Append(c, b)[Len(c) + 1] = b
      /\ Len(c) \in Nat /\ DOMAIN c = 1..Len(c)
      /\ \A n \in 1..Len(c) : Append(c, b)[n] = c[n] /\ c[n] \in Block
  BY AppendProperties
<1>2. TxsOf(c) \in Seq(Txs \union {NoTx}) /\ Len(TxsOf(c)) = Len(c)
  <2>1. TxsOf(c) \in [1..Len(c) -> Txs \union {NoTx}]
    BY <1>1 DEF TxsOf, Block
  <2> QED
    BY <2>1, <1>1
<1>3. b.tx \in Txs \union {NoTx}
  BY DEF Block
<1>4. TxsOf(Append(c, b)) = Append(TxsOf(c), b.tx)
  <2> DEFINE more == Append(TxsOf(c), b.tx)
  <2>1. /\ DOMAIN more = 1..(Len(c) + 1) /\ more[Len(c) + 1] = b.tx
        /\ \A n \in 1..Len(c) : more[n] = TxsOf(c)[n]
        /\ more \in Seq(Txs \union {NoTx})
    BY <1>1, <1>2, <1>3, AppendProperties
  <2> HIDE DEF more
  <2>2. \A n \in 1..(Len(c) + 1) : more[n] = Append(c, b)[n].tx
    <3> SUFFICES ASSUME NEW n \in 1..(Len(c) + 1)
                 PROVE  more[n] = Append(c, b)[n].tx
      OBVIOUS
    <3>1. CASE n \in 1..Len(c)
      BY <1>1, <2>1, <3>1 DEF TxsOf
    <3>2. CASE n = Len(c) + 1
      BY <1>1, <2>1, <3>2
    <3> QED
      BY <1>1, <3>1, <3>2
  <2>3. more = [n \in 1..(Len(c) + 1) |-> more[n]]
    BY <2>1
  <2> QED
    BY <1>1, <2>2, <2>3 DEF more, TxsOf
<1>5. State(Append(c, b)) = b.after
  BY <1>1 DEF State
<1> QED
  BY <1>2, <1>4, <1>5

LEMMA StateType ==
  ASSUME NEW c \in Seq(Block)
  PROVE  State(c) \in TicketState
<1>1. CASE c = <<>>
  BY <1>1 DEF State, Unminted, TicketState, Statuses, Owners
<1>2. CASE c # <<>>
  <2>1. c[Len(c)] \in Block
    BY <1>2
  <2> QED
    BY <1>2, <2>1 DEF State, Block
<1> QED
  BY <1>1, <1>2

\* What a transaction does to a ticket.
LEMMA AfterOne ==
  ASSUME NEW s \in TicketState, NEW t \in Txs
  PROVE  /\ After(s, t) \in TicketState
         /\ t # NoTx
         /\ Kind[t] = "mint" => After(s, t) = [s EXCEPT !.status = "minted"]
         /\ Kind[t] \in {"buy", "use", "refund"} => After(s, t).status = StatusBy(t)
         /\ Kind[t] \in ListingKinds => After(s, t).status = s.status
         /\ Kind[t] \in Moves => After(s, t).owner = OwnerBy(t)
         /\ Kind[t] \notin Moves => After(s, t).owner = s.owner
         /\ Kind[t] \in ListingKinds => After(s, t).listing = ListingBy(t)
         /\ Kind[t] \notin ListingKinds => After(s, t).listing = s.listing
<1>1. t # NoTx /\ Kind[t] \in TicketKinds \union ListingKinds /\ By[t] \in Owners
  BY ConstantsType DEF Owners
<1>2. Kind[t] \in ListingKinds => Listing[t] \in Listings
  BY ConstantsType
<1>3. CASE Kind[t] = "mint"
  BY <1>1, <1>3 DEF After, TicketState, Statuses, Moves, ListingKinds
<1>4. CASE Kind[t] = "buy"
  BY <1>1, <1>4 DEF After, TicketState, Statuses, Moves, ListingKinds, StatusBy, OwnerBy
<1>5. CASE Kind[t] = "use"
  BY <1>1, <1>5 DEF After, TicketState, Statuses, Moves, ListingKinds, StatusBy
<1>6. CASE Kind[t] = "refund"
  BY <1>1, <1>6 DEF After, TicketState, Statuses, Moves, ListingKinds, StatusBy
<1>7. CASE Kind[t] = "list"
  BY <1>1, <1>2, <1>7
     DEF After, TicketState, Statuses, Owners, Moves, ListingKinds, OwnerBy, ListingBy
<1>8. CASE Kind[t] \in {"sell", "unlist"}
  BY <1>1, <1>8 DEF After, TicketState, Statuses, Moves, ListingKinds, OwnerBy, ListingBy
<1> QED
  BY <1>1, <1>3, <1>4, <1>5, <1>6, <1>7, <1>8 DEF TicketKinds, ListingKinds

LEMMA BlocksType ==
  ASSUME NEW c \in Seq(Block), NEW fork \in Nat, NEW b \in Blocks(c, fork)
  PROVE  /\ b \in Block
         /\ b.after = After(State(c), b.tx)
         /\ b.tx # NoTx => b.tx \in Txs /\ Legal(c, b.tx)
<1>1. PICK t \in {u \in Txs : Legal(c, u)} \union {NoTx} :
        b = [fork |-> fork, tx |-> t, after |-> After(State(c), t)]
  BY DEF Blocks
<1>2. b.tx = t /\ b.after = After(State(c), t)
  BY <1>1
<1>3. After(State(c), t) \in TicketState
  <2>1. CASE t = NoTx
    BY <2>1, StateType DEF After
  <2>2. CASE t \in Txs
    BY <2>2, StateType, AfterOne
  <2> QED
    BY <2>1, <2>2
<1> QED
  BY <1>1, <1>2, <1>3 DEF Block

\* A legal block goes on telling what happened.
LEMMA ToldAppend ==
  ASSUME NEW c \in Seq(Block), Told(c), NEW fork \in Nat, NEW b \in Blocks(c, fork)
  PROVE  Told(Append(c, b))
<1> DEFINE s == State(c)
           t == b.tx
           Last(kinds) == LastOf(TxsOf(c), kinds)
           more == TxsOf(Append(c, b))
<1>1. /\ b \in Block /\ b.after = After(s, t) /\ t \in Txs \union {NoTx}
      /\ t # NoTx => t \in Txs /\ Legal(c, t)
  BY BlocksType DEF Block
<1>2. s \in TicketState
  BY StateType
<1>3. /\ State(Append(c, b)) = After(s, t)
      /\ \A kinds : LastOf(more, kinds) =
           IF t # NoTx /\ Kind[t] \in kinds THEN t ELSE Last(kinds)
  <2>1. TxsOf(c) \in Seq(Txs \union {NoTx}) /\ more = Append(TxsOf(c), t)
    BY <1>1, TxsOfAppend
  <2>2. State(Append(c, b)) = After(s, t)
    BY <1>1, TxsOfAppend
  <2>3. ASSUME NEW kinds
        PROVE  LastOf(Append(TxsOf(c), t), kinds) =
                 IF t # NoTx /\ Kind[t] \in kinds THEN t ELSE LastOf(TxsOf(c), kinds)
    <3>1. PICK u \in Txs \union {NoTx} : u = t
      BY <1>1
    <3> QED
      BY <2>1, <3>1, LastOfAppend
  <2> QED
    BY <2>1, <2>2, <2>3
<1>4. /\ Last(Later) # NoTx => s.status = StatusBy(Last(Later))
      /\ s.owner = OwnerBy(Last(Moves)) /\ s.listing = ListingBy(Last(ListingKinds))
  BY DEF Told
<1> DEFINE New(kinds) == LastOf(more, kinds)
           now == After(s, t)
<1>5. SUFFICES /\ New(Later) # NoTx => now.status = StatusBy(New(Later))
               /\ now.owner = OwnerBy(New(Moves))
               /\ now.listing = ListingBy(New(ListingKinds))
  BY <1>3 DEF Told
<1> HIDE DEF more, Last
<1>6. CASE t = NoTx
  BY <1>3, <1>4, <1>6 DEF After
<1>7. CASE t # NoTx
  <2>1. t \in Txs /\ Legal(c, t)
    BY <1>1, <1>7
  <2>2. now.owner = OwnerBy(New(Moves)) /\ now.listing = ListingBy(New(ListingKinds))
    <3> HIDE DEF s, t
    <3> QED
      BY <1>2, <1>3, <1>4, <2>1, AfterOne
  <2>3. CASE Kind[t] \in {"buy", "use", "refund"}
    <3>1. New(Later) = t
      BY <1>3, <1>7, <2>3 DEF Later, ListingKinds, TicketKinds
    <3>2. now.status = StatusBy(t)
      BY <1>2, <2>1, <2>3, AfterOne
    <3> QED
      BY <2>2, <3>1, <3>2
  <2>4. CASE Kind[t] \in ListingKinds
    <3>1. New(Later) = t
      BY <1>3, <1>7, <2>4 DEF Later, ListingKinds, TicketKinds
    <3>2. now.status = s.status
      BY <1>2, <2>1, <2>4, AfterOne
    <3>3. s.status = "sold"
      BY <2>1, <2>4 DEF Legal, ListingKinds
    <3>4. StatusBy(t) = "sold"
      BY <2>4 DEF StatusBy, ListingKinds
    <3> QED
      BY <2>2, <3>1, <3>2, <3>3, <3>4
  <2>5. CASE Kind[t] = "mint"
    <3>1. s.status = "none"
      BY <2>1, <2>5 DEF Legal
    <3>2. New(Later) = Last(Later)
      BY <1>3, <2>5 DEF Later
    <3>3. Last(Later) = NoTx
      BY <1>4, <3>1 DEF StatusBy
    <3> QED
      BY <2>2, <3>2, <3>3
  <2> QED
    BY <2>1, <2>3, <2>4, <2>5, ConstantsType DEF TicketKinds
<1> QED
  BY <1>6, <1>7

\* Prefixes of chains.
LEMMA Prefix ==
  ASSUME NEW c \in Seq(Block), NEW n \in 0..Len(c)
  PROVE  /\ SubSeq(c, 1, n) \in Seq(Block) /\ Len(SubSeq(c, 1, n)) = n
         /\ \A i \in 1..n : SubSeq(c, 1, n)[i] = c[i]
<1>1. Len(c) \in Nat /\ \A i \in 1..Len(c) : c[i] \in Block
  OBVIOUS
<1>2. PICK k \in Nat : k = n
  BY <1>1
<1>3. \A i \in 1..k : c[i] \in Block
  BY <1>1, <1>2
<1>4. /\ SubSeq(c, 1, k) \in Seq(Block) /\ Len(SubSeq(c, 1, k)) = IF 1 <= k THEN k - 1 + 1 ELSE 0
      /\ \A i \in 1..(k - 1 + 1) : SubSeq(c, 1, k)[i] = c[1 + i - 1]
  BY <1>3, SubSeqProperties
<1>5. \A i \in 1..k : SubSeq(c, 1, k)[i] = c[i]
  BY <1>4
<1> QED
  BY <1>2, <1>4, <1>5

LEMMA PrefixOfAppend ==
  ASSUME NEW c \in Seq(Block), NEW b \in Block, NEW n \in 0..Len(c)
  PROVE  SubSeq(Append(c, b), 1, n) = SubSeq(c, 1, n)
<1>1. /\ Append(c, b) \in Seq(Block) /\ Len(Append(c, b)) = Len(c) + 1 /\ Len(c) \in Nat
      /\ \A i \in 1..Len(c) : Append(c, b)[i] = c[i]
  BY AppendProperties
<1>2. n \in 0..Len(Append(c, b))
  BY <1>1
<1> DEFINE s == SubSeq(Append(c, b), 1, n)
           t == SubSeq(c, 1, n)
<1>3. s \in Seq(Block) /\ Len(s) = n /\ \A i \in 1..n : s[i] = Append(c, b)[i]
  BY <1>1, <1>2, Prefix
<1>4. t \in Seq(Block) /\ Len(t) = n /\ \A i \in 1..n : t[i] = c[i]
  BY Prefix
<1> HIDE DEF s, t
<1>5. \A i \in 1..n : s[i] = t[i]
  BY <1>1, <1>3, <1>4
<1> QED
  BY <1>3, <1>4, <1>5, SeqEqual DEF s, t

LEMMA PrefixOfPrefix ==
  ASSUME NEW c \in Seq(Block), NEW k \in 0..Len(c), NEW n \in 0..k
  PROVE  SubSeq(SubSeq(c, 1, k), 1, n) = SubSeq(c, 1, n)
<1> DEFINE d == SubSeq(c, 1, k)
           s == SubSeq(d, 1, n)
           t == SubSeq(c, 1, n)
<1>1. d \in Seq(Block) /\ Len(d) = k /\ \A i \in 1..k : d[i] = c[i]
  BY Prefix
<1> HIDE DEF d
<1>2. s \in Seq(Block) /\ Len(s) = n /\ \A i \in 1..n : s[i] = d[i]
  BY <1>1, Prefix
<1>3. t \in Seq(Block) /\ Len(t) = n /\ \A i \in 1..n : t[i] = c[i]
  <2>1. n \in 0..Len(c)
    OBVIOUS
  <2> QED
    BY <2>1, Prefix
<1> HIDE DEF s, t
<1>4. \A i \in 1..n : s[i] = t[i]
  BY <1>1, <1>2, <1>3
<1> QED
  BY <1>2, <1>3, <1>4, SeqEqual DEF d, s, t

LEMMA PrefixNext ==
  ASSUME NEW c \in Seq(Block), NEW n \in 1..Len(c)
  PROVE  SubSeq(c, 1, n) = Append(SubSeq(c, 1, n - 1), c[n])
<1> DEFINE d == SubSeq(c, 1, n - 1)
           s == SubSeq(c, 1, n)
           t == Append(d, c[n])
<1>1. n - 1 \in 0..Len(c) /\ n \in 0..Len(c) /\ n \in Nat
  OBVIOUS
<1>2. d \in Seq(Block) /\ Len(d) = n - 1 /\ \A i \in 1..(n - 1) : d[i] = c[i]
  BY <1>1, Prefix
<1>3. s \in Seq(Block) /\ Len(s) = n /\ \A i \in 1..n : s[i] = c[i]
  BY <1>1, Prefix
<1> HIDE DEF d
<1>4. /\ t \in Seq(Block) /\ Len(t) = n /\ t[n] = c[n]
      /\ \A i \in 1..(n - 1) : t[i] = d[i]
  BY <1>1, <1>2, AppendProperties
<1> HIDE DEF s, t
<1>5. \A i \in 1..n : s[i] = t[i]
  BY <1>1, <1>2, <1>3, <1>4
<1> QED
  BY <1>3, <1>4, <1>5, SeqEqual DEF d, s, t

LEMMA ToldNothing == Told(<<>>)
<1>1. TxsOf(<<>>) = <<>>
  BY DEF TxsOf
<1>2. State(<<>>) = Unminted
  BY DEF State
<1> QED
  BY <1>1, <1>2, LastOfNothing DEF Told, Unminted, OwnerBy, ListingBy

LEMMA ChainGrown ==
  ASSUME NEW c, ChainOK(c), Len(c) < MaxBlocks, NEW fork \in Nat, NEW b \in Blocks(c, fork)
  PROVE  ChainOK(Append(c, b))
<1>1. c \in Seq(Block) /\ Len(c) \in Nat /\ \A n \in 0..Len(c) : Told(SubSeq(c, 1, n))
  BY DEF ChainOK
<1>2. b \in Block
  BY <1>1, BlocksType
<1>3. Append(c, b) \in Seq(Block) /\ Len(Append(c, b)) = Len(c) + 1
  BY <1>1, <1>2, AppendProperties
<1>4. ASSUME NEW n \in 0..(Len(c) + 1)
      PROVE  Told(SubSeq(Append(c, b), 1, n))
  <2>1. CASE n \in 0..Len(c)
    BY <1>1, <1>2, <2>1, PrefixOfAppend
  <2>2. CASE n = Len(c) + 1
    <3>1. SubSeq(Append(c, b), 1, n) = Append(c, b)
      BY <1>3, <2>2, SubSeqFull
    <3>2. SubSeq(c, 1, Len(c)) = c
      BY <1>1, SubSeqFull
    <3>3. Told(c)
      <4>1. Len(c) \in 0..Len(c)
        BY <1>1
      <4>2. Told(SubSeq(c, 1, Len(c)))
        BY <1>1, <4>1
      <4> QED
        BY <3>2, <4>2
    <3> QED
      BY <1>1, <3>1, <3>3, ToldAppend
  <2> QED
    BY <1>1, <2>1, <2>2
<1> QED
  BY <1>1, <1>3, <1>4, ConstantsType DEF ChainOK

LEMMA ChainCut ==
  ASSUME NEW c, ChainOK(c), NEW k \in 0..Len(c)
  PROVE  ChainOK(SubSeq(c, 1, k)) /\ Len(SubSeq(c, 1, k)) = k
<1>1. c \in Seq(Block) /\ Len(c) \in Nat /\ Len(c) <= MaxBlocks
  BY DEF ChainOK
<1>2. SubSeq(c, 1, k) \in Seq(Block) /\ Len(SubSeq(c, 1, k)) = k
  BY <1>1, Prefix
<1>3. ASSUME NEW n \in 0..k
      PROVE  Told(SubSeq(SubSeq(c, 1, k), 1, n))
  <2>1. n \in 0..Len(c)
    BY <1>1
  <2> QED
    BY <1>1, <2>1, PrefixOfPrefix DEF ChainOK
<1> QED
  BY <1>1, <1>2, <1>3, ConstantsType DEF ChainOK

\* What was mined before the backend started is such a chain.
LEMMA PastOK ==
  ASSUME NEW p \in Pasts
  PROVE  ChainOK(p)
<1>1. /\ p \in Seq([fork : {0}, tx : Txs \union {NoTx}, after : TicketState])
      /\ Len(p) <= MaxBlocks
      /\ \A n \in DOMAIN p : p[n] \in Blocks(SubSeq(p, 1, n - 1), 0)
  BY PastsAssumption
<1>2. p \in Seq(Block) /\ Len(p) \in Nat /\ DOMAIN p = 1..Len(p)
  <2> DEFINE Old == [fork : {0}, tx : Txs \union {NoTx}, after : TicketState]
  <2>1. Old \subseteq Block /\ p \in Seq(Old)
    BY <1>1 DEF Block
  <2> HIDE DEF Old
  <2>2. p \in [1..Len(p) -> Block] /\ Len(p) \in Nat
    BY <2>1
  <2> QED
    BY <2>2
<1> DEFINE Wrong == {n \in 0..Len(p) : ~Told(SubSeq(p, 1, n))}
<1>3. SUFFICES ASSUME Wrong # {}
               PROVE  FALSE
  BY <1>1, <1>2 DEF ChainOK
<1>4. PICK n \in Wrong : \A m \in Wrong : n <= m
  <2> DEFINE id == [m \in Wrong |-> m]
  <2>1. \A m \in Wrong : id[m] \in Nat
    BY <1>2
  <2>2. \E n \in Wrong : \A m \in Wrong : id[n] <= id[m]
    <3> HIDE DEF id, Wrong
    <3> QED
      BY <1>3, <2>1, Smallest
  <2> QED
    BY <2>2
<1>5. n \in Nat /\ n <= Len(p) /\ ~Told(SubSeq(p, 1, n))
  BY <1>2
<1>6. CASE n = 0
  <2>1. SubSeq(p, 1, n) = <<>>
    BY <1>6, SubSeqEmpty
  <2> QED
    BY <1>5, <2>1, ToldNothing
<1>7. CASE n # 0
  <2>1. n - 1 \in 0..Len(p) /\ n \in 1..Len(p)
    BY <1>2, <1>5, <1>7
  <2>2. Told(SubSeq(p, 1, n - 1))
    <3>1. n - 1 \notin Wrong
      BY <1>4, <1>5
    <3> QED
      BY <2>1, <3>1
  <2>3. SubSeq(p, 1, n - 1) \in Seq(Block)
    BY <1>2, <2>1, Prefix
  <2>4. p[n] \in Blocks(SubSeq(p, 1, n - 1), 0)
    BY <1>1, <1>2, <2>1
  <2>5. SubSeq(p, 1, n) = Append(SubSeq(p, 1, n - 1), p[n])
    BY <1>2, <2>1, PrefixNext
  <2>6. Told(Append(SubSeq(p, 1, n - 1), p[n]))
    BY <2>2, <2>3, <2>4, ToldAppend
  <2> QED
    BY <1>5, <2>5, <2>6
<1> QED
  BY <1>6, <1>7

\* Mine and Reorg put a legal block on a chain.
LEMMA ExtendKept ==
  ASSUME ChainInv, NEW c, ChainOK(c), Len(c) < MaxBlocks, NEW fork \in Nat, Extend(c, fork)
  PROVE  ChainOK(chain') /\ mined' \subseteq Txs
<1>1. PICK b \in Blocks(c, fork) :
        chain' = Append(c, b) /\ mined' = mined \union ({b.tx} \ {NoTx})
  BY DEF Extend
<1>2. ChainOK(Append(c, b))
  BY ChainGrown
<1>3. b.tx # NoTx => b.tx \in Txs
  BY BlocksType DEF ChainOK
<1> QED
  BY <1>1, <1>2, <1>3 DEF ChainInv

-----------------------------------------------------------------------------
(* The processors.                                                         *)

LEMMA PlanTypes ==
  ASSUME NEW h \in 0..MaxBlocks, NEW last \in 0..MaxBlocks
  PROVE  /\ ComputeTargetBlock(h) \in 0..h /\ ComputeTargetBlock(h) \in 0..MaxBlocks
         /\ ComputeRescanFromBlock(1, last) \in Nat
BY ConstantsType DEF ComputeTargetBlock, ComputeRescanFromBlock, Minus, AtLeast

LEMMA ChunkEnd ==
  ASSUME NEW from \in Nat, NEW target \in 0..MaxBlocks
  PROVE  CurrentTo(from, target) \in 0..MaxBlocks /\ CurrentTo(from, target) + 1 \in Nat
BY ConstantsType DEF CurrentTo, AtMost

\* ChainLog has one row per block, of the transactions of the chain.
LEMMA IndexedRows ==
  ASSUME ChainInv
  PROVE  Indexed \in SUBSET Row /\ OnePerBlock(Indexed)
<1>1. chain \in Seq(Block) /\ Len(chain) \in 0..MaxBlocks
  BY ConstantsType DEF ChainInv, ChainOK
<1>2. ComputeTargetBlock(Height) \in 0..Len(chain)
  BY <1>1, ConstantsType, PlanTypes DEF Height
<1>3. \A n \in 1..ComputeTargetBlock(Height) : n \in 1..MaxBlocks /\ chain[n] \in Block
  BY <1>1, <1>2, ConstantsType
<1>4. \A r \in Indexed :
        \E n \in 1..ComputeTargetBlock(Height) :
          /\ chain[n].tx # NoTx
          /\ r = [block |-> n, fork |-> chain[n].fork, tx |-> chain[n].tx]
  BY DEF Indexed
<1>5. \A r \in Indexed : r \in Row
  BY <1>3, <1>4 DEF Row, Block
<1>6. OnePerBlock(Indexed)
  BY <1>4 DEF OnePerBlock
<1> QED
  BY <1>5, <1>6

LEMMA TicketSaved ==
  ASSUME NEW p \in TicketMemory
  PROVE  Saved(p, "delete", "sleep") \in TicketMemory
<1> DEFINE to == CurrentTo(p.from, p.target)
<1>1. to \in 0..MaxBlocks /\ to + 1 \in Nat
  BY ChunkEnd DEF TicketMemory
<1> HIDE DEF to
<1>2. PICK next \in Nat, zero \in Nat, none \in 0..MaxBlocks :
        next = to + 1 /\ zero = 0 /\ none = 0
  BY <1>1, ConstantsType
<1>3. /\ [p EXCEPT !.last = to, !.from = next, !.at = "delete"] \in TicketMemory
      /\ [p EXCEPT !.last = to, !.from = zero, !.target = none, !.at = "sleep"] \in TicketMemory
  BY <1>1 DEF TicketMemory
<1> QED
  BY <1>2, <1>3 DEF Saved, to

LEMMA TicketStopped ==
  ASSUME NEW p \in TicketMemory
  PROVE  Stopped(p) \in TicketMemory
<1>1. PICK zero \in Nat, none \in 0..MaxBlocks, nothing \in SUBSET Row :
        zero = 0 /\ none = 0 /\ nothing = {}
  <2>1. 0 \in Nat /\ 0 \in 0..MaxBlocks
    BY ConstantsType
  <2>2. {} \in SUBSET Row
    OBVIOUS
  <2> QED
    BY <2>1, <2>2, Zenon
<1>2. [p EXCEPT !.at = "sleep", !.from = zero, !.target = none, !.logs = nothing]
        \in TicketMemory
  BY DEF TicketMemory
<1> QED
  BY <1>1, <1>2 DEF Stopped

LEMMA TicketPlanned ==
  ASSUME ChainInv, TProcInv, PlanTicket
  PROVE  TProcInv'
<1>1. tproc \in TicketMemory /\ Len(chain) \in 0..MaxBlocks
  BY ConstantsType DEF TProcInv, ChainInv, ChainOK
<1>2. PICK f \in Nat, t \in 0..MaxBlocks :
        f = ComputeRescanFromBlock(1, tproc.last) /\ t = ComputeTargetBlock(Height)
  BY <1>1, PlanTypes DEF TicketMemory, Height
<1>3. tproc' = [tproc EXCEPT !.at = "delete", !.from = f, !.target = t]
  BY <1>2 DEF PlanTicket, Planned
<1> QED
  BY <1>1, <1>3 DEF TProcInv, TicketMemory

LEMMA TicketsProcessed ==
  ASSUME ChainInv, TProcInv, ProcessTickets \/ TicketProcessorFails
  PROVE  TProcInv'
<1>1. tproc \in TicketMemory
  BY DEF TProcInv
<1>2. CASE PlanTicket
  BY <1>2, TicketPlanned
<1>3. CASE DeleteInRange
  <2> DEFINE range == tproc.from..CurrentTo(tproc.from, tproc.target)
  <2>1. PICK rs \in SUBSET Row :
          rs = {r \in Indexed : r.block \in range /\ Kind[r.tx] \in TicketKinds}
    BY IndexedRows
  <2>2. PICK a \in BOOLEAN : a = (\E e \in tevents : e.block \in range)
    OBVIOUS
  <2>3. tproc' = [tproc EXCEPT !.at = "insert", !.affected = a, !.logs = rs]
    BY <1>3, <2>1, <2>2 DEF DeleteInRange
  <2> QED
    BY <1>1, <2>3 DEF TProcInv, TicketMemory
<1>4. CASE InsertEvents
  <2>1. tproc' = [tproc EXCEPT !.at = "mint"] \/ tproc' = Stopped(tproc)
    BY <1>4 DEF InsertEvents
  <2>2. [tproc EXCEPT !.at = "mint"] \in TicketMemory
    BY <1>1 DEF TicketMemory
  <2> QED
    BY <1>1, <2>1, <2>2, TicketStopped DEF TProcInv
<1>5. CASE UpsertMinted
  BY <1>1, <1>5 DEF TProcInv, TicketMemory, UpsertMinted
<1>6. CASE RebuildStats
  <2>1. PICK p \in TicketMemory : p = Saved(tproc, "delete", "sleep")
    BY <1>1, TicketSaved
  <2>2. tproc' = [p EXCEPT !.logs = {}, !.affected = FALSE]
    BY <1>6, <2>1 DEF RebuildStats
  <2> QED
    BY <2>2 DEF TProcInv, TicketMemory
<1>7. CASE TicketProcessorFails
  <2>1. PICK p \in TicketMemory : p = Stopped(tproc)
    BY <1>1, TicketStopped
  <2>2. tproc' = [p EXCEPT !.affected = FALSE]
    BY <1>7, <2>1 DEF TicketProcessorFails
  <2> QED
    BY <2>2 DEF TProcInv, TicketMemory
<1> QED
  BY <1>2, <1>3, <1>4, <1>5, <1>6, <1>7 DEF ProcessTickets

-----------------------------------------------------------------------------
(* Saved hashes.                                                           *)

LEMMA FewRecent ==
  ASSUME NEW hs \in SUBSET Hash, OnePerBlock(hs)
  PROVE  Cardinality({h \in hs : Cardinality({g \in hs : g.block > h.block}) < ReorgBuffer})
           <= ReorgBuffer
<1> DEFINE Newer(h) == {g \in hs : g.block > h.block}
           recent == {h \in hs : Cardinality(Newer(h)) < ReorgBuffer}
<1> SUFFICES Cardinality(recent) <= ReorgBuffer
  OBVIOUS
<1>1. IsFiniteSet(hs) /\ recent \subseteq hs
  <2> DEFINE f == [h \in hs |-> h.block]
  <2>1. f \in Injection(hs, 1..MaxBlocks)
    BY DEF OnePerBlock, Hash, Injection, IsInjective
  <2>2. IsFiniteSet(1..MaxBlocks)
    BY ConstantsType, FS_Interval
  <2> QED
    BY <2>1, <2>2, FS_Injection DEF ExistsInjection
<1>2. IsFiniteSet(recent)
  BY <1>1, FS_Subset
<1>3. CASE recent = {}
  <2> HIDE DEF recent
  <2>1. Cardinality(recent) = 0
    BY <1>3, FS_EmptySet
  <2> QED
    BY <2>1, ConstantsType
<1>4. CASE recent # {}
  <2> DEFINE block == [h \in recent |-> h.block]
  <2>1. \A h \in recent : h.block \in Nat
    BY <1>1, ConstantsType DEF Hash
  <2>2. PICK m \in recent : \A h \in recent : m.block <= h.block
    <3>1. \A h \in recent : block[h] \in Nat
      BY <2>1
    <3>2. \E m \in recent : \A h \in recent : block[m] <= block[h]
      <4> HIDE DEF block, recent
      <4> QED
        BY <1>4, <3>1, Smallest
    <3> QED
      BY <3>2
  <2>3. recent \ {m} \subseteq Newer(m)
    <3> SUFFICES ASSUME NEW h \in recent, h # m
                 PROVE  h.block > m.block
      BY <1>1
    <3>1. h.block # m.block
      BY <1>1 DEF OnePerBlock
    <3> QED
      BY <2>1, <2>2, <3>1
  <2>4. IsFiniteSet(Newer(m)) /\ Cardinality(Newer(m)) < ReorgBuffer
    BY <1>1, FS_Subset
  <2> HIDE DEF recent, Newer
  <2>5. Cardinality(recent \ {m}) <= Cardinality(Newer(m))
    BY <2>3, <2>4, FS_Subset
  <2>6. Cardinality(recent \ {m}) = Cardinality(recent) - 1
    BY <1>2, FS_RemoveElement
  <2>7. Cardinality(recent) \in Nat /\ Cardinality(Newer(m)) \in Nat
    BY <1>2, <2>4, FS_CardinalityType
  <2> QED
    BY <1>2, <2>4, <2>5, <2>6, <2>7, ConstantsType
<1> QED
  BY <1>3, <1>4

LEMMA HashesOfRows ==
  ASSUME NEW rs \in SUBSET ListingRows(Row), OnePerBlock(rs)
  PROVE  HashesOf(rs) \in SUBSET Hash /\ OnePerBlock(HashesOf(rs))
<1>1. \A r \in rs : r \in Row /\ Listing[r.tx] \in Listings
  BY ConstantsType DEF ListingRows, Row
<1>2. \A h \in HashesOf(rs) : \E r \in rs :
        h = [block |-> r.block, fork |-> r.fork, listing |-> Listing[r.tx]]
  BY DEF HashesOf
<1>3. HashesOf(rs) \in SUBSET Hash
  BY <1>1, <1>2 DEF Hash, Row
<1>4. OnePerBlock(HashesOf(rs))
  BY <1>2 DEF OnePerBlock
<1> QED
  BY <1>3, <1>4

LEMMA RecentOK ==
  ASSUME MProcInv
  PROVE  LET hs == RecentHashes(mproc.read)
         IN  hs \in SUBSET Hash /\ OnePerBlock(hs) /\ Cardinality(hs) <= ReorgBuffer
<1> DEFINE new == HashesOf(mproc.read)
           merged == new \union {h \in mproc.hashes : \A g \in new : g.block # h.block}
           recent == {h \in merged : Cardinality({g \in merged : g.block > h.block}) < ReorgBuffer}
<1>1. new \in SUBSET Hash /\ OnePerBlock(new)
  BY HashesOfRows DEF MProcInv, MarketMemory
<1>2. mproc.hashes \in SUBSET Hash /\ OnePerBlock(mproc.hashes)
  BY DEF MProcInv, MarketMemory
<1>3. merged \in SUBSET Hash /\ OnePerBlock(merged)
  <2> HIDE DEF new
  <2> QED
    BY <1>1, <1>2 DEF OnePerBlock
<1>4. RecentHashes(mproc.read) = recent
  BY DEF RecentHashes
<1> HIDE DEF merged
<1>5. recent \in SUBSET Hash /\ OnePerBlock(recent)
  BY <1>3 DEF OnePerBlock
<1>6. Cardinality(recent) <= ReorgBuffer
  BY <1>3, FewRecent
<1> HIDE DEF recent
<1> QED
  BY <1>4, <1>5, <1>6

-----------------------------------------------------------------------------
(* The marketplace processor.                                              *)

LEMMA MarketSaved ==
  ASSUME NEW p \in MarketMemory
  PROVE  LET s == Saved(p, "read", "rebuild")
         IN  s \in MarketMemory /\ s.logs = p.logs /\ s.at \in {"read", "rebuild"}
<1> DEFINE to == CurrentTo(p.from, p.target)
<1>1. to \in 0..MaxBlocks /\ to + 1 \in Nat
  BY ChunkEnd DEF MarketMemory
<1> HIDE DEF to
<1>2. PICK next \in Nat, zero \in Nat, none \in 0..MaxBlocks :
        next = to + 1 /\ zero = 0 /\ none = 0
  BY <1>1, ConstantsType
<1> DEFINE more == [p EXCEPT !.last = to, !.from = next, !.at = "read"]
           over == [p EXCEPT !.last = to, !.from = zero, !.target = none, !.at = "rebuild"]
<1>3. more \in MarketMemory /\ more.logs = p.logs /\ more.at = "read"
  BY <1>1 DEF MarketMemory
<1>4. over \in MarketMemory /\ over.logs = p.logs /\ over.at = "rebuild"
  BY <1>1 DEF MarketMemory
<1>5. Saved(p, "read", "rebuild") \in {more, over}
  BY <1>2 DEF Saved, to
<1> HIDE DEF more, over
<1> QED
  BY <1>3, <1>4, <1>5

LEMMA ListingsPlanned ==
  ASSUME ChainInv, MProcInv, PlanListings
  PROVE  MProcInv'
<1>1. mproc \in MarketMemory /\ Len(chain) \in 0..MaxBlocks
  BY ConstantsType DEF MProcInv, ChainInv, ChainOK
<1>2. PICK f \in Nat, t \in 0..MaxBlocks :
        f = ComputeRescanFromBlock(1, mproc.last) /\ t = ComputeTargetBlock(Height)
  BY <1>1, PlanTypes DEF MarketMemory, Height
<1>3. mproc' = [mproc EXCEPT !.at = "read", !.from = f, !.target = t] /\ mproc.at = "sleep"
  BY <1>2 DEF PlanListings, Planned, MayPlan
<1>4. /\ mproc' \in MarketMemory /\ mproc'.at = "read" /\ mproc'.logs = mproc.logs
      /\ mproc'.read = mproc.read /\ mproc'.hashes = mproc.hashes
  BY <1>1, <1>3 DEF MarketMemory
<1> QED
  BY <1>3, <1>4 DEF MProcInv

LEMMA LogsRead ==
  ASSUME ChainInv, MProcInv, ReadListingLogs
  PROVE  MProcInv'
<1> DEFINE to == CurrentTo(mproc.from, mproc.target)
           rows == {r \in ListingRows(Indexed) : r.block \in mproc.from..to}
           affected == ReorgAffected(rows, mproc.from, to)
<1>1. mproc \in MarketMemory
  BY DEF MProcInv
<1>2. rows \in SUBSET ListingRows(Row) /\ OnePerBlock(rows)
  BY IndexedRows DEF ListingRows, OnePerBlock
<1>3. affected \subseteq Listings
  <2>1. \A r \in rows : Listing[r.tx] \in Listings
    BY <1>2, ConstantsType DEF ListingRows, Row
  <2>2. \A h \in mproc.hashes : h.listing \in Listings
    BY <1>1 DEF MarketMemory, Hash
  <2> HIDE DEF rows, to
  <2> QED
    BY <2>1, <2>2 DEF ReorgAffected
<1>4. mproc' = [mproc EXCEPT !.at = "log", !.logs = rows, !.read = rows,
                             !.dead = mproc.dead \union affected]
  BY <1>1 DEF ReadListingLogs, MarketMemory
<1> HIDE DEF rows, affected
<1>5. PICK rs \in SUBSET ListingRows(Row), dead \in SUBSET Listings :
        rs = rows /\ dead = mproc.dead \union affected
  BY <1>1, <1>2, <1>3 DEF MarketMemory
<1>6. mproc' = [mproc EXCEPT !.at = "log", !.logs = rs, !.read = rs, !.dead = dead]
  BY <1>4, <1>5
<1>7. /\ mproc' \in MarketMemory /\ mproc'.at = "log" /\ mproc'.read = rows
      /\ mproc'.hashes = mproc.hashes
  BY <1>1, <1>5, <1>6 DEF MarketMemory
<1> QED
  BY <1>2, <1>7 DEF MProcInv

LEMMA LogProcessed ==
  ASSUME MProcInv, ListingsInv, ProcessMarketplaceLog
  PROVE  MProcInv' /\ ListingsInv'
<1> DEFINE t == First(mproc.logs).tx
<1>1. /\ mproc \in MarketMemory /\ mproc.logs # {} /\ mproc.at \in {"log", "replay"}
      /\ mproc' = [mproc EXCEPT !.logs = mproc.logs \ {First(mproc.logs)}]
      /\ listings' = [listings EXCEPT ![Listing[t]] = ListingAfter(listings[Listing[t]], t)]
  BY DEF MProcInv, ProcessMarketplaceLog, MarketMemory, ListingsInv
<1>2. t \in Txs /\ Kind[t] \in ListingKinds /\ Listing[t] \in Listings
  <2>1. mproc.logs \in SUBSET Row /\ mproc.logs \in SUBSET ListingRows(Row)
    BY <1>1 DEF MarketMemory, ListingRows
  <2>2. First(mproc.logs) \in mproc.logs
    BY <1>1, <2>1, FirstIsOne
  <2>3. First(mproc.logs) \in Row /\ Kind[t] \in ListingKinds
    BY <2>1, <2>2 DEF ListingRows
  <2> QED
    BY <2>3, ConstantsType DEF Row
<1>3. PICK rs \in SUBSET ListingRows(Row) : rs = mproc.logs \ {First(mproc.logs)}
  BY <1>1 DEF MarketMemory
<1>4. mproc' = [mproc EXCEPT !.logs = rs]
  BY <1>1, <1>3
<1>5. /\ mproc' \in MarketMemory /\ mproc'.at = mproc.at /\ mproc'.read = mproc.read
      /\ mproc'.hashes = mproc.hashes
  BY <1>1, <1>4 DEF MarketMemory
<1>6. MProcInv'
  BY <1>1, <1>5 DEF MProcInv
<1> HIDE DEF t
<1>7. ListingAfter(listings[Listing[t]], t) \in {"none", "active", "sold", "cancelled"}
  BY <1>2 DEF ListingAfter, ListingKinds
<1>8. ListingsInv'
  BY <1>1, <1>7 DEF ListingsInv
<1> QED
  BY <1>6, <1>8

LEMMA ListingsSaved ==
  ASSUME MProcInv, SaveListings
  PROVE  MProcInv'
<1>1. mproc \in MarketMemory /\ mproc.logs = {}
  BY DEF MProcInv, SaveListings
<1>2. PICK p \in MarketMemory :
        p = Saved(mproc, "read", "rebuild") /\ p.logs = {} /\ p.at \in {"read", "rebuild"}
  BY <1>1, MarketSaved
<1>3. PICK hs \in SUBSET Hash :
        hs = RecentHashes(mproc.read) /\ OnePerBlock(hs) /\ Cardinality(hs) <= ReorgBuffer
  BY RecentOK
<1>4. PICK rs \in SUBSET ListingRows(Row) : rs = {}
  OBVIOUS
<1>5. mproc' = [p EXCEPT !.hashes = hs, !.read = rs]
  BY <1>2, <1>3, <1>4 DEF SaveListings
<1>6. /\ mproc' \in MarketMemory /\ mproc'.at = p.at /\ mproc'.logs = p.logs
      /\ mproc'.read = rs /\ mproc'.hashes = hs
  BY <1>5 DEF MarketMemory
<1> QED
  BY <1>2, <1>3, <1>4, <1>6 DEF MProcInv, OnePerBlock

LEMMA ListingRebuilt ==
  ASSUME ChainInv, MProcInv, ListingsInv, RebuildListing
  PROVE  MProcInv' /\ ListingsInv'
<1>1. mproc \in MarketMemory /\ mproc.at = "rebuild"
  BY DEF MProcInv, RebuildListing
<1>2. PICK l \in mproc.dead :
        LET rows == {r \in ListingRows(Indexed) : Listing[r.tx] = l} IN
        /\ listings' = IF rows = {} THEN [listings EXCEPT ![l] = "none"] ELSE listings
        /\ mproc' = [mproc EXCEPT !.at = "replay", !.logs = rows, !.dead = mproc.dead \ {l}]
  BY <1>1 DEF RebuildListing, MarketMemory
<1>3. PICK rs \in SUBSET ListingRows(Row), dead \in SUBSET Listings :
        rs = {r \in ListingRows(Indexed) : Listing[r.tx] = l} /\ dead = mproc.dead \ {l}
  <2>1. {r \in ListingRows(Indexed) : Listing[r.tx] = l} \in SUBSET ListingRows(Row)
    BY IndexedRows DEF ListingRows
  <2>2. mproc.dead \ {l} \in SUBSET Listings
    BY <1>1 DEF MarketMemory
  <2> QED
    BY <2>1, <2>2
<1>4. mproc' = [mproc EXCEPT !.at = "replay", !.logs = rs, !.dead = dead]
  BY <1>2, <1>3
<1>5. /\ mproc' \in MarketMemory /\ mproc'.at = "replay" /\ mproc'.read = mproc.read
      /\ mproc'.hashes = mproc.hashes
  BY <1>1, <1>4 DEF MarketMemory
<1>6. MProcInv'
  BY <1>1, <1>5 DEF MProcInv
<1>7. ListingsInv'
  BY <1>2 DEF ListingsInv
<1> QED
  BY <1>6, <1>7

LEMMA ListingEnded ==
  ASSUME MProcInv, EndOfListing
  PROVE  MProcInv'
<1>1. /\ mproc \in MarketMemory /\ mproc.logs = {} /\ mproc.read = {}
      /\ mproc' = [mproc EXCEPT !.at = IF mproc.dead = {} THEN "sleep" ELSE "rebuild"]
  BY DEF MProcInv, EndOfListing
<1>2. /\ mproc' \in MarketMemory /\ mproc'.at = (IF mproc.dead = {} THEN "sleep" ELSE "rebuild")
      /\ mproc'.logs = {} /\ mproc'.read = {} /\ mproc'.dead = mproc.dead
      /\ mproc'.hashes = mproc.hashes
  BY <1>1 DEF MarketMemory
<1> QED
  BY <1>2 DEF MProcInv, OnePerBlock

LEMMA MarketStopped ==
  ASSUME MProcInv, MarketProcessorFails
  PROVE  MProcInv'
<1>1. PICK zero \in Nat, none \in 0..MaxBlocks, nothing \in SUBSET ListingRows(Row),
           no \in SUBSET Listings :
        zero = 0 /\ none = 0 /\ nothing = {} /\ no = {}
  <2>1. 0 \in Nat /\ 0 \in 0..MaxBlocks
    BY ConstantsType
  <2>2. {} \in SUBSET ListingRows(Row) /\ {} \in SUBSET Listings
    OBVIOUS
  <2> QED
    BY <2>1, <2>2, Zenon
<1>2. mproc \in MarketMemory
  BY DEF MProcInv
<1>3. PICK p \in MarketMemory :
        p = Stopped(mproc) /\ p.at = "sleep" /\ p.logs = {} /\ p.hashes = mproc.hashes
  <2> DEFINE p == [mproc EXCEPT !.at = "sleep", !.from = zero, !.target = none, !.logs = nothing]
  <2>1. p \in MarketMemory /\ p.at = "sleep" /\ p.logs = nothing /\ p.hashes = mproc.hashes
    BY <1>2 DEF MarketMemory
  <2>2. p = Stopped(mproc)
    BY <1>1 DEF Stopped
  <2> HIDE DEF p
  <2> QED
    BY <1>1, <2>1, <2>2
<1>4. mproc' = [p EXCEPT !.read = nothing, !.dead = no]
  BY <1>1, <1>3 DEF MarketProcessorFails
<1>5. /\ mproc' \in MarketMemory /\ mproc'.at = "sleep" /\ mproc'.logs = {}
      /\ mproc'.read = {} /\ mproc'.dead = {} /\ mproc'.hashes = mproc.hashes
  BY <1>1, <1>3, <1>4 DEF MarketMemory
<1> QED
  BY <1>5 DEF MProcInv, OnePerBlock

LEMMA ListingsProcessed ==
  ASSUME ChainInv, MProcInv, ListingsInv, ProcessListings \/ MarketProcessorFails
  PROVE  MProcInv' /\ ListingsInv'
<1>1. CASE PlanListings
  BY <1>1, ListingsPlanned DEF PlanListings, ListingsInv
<1>2. CASE ReadListingLogs
  BY <1>2, LogsRead DEF ReadListingLogs, ListingsInv
<1>3. CASE ProcessMarketplaceLog
  BY <1>3, LogProcessed
<1>4. CASE SaveListings
  BY <1>4, ListingsSaved DEF SaveListings, ListingsInv
<1>5. CASE RebuildListing
  BY <1>5, ListingRebuilt
<1>6. CASE EndOfListing
  BY <1>6, ListingEnded DEF EndOfListing, ListingsInv
<1>7. CASE MarketProcessorFails
  BY <1>7, MarketStopped DEF MarketProcessorFails, ListingsInv
<1> QED
  BY <1>1, <1>2, <1>3, <1>4, <1>5, <1>6, <1>7 DEF ProcessListings

-----------------------------------------------------------------------------
(* The ticket's document.                                                  *)

\* What is there stays there, and what a request relies on with it.
Present == ticket.status # "none" => ticket'.status # "none"

LEMMA DocKept ==
  ASSUME DocInv, ticket' = ticket, synced' = synced
  PROVE  DocInv' /\ Present
BY DEF DocInv, Present

\* Only a document that is missing is inserted.
LEMMA DocInserted ==
  ASSUME DocInv, synced' = synced,
         ticket' = ticket \/ (ticket.status = "none" /\ ticket' = Minted(Organizer))
  PROVE  DocInv' /\ Present
<1>1. CASE ticket' = ticket
  BY <1>1, DocKept
<1>2. CASE ticket.status = "none" /\ ticket' = Minted(Organizer)
  <2>1. synced = <<>>
    BY <1>2 DEF DocInv
  <2>2. /\ ticket' \in Document /\ ticket'.status = "minted" /\ ticket'.owner = Organizer
        /\ ticket'.listed = FALSE
    BY <1>2 DEF Minted, Document, Statuses, Owners
  <2>3. OwnerBy(LastOf(<<>>, Moves)) = Organizer
    BY LastOfNothing DEF OwnerBy
  <2>4. ListingBy(LastOf(<<>>, ListingKinds)) = NoListing
    BY LastOfNothing DEF ListingBy
  <2>5. synced' = <<>> /\ synced' \in Seq(Txs \union {NoTx})
    BY <2>1
  <2> QED
    BY <2>2, <2>3, <2>4, <2>5 DEF DocInv, Present
<1> QED
  BY <1>1, <1>2

\* What a confirmation writes is what its transaction leaves behind.
LEMMA TicketAfterOne ==
  ASSUME NEW d \in Document, NEW t \in Txs, Kind[t] # "mint"
  PROVE  /\ TicketAfter(d, t) \in Document
         /\ TicketAfter(d, t).status = StatusBy(t)
         /\ TicketAfter(d, t).owner = IF Kind[t] \in Moves THEN OwnerBy(t) ELSE d.owner
         /\ TicketAfter(d, t).listed =
              IF Kind[t] \in ListingKinds THEN ListingBy(t) # NoListing ELSE d.listed
<1>1. t # NoTx /\ Kind[t] \in TicketKinds \union ListingKinds /\ By[t] \in Owners
  BY ConstantsType DEF Owners
<1>2. Kind[t] \in ListingKinds => Listing[t] # NoListing
  BY ConstantsType
<1>3. CASE Kind[t] = "buy"
  BY <1>1, <1>3 DEF TicketAfter, Document, Statuses, Moves, ListingKinds, StatusBy, OwnerBy
<1>4. CASE Kind[t] = "use"
  BY <1>1, <1>4 DEF TicketAfter, Document, Statuses, Moves, ListingKinds, StatusBy
<1>5. CASE Kind[t] = "refund"
  BY <1>1, <1>5 DEF TicketAfter, Document, Statuses, Moves, ListingKinds, StatusBy
<1>6. CASE Kind[t] = "list"
  BY <1>1, <1>2, <1>6
     DEF TicketAfter, Document, Statuses, Owners, Moves, ListingKinds, StatusBy, OwnerBy, ListingBy
<1>7. CASE Kind[t] \in {"sell", "unlist"}
  BY <1>1, <1>7
     DEF TicketAfter, Document, Statuses, Moves, ListingKinds, StatusBy, OwnerBy, ListingBy
<1> QED
  BY <1>1, <1>3, <1>4, <1>5, <1>6, <1>7 DEF TicketKinds, ListingKinds

LEMMA DocWritten ==
  ASSUME DocInv, NEW t \in Txs, Kind[t] # "mint", ticket.status # "none",
         ticket' = TicketAfter(ticket, t), synced' = Append(synced, t)
  PROVE  DocInv' /\ Present
<1>1. ticket \in Document /\ synced \in Seq(Txs \union {NoTx}) /\ t # NoTx
  BY ConstantsType DEF DocInv
<1>2. /\ ticket' \in Document /\ ticket'.status = StatusBy(t)
      /\ ticket'.owner = IF Kind[t] \in Moves THEN OwnerBy(t) ELSE ticket.owner
      /\ ticket'.listed =
           IF Kind[t] \in ListingKinds THEN ListingBy(t) # NoListing ELSE ticket.listed
  BY <1>1, TicketAfterOne
<1>3. /\ synced' \in Seq(Txs \union {NoTx}) /\ synced' # <<>>
      /\ synced'[Len(synced')] = t
  BY <1>1, AppendProperties
<1>4. /\ LastOf(synced', Moves) = IF Kind[t] \in Moves THEN t ELSE LastOf(synced, Moves)
      /\ LastOf(synced', ListingKinds) =
           IF Kind[t] \in ListingKinds THEN t ELSE LastOf(synced, ListingKinds)
  BY <1>1, LastOfAppend
<1>5. StatusBy(t) # "none"
  BY DEF StatusBy
<1>6. ticket'.owner = OwnerBy(LastOf(synced', Moves))
  BY <1>2, <1>4 DEF DocInv
<1>7. ticket'.listed = (ListingBy(LastOf(synced', ListingKinds)) # NoListing)
  <2>1. CASE Kind[t] \in ListingKinds
    BY <1>2, <1>4, <2>1
  <2>2. CASE Kind[t] \notin ListingKinds
    BY <1>2, <1>4, <2>2 DEF DocInv
  <2> QED
    BY <2>1, <2>2
<1> QED
  BY <1>2, <1>3, <1>5, <1>6, <1>7 DEF DocInv, Present

\* A purchase writes a status read from the chain, of a ticket that was sold.
LEMMA DocRefreshed ==
  ASSUME DocInv, NEW s \in Statuses, s # "none", ticket.status # "none",
         ticket' = [ticket EXCEPT !.status = s], synced' = Append(synced, NoTx)
  PROVE  DocInv' /\ Present
<1>1. ticket \in Document /\ synced \in Seq(Txs \union {NoTx})
  BY DEF DocInv
<1>2. /\ ticket' \in Document /\ ticket'.status = s /\ ticket'.owner = ticket.owner
      /\ ticket'.listed = ticket.listed
  BY <1>1 DEF Document
<1>3. NoTx \in Txs \union {NoTx}
  OBVIOUS
<1>4. /\ synced' \in Seq(Txs \union {NoTx}) /\ synced' # <<>>
      /\ synced'[Len(synced')] = NoTx
  BY <1>1, <1>3, AppendProperties
<1>5. /\ LastOf(synced', Moves) = LastOf(synced, Moves)
      /\ LastOf(synced', ListingKinds) = LastOf(synced, ListingKinds)
  BY <1>1, <1>3, LastOfAppend
<1> QED
  BY <1>2, <1>4, <1>5 DEF DocInv, Present

-----------------------------------------------------------------------------
(* Requests.                                                               *)

LEMMA ReqsKept ==
  ASSUME ReqsInv, Present, reqs' = reqs
  PROVE  ReqsInv'
BY DEF ReqsInv, Present, RequestOK

\* One request moves.
LEMMA ReqsMoved ==
  ASSUME ReqsInv, Present, NEW q \in Requests, NEW r \in RequestType, RequestOK(r)',
         reqs' = [reqs EXCEPT ![q] = r]
  PROVE  ReqsInv'
<1>1. reqs' \in [Requests -> RequestType]
  BY DEF ReqsInv
<1>2. ASSUME NEW p \in Requests
      PROVE  RequestOK(reqs[p])'
  <2>1. CASE p = q
    <3>1. reqs'[p] = r
      BY <2>1 DEF ReqsInv
    <3> QED
      BY <3>1 DEF RequestOK
  <2>2. CASE p # q
    <3>1. reqs'[p] = reqs[p] /\ RequestOK(reqs[p])
      BY <2>2 DEF ReqsInv
    <3> QED
      BY <3>1 DEF RequestOK, Present
  <2> QED
    BY <2>1, <2>2
<1> QED
  BY <1>1, <1>2 DEF ReqsInv

LEMMA RequestGoes ==
  ASSUME ReqsInv, Present, NEW q \in Requests,
         NEW w \in {"ticket", "count", "done", "hydrate", "lookup", "upsert"}, Goes(q, w),
         w = "ticket" => At(q, "listing"), w = "lookup" => ticket'.status # "none"
  PROVE  ReqsInv'
<1>1. reqs[q] \in RequestType /\ RequestOK(reqs[q]) /\ reqs \in [Requests -> RequestType]
  BY DEF ReqsInv
<1>2. PICK r \in RequestType : r = [reqs[q] EXCEPT !.at = w] /\ r.at = w /\ r.tx = reqs[q].tx
  <2> DEFINE r == [reqs[q] EXCEPT !.at = w]
  <2>1. r \in RequestType /\ r.at = w /\ r.tx = reqs[q].tx
    BY <1>1 DEF RequestType
  <2> HIDE DEF r
  <2> QED
    BY <2>1 DEF r
<1>3. reqs' = [reqs EXCEPT ![q] = r]
  BY <1>1, <1>2 DEF Goes
<1>4. RequestOK(r)'
  BY <1>1, <1>2 DEF RequestOK, At
<1> QED
  BY <1>3, <1>4, ReqsMoved

\* The invariant of what requests touch.
Touched == DocInv /\ ListingsInv /\ ReqsInv

LEMMA DocumentsRead ==
  ASSUME ChainInv, Touched, NEW q \in Requests, ReadDocuments(q)
  PROVE  Touched'
<1>1. DocInv' /\ Present /\ ListingsInv'
  BY DocKept DEF ReadDocuments, ticketVars, history, Touched, ListingsInv
<1>2. reqs[q] \in RequestType /\ reqs \in [Requests -> RequestType]
  BY DEF Touched, ReqsInv
<1>3. PICK t, l :
        /\ t \in mined /\ l \in ListingOf(t) /\ Kind[t] # "mint"
        /\ reqs' = [reqs EXCEPT ![q] =
             [reqs[q] EXCEPT !.tx = t, !.listing = l,
                 !.at = IF ~Found(t, l) THEN "refused" ELSE IF AlreadySynced(t, l) THEN "done"
                        ELSE IF Kind[t] \in TicketKinds THEN "ticket" ELSE "listing"]]
  BY <1>2 DEF ReadDocuments
<1>4. t \in Txs /\ Kind[t] \in TicketKinds \union ListingKinds
  BY <1>3, ConstantsType DEF ChainInv
<1>5. l \in Listings \union {NoListing} /\ (Kind[t] \notin TicketKinds => l \in Listings)
  BY <1>3, <1>4, ConstantsType DEF ListingOf
<1>6. PICK w \in {"refused", "done", "ticket", "listing"} :
        /\ w = IF ~Found(t, l) THEN "refused" ELSE IF AlreadySynced(t, l) THEN "done"
               ELSE IF Kind[t] \in TicketKinds THEN "ticket" ELSE "listing"
        /\ w = "listing" => Kind[t] \notin TicketKinds
  OBVIOUS
<1>7. PICK r \in RequestType :
        /\ r = [reqs[q] EXCEPT !.tx = t, !.listing = l, !.at = w]
        /\ r.tx = t /\ r.listing = l /\ r.at = w
  <2>1. t \in Txs \union {NoTx}
    BY <1>4
  <2> DEFINE r == [reqs[q] EXCEPT !.tx = t, !.listing = l, !.at = w]
  <2>2. r \in RequestType /\ r.tx = t /\ r.listing = l /\ r.at = w
    BY <1>2, <1>5, <2>1 DEF RequestType
  <2> HIDE DEF r
  <2> QED
    BY <2>2 DEF r
<1>8. reqs' = [reqs EXCEPT ![q] = r]
  BY <1>3, <1>6, <1>7
<1>9. RequestOK(r)'
  BY <1>3, <1>4, <1>5, <1>6, <1>7 DEF RequestOK
<1> QED
  BY <1>1, <1>8, <1>9, ReqsMoved DEF Touched

LEMMA ListingWritten ==
  ASSUME Touched, NEW q \in Requests, WriteListing(q)
  PROVE  Touched'
<1>1. DocInv' /\ Present
  BY DocKept DEF WriteListing, ticketVars, Touched
<1>2. ReqsInv'
  <2>1. Goes(q, "ticket") /\ At(q, "listing")
    BY DEF WriteListing
  <2> QED
    BY <1>1, <2>1, RequestGoes DEF Touched
<1>3. ListingsInv'
  <2> DEFINE t == reqs[q].tx
             l == reqs[q].listing
             v == IF Kind[t] # "list" /\ listings[l] = "none" THEN listings[l]
                  ELSE CASE Kind[t] = "list" -> "active" [] Kind[t] = "sell" -> "sold"
                         [] OTHER -> "cancelled"
  <2>1. l \in Listings /\ listings \in [Listings -> {"none", "active", "sold", "cancelled"}]
    BY DEF Touched, ListingsInv, ReqsInv, RequestOK, WriteListing, At
  <2>2. listings' = [listings EXCEPT ![l] = v]
    BY <2>1 DEF WriteListing
  <2>3. v \in {"none", "active", "sold", "cancelled"}
    BY <2>1
  <2> HIDE DEF v, l
  <2> QED
    BY <2>1, <2>2, <2>3 DEF ListingsInv
<1> QED
  BY <1>1, <1>2, <1>3 DEF Touched

LEMMA TicketWritten ==
  ASSUME Touched, NEW q \in Requests, WriteTicket(q)
  PROVE  Touched'
<1> DEFINE t == reqs[q].tx
<1>1. t \in Txs /\ Kind[t] # "mint"
  BY DEF Touched, ReqsInv, RequestOK, WriteTicket, At
<1>2. DocInv' /\ Present
  <2>1. CASE ticket.status = "none"
    BY <2>1, DocKept DEF WriteTicket, Touched
  <2>2. CASE ticket.status # "none"
    <3>1. ticket' = TicketAfter(ticket, t) /\ synced' = Append(synced, t)
      BY <2>2 DEF WriteTicket
    <3> HIDE DEF t
    <3> QED
      BY <1>1, <2>2, <3>1, DocWritten DEF Touched
  <2> QED
    BY <2>1, <2>2
<1>3. ReqsInv'
  <2>1. PICK w \in {"count", "done"} : Goes(q, w)
    BY DEF WriteTicket
  <2> QED
    BY <1>2, <2>1, RequestGoes DEF Touched
<1>4. ListingsInv'
  BY DEF WriteTicket, Touched, ListingsInv
<1> QED
  BY <1>2, <1>3, <1>4 DEF Touched

LEMMA StatusFound ==
  ASSUME ChainInv, Touched, NEW q \in Requests, GetTicketStatus(q)
  PROVE  Touched'
<1> DEFINE s == State(chain)
<1>1. DocInv' /\ Present /\ ListingsInv'
  BY DocKept DEF GetTicketStatus, ticketVars, history, Touched, ListingsInv
<1>2. reqs[q] \in RequestType /\ RequestOK(reqs[q]) /\ reqs \in [Requests -> RequestType]
  BY DEF Touched, ReqsInv
<1>3. s.status \in Statuses
  BY StateType DEF ChainInv, ChainOK, TicketState
<1>4. PICK w \in {"refresh", "upsert", "done"} :
        /\ w = "refresh" => At(q, "lookup") /\ s.status \notin {"minted", "none"}
        /\ reqs' = [reqs EXCEPT ![q].at = w, ![q].status = s.status]
  <2> DEFINE shown == At(q, "lookup")
             w == CASE shown /\ s.status \notin {"minted", "none"} -> "refresh"
                    [] ~shown /\ s.status = "minted" -> "upsert"
                    [] OTHER -> "done"
  <2>1. reqs' = [reqs EXCEPT ![q].at = w, ![q].status = s.status]
    BY DEF GetTicketStatus
  <2>2. /\ w \in {"refresh", "upsert", "done"}
        /\ w = "refresh" => shown /\ s.status \notin {"minted", "none"}
    BY <1>3
  <2> HIDE DEF w
  <2> QED
    BY <2>1, <2>2
<1> HIDE DEF s
<1>5. PICK r \in RequestType :
        /\ r = [reqs[q] EXCEPT !.at = w, !.status = s.status]
        /\ r.at = w /\ r.status = s.status /\ r.tx = reqs[q].tx
  <2> DEFINE r == [reqs[q] EXCEPT !.at = w, !.status = s.status]
  <2>1. r \in RequestType /\ r.at = w /\ r.status = s.status /\ r.tx = reqs[q].tx
    BY <1>2, <1>3 DEF RequestType
  <2> HIDE DEF r
  <2> QED
    BY <2>1 DEF r
<1>6. reqs' = [reqs EXCEPT ![q] = r]
  BY <1>2, <1>4, <1>5
<1>7. RequestOK(r)'
  BY <1>1, <1>2, <1>4, <1>5 DEF RequestOK, At, Present
<1> QED
  BY <1>1, <1>6, <1>7, ReqsMoved DEF Touched

LEMMA RequestsKept ==
  ASSUME ChainInv, Touched, NEW q \in Requests, Requesting(q)
  PROVE  Touched'
<1>1. CASE ReadDocuments(q)
  BY <1>1, DocumentsRead
<1>2. CASE WriteListing(q)
  BY <1>2, ListingWritten
<1>3. CASE WriteTicket(q)
  BY <1>3, TicketWritten
<1>4. CASE IncrementTicketCounters(q)
  <2>1. DocInv' /\ Present /\ ListingsInv'
    BY <1>4, DocKept DEF IncrementTicketCounters, history, Touched, ListingsInv
  <2>2. Goes(q, "done")
    BY <1>4 DEF IncrementTicketCounters
  <2> QED
    BY <2>1, <2>2, RequestGoes DEF Touched
<1>5. CASE FindMintedTicket(q)
  <2>1. DocInv' /\ Present /\ ListingsInv'
    BY <1>5, DocKept DEF FindMintedTicket, ticketVars, history, Touched, ListingsInv
  <2>2. PICK w \in {"hydrate", "lookup"} : Goes(q, w) /\ (w = "lookup" => ticket.status # "none")
    BY <1>5 DEF FindMintedTicket
  <2>3. w = "lookup" => ticket'.status # "none"
    BY <2>1, <2>2 DEF Present
  <2> QED
    BY <2>1, <2>2, <2>3, RequestGoes DEF Touched
<1>6. CASE GetTicketStatus(q)
  BY <1>6, StatusFound
<1>7. CASE RefreshStatus(q)
  <2>1. reqs[q].status \in Statuses /\ reqs[q].status # "none" /\ ticket.status # "none"
    BY <1>7 DEF Touched, ReqsInv, RequestType, RequestOK, RefreshStatus, At
  <2>2. ticket' = [ticket EXCEPT !.status = reqs[q].status] /\ synced' = Append(synced, NoTx)
    BY <1>7 DEF RefreshStatus
  <2>3. DocInv' /\ Present
    BY <2>1, <2>2, DocRefreshed DEF Touched
  <2>4. Goes(q, "done") /\ ListingsInv'
    BY <1>7 DEF RefreshStatus, Touched, ListingsInv
  <2> QED
    BY <2>3, <2>4, RequestGoes DEF Touched
<1>8. CASE UpsertFromChain(q)
  <2>1. DocInv' /\ Present
    BY <1>8, DocInserted DEF UpsertFromChain, history, Touched
  <2>2. Goes(q, "done") /\ ListingsInv'
    BY <1>8 DEF UpsertFromChain, Touched, ListingsInv
  <2> QED
    BY <2>1, <2>2, RequestGoes DEF Touched
<1> QED
  BY <1>1, <1>2, <1>3, <1>4, <1>5, <1>6, <1>7, <1>8 DEF Requesting

-----------------------------------------------------------------------------
(* The invariant.                                                          *)

LEMMA InitInv == Init => IInv
<1> SUFFICES ASSUME Init
             PROVE  IInv
  OBVIOUS
<1>1. ChainInv
  <2>1. chain \in Pasts /\ mined = On(chain) /\ forks = 0
    BY DEF Init
  <2>2. ChainOK(chain)
    BY <2>1, PastOK
  <2>3. \A n \in DOMAIN chain : chain[n].tx \in Txs \union {NoTx}
    <3>1. chain \in Seq(Block)
      BY <2>2 DEF ChainOK
    <3>2. \A n \in DOMAIN chain : chain[n] \in Block
      BY <3>1
    <3> QED
      BY <3>2 DEF Block
  <2>4. mined \subseteq Txs
    BY <2>1, <2>3 DEF On
  <2> QED
    BY <2>1, <2>2, <2>4 DEF ChainInv
<1>2. DocInv
  <2>1. synced = <<>> /\ ticket \in {NoDocument, Minted(Organizer)}
    BY DEF Init
  <2>2. /\ ticket \in Document /\ ticket.owner = Organizer /\ ticket.listed = FALSE
        /\ ticket.status = "none" => ticket = NoDocument
    <3>1. CASE ticket = NoDocument
      BY <3>1 DEF NoDocument, Document, Statuses, Owners
    <3>2. CASE ticket = Minted(Organizer)
      BY <3>2 DEF Minted, Document, Statuses, Owners
    <3> QED
      BY <2>1, <3>1, <3>2
  <2>3. OwnerBy(LastOf(<<>>, Moves)) = Organizer
    BY LastOfNothing DEF OwnerBy
  <2>4. ListingBy(LastOf(<<>>, ListingKinds)) = NoListing
    BY LastOfNothing DEF ListingBy
  <2>5. synced \in Seq(Txs \union {NoTx})
    BY <2>1
  <2> QED
    BY <2>1, <2>2, <2>3, <2>4, <2>5 DEF DocInv
<1>3. ListingsInv
  BY DEF Init, ListingsInv
<1>4. TProcInv
  BY ConstantsType DEF Init, TProcInv, TicketMemory
<1>5. MProcInv
  <2>1. mproc = [at |-> "sleep", last |-> 0, from |-> 0, target |-> 0,
                 logs |-> {}, read |-> {}, dead |-> {}, hashes |-> {}]
    BY DEF Init
  <2>2. mproc \in MarketMemory
    BY <2>1, ConstantsType DEF MarketMemory
  <2>3. Cardinality({}) = 0
    BY FS_EmptySet
  <2> QED
    BY <2>1, <2>2, <2>3, ConstantsType DEF MProcInv, OnePerBlock
<1>6. ReqsInv
  <2>1. Request \in RequestType /\ Request.at = "new"
    BY DEF Request, RequestType, Statuses
  <2>2. reqs = [q \in Requests |-> Request]
    BY DEF Init
  <2> HIDE DEF Request
  <2> QED
    BY <2>1, <2>2 DEF ReqsInv, RequestOK
<1> QED
  BY <1>1, <1>2, <1>3, <1>4, <1>5, <1>6 DEF IInv

LEMMA MineKept ==
  ASSUME ChainInv, Mine
  PROVE  ChainInv'
<1>1. ChainOK(chain) /\ Len(chain) < MaxBlocks /\ Extend(chain, forks) /\ forks \in Nat
  BY DEF ChainInv, Mine, Height
<1>2. ChainOK(chain') /\ mined' \subseteq Txs
  BY <1>1, ExtendKept
<1>3. forks' = forks
  BY DEF Mine
<1> QED
  BY <1>1, <1>2, <1>3 DEF ChainInv, ChainOK, Told, State, LastOf, TxsOf

LEMMA ReorgKept ==
  ASSUME ChainInv, Reorg
  PROVE  ChainInv'
<1> DEFINE kept == SubSeq(chain, 1, Height - 1)
<1>1. /\ ChainOK(chain) /\ forks \in Nat /\ Len(chain) \in Nat /\ Len(chain) > 0
      /\ Len(chain) <= MaxBlocks
  BY DEF ChainInv, ChainOK, Reorg, Height
<1>2. ChainOK(kept) /\ Len(kept) < MaxBlocks
  <2>1. Height - 1 \in 0..Len(chain) /\ Height - 1 < MaxBlocks
    BY <1>1, ConstantsType DEF Height
  <2>2. ChainOK(kept) /\ Len(kept) = Height - 1
    BY <1>1, <2>1, ChainCut
  <2> QED
    BY <2>1, <2>2
<1>3. Extend(kept, forks + 1) /\ forks' = forks + 1 /\ forks + 1 \in Nat
  BY <1>1 DEF Reorg
<1> HIDE DEF kept
<1>4. ChainOK(chain') /\ mined' \subseteq Txs
  BY <1>2, <1>3, ExtendKept
<1> QED
  BY <1>3, <1>4 DEF ChainInv, ChainOK, Told, State, LastOf, TxsOf

LEMMA NextInv == IInv /\ [Next]_vars => IInv'
<1> SUFFICES ASSUME IInv, [Next]_vars
             PROVE  IInv'
  OBVIOUS
<1> USE DEF IInv
<1>1. CASE Mine \/ Reorg
  <2>1. ChainInv'
    BY <1>1, MineKept, ReorgKept
  <2>2. /\ ticket' = ticket /\ synced' = synced /\ listings' = listings /\ tproc' = tproc
        /\ mproc' = mproc /\ reqs' = reqs
    BY <1>1 DEF Mine, Reorg, ticketVars, history
  <2>3. DocInv' /\ Present
    BY <2>2, DocKept
  <2>4. ReqsInv'
    BY <2>2, <2>3, ReqsKept
  <2> QED
    BY <2>1, <2>2, <2>3, <2>4 DEF ListingsInv, TProcInv, MProcInv
<1>2. CASE ProcessTickets \/ TicketProcessorFails
  <2>1. TProcInv'
    BY <1>2, TicketsProcessed
  <2>2. /\ chain' = chain /\ mined' = mined /\ forks' = forks /\ listings' = listings
        /\ mproc' = mproc /\ reqs' = reqs /\ synced' = synced
        /\ ticket' = ticket \/ (ticket.status = "none" /\ ticket' = Minted(Organizer))
    BY <1>2
       DEF ProcessTickets, PlanTicket, DeleteInRange, InsertEvents, UpsertMinted, RebuildStats,
           TicketProcessorFails, ByTicketProcessor, chainVars, ticketVars, history
  <2>3. DocInv' /\ Present
    BY <2>2, DocInserted
  <2>4. ReqsInv'
    BY <2>2, <2>3, ReqsKept
  <2> QED
    BY <2>1, <2>2, <2>3, <2>4 DEF ChainInv, ListingsInv, MProcInv
<1>3. CASE ProcessListings \/ MarketProcessorFails
  <2>1. MProcInv' /\ ListingsInv'
    BY <1>3, ListingsProcessed
  <2>2. /\ chain' = chain /\ mined' = mined /\ forks' = forks /\ ticket' = ticket
        /\ tproc' = tproc /\ reqs' = reqs /\ synced' = synced
    BY <1>3
       DEF ProcessListings, PlanListings, ReadListingLogs, ProcessMarketplaceLog, SaveListings,
           RebuildListing, EndOfListing, MarketProcessorFails, ByMarketProcessor, chainVars,
           ticketVars, history
  <2>3. DocInv' /\ Present
    BY <2>2, DocKept
  <2>4. ReqsInv'
    BY <2>2, <2>3, ReqsKept
  <2> QED
    BY <2>1, <2>2, <2>3, <2>4 DEF ChainInv, TProcInv
<1>4. CASE \E q \in Requests : Requesting(q)
  <2>1. PICK q \in Requests : Requesting(q)
    BY <1>4
  <2>2. Touched'
    BY <2>1, RequestsKept DEF Touched
  <2>3. chain' = chain /\ mined' = mined /\ forks' = forks /\ tproc' = tproc /\ mproc' = mproc
    BY <2>1
       DEF Requesting, ReadDocuments, WriteListing, WriteTicket, IncrementTicketCounters,
           FindMintedTicket, GetTicketStatus, RefreshStatus, UpsertFromChain, ByRequest, chainVars
  <2> QED
    BY <2>2, <2>3 DEF Touched, ChainInv, TProcInv, MProcInv
<1>5. CASE UNCHANGED vars
  <2>1. /\ chain' = chain /\ mined' = mined /\ forks' = forks /\ ticket' = ticket
        /\ synced' = synced /\ listings' = listings /\ tproc' = tproc /\ mproc' = mproc
        /\ reqs' = reqs
    BY <1>5 DEF vars, chainVars, ticketVars, history
  <2>2. DocInv' /\ Present
    BY <2>1, DocKept
  <2>3. ReqsInv'
    BY <2>1, <2>2, ReqsKept
  <2> QED
    BY <2>1, <2>2, <2>3 DEF ChainInv, ListingsInv, TProcInv, MProcInv
<1> QED
  BY <1>1, <1>2, <1>3, <1>4, <1>5 DEF Next

\* The invariant the two theorems follow from: it says of the chain what its
\* transactions made of the ticket, of the document what the requests wrote
\* (ticket.repo.js: markAsSold, markAsUsedFromChain, markAsRefundedFromChain,
\* updateStatus), and types what the processors and the requests hold.
THEOREM Inductive == Spec => []IInv
<1>1. Init => IInv
  BY InitInv
<1>2. IInv /\ [Next]_vars => IInv'
  BY NextInv
<1> QED
  BY <1>1, <1>2, PTL DEF Spec

\* The documents are in their schemas, cursors and targets on the chain, no more
\* hashes saved than the window has blocks, and a pass that is over leaves
\* nothing in memory.
THEOREM TypesOfTicketSync == Spec => []TypeOK
<1>1. IInv => TypeOK
  <2> SUFFICES ASSUME IInv
               PROVE  TypeOK
    OBVIOUS
  <2>1. ticket \in [status : Statuses, owner : Owners, listed : BOOLEAN]
    BY DEF IInv, DocInv, Document
  <2>2. tproc.last \in 0..MaxBlocks /\ tproc.target \in 0..MaxBlocks
    BY DEF IInv, TProcInv, TicketMemory
  <2>3. mproc.last \in 0..MaxBlocks /\ mproc.target \in 0..MaxBlocks
    BY DEF IInv, MProcInv, MarketMemory
  <2> QED
    BY <2>1, <2>2, <2>3 DEF IInv, ListingsInv, MProcInv, TypeOK
<1> QED
  BY <1>1, Inductive, PTL

\* The confirmation of the last transaction heals the document: its status, its
\* owner or its mark of a listing, whatever happened to the confirmations before.
THEOREM Healed == Spec => []TicketHealed
<1>1. IInv => TicketHealed
  <2> SUFFICES ASSUME IInv
               PROVE  TicketHealed
    OBVIOUS
  <2> DEFINE s == State(chain)
  <2>1. chain \in Seq(Block) /\ Told(chain)
    <3>1. chain \in Seq(Block) /\ Len(chain) \in Nat
      BY DEF IInv, ChainInv, ChainOK
    <3>2. Len(chain) \in 0..Len(chain)
      BY <3>1
    <3>3. Told(SubSeq(chain, 1, Len(chain)))
      BY <3>2 DEF IInv, ChainInv, ChainOK
    <3>4. SubSeq(chain, 1, Len(chain)) = chain
      BY <3>1, SubSeqFull
    <3> QED
      BY <3>1, <3>3, <3>4
  <2>2. \A kinds : OnChain(kinds) = LastOf(TxsOf(chain), kinds)
    BY DEF OnChain, TxsOf
  <2>3. /\ OnChain(Later) # NoTx => s.status = StatusBy(OnChain(Later))
        /\ s.owner = OwnerBy(OnChain(Moves))
        /\ s.listing = ListingBy(OnChain(ListingKinds))
    BY <2>1, <2>2 DEF Told
  <2>4. /\ synced # <<>> /\ synced[Len(synced)] # NoTx =>
             ticket.status = StatusBy(synced[Len(synced)])
        /\ ticket.owner = OwnerBy(Confirmed(Moves))
        /\ ticket.listed = (ListingBy(Confirmed(ListingKinds)) # NoListing)
    BY DEF IInv, DocInv, Confirmed
  <2> QED
    BY <2>3, <2>4 DEF TicketHealed, Later, Moves
<1> QED
  BY <1>1, Inductive, PTL
=============================================================================
