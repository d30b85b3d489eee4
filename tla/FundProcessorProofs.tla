------------------------ MODULE FundProcessorProofs -------------------------
(***************************************************************************)
(* What the documents of a funded event keep for every number of           *)
(* transactions, investors, requests and blocks, every window, chunk and   *)
(* number of failures and reorganisations: their types, hashes of at most  *)
(* a window of blocks, and each penalty counted once until an event is     *)
(* rebuilt.                                                                *)
(*                                                                         *)
(* The penalty is not merely bounded: until then it is the total of the    *)
(* transactions that processedTxHashes guards, which is what a replayed    *)
(* log preserves.                                                          *)
(***************************************************************************)
EXTENDS FundProcessor, Integers, FiniteSetTheorems, FunctionTheorems, SequenceTheorems,
        WellFoundedInduction, TLAPS

-----------------------------------------------------------------------------
(* Totals, by the number of their units.                                   *)

\* The units of a function are finitely many, so a total is a number.
LEMMA UnitsFinite ==
  ASSUME NEW S, IsFiniteSet(S), NEW f, \A s \in S : f[s] \in Nat
  PROVE  IsFiniteSet(Units(f, S)) /\ SumOver(f, S) \in Nat
<1> DEFINE Parts == {{s} \X (1 .. f[s]) : s \in S}
           part == [s \in S |-> {s} \X (1 .. f[s])]
<1>1. \A P \in Parts : IsFiniteSet(P)
  <2> SUFFICES ASSUME NEW s \in S
               PROVE  IsFiniteSet({s} \X (1 .. f[s]))
    OBVIOUS
  <2>1. IsFiniteSet({s})
    BY FS_Singleton
  <2>2. f[s] \in Int
    OBVIOUS
  <2>3. IsFiniteSet(1 .. f[s])
    BY <2>2, FS_Interval
  <2> QED
    BY <2>1, <2>3, FS_Product
<1>2. part \in Surjection(S, Parts)
  BY DEF Surjection
<1>3. IsFiniteSet(Parts)
  BY <1>2, FS_Surjection
<1>4. IsFiniteSet(UNION Parts)
  BY <1>1, <1>3, FS_UNION
<1> QED
  BY <1>4, FS_CardinalityType DEF Units, SumOver

\* The units of one element are as many as the function gives it.
LEMMA UnitsOfOne ==
  ASSUME NEW x, NEW n \in Nat
  PROVE  IsFiniteSet({x} \X (1 .. n)) /\ Cardinality({x} \X (1 .. n)) = n
<1>1. IsFiniteSet({x}) /\ Cardinality({x}) = 1
  BY FS_Singleton
<1>2. n \in Int /\ 1 \in Int
  OBVIOUS
<1>3. IsFiniteSet(1 .. n) /\ Cardinality(1 .. n) = n
  BY <1>2, FS_Interval
<1>4. Cardinality({x} \X (1 .. n)) = 1 * n
  BY <1>1, <1>3, FS_Product
<1> QED
  BY <1>1, <1>3, <1>4, FS_Product

\* Taking one element out of the domain takes its value out of the total.
LEMMA SumSplit ==
  ASSUME NEW S, IsFiniteSet(S), NEW f, \A s \in S : f[s] \in Nat, NEW x \in S
  PROVE  SumOver(f, S) = SumOver(f, S \ {x}) + f[x]
<1> DEFINE Rest == Units(f, S \ {x})
           One == {x} \X (1 .. f[x])
<1>1. Units(f, S) = Rest \cup One
  BY DEF Units
<1>2. Rest \cap One = {}
  BY DEF Units
<1>3. IsFiniteSet(Units(f, S))
  BY UnitsFinite
<1>4. IsFiniteSet(Rest)
  BY <1>1, <1>3, FS_Subset
<1>5. IsFiniteSet(One) /\ Cardinality(One) = f[x]
  BY UnitsOfOne
<1>6. Cardinality(Rest \cup One) = Cardinality(Rest) + Cardinality(One) - Cardinality(Rest \cap One)
  BY <1>4, <1>5, FS_Union
<1>7. Cardinality(Rest \cap One) = 0
  BY <1>2, FS_EmptySet
<1>8. Cardinality(Rest) \in Nat /\ f[x] \in Nat
  BY <1>4, FS_CardinalityType
<1> QED
  BY <1>1, <1>5, <1>6, <1>7, <1>8 DEF SumOver

\* Nothing adds up to zero.
LEMMA SumZero ==
  ASSUME NEW S, NEW f, \A s \in S : f[s] = 0
  PROVE  SumOver(f, S) = 0
<1>1. Units(f, S) = {}
  BY DEF Units
<1> QED
  BY <1>1, FS_EmptySet DEF SumOver

\* A smaller function on a smaller set has a smaller total.
LEMMA SumMonotone ==
  ASSUME NEW S, NEW R \in SUBSET S, IsFiniteSet(S), NEW f, NEW g,
         \A s \in S : f[s] \in Nat, \A s \in R : g[s] \in Nat /\ g[s] <= f[s]
  PROVE  SumOver(g, R) <= SumOver(f, S)
<1>1. Units(g, R) \subseteq Units(f, S)
  <2> SUFFICES ASSUME NEW s \in R
               PROVE  {s} \X (1 .. g[s]) \subseteq Units(f, S)
    BY DEF Units
  <2>1. 1 .. g[s] \subseteq 1 .. f[s]
    OBVIOUS
  <2> QED
    BY <2>1 DEF Units
<1>2. IsFiniteSet(Units(f, S))
  BY UnitsFinite
<1> QED
  BY <1>1, <1>2, FS_Subset DEF SumOver

\* One element more in the domain puts its value into the total.
LEMMA SumGrown ==
  ASSUME NEW S, IsFiniteSet(S), NEW x, x \notin S, NEW f, NEW g, \A s \in S : f[s] \in Nat,
         \A s \in S : g[s] = f[s], g[x] \in Nat
  PROVE  SumOver(g, S \cup {x}) = SumOver(f, S) + g[x]
<1>1. IsFiniteSet(S \cup {x}) /\ (S \cup {x}) \ {x} = S
  BY FS_AddElement
<1>2. SumOver(g, S \cup {x}) = SumOver(g, S) + g[x]
  <2>1. \A s \in S \cup {x} : g[s] \in Nat
    OBVIOUS
  <2>2. SumOver(g, S \cup {x}) = SumOver(g, (S \cup {x}) \ {x}) + g[x]
    BY <1>1, <2>1, SumSplit
  <2> QED
    BY <1>1, <2>2
<1>3. Units(g, S) = Units(f, S)
  BY DEF Units
<1> QED
  BY <1>2, <1>3 DEF SumOver

-----------------------------------------------------------------------------
(* The invariant.                                                          *)

Statuses == {"funding", "funded", "completed", "cancelled"}
Block == [fork : 0..MaxReorgs, tx : Txs \union {NoTx}]
Row == [block : 1..MaxBlocks, fork : 0..MaxReorgs, tx : Txs]
Deltas == {"refunded", "penalty"}
Event == [status : Statuses, funding : Nat, refunded : Nat, penalty : Nat,
          processed : SUBSET (Txs \X Deltas)]
Share == [claimed : Nat, txs : SUBSET Txs]

ChainInv ==
  /\ chain \in Seq(Block) /\ Len(chain) <= MaxBlocks
  /\ forks \in 0..MaxReorgs
  /\ rows \subseteq Row

DocsInv ==
  /\ docs \in [Contributions -> {"none", "confirmed", "refunded"}]
  /\ evt \in Event
  /\ shares \in [Investors -> Share]

\* One saved hash per block.
HashesOK(hs) ==
  /\ \A h \in hs : h.block \in 1..MaxBlocks /\ h.txs \subseteq Txs
  /\ \A g, h \in hs : g.block = h.block => g = h

StoreInv ==
  /\ store.last \in 0..MaxBlocks
  /\ HashesOK(store.hashes)
  /\ Cardinality(store.hashes) <= ReorgBuffer

Places == {"sleep", "chunk", "log", "share", "claim", "sum", "put", "clean", "restore"}
Memory == [at : Places, from : Nat, target : Nat, read : SUBSET Row, logs : SUBSET Row,
           dead : SUBSET Txs, rebuild : BOOLEAN, total : Nat]

ProcOK(p) ==
  /\ p \in Memory
  /\ p.target <= MaxBlocks /\ p.from <= MaxBlocks + 1
  /\ p.at \in {"share", "claim"} => p.logs # {}

RequestPlaces ==
  {"new", "contribute", "reach", "refund", "claim", "sum", "put", "share", "claimed", "done"}
ConfirmRequest ==
  [at : RequestPlaces, tx : Txs \union {NoTx}, total : Nat, status : Statuses, refunded : Nat]

RequestOK(r) == r \in ConfirmRequest /\ (r.at # "new" => r.tx \in Txs)
ReqsInv == reqs \in [Requests -> ConfirmRequest] /\ \A q \in Requests : RequestOK(reqs[q])

\* The penalties processedTxHashes guards, and what was added for them.
Guarded(e) == {t \in Txs : <<t, "penalty">> \in e.processed}
PenaltyOK(e) == e.penalty = Total(Guarded(e)) /\ Guarded(e) \subseteq OfKind(Txs, "penalty")
PenaltyInv == cleanUps \in Nat /\ (cleanUps = 0 => PenaltyOK(evt) /\ proc.at # "restore")

IInv == ChainInv /\ DocsInv /\ StoreInv /\ ProcOK(proc) /\ ReqsInv /\ PenaltyInv

-----------------------------------------------------------------------------
LEMMA ConstantsType ==
  /\ NoTx \notin Txs /\ IsFiniteSet(Txs)
  /\ Kind \in [Txs -> Kinds] /\ Who \in [Txs -> Investors] /\ Amount \in [Txs -> Nat]
  /\ Goal \in Nat /\ LongMax \in Nat /\ MaxBlocks \in Nat /\ MaxReorgs \in Nat
  /\ MaxUpsets \in Nat /\ MaxCleanUps \in Nat /\ MaxCleanUps > 0
  /\ Confirmations \in Nat /\ ReorgBuffer \in Nat /\ ChunkSize \in Nat /\ ChunkSize > 0
  /\ Contributions \subseteq Txs
<1>1. \A k \in {Goal, LongMax, MaxBlocks, MaxReorgs, MaxUpsets} : k \in Nat
  BY FundProcessorAssumption DEF FundProcessorAssumption
<1>2. /\ Goal \in Nat /\ LongMax \in Nat /\ MaxBlocks \in Nat /\ MaxReorgs \in Nat
      /\ MaxUpsets \in Nat
  BY <1>1
<1>3. /\ NoTx \notin Txs /\ IsFiniteSet(Txs)
      /\ Kind \in [Txs -> Kinds] /\ Who \in [Txs -> Investors] /\ Amount \in [Txs -> Nat]
  BY FundProcessorAssumption DEF FundProcessorAssumption
<1>4. /\ Confirmations \in Nat /\ ReorgBuffer \in Nat /\ ChunkSize \in Nat /\ ChunkSize > 0
  BY ReorgPolicyAssumption DEF ReorgPolicyAssumption
<1>5. MaxCleanUps \in Nat /\ MaxCleanUps > 0
  <2>1. MaxCleanUps \in Nat \ {0}
    BY FundProcessorAssumption DEF FundProcessorAssumption
  <2> QED
    BY <2>1
<1> QED
  BY <1>2, <1>3, <1>4, <1>5 DEF Contributions

\* A total of transactions is a number.
LEMMA TotalNat ==
  ASSUME NEW ts \in SUBSET Txs
  PROVE  IsFiniteSet(ts) /\ Total(ts) \in Nat
<1>1. IsFiniteSet(ts)
  BY ConstantsType, FS_Subset
<1>2. \A t \in ts : Amount[t] \in Nat
  BY ConstantsType
<1> QED
  BY <1>1, <1>2, UnitsFinite DEF Total

LEMMA FundingNat == Funding \in Nat
BY TotalNat, ConstantsType DEF Funding, Confirmed

\* A set has an element with the smallest of its numbers.
LEMMA Smallest ==
  ASSUME NEW S, S # {}, NEW f, \A s \in S : f[s] \in Nat
  PROVE  \E m \in S : \A s \in S : f[m] <= f[s]
<1> DEFINE N == {f[s] : s \in S}
<1>1. N \subseteq Nat /\ N # {}
  OBVIOUS
<1>2. PICK x \in N : \A y \in N : ~(<<y, x>> \in OpToRel(<, Nat))
  <2> HIDE DEF N
  <2> QED
    BY <1>1, NatLessThanWellFounded, WFMin, Zenon
<1>3. PICK m \in S : x = f[m]
  OBVIOUS
<1>4. \A s \in S : f[m] <= f[s]
  <2> SUFFICES ASSUME NEW s \in S
               PROVE  f[m] <= f[s]
    OBVIOUS
  <2>1. f[s] \in N /\ f[s] \in Nat /\ x \in Nat
    BY <1>1
  <2>2. ~(f[s] < x)
    BY <1>2, <2>1 DEF OpToRel
  <2> QED
    BY <1>3, <2>1, <2>2
<1> QED
  BY <1>4

\* There is a next log while logs are left.
LEMMA FirstIsOne ==
  ASSUME NEW rs \in SUBSET Row, rs # {}
  PROVE  First(rs) \in rs
<1> DEFINE block == [r \in rs |-> r.block]
<1>1. \A r \in rs : r.block \in Nat /\ r.fork \in Nat
  BY ConstantsType DEF Row
<1>2. PICK b \in rs : \A r \in rs : b.block <= r.block
  <2>1. \A r \in rs : block[r] \in Nat
    BY <1>1
  <2>2. \E b \in rs : \A r \in rs : block[b] <= block[r]
    <3> HIDE DEF block
    <3> QED
      BY <2>1, Smallest
  <2> QED
    BY <2>2
<1> DEFINE ties == {r \in rs : r.block = b.block}
           fork == [r \in ties |-> r.fork]
<1>3. PICK m \in ties : \A r \in ties : m.fork <= r.fork
  <2>1. ties # {} /\ \A r \in ties : fork[r] \in Nat
    BY <1>1
  <2>2. \E m \in ties : \A r \in ties : fork[m] <= fork[r]
    <3> HIDE DEF fork, ties
    <3> QED
      BY <2>1, Smallest
  <2> QED
    BY <2>2
<1>4. m \in rs /\ \A q \in rs : ~Before(q, m)
  BY <1>1, <1>2, <1>3 DEF Before
<1> QED
  BY <1>4 DEF First

-----------------------------------------------------------------------------
(* Saved hashes.                                                           *)

LEMMA HashesFinite ==
  ASSUME NEW hs, HashesOK(hs)
  PROVE  IsFiniteSet(hs)
<1> DEFINE f == [h \in hs |-> h.block]
<1>1. f \in Injection(hs, 1..MaxBlocks)
  BY DEF HashesOK, Injection, IsInjective
<1>2. IsFiniteSet(1..MaxBlocks)
  BY ConstantsType, FS_Interval
<1> QED
  BY <1>1, <1>2, FS_Injection DEF ExistsInjection

LEMMA HashesOfOK ==
  ASSUME NEW rs \in SUBSET Row
  PROVE  HashesOK(HashesOf(rs))
<1> DEFINE In(n) == {r \in rs : r.block = n}
           Hash(n) == [block |-> n, txs |-> {r.tx : r \in In(n)},
                       fork |-> (CHOOSE r \in rs : r.block = n
                                   /\ \A q \in rs : q.block = n => r.fork <= q.fork).fork]
<1>1. HashesOf(rs) = {Hash(n) : n \in {r.block : r \in rs}}
  BY DEF HashesOf
<1>2. \A n : Hash(n).block = n /\ Hash(n).txs = {r.tx : r \in In(n)}
  OBVIOUS
<1> HIDE DEF Hash
<1>3. \A n : {r.tx : r \in In(n)} \subseteq Txs
  BY DEF Row
<1>4. \A r \in rs : r.block \in 1..MaxBlocks
  BY DEF Row
<1> HIDE DEF In
<1> QED
  BY <1>1, <1>2, <1>3, <1>4 DEF HashesOK

\* The newest hashes are few: below the oldest of them are fewer than a window.
LEMMA FewRecent ==
  ASSUME NEW hs, HashesOK(hs)
  PROVE  LET recent == {h \in hs : Cardinality({g \in hs : g.block > h.block}) < ReorgBuffer}
         IN  HashesOK(recent) /\ Cardinality(recent) <= ReorgBuffer
<1> DEFINE Newer(h) == {g \in hs : g.block > h.block}
           recent == {h \in hs : Cardinality(Newer(h)) < ReorgBuffer}
<1> SUFFICES HashesOK(recent) /\ Cardinality(recent) <= ReorgBuffer
  OBVIOUS
<1>1. IsFiniteSet(hs) /\ recent \subseteq hs
  BY HashesFinite
<1>2. IsFiniteSet(recent) /\ HashesOK(recent)
  BY <1>1, FS_Subset DEF HashesOK
<1>3. CASE recent = {}
  <2> HIDE DEF recent
  <2>1. Cardinality(recent) = 0
    BY <1>3, FS_EmptySet
  <2> QED
    BY <1>2, <2>1, ConstantsType
<1>4. CASE recent # {}
  <2> DEFINE block == [h \in recent |-> h.block]
  <2>1. \A h \in recent : h.block \in Nat
    BY <1>1, ConstantsType DEF HashesOK
  <2>2. PICK m \in recent : \A h \in recent : m.block <= h.block
    <3>1. \A h \in recent : block[h] \in Nat
      BY <2>1
    <3>2. \E m \in recent : \A h \in recent : block[m] <= block[h]
      <4> HIDE DEF block, recent
      <4> QED
        BY <1>4, <3>1, Smallest
    <3> QED
      BY <3>2
  <2>3. recent \ {m} \subseteq Newer(m)
    <3> SUFFICES ASSUME NEW h \in recent, h # m
                 PROVE  h.block > m.block
      BY <1>1
    <3>1. h.block # m.block
      BY <1>1 DEF HashesOK
    <3> QED
      BY <2>1, <2>2, <3>1
  <2>4. IsFiniteSet(Newer(m)) /\ Cardinality(Newer(m)) < ReorgBuffer
    BY <1>1, FS_Subset
  <2> HIDE DEF recent, Newer
  <2>5. Cardinality(recent \ {m}) <= Cardinality(Newer(m))
    BY <2>3, <2>4, FS_Subset
  <2>6. Cardinality(recent \ {m}) = Cardinality(recent) - 1
    BY <1>2, FS_RemoveElement
  <2>7. Cardinality(recent) \in Nat /\ Cardinality(Newer(m)) \in Nat
    BY <1>2, <2>4, FS_CardinalityType
  <2> QED
    BY <1>2, <2>4, <2>5, <2>6, <2>7, ConstantsType
<1> QED
  BY <1>2, <1>3, <1>4

LEMMA RecentOK ==
  ASSUME StoreInv, NEW rs \in SUBSET Row
  PROVE  HashesOK(RecentHashes(rs)) /\ Cardinality(RecentHashes(rs)) <= ReorgBuffer
<1> DEFINE new == HashesOf(rs)
           merged == new \union {h \in store.hashes : \A g \in new : g.block # h.block}
<1>1. HashesOK(new)
  BY HashesOfOK
<1>2. HashesOK(merged)
  BY <1>1 DEF StoreInv, HashesOK
<1> QED
  BY <1>2, FewRecent DEF RecentHashes

-----------------------------------------------------------------------------
(* Penalties.                                                              *)

\* What the invariant says of an event depends on two of its fields.
LEMMA SamePenalty ==
  ASSUME NEW d, NEW e, PenaltyOK(d), e.penalty = d.penalty, Guarded(e) = Guarded(d)
  PROVE  PenaltyOK(e)
BY DEF PenaltyOK

\* The guarded update adds an amount with its guard, or nothing.
LEMMA DeltaKept ==
  ASSUME NEW e \in Event, NEW t \in Txs, NEW field \in Deltas,
         NEW set \in Event, set.processed = e.processed, set.penalty = e.penalty
  PROVE  /\ ApplyDelta(e, t, field, set) \in Event
         /\ PenaltyOK(e) /\ (field = "penalty" => Kind[t] = "penalty") =>
              PenaltyOK(ApplyDelta(e, t, field, set))
<1> DEFINE new == ApplyDelta(e, t, field, set)
<1>1. Amount[t] \in Nat
  BY ConstantsType
<1>2. CASE <<t, field>> \in e.processed
  <2>1. new = set /\ Guarded(set) = Guarded(e)
    BY <1>2 DEF ApplyDelta, Guarded
  <2> QED
    BY <2>1, SamePenalty
<1>3. CASE <<t, field>> \notin e.processed /\ field = "refunded"
  <2>1. new = [set EXCEPT !.processed = e.processed \union {<<t, "refunded">>},
                          !.refunded = e.refunded + Amount[t]]
    BY <1>3 DEF ApplyDelta, Event
  <2>2. PICK n \in Nat : n = e.refunded + Amount[t]
    BY <1>1 DEF Event
  <2>3. <<t, "refunded">> \in Txs \X Deltas /\ e.processed \subseteq Txs \X Deltas
    <3>1. e.processed \subseteq Txs \X Deltas
      BY DEF Event
    <3> QED
      BY <3>1 DEF Deltas
  <2>4. PICK P \in SUBSET (Txs \X Deltas) : P = e.processed \union {<<t, "refunded">>}
    BY <2>3
  <2>5. new = [set EXCEPT !.processed = P, !.refunded = n]
    BY <2>1, <2>2, <2>4
  <2>6. /\ new \in Event /\ new.penalty = e.penalty
        /\ new.processed = e.processed \union {<<t, "refunded">>}
    BY <2>2, <2>4, <2>5 DEF Event
  <2> HIDE DEF new
  <2>7. Guarded(new) = Guarded(e)
    BY <2>6 DEF Guarded
  <2>8. PenaltyOK(e) => PenaltyOK(new)
    BY <2>6, <2>7, SamePenalty
  <2> QED
    BY <2>6, <2>8 DEF new
<1>4. CASE <<t, field>> \notin e.processed /\ field = "penalty"
  <2>1. new = [set EXCEPT !.processed = e.processed \union {<<t, "penalty">>},
                          !.penalty = e.penalty + Amount[t]]
    BY <1>4 DEF ApplyDelta, Event
  <2>2. PICK n \in Nat : n = e.penalty + Amount[t]
    BY <1>1 DEF Event
  <2>3. <<t, "penalty">> \in Txs \X Deltas /\ e.processed \subseteq Txs \X Deltas
    <3>1. e.processed \subseteq Txs \X Deltas
      BY DEF Event
    <3> QED
      BY <3>1 DEF Deltas
  <2>4. PICK P \in SUBSET (Txs \X Deltas) : P = e.processed \union {<<t, "penalty">>}
    BY <2>3
  <2>5. new = [set EXCEPT !.processed = P, !.penalty = n]
    BY <2>1, <2>2, <2>4
  <2>6. /\ new \in Event /\ new.penalty = n
        /\ new.processed = e.processed \union {<<t, "penalty">>}
    BY <2>2, <2>4, <2>5 DEF Event
  <2> HIDE DEF new
  <2>7. Guarded(new) = Guarded(e) \union {t} /\ t \notin Guarded(e)
    BY <1>4, <2>6 DEF Guarded
  <2>8. Guarded(e) \in SUBSET Txs
    BY DEF Guarded
  <2>9. IsFiniteSet(Guarded(e)) /\ \A u \in Guarded(e) : Amount[u] \in Nat
    BY <2>8, TotalNat, ConstantsType
  <2>10. Total(Guarded(new)) = Total(Guarded(e)) + Amount[t]
    <3> DEFINE G == Guarded(e)
    <3>1. IsFiniteSet(G) /\ t \notin G /\ \A u \in G : Amount[u] \in Nat
      BY <2>7, <2>9
    <3> HIDE DEF G
    <3>2. SumOver(Amount, G \union {t}) = SumOver(Amount, G) + Amount[t]
      BY <1>1, <3>1, SumGrown
    <3> QED
      BY <2>7, <3>2 DEF Total, G
  <2>11. PenaltyOK(e) /\ Kind[t] = "penalty" => PenaltyOK(new)
    BY <2>2, <2>6, <2>7, <2>10 DEF PenaltyOK, OfKind
  <2> QED
    BY <1>4, <2>6, <2>11 DEF new
<1> QED
  BY <1>2, <1>3, <1>4 DEF Deltas

-----------------------------------------------------------------------------
(* Frames: what is left to prove of a step that leaves much alone.         *)

\* The processor writes no chain, no row and no request.
LEMMA ProcessorKept ==
  ASSUME IInv, UNCHANGED <<chainVars, rows, reqs>>, DocsInv', StoreInv', ProcOK(proc'), PenaltyInv'
  PROVE  IInv'
<1>1. ChainInv' /\ ReqsInv'
  BY DEF IInv, chainVars, ChainInv, ReqsInv
<1> QED
  BY <1>1 DEF IInv

\* A handler writes documents and goes on.
LEMMA HandlerKept ==
  ASSUME IInv, UNCHANGED <<chainVars, indexVars, store, reqs, ends>>, DocsInv',
         ProcOK(proc'), proc'.at # "restore", PenaltyOK(evt) => PenaltyOK(evt')
  PROVE  IInv'
<1>1. StoreInv'
  BY DEF IInv, StoreInv
<1>2. PenaltyInv'
  BY DEF IInv, PenaltyInv, ends
<1> QED
  BY <1>1, <1>2, ProcessorKept DEF indexVars

LEMMA MemoryKept ==
  ASSUME IInv, UNCHANGED <<chainVars, indexVars, docVars, store, reqs, ends>>,
         ProcOK(proc'), proc'.at # "restore"
  PROVE  IInv'
<1>1. DocsInv' /\ evt' = evt
  BY DEF IInv, DocsInv, docVars
<1> QED
  BY <1>1, HandlerKept

\* A request writes rows, documents and its own memory.
LEMMA RequestKept ==
  ASSUME IInv, ByRequest, rows' \subseteq Row, DocsInv', ReqsInv',
         evt'.penalty = evt.penalty, evt'.processed = evt.processed
  PROVE  IInv'
<1>1. ChainInv' /\ StoreInv' /\ proc' = proc
  BY DEF IInv, ByRequest, chainVars, ChainInv, StoreInv
<1>2. Guarded(evt') = Guarded(evt)
  BY DEF Guarded
<1>3. PenaltyOK(evt) => PenaltyOK(evt')
  BY <1>2, SamePenalty
<1>4. PenaltyInv'
  BY <1>1, <1>3 DEF IInv, PenaltyInv, ByRequest, ends
<1> QED
  BY <1>1, <1>4 DEF IInv

-----------------------------------------------------------------------------
(* The processor's memory.                                                 *)

LEMMA SleepingOK == ProcOK(Sleeping) /\ Sleeping.at = "sleep"
BY ConstantsType DEF ProcOK, Sleeping, Memory, Places

LEMMA NextLog ==
  ASSUME ProcOK(proc), proc.logs # {}
  PROVE  First(proc.logs) \in proc.logs /\ Current \in Txs
<1>1. proc.logs \in SUBSET Row
  BY DEF ProcOK, Memory
<1>2. First(proc.logs) \in proc.logs
  BY <1>1, FirstIsOne
<1> QED
  BY <1>1, <1>2 DEF Current, Row

LEMMA GoesTo ==
  ASSUME ProcOK(proc), NEW at \in Places, NEW n \in Nat, at \in {"share", "claim"} => proc.logs # {}
  PROVE  /\ ProcOK([proc EXCEPT !.at = at]) /\ [proc EXCEPT !.at = at].at = at
         /\ ProcOK([proc EXCEPT !.at = at, !.total = n])
         /\ [proc EXCEPT !.at = at, !.total = n].at = at
BY DEF ProcOK, Memory

LEMMA HandledOK ==
  ASSUME ProcOK(proc)
  PROVE  ProcOK(Handled) /\ Handled.at = "log"
<1>1. PICK L \in SUBSET Row : L = proc.logs \ {First(proc.logs)}
  BY DEF ProcOK, Memory
<1>2. Handled = [proc EXCEPT !.at = "log", !.logs = L, !.total = 0]
  BY <1>1 DEF Handled, ProcOK, Memory
<1> QED
  BY <1>2 DEF ProcOK, Memory, Places

LEMMA ChunkEnds ==
  ASSUME NEW from \in Nat, NEW target \in Nat
  PROVE  CurrentTo(from, target) \in Nat /\ CurrentTo(from, target) <= target
BY ConstantsType DEF CurrentTo, AtMost

-----------------------------------------------------------------------------
(* The chain and the indexer.                                              *)

LEMMA BlocksType ==
  ASSUME NEW past, NEW fork \in 0..MaxReorgs
  PROVE  Blocks(past, fork) \subseteq Block
BY DEF Blocks, Block

LEMMA MineKept ==
  ASSUME IInv, Mine
  PROVE  IInv'
<1>1. PICK b \in Block : chain' = Append(chain, b) /\ Len(chain) < MaxBlocks
  BY BlocksType DEF IInv, ChainInv, Mine, Height
<1>2. UNCHANGED <<forks, indexVars, docVars, store, proc, reqs, ends>>
  BY DEF Mine
<1>3. chain' \in Seq(Block) /\ Len(chain') <= MaxBlocks
  BY <1>1, ConstantsType DEF IInv, ChainInv
<1> QED
  BY <1>2, <1>3 DEF IInv, ChainInv, DocsInv, StoreInv, ReqsInv, PenaltyInv, indexVars, docVars, ends

LEMMA ReorgKept ==
  ASSUME IInv, Reorg
  PROVE  IInv'
<1> DEFINE kept == SubSeq(chain, 1, Height - 1)
<1>1. chain \in Seq(Block) /\ Len(chain) \in Nat /\ Len(chain) <= MaxBlocks /\ Len(chain) > 0
  BY DEF IInv, ChainInv, Reorg, Height
<1>2. forks + 1 \in 0..MaxReorgs /\ forks' = forks + 1
  BY ConstantsType DEF IInv, ChainInv, Reorg
<1>3. PICK b \in Block : chain' = Append(kept, b)
  BY <1>2, BlocksType DEF Reorg
<1>4. kept \in Seq(Block) /\ Len(kept) = Len(chain) - 1
  <2>1. PICK k \in Nat : k = Len(chain) - 1
    BY <1>1
  <2>2. \A i \in 1..k : chain[i] \in Block
    BY <1>1, <2>1
  <2>3. SubSeq(chain, 1, k) \in Seq(Block) /\ Len(SubSeq(chain, 1, k)) = k
    BY <2>2, SubSeqProperties
  <2> QED
    BY <2>1, <2>3 DEF Height
<1> HIDE DEF kept
<1>5. chain' \in Seq(Block) /\ Len(chain') <= MaxBlocks
  BY <1>1, <1>3, <1>4, ConstantsType
<1>6. UNCHANGED <<indexVars, docVars, store, proc, reqs, ends>>
  BY DEF Reorg
<1> QED
  BY <1>2, <1>5, <1>6 DEF IInv, ChainInv, DocsInv, StoreInv, ReqsInv, PenaltyInv, indexVars, docVars, ends

\* Every row is of a block of the chain.
LEMMA RowsType ==
  ASSUME ChainInv, NEW from, NEW to
  PROVE  RowsIn(chain, from, to) \subseteq Row
<1>1. DOMAIN chain \subseteq 1..MaxBlocks /\ \A n \in DOMAIN chain : chain[n] \in Block
  BY ConstantsType DEF ChainInv
<1> QED
  BY <1>1 DEF RowsIn, Block, Row

LEMMA IndexingKept ==
  ASSUME IInv, Indexing
  PROVE  IInv'
<1>1. UNCHANGED <<chainVars, docVars, store, proc, reqs, ends>>
  BY DEF Indexing, IndexerDeletes, IndexerInserts, IndexerRewrites
<1>2. rows' \subseteq Row
  <2>1. CASE IndexerDeletes
    BY <2>1 DEF IInv, ChainInv, IndexerDeletes, RowsWithout
  <2>2. CASE IndexerInserts
    BY <2>2, RowsType DEF IInv, ChainInv, IndexerInserts, RowsOf
  <2>3. CASE IndexerRewrites
    BY <2>3, RowsType DEF IInv, ChainInv, IndexerRewrites, RowsWithout, RowsOf
  <2> QED
    BY <2>1, <2>2, <2>3 DEF Indexing
<1> QED
  BY <1>1, <1>2 DEF IInv, ChainInv, DocsInv, StoreInv, ReqsInv, PenaltyInv, chainVars, docVars, ends

-----------------------------------------------------------------------------
(* The processor's actions.                                                *)

LEMMA PlanKept ==
  ASSUME IInv, Plan
  PROVE  IInv'
<1>1. Len(chain) \in Nat /\ Len(chain) <= MaxBlocks /\ store.last \in Nat
  BY ConstantsType DEF IInv, ChainInv, StoreInv
<1>2. PICK from \in Nat, target \in Nat :
        /\ from <= target /\ target <= MaxBlocks
        /\ proc' = [Sleeping EXCEPT !.at = "chunk", !.from = from, !.target = target]
  <2>1. /\ ComputeTargetBlock(Height) \in Nat /\ ComputeTargetBlock(Height) <= Len(chain)
    BY <1>1, ConstantsType DEF ComputeTargetBlock, Minus, AtLeast, Height
  <2>2. ComputeRescanFromBlock(1, store.last) \in Nat
    BY <1>1, ConstantsType DEF ComputeRescanFromBlock, Minus, AtLeast
  <2>3. ComputeTargetBlock(Height) <= MaxBlocks
    BY <1>1, <2>1, ConstantsType
  <2> QED
    BY <2>1, <2>2, <2>3 DEF Plan, ShouldSync
<1>3. proc' = [at |-> "chunk", from |-> from, target |-> target, read |-> {}, logs |-> {},
               dead |-> {}, rebuild |-> FALSE, total |-> 0]
  BY <1>2 DEF Sleeping
<1>4. ProcOK(proc') /\ proc'.at # "restore"
  <2>1. from <= MaxBlocks + 1
    BY <1>2, ConstantsType
  <2>2. proc' \in Memory
    BY <1>3 DEF Memory, Places
  <2> QED
    BY <1>2, <1>3, <2>1, <2>2 DEF ProcOK
<1>5. UNCHANGED <<chainVars, indexVars, docVars, store, reqs, ends>>
  BY DEF Plan
<1> QED
  BY <1>4, <1>5, MemoryKept

LEMMA ReadChunkKept ==
  ASSUME IInv, ReadChunk
  PROVE  IInv'
<1> DEFINE to == CurrentTo(proc.from, proc.target)
           chunk == {r \in rows : r.block \in proc.from..to}
           stale == Stale(chunk, proc.from, to)
<1>1. PICK rs \in SUBSET Row : rs = chunk
  BY DEF IInv, ChainInv
<1>2. PICK dead \in SUBSET Txs : dead = proc.dead \union UNION {h.txs : h \in stale}
  <2>1. stale \subseteq store.hashes
    BY DEF Stale
  <2>2. \A h \in store.hashes : h.txs \subseteq Txs
    BY DEF IInv, StoreInv, HashesOK
  <2>3. proc.dead \subseteq Txs
    BY DEF IInv, ProcOK, Memory
  <2> HIDE DEF stale
  <2> QED
    BY <2>1, <2>2, <2>3
<1>3. PICK rebuild \in BOOLEAN : rebuild = (proc.rebuild \/ stale # {})
  OBVIOUS
<1>4. proc' = [proc EXCEPT !.at = "log", !.read = chunk, !.logs = chunk,
                           !.dead = proc.dead \union UNION {h.txs : h \in stale},
                           !.rebuild = proc.rebuild \/ stale # {}]
  BY DEF ReadChunk, IInv, ProcOK, Memory
<1>5. UNCHANGED <<chainVars, indexVars, docVars, store, reqs, ends>>
  BY DEF ReadChunk
<1> HIDE DEF chunk, stale
<1>6. proc' = [proc EXCEPT !.at = "log", !.read = rs, !.logs = rs, !.dead = dead, !.rebuild = rebuild]
  BY <1>1, <1>2, <1>3, <1>4
<1>7. ProcOK(proc') /\ proc'.at # "restore"
  BY <1>6 DEF IInv, ProcOK, Memory, Places
<1> QED
  BY <1>5, <1>7, MemoryKept

LEMMA SumContributionsKept ==
  ASSUME IInv, SumContributions
  PROVE  IInv'
<1>1. ProcOK(proc') /\ proc'.at # "restore"
  BY FundingNat, GoesTo DEF IInv, SumContributions, Places
<1> QED
  BY <1>1, MemoryKept DEF SumContributions

LEMMA ClaimedNat ==
  ASSUME DocsInv, NEW t \in Txs
  PROVE  ClaimedWith(t) \in Nat
BY ConstantsType DEF DocsInv, ClaimedWith, Share

LEMMA WithClaimType ==
  ASSUME DocsInv, NEW t \in Txs, NEW total \in Nat
  PROVE  WithClaim(shares, t, total) \in [Investors -> Share]
<1>1. Who[t] \in Investors
  BY ConstantsType
<1>2. PICK share \in Share : share = [claimed |-> total, txs |-> shares[Who[t]].txs \union {t}]
  <2>1. shares[Who[t]].txs \union {t} \in SUBSET Txs
    BY <1>1 DEF DocsInv, Share
  <2> QED
    BY <2>1 DEF Share
<1>3. WithClaim(shares, t, total) = [shares EXCEPT ![Who[t]] = share]
  BY <1>1, <1>2 DEF WithClaim, DocsInv
<1> QED
  BY <1>1, <1>3 DEF DocsInv

LEMMA ReadShareKept ==
  ASSUME IInv, ReadShare
  PROVE  IInv'
<1>1. proc.logs # {} /\ Current \in Txs
  BY NextLog DEF IInv, ReadShare, ProcOK
<1>2. PICK n \in Nat : n = ClaimedWith(Current)
  BY <1>1, ClaimedNat DEF IInv
<1>3. proc' = [proc EXCEPT !.at = "claim", !.total = n]
  BY <1>2 DEF ReadShare
<1>4. ProcOK(proc') /\ proc'.at # "restore"
  BY <1>1, <1>3, GoesTo DEF IInv, Places
<1> QED
  BY <1>4, MemoryKept DEF ReadShare

LEMMA WriteClaimKept ==
  ASSUME IInv, WriteClaim
  PROVE  IInv'
<1>1. Current \in Txs /\ proc.total \in Nat
  BY NextLog DEF IInv, WriteClaim, ProcOK, Memory
<1>2. DocsInv' /\ evt' = evt
  BY <1>1, WithClaimType DEF IInv, DocsInv, WriteClaim
<1>3. ProcOK(proc') /\ proc'.at # "restore"
  BY HandledOK DEF IInv, WriteClaim
<1> QED
  BY <1>2, <1>3, HandlerKept DEF WriteClaim

LEMMA HandleClaimKept ==
  ASSUME IInv, HandleClaim
  PROVE  IInv'
<1>1. ProcOK(proc') /\ proc'.at # "restore"
  BY HandledOK, GoesTo DEF IInv, HandleClaim, Handling, Places
<1> QED
  BY <1>1, MemoryKept DEF HandleClaim, Handling

LEMMA HandleContributionKept ==
  ASSUME IInv, HandleContribution
  PROVE  IInv'
<1>1. docs' = [docs EXCEPT ![Current] = "confirmed"] /\ UNCHANGED <<evt, shares>>
  BY DEF HandleContribution
<1>2. DocsInv'
  BY <1>1 DEF IInv, DocsInv
<1>3. ProcOK(proc') /\ proc'.at # "restore"
  BY GoesTo DEF IInv, HandleContribution, Places
<1> QED
  BY <1>1, <1>2, <1>3, HandlerKept DEF HandleContribution, Handling

LEMMA HandleStatusKept ==
  ASSUME IInv, HandleStatus
  PROVE  IInv'
<1>1. PICK status \in Statuses : evt' = [evt EXCEPT !.status = status]
  BY DEF HandleStatus, Statuses
<1>2. UNCHANGED <<docs, shares>>
  BY DEF HandleStatus
<1>3. evt' \in Event /\ evt'.penalty = evt.penalty /\ evt'.processed = evt.processed
  BY <1>1 DEF IInv, DocsInv, Event
<1>4. DocsInv'
  BY <1>2, <1>3 DEF IInv, DocsInv
<1>5. PenaltyOK(evt) => PenaltyOK(evt')
  BY <1>3, SamePenalty DEF Guarded
<1>6. ProcOK(proc') /\ proc'.at # "restore"
  BY HandledOK DEF IInv, HandleStatus
<1> QED
  BY <1>4, <1>5, <1>6, HandlerKept DEF HandleStatus, Handling

LEMMA HandlePenaltyKept ==
  ASSUME IInv, HandlePenalty
  PROVE  IInv'
<1>1. Current \in Txs /\ Kind[Current] = "penalty" /\ evt \in Event
  BY NextLog DEF IInv, DocsInv, HandlePenalty, Handling
<1>2. UNCHANGED <<docs, shares>>
  BY DEF HandlePenalty
<1>3. /\ evt' \in Event /\ (PenaltyOK(evt) => PenaltyOK(evt'))
      /\ ProcOK(proc') /\ proc'.at # "restore"
  <2>1. CASE UNCHANGED evt /\ proc' = Sleeping
    BY <1>1, <2>1, SleepingOK
  <2>2. CASE evt' = ApplyDelta(evt, Current, "penalty", evt) /\ proc' = Handled
    <3>1. evt' \in Event /\ (PenaltyOK(evt) => PenaltyOK(evt'))
      BY <1>1, <2>2, DeltaKept DEF Deltas
    <3> QED
      BY <2>2, <3>1, HandledOK DEF IInv
  <2> QED
    BY <2>1, <2>2 DEF HandlePenalty
<1>4. DocsInv'
  BY <1>2, <1>3 DEF IInv, DocsInv
<1> QED
  BY <1>3, <1>4, HandlerKept DEF HandlePenalty, Handling

LEMMA MarkedType ==
  ASSUME DocsInv, NEW who
  PROVE  MarkRefundedOf(who) \in [Contributions -> {"none", "confirmed", "refunded"}]
BY DEF DocsInv, MarkRefundedOf

LEMMA HandleRefundKept ==
  ASSUME IInv, HandleRefund
  PROVE  IInv'
<1>1. Current \in Txs /\ evt \in Event
  BY NextLog DEF IInv, DocsInv, HandleRefund, Handling
<1>2. docs' = MarkRefundedOf(Who[Current]) /\ UNCHANGED shares
  BY DEF HandleRefund
<1>3. /\ evt' \in Event /\ (PenaltyOK(evt) => PenaltyOK(evt'))
      /\ ProcOK(proc') /\ proc'.at # "restore"
  <2>1. CASE UNCHANGED evt /\ proc' = Sleeping
    BY <1>1, <2>1, SleepingOK
  <2>2. CASE /\ evt' = ApplyDelta(evt, Current, "refunded", [evt EXCEPT !.status = "cancelled"])
             /\ proc' = [proc EXCEPT !.at = "sum"]
    <3> DEFINE set == [evt EXCEPT !.status = "cancelled"]
    <3>1. set \in Event /\ set.penalty = evt.penalty /\ set.processed = evt.processed
      BY <1>1 DEF Event, Statuses
    <3> HIDE DEF set
    <3>2. evt' \in Event /\ (PenaltyOK(evt) => PenaltyOK(evt'))
      BY <1>1, <2>2, <3>1, DeltaKept DEF Deltas, set
    <3> QED
      BY <2>2, <3>2, GoesTo DEF IInv, Places
  <2> QED
    BY <2>1, <2>2 DEF HandleRefund
<1>4. DocsInv'
  BY <1>2, <1>3, MarkedType DEF IInv, DocsInv
<1> QED
  BY <1>3, <1>4, HandlerKept DEF HandleRefund, Handling

LEMMA PutFundingKept ==
  ASSUME IInv, PutFunding
  PROVE  IInv'
<1>1. PICK status \in Statuses, total \in Nat :
        evt' = [evt EXCEPT !.funding = total, !.status = status]
  BY DEF IInv, DocsInv, ProcOK, Memory, Event, PutFunding, Statuses
<1>2. UNCHANGED <<docs, shares>>
  BY DEF PutFunding
<1>3. evt' \in Event /\ evt'.penalty = evt.penalty /\ evt'.processed = evt.processed
  BY <1>1 DEF IInv, DocsInv, Event
<1>4. DocsInv'
  BY <1>2, <1>3 DEF IInv, DocsInv
<1>5. PenaltyOK(evt) => PenaltyOK(evt')
  BY <1>3, SamePenalty DEF Guarded
<1>6. ProcOK(proc') /\ proc'.at # "restore"
  BY SleepingOK, HandledOK DEF IInv, PutFunding
<1> QED
  BY <1>4, <1>5, <1>6, HandlerKept DEF PutFunding

LEMMA SaveChunkKept ==
  ASSUME IInv, SaveChunk
  PROVE  IInv'
<1> DEFINE to == CurrentTo(proc.from, proc.target)
<1>1. /\ proc.from \in Nat /\ proc.target \in Nat /\ proc.target <= MaxBlocks
      /\ proc.read \in SUBSET Row /\ MaxBlocks \in Nat
  BY ConstantsType DEF IInv, ProcOK, Memory
<1>2. to \in Nat /\ to <= proc.target /\ to \in 0..MaxBlocks
  <2>1. to \in Nat /\ to <= proc.target
    BY <1>1, ChunkEnds
  <2> HIDE DEF to
  <2> QED
    BY <1>1, <2>1
<1>3. StoreInv'
  <2>1. store' = [last |-> to, hashes |-> RecentHashes(proc.read)]
    BY DEF SaveChunk
  <2>2. HashesOK(RecentHashes(proc.read)) /\ Cardinality(RecentHashes(proc.read)) <= ReorgBuffer
    BY <1>1, RecentOK DEF IInv
  <2>3. store'.last = to /\ store'.hashes = RecentHashes(proc.read)
    BY <2>1
  <2> QED
    BY <1>2, <2>2, <2>3 DEF StoreInv
<1>4. ProcOK(proc') /\ proc'.at # "restore"
  <2>1. CASE to < proc.target /\ proc' = [proc EXCEPT !.at = "chunk", !.from = to + 1, !.read = {}]
    <3>1. to + 1 \in Nat /\ to + 1 <= MaxBlocks + 1
      BY <1>1, <1>2, <2>1
    <3> QED
      BY <2>1, <3>1 DEF IInv, ProcOK, Memory, Places
  <2>2. CASE proc' = [proc EXCEPT !.at = "clean", !.read = {}]
    BY <2>2 DEF IInv, ProcOK, Memory, Places
  <2>3. CASE proc' = Sleeping
    BY <2>3, SleepingOK
  <2> QED
    BY <2>1, <2>2, <2>3 DEF SaveChunk
<1>5. UNCHANGED <<chainVars, indexVars, docVars, reqs, ends>>
  BY DEF SaveChunk
<1>6. DocsInv' /\ PenaltyInv'
  BY <1>4, <1>5 DEF IInv, DocsInv, PenaltyInv, docVars, ends
<1> QED
  BY <1>3, <1>4, <1>5, <1>6, ProcessorKept DEF indexVars

LEMMA CleanUpKept ==
  ASSUME IInv, CleanUp
  PROVE  IInv'
<1>1. docs' \in [Contributions -> {"none", "confirmed", "refunded"}]
  BY DEF IInv, DocsInv, CleanUp
<1>2. evt' \in Event
  <2>1. PICK P \in SUBSET (Txs \X Deltas) : P = {p \in evt.processed : p[1] \notin proc.dead}
    BY DEF IInv, DocsInv, Event
  <2>2. evt' = [evt EXCEPT !.processed = P]
    BY <2>1 DEF CleanUp, IInv, DocsInv, Event
  <2> QED
    BY <2>2 DEF IInv, DocsInv, Event
<1>3. shares' \in [Investors -> Share]
  <2>1. shares' = [i \in Investors |-> [shares[i] EXCEPT !.txs = @ \ proc.dead]]
    BY DEF CleanUp
  <2>2. ASSUME NEW i \in Investors
        PROVE  [shares[i] EXCEPT !.txs = @ \ proc.dead] \in Share
    <3>1. PICK share \in Share : share = shares[i]
      BY DEF IInv, DocsInv
    <3>2. share.txs \ proc.dead \in SUBSET Txs
      BY DEF Share
    <3> QED
      BY <3>1, <3>2 DEF Share
  <2> QED
    BY <2>1, <2>2
<1>4. ProcOK(proc')
  <2>1. rows \in SUBSET Row
    BY DEF IInv, ChainInv
  <2>2. CASE proc' = Sleeping
    BY <2>2, SleepingOK
  <2>3. CASE proc' = [proc EXCEPT !.at = "restore", !.read = rows]
    BY <2>1, <2>3 DEF IInv, ProcOK, Memory, Places
  <2> QED
    BY <2>2, <2>3 DEF CleanUp
<1>5. PenaltyInv'
  <2>1. cleanUps \in Nat /\ cleanUps' = IF cleanUps < MaxCleanUps THEN cleanUps + 1 ELSE cleanUps
    BY DEF IInv, PenaltyInv, CleanUp
  <2>2. cleanUps' \in Nat /\ cleanUps' # 0
    BY <2>1, ConstantsType
  <2> QED
    BY <2>2 DEF PenaltyInv
<1>6. UNCHANGED <<chainVars, indexVars, store, reqs>>
  BY DEF CleanUp
<1>7. StoreInv' /\ DocsInv'
  BY <1>1, <1>2, <1>3, <1>6 DEF IInv, StoreInv, DocsInv
<1> QED
  BY <1>4, <1>5, <1>6, <1>7, ProcessorKept DEF indexVars

LEMMA RestoreKept ==
  ASSUME IInv, Restore
  PROVE  IInv'
<1>1. PICK ts \in SUBSET Txs : ts = {r.tx : r \in proc.read}
  <2>1. proc.read \subseteq Row
    BY DEF IInv, ProcOK, Memory
  <2> QED
    BY <2>1 DEF Row
<1>2. \A k : OfKind(ts, k) \in SUBSET Txs
  BY DEF OfKind
<1>3. evt' \in Event
  <2>1. PICK status \in Statuses : status = StatusFrom(proc.read)
    BY DEF StatusFrom, Statuses
  <2>2. PICK refunded \in Nat, penalty \in Nat :
          refunded = Total(OfKind(ts, "refund")) /\ penalty = Total(OfKind(ts, "penalty"))
    BY <1>2, TotalNat
  <2>3. evt' = [evt EXCEPT !.status = status, !.refunded = refunded, !.penalty = penalty,
                           !.processed = {}]
    BY <1>1, <2>1, <2>2 DEF Restore
  <2> QED
    BY <2>3 DEF IInv, DocsInv, Event
<1>4. shares' \in [Investors -> Share]
  <2> DEFINE Claims(i) == {t \in OfKind(ts, "claim") : Who[t] = i}
  <2>1. shares' = [i \in Investors |-> [claimed |-> Total(Claims(i)), txs |-> Claims(i)]]
    BY <1>1 DEF Restore
  <2>2. \A i \in Investors : Claims(i) \in SUBSET Txs
    BY <1>2
  <2> HIDE DEF Claims
  <2>3. \A i \in Investors : [claimed |-> Total(Claims(i)), txs |-> Claims(i)] \in Share
    BY <2>2, TotalNat DEF Share
  <2> QED
    BY <2>1, <2>3
<1>5. UNCHANGED <<chainVars, indexVars, docs, store, reqs, ends>>
  BY DEF Restore
<1>6. ProcOK(proc') /\ proc'.at # "restore"
  BY DEF IInv, ProcOK, Memory, Places, Restore
<1>7. StoreInv' /\ DocsInv'
  BY <1>3, <1>4, <1>5 DEF IInv, StoreInv, DocsInv
<1>8. PenaltyInv'
  BY <1>5 DEF IInv, PenaltyInv, Restore, ends
<1> QED
  BY <1>5, <1>6, <1>7, <1>8, ProcessorKept DEF indexVars

LEMMA FailsKept ==
  ASSUME IInv, Fails
  PROVE  IInv'
<1>1. UNCHANGED <<chainVars, indexVars, docVars, store, reqs, cleanUps>> /\ proc' = Sleeping
  BY DEF Fails
<1>2. DocsInv' /\ StoreInv' /\ PenaltyInv'
  BY <1>1, SleepingOK DEF IInv, DocsInv, StoreInv, PenaltyInv, docVars
<1> QED
  BY <1>1, <1>2, SleepingOK, ProcessorKept DEF indexVars

-----------------------------------------------------------------------------
(* Confirm requests.                                                       *)

\* A request that goes on changes its own memory only.
LEMMA OneRequest ==
  ASSUME ReqsInv, NEW q \in Requests, NEW r, RequestOK(r), reqs' = [reqs EXCEPT ![q] = r]
  PROVE  ReqsInv'
BY DEF ReqsInv, RequestOK

LEMMA MovesOK ==
  ASSUME ReqsInv, NEW q \in Requests, reqs[q].at # "new", NEW at \in RequestPlaces, Moves(q, at)
  PROVE  ReqsInv'
<1>1. reqs' = [reqs EXCEPT ![q] = [reqs[q] EXCEPT !.at = at]]
  BY DEF Moves, ReqsInv
<1>2. RequestOK([reqs[q] EXCEPT !.at = at])
  BY DEF ReqsInv, RequestOK, ConfirmRequest
<1> QED
  BY <1>1, <1>2, OneRequest

LEMMA StartRequestKept ==
  ASSUME IInv, NEW q \in Requests, StartRequest(q)
  PROVE  IInv'
<1>1. PICK t \in On(chain) :
        /\ Kind[t] \in {"contribute", "reach", "refund", "claim"}
        /\ rows' = rows \union {r \in RowsIn(chain, 1, Height) : r.tx = t /\ \A o \in rows : o.tx # t}
        /\ reqs' = [reqs EXCEPT ![q].at = Kind[t], ![q].tx = t, ![q].refunded = evt.refunded]
        /\ UNCHANGED docVars /\ ByRequest
  BY DEF StartRequest
<1>2. t \in Txs
  <2>1. \A n \in DOMAIN chain : chain[n] \in Block
    BY DEF IInv, ChainInv
  <2> QED
    BY <2>1 DEF On, Block
<1>3. rows' \subseteq Row
  BY <1>1, RowsType DEF IInv, ChainInv
<1>4. ReqsInv'
  <2>1. PICK at \in RequestPlaces, refunded \in Nat : at = Kind[t] /\ refunded = evt.refunded
    BY <1>1 DEF RequestPlaces, IInv, DocsInv, Event
  <2>2. reqs' = [reqs EXCEPT ![q] = [reqs[q] EXCEPT !.at = at, !.tx = t, !.refunded = refunded]]
    BY <1>1, <2>1 DEF IInv, ReqsInv
  <2>3. RequestOK([reqs[q] EXCEPT !.at = at, !.tx = t, !.refunded = refunded])
    BY <1>2 DEF IInv, ReqsInv, RequestOK, ConfirmRequest
  <2> QED
    BY <2>2, <2>3, OneRequest DEF IInv
<1>5. DocsInv' /\ evt' = evt
  BY <1>1 DEF IInv, DocsInv, docVars
<1> QED
  BY <1>1, <1>3, <1>4, <1>5, RequestKept

LEMMA CreateContributionKept ==
  ASSUME IInv, NEW q \in Requests, CreateContribution(q)
  PROVE  IInv'
<1> DEFINE t == reqs[q].tx
<1>1. /\ docs' = [docs EXCEPT ![t] = IF @ = "none" THEN "confirmed" ELSE @]
      /\ UNCHANGED <<rows, evt, shares>> /\ ByRequest /\ Moves(q, "sum") /\ reqs[q].at # "new"
  BY DEF CreateContribution, At
<1>2. DocsInv'
  BY <1>1 DEF IInv, DocsInv
<1>3. ReqsInv'
  BY <1>1, MovesOK DEF IInv, RequestPlaces
<1> QED
  BY <1>1, <1>2, <1>3, RequestKept DEF IInv, ChainInv

LEMMA MarkRefundedKept ==
  ASSUME IInv, NEW q \in Requests, MarkRefunded(q)
  PROVE  IInv'
<1>1. /\ docs' = MarkRefundedOf(Who[reqs[q].tx])
      /\ UNCHANGED <<rows, evt, shares>> /\ ByRequest /\ reqs[q].at # "new"
      /\ Moves(q, "done") \/ Moves(q, "sum")
  BY DEF MarkRefunded, At
<1>2. DocsInv'
  BY <1>1, MarkedType DEF IInv, DocsInv
<1>3. ReqsInv'
  BY <1>1, MovesOK DEF IInv, RequestPlaces
<1> QED
  BY <1>1, <1>2, <1>3, RequestKept DEF IInv, ChainInv

LEMMA ReadFundingKept ==
  ASSUME IInv, NEW q \in Requests, ReadFunding(q)
  PROVE  IInv'
<1>1. PICK n \in Nat, status \in Statuses :
        reqs' = [reqs EXCEPT ![q].at = "put", ![q].total = n, ![q].status = status]
  BY FundingNat DEF ReadFunding, IInv, DocsInv, Event, Statuses
<1>2. reqs[q].at # "new" /\ UNCHANGED <<rows, docVars>> /\ ByRequest
  BY DEF ReadFunding, At
<1>3. ReqsInv'
  <2>1. reqs' = [reqs EXCEPT ![q] = [reqs[q] EXCEPT !.at = "put", !.total = n, !.status = status]]
    BY <1>1 DEF IInv, ReqsInv
  <2>2. RequestOK([reqs[q] EXCEPT !.at = "put", !.total = n, !.status = status])
    BY <1>2 DEF IInv, ReqsInv, RequestOK, ConfirmRequest, RequestPlaces
  <2> QED
    BY <2>1, <2>2, OneRequest DEF IInv
<1>4. DocsInv' /\ evt' = evt
  BY <1>2 DEF IInv, DocsInv, docVars
<1> QED
  BY <1>2, <1>3, <1>4, RequestKept DEF IInv, ChainInv

LEMMA WriteFundingKept ==
  ASSUME IInv, NEW q \in Requests, WriteFunding(q)
  PROVE  IInv'
<1>1. reqs[q] \in ConfirmRequest /\ reqs[q].at # "new" /\ reqs[q].tx \in Txs
  BY DEF IInv, ReqsInv, RequestOK, WriteFunding, At
<1>2. UNCHANGED <<rows, docs, shares>> /\ ByRequest /\ Moves(q, "done")
  BY DEF WriteFunding
<1>3. PICK n \in Nat, refunded \in Nat, status \in Statuses :
        \/ evt' = [evt EXCEPT !.funding = n, !.status = status, !.refunded = refunded]
        \/ evt' = [evt EXCEPT !.funding = n, !.status = status]
  <2>1. /\ reqs[q].total \in Nat /\ reqs[q].status \in Statuses
        /\ reqs[q].refunded + Amount[reqs[q].tx] \in Nat /\ "cancelled" \in Statuses
    BY <1>1, ConstantsType DEF ConfirmRequest, Statuses
  <2> QED
    BY <2>1 DEF WriteFunding
<1>4. evt' \in Event /\ evt'.penalty = evt.penalty /\ evt'.processed = evt.processed
  BY <1>3 DEF IInv, DocsInv, Event
<1>5. DocsInv'
  BY <1>2, <1>4 DEF IInv, DocsInv
<1>6. ReqsInv'
  BY <1>1, <1>2, MovesOK DEF IInv, RequestPlaces
<1> QED
  BY <1>2, <1>4, <1>5, <1>6, RequestKept DEF IInv, ChainInv

LEMMA ReadClaimKept ==
  ASSUME IInv, NEW q \in Requests, ReadClaim(q)
  PROVE  IInv'
<1>1. /\ reqs[q].at # "new" /\ UNCHANGED <<rows, docVars>> /\ ByRequest
      /\ Moves(q, "done") \/ Moves(q, "share")
  BY DEF ReadClaim, At
<1>2. ReqsInv'
  BY <1>1, MovesOK DEF IInv, RequestPlaces
<1>3. DocsInv' /\ evt' = evt
  BY <1>1 DEF IInv, DocsInv, docVars
<1> QED
  BY <1>1, <1>2, <1>3, RequestKept DEF IInv, ChainInv

LEMMA ReadClaimedKept ==
  ASSUME IInv, NEW q \in Requests, ReadClaimed(q)
  PROVE  IInv'
<1>1. reqs[q].at # "new" /\ UNCHANGED <<rows, docVars>> /\ ByRequest
  BY DEF ReadClaimed, At
<1>2. reqs[q].tx \in Txs
  BY <1>1 DEF IInv, ReqsInv, RequestOK
<1>3. PICK n \in Nat : n = ClaimedWith(reqs[q].tx)
  BY <1>2, ClaimedNat DEF IInv
<1>4. ReqsInv'
  <2>1. reqs' = [reqs EXCEPT ![q] = [reqs[q] EXCEPT !.at = "claimed", !.total = n]]
    BY <1>3 DEF ReadClaimed, IInv, ReqsInv
  <2>2. RequestOK([reqs[q] EXCEPT !.at = "claimed", !.total = n])
    BY <1>1 DEF IInv, ReqsInv, RequestOK, ConfirmRequest, RequestPlaces
  <2> QED
    BY <2>1, <2>2, OneRequest DEF IInv
<1>5. DocsInv' /\ evt' = evt
  BY <1>1 DEF IInv, DocsInv, docVars
<1> QED
  BY <1>1, <1>4, <1>5, RequestKept DEF IInv, ChainInv

LEMMA CountClaimKept ==
  ASSUME IInv, NEW q \in Requests, CountClaim(q)
  PROVE  IInv'
<1>1. /\ reqs[q].at # "new" /\ UNCHANGED <<rows, docs, evt>> /\ ByRequest /\ Moves(q, "done")
      /\ shares' = WithClaim(shares, reqs[q].tx, reqs[q].total)
  BY DEF CountClaim, At
<1>2. reqs[q].tx \in Txs /\ reqs[q].total \in Nat
  BY <1>1 DEF IInv, ReqsInv, RequestOK, ConfirmRequest
<1>3. DocsInv'
  BY <1>1, <1>2, WithClaimType DEF IInv, DocsInv
<1>4. ReqsInv'
  BY <1>1, MovesOK DEF IInv, RequestPlaces
<1> QED
  BY <1>1, <1>3, <1>4, RequestKept DEF IInv, ChainInv

-----------------------------------------------------------------------------
LEMMA InvInit ==
  ASSUME Init
  PROVE  IInv
<1>1. ChainInv
  <2>1. PICK p \in Pasts : chain = [n \in DOMAIN p |-> [fork |-> 0, tx |-> p[n]]]
    BY DEF Init
  <2>2. p \in Seq(Txs \union {NoTx}) /\ Len(p) <= MaxBlocks
    BY FundProcessorAssumption DEF FundProcessorAssumption
  <2>3. Len(p) \in Nat /\ DOMAIN p = 1..Len(p) /\ \A n \in DOMAIN p : p[n] \in Txs \union {NoTx}
    BY <2>2
  <2>4. chain \in [1..Len(p) -> Block]
    BY <2>1, <2>3, ConstantsType DEF Block
  <2>5. chain \in Seq(Block) /\ Len(chain) = Len(p)
    BY <2>3, <2>4, SeqDef, LenProperties
  <2> QED
    BY <2>2, <2>5, ConstantsType DEF ChainInv, Init
<1>2. evt = [status |-> "funding", funding |-> 0, refunded |-> 0, penalty |-> 0, processed |-> {}]
  BY DEF Init, NewEvent
<1>3. DocsInv
  BY <1>2 DEF Init, DocsInv, Event, Statuses, Share, NoClaims
<1>4. StoreInv
  BY ConstantsType, FS_EmptySet DEF Init, StoreInv, HashesOK
<1>5. ProcOK(proc) /\ proc.at = "sleep"
  BY SleepingOK DEF Init
<1>6. ReqsInv
  BY DEF Init, ReqsInv, RequestOK, ConfirmRequest, RequestPlaces, Fresh, Statuses
<1>7. PenaltyInv
  <2>1. Guarded(evt) = {}
    BY <1>2 DEF Guarded
  <2>2. Total({}) = 0
    BY SumZero DEF Total
  <2>3. PenaltyOK(evt)
    BY <1>2, <2>1, <2>2 DEF PenaltyOK
  <2>4. cleanUps = 0
    BY DEF Init
  <2> QED
    BY <1>5, <2>3, <2>4 DEF PenaltyInv
<1> QED
  BY <1>1, <1>3, <1>4, <1>5, <1>6, <1>7 DEF IInv

LEMMA InvStep ==
  ASSUME IInv, [Next]_vars
  PROVE  IInv'
<1>1. CASE Mine \/ Reorg \/ Indexing
  BY <1>1, MineKept, ReorgKept, IndexingKept
<1>2. CASE Processing
  BY <1>2, PlanKept, ReadChunkKept, HandleContributionKept, HandleStatusKept, HandlePenaltyKept,
     HandleRefundKept, HandleClaimKept, ReadShareKept, WriteClaimKept, SumContributionsKept,
     PutFundingKept, SaveChunkKept, CleanUpKept, RestoreKept DEF Processing
<1>3. CASE Fails
  BY <1>3, FailsKept
<1>4. ASSUME NEW q \in Requests, Request(q)
      PROVE  IInv'
  BY <1>4, StartRequestKept, CreateContributionKept, MarkRefundedKept, ReadFundingKept,
     WriteFundingKept, ReadClaimKept, ReadClaimedKept, CountClaimKept DEF Request
<1>5. CASE UNCHANGED vars
  <2>1. UNCHANGED <<chainVars, indexVars, docVars, store, proc, reqs, ends>>
    BY <1>5 DEF vars
  <2> QED
    BY <2>1 DEF IInv, ChainInv, DocsInv, StoreInv, ReqsInv, PenaltyInv, chainVars, indexVars, docVars, ends
<1> QED
  BY <1>1, <1>2, <1>3, <1>4, <1>5 DEF Next

LEMMA FundProcessorInvariant == Spec => []IInv
<1>1. Init => IInv
  BY InvInit
<1>2. IInv /\ [Next]_vars => IInv'
  BY InvStep
<1> QED
  BY <1>1, <1>2, PTL DEF Spec

\* Whatever fails, restarts, reorganises or is confirmed by a request, the
\* documents are well typed, no amount in them is negative, the processor stays
\* within the chain, and it remembers hashes of at most a window of blocks.
THEOREM FundProcessorTypeCorrect == Spec => []TypeOK
<1>1. IInv => TypeOK
  BY DEF IInv, ChainInv, DocsInv, StoreInv, ProcOK, TypeOK, Block, Row, Event, Statuses, Deltas
<1> QED
  BY <1>1, FundProcessorInvariant, PTL

\* Rescans, retries, failures and restarts count each PenaltyApplied log once
\* at most, as long as no clean-up has emptied processedTxHashes.
THEOREM PenaltiesCountOnce == Spec => []PenaltyOnceUnlessRebuilt
<1>1. IInv => PenaltyOnceUnlessRebuilt
  <2> SUFFICES ASSUME IInv, cleanUps = 0
               PROVE  evt.penalty <= Total(OfKind(Txs, "penalty"))
    BY DEF PenaltyOnceUnlessRebuilt, PenaltyCountedOnce
  <2>1. evt.penalty = Total(Guarded(evt)) /\ Guarded(evt) \in SUBSET OfKind(Txs, "penalty")
    BY DEF IInv, PenaltyInv, PenaltyOK
  <2>2. OfKind(Txs, "penalty") \in SUBSET Txs
    BY DEF OfKind
  <2>3. IsFiniteSet(OfKind(Txs, "penalty")) /\ \A t \in OfKind(Txs, "penalty") : Amount[t] \in Nat
    BY <2>2, TotalNat, ConstantsType
  <2>4. \A t \in Guarded(evt) : Amount[t] \in Nat /\ Amount[t] <= Amount[t]
    BY <2>1, <2>3
  <2>5. Total(Guarded(evt)) <= Total(OfKind(Txs, "penalty"))
    BY <2>1, <2>3, <2>4, SumMonotone DEF Total
  <2> QED
    BY <2>1, <2>5
<1> QED
  BY <1>1, FundProcessorInvariant, PTL
=============================================================================
