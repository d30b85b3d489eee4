------------------------------ MODULE FundProofs ------------------------------
(***************************************************************************)
(* What Fund keeps for every number of accounts and events, every price,   *)
(* every rate and every behaviour of the contracts that call it: its types *)
(* first, then its safety properties, then the abstract lifecycle it       *)
(* implements.                                                             *)
(*                                                                         *)
(* None of these is inductive alone.  The solvency of the one balance      *)
(* needs the reserve of every event to cover its rewards; that needs the   *)
(* shares to add up and nothing to have accrued before the release; and    *)
(* those need the release to be final.  EventInv says all of it about one  *)
(* event; a transaction writes one event only, and the others keep theirs. *)
(***************************************************************************)
EXTENDS Fund, FiniteSetTheorems, FunctionTheorems, WellFoundedInduction, TLAPS

-----------------------------------------------------------------------------
(* Products, quotients rounded down and totals: what fees, shares,         *)
(* penalties and rewards are computed with.  PlatformProofs takes these    *)
(* laws from here.                                                         *)

\* A product of naturals is a natural.
LEMMA ProductNat ==
  ASSUME NEW a \in Nat, NEW b \in Nat
  PROVE  a * b \in Nat
OBVIOUS

\* The quotient of naturals is a natural and loses at most the remainder.
LEMMA QuotientBound ==
  ASSUME NEW x \in Nat, NEW d \in Nat \ {0}
  PROVE  x \div d \in Nat /\ d * (x \div d) <= x
OBVIOUS

LEMMA ProductMonotone ==
  ASSUME NEW a \in Nat, NEW b \in Nat, NEW c \in Nat, a <= b
  PROVE  c * a <= c * b
OBVIOUS

LEMMA ProductCancel ==
  ASSUME NEW a \in Nat, NEW b \in Nat, NEW c \in Nat \ {0}, c * a <= c * b
  PROVE  a <= b
OBVIOUS

\* A fraction p / d of x, with p at most d, is at most x.
LEMMA FractionBound ==
  ASSUME NEW x \in Nat, NEW d \in Nat \ {0}, NEW p \in Nat, p <= d
  PROVE  (x * p) \div d \in 0 .. x
<1> DEFINE q == (x * p) \div d
<1>1. x * p \in Nat /\ x * p <= d * x
  BY ProductNat, ProductMonotone
<1>2. q \in Nat /\ d * q <= x * p
  BY <1>1, QuotientBound
<1>3. d * q \in Nat /\ d * x \in Nat
  BY <1>2, ProductNat
<1>4. q <= x
  <2> HIDE DEF q
  <2>1. d * q <= d * x
    BY <1>1, <1>2, <1>3
  <2> QED
    BY <2>1, <1>2, ProductCancel
<1> QED
  BY <1>2, <1>4

\* The units of a function are finitely many, so a total is a number.
LEMMA UnitsFinite ==
  ASSUME NEW S, IsFiniteSet(S), NEW f, \A s \in S : f[s] \in Nat
  PROVE  IsFiniteSet(Units(f, S)) /\ SumOver(f, S) \in Nat
<1> DEFINE Parts == {{s} \X (1 .. f[s]) : s \in S}
           part == [s \in S |-> {s} \X (1 .. f[s])]
<1>1. \A P \in Parts : IsFiniteSet(P)
  <2> SUFFICES ASSUME NEW s \in S
               PROVE  IsFiniteSet({s} \X (1 .. f[s]))
    OBVIOUS
  <2>1. IsFiniteSet({s})
    BY FS_Singleton
  <2>2. f[s] \in Int
    OBVIOUS
  <2>3. IsFiniteSet(1 .. f[s])
    BY <2>2, FS_Interval
  <2> QED
    BY <2>1, <2>3, FS_Product
<1>2. part \in Surjection(S, Parts)
  BY DEF Surjection
<1>3. IsFiniteSet(Parts)
  BY <1>2, FS_Surjection
<1>4. IsFiniteSet(UNION Parts)
  BY <1>1, <1>3, FS_UNION
<1> QED
  BY <1>4, FS_CardinalityType DEF Units, SumOver

\* The units of one element are as many as the function gives it.
LEMMA UnitsOfOne ==
  ASSUME NEW x, NEW n \in Nat
  PROVE  IsFiniteSet({x} \X (1 .. n)) /\ Cardinality({x} \X (1 .. n)) = n
<1>1. IsFiniteSet({x}) /\ Cardinality({x}) = 1
  BY FS_Singleton
<1>2. n \in Int /\ 1 \in Int
  OBVIOUS
<1>3. IsFiniteSet(1 .. n) /\ Cardinality(1 .. n) = n
  BY <1>2, FS_Interval
<1>4. Cardinality({x} \X (1 .. n)) = 1 * n
  BY <1>1, <1>3, FS_Product
<1> QED
  BY <1>1, <1>3, <1>4, FS_Product

\* Taking one element out of the domain takes its value out of the total.
LEMMA SumSplit ==
  ASSUME NEW S, IsFiniteSet(S), NEW f, \A s \in S : f[s] \in Nat, NEW x \in S
  PROVE  SumOver(f, S) = SumOver(f, S \ {x}) + f[x]
<1> DEFINE Rest == Units(f, S \ {x})
           One == {x} \X (1 .. f[x])
<1>1. Units(f, S) = Rest \cup One
  BY DEF Units
<1>2. Rest \cap One = {}
  BY DEF Units
<1>3. IsFiniteSet(Units(f, S))
  BY UnitsFinite
<1>4. IsFiniteSet(Rest)
  BY <1>1, <1>3, FS_Subset
<1>5. IsFiniteSet(One) /\ Cardinality(One) = f[x]
  BY UnitsOfOne
<1>6. Cardinality(Rest \cup One) = Cardinality(Rest) + Cardinality(One) - Cardinality(Rest \cap One)
  BY <1>4, <1>5, FS_Union
<1>7. Cardinality(Rest \cap One) = 0
  BY <1>2, FS_EmptySet
<1>8. Cardinality(Rest) \in Nat /\ f[x] \in Nat
  BY <1>4, FS_CardinalityType
<1> QED
  BY <1>1, <1>5, <1>6, <1>7, <1>8 DEF SumOver

\* Two functions that agree off x have totals that differ as their values at x.
LEMMA SumUpdate ==
  ASSUME NEW S, IsFiniteSet(S), NEW f \in [S -> Nat], NEW g \in [S -> Nat],
         NEW x \in S, \A s \in S \ {x} : g[s] = f[s]
  PROVE  SumOver(g, S) = SumOver(f, S) - f[x] + g[x]
<1>1. Units(g, S \ {x}) = Units(f, S \ {x})
  BY DEF Units
<1>2. SumOver(g, S \ {x}) = SumOver(f, S \ {x})
  BY <1>1 DEF SumOver
<1>3. SumOver(f, S) = SumOver(f, S \ {x}) + f[x]
  BY SumSplit
<1>4. SumOver(g, S) = SumOver(g, S \ {x}) + g[x]
  BY SumSplit
<1>5. SumOver(f, S \ {x}) \in Nat
  <2>1. IsFiniteSet(S \ {x})
    BY FS_RemoveElement
  <2>2. IsFiniteSet(Units(f, S))
    BY UnitsFinite
  <2>3. Units(f, S \ {x}) \subseteq Units(f, S)
    BY DEF Units
  <2>4. IsFiniteSet(Units(f, S \ {x}))
    BY <2>2, <2>3, FS_Subset
  <2> QED
    BY <2>4, FS_CardinalityType DEF SumOver
<1>6. f[x] \in Nat /\ g[x] \in Nat
  OBVIOUS
<1> QED
  BY <1>2, <1>3, <1>4, <1>5, <1>6

\* Functions with the same values have the same total.
LEMMA SumSame ==
  ASSUME NEW S, NEW f, NEW g, \A s \in S : g[s] = f[s]
  PROVE  SumOver(g, S) = SumOver(f, S)
<1>1. Units(g, S) = Units(f, S)
  BY DEF Units
<1> QED
  BY <1>1 DEF SumOver

\* A total is at least any one of its values.
LEMMA SumBound ==
  ASSUME NEW S, IsFiniteSet(S), NEW f \in [S -> Nat], NEW x \in S
  PROVE  f[x] <= SumOver(f, S)
<1>1. {x} \X (1 .. f[x]) \subseteq Units(f, S)
  BY DEF Units
<1>2. IsFiniteSet(Units(f, S))
  BY UnitsFinite
<1>3. Cardinality({x} \X (1 .. f[x])) <= Cardinality(Units(f, S))
  BY <1>1, <1>2, FS_Subset
<1>4. Cardinality({x} \X (1 .. f[x])) = f[x]
  BY UnitsOfOne
<1> QED
  BY <1>3, <1>4 DEF SumOver

\* Nothing adds up to zero.
LEMMA SumZero ==
  ASSUME NEW S, NEW f, \A s \in S : f[s] = 0
  PROVE  SumOver(f, S) = 0
<1>1. Units(f, S) = {}
  BY DEF Units
<1> QED
  BY <1>1, FS_EmptySet DEF SumOver

\* A comparison of two functions up to factors, value by value, is one of their
\* totals.  A set with a wrong comparison would have a smallest subset with one.
LEMMA SumScaled ==
  ASSUME NEW S, IsFiniteSet(S), NEW f \in [S -> Nat], NEW g \in [S -> Nat],
         NEW k \in Nat, NEW a \in Nat, \A s \in S : k * f[s] <= a * g[s]
  PROVE  k * SumOver(f, S) <= a * SumOver(g, S)
<1> DEFINE Below(X) == k * SumOver(f, X) <= a * SumOver(g, X)
           Wrong == {X \in FiniteSubsetsOf(S) : ~ Below(X)}
<1>1. \A X \in FiniteSubsetsOf(S) : IsFiniteSet(X) /\ X \subseteq S
  BY DEF FiniteSubsetsOf
<1>2. S \in FiniteSubsetsOf(S)
  BY DEF FiniteSubsetsOf
<1>3. SUFFICES ASSUME Wrong # {}
               PROVE  FALSE
  BY <1>2
<1>4. PICK X \in Wrong : \A Y \in Wrong : ~ (<<Y, X>> \in StrictSubsetOrdering(S))
  <2>1. Wrong \subseteq FiniteSubsetsOf(S)
    OBVIOUS
  <2> HIDE DEF Wrong
  <2> QED
    BY <1>3, <2>1, FS_StrictSubsetOrderingWellFounded, WFMin
<1>5. IsFiniteSet(X) /\ X \subseteq S /\ ~ Below(X)
  BY <1>1
<1>6. X # {}
  <2> SUFFICES ASSUME X = {}
               PROVE  FALSE
    OBVIOUS
  <2>1. SumOver(f, X) = 0 /\ SumOver(g, X) = 0
    BY SumZero
  <2> QED
    BY <2>1, <1>5
<1>7. PICK x \in X : TRUE
  BY <1>6
<1> DEFINE Rest == X \ {x}
<1>8. IsFiniteSet(Rest) /\ Rest \subseteq S
  BY <1>5, FS_RemoveElement
<1>9. Below(Rest)
  <2>1. Rest \in FiniteSubsetsOf(S) /\ <<Rest, X>> \in StrictSubsetOrdering(S)
    BY <1>5, <1>7, <1>8 DEF FiniteSubsetsOf, StrictSubsetOrdering
  <2> QED
    BY <2>1, <1>4
<1>10. /\ SumOver(f, X) = SumOver(f, Rest) + f[x]
       /\ SumOver(g, X) = SumOver(g, Rest) + g[x]
  BY <1>5, <1>7, SumSplit
<1>11. SumOver(f, Rest) \in Nat /\ SumOver(g, Rest) \in Nat
  BY <1>8, UnitsFinite
<1>12. f[x] \in Nat /\ g[x] \in Nat /\ k * f[x] <= a * g[x]
  BY <1>5, <1>7
<1>13. k * (SumOver(f, Rest) + f[x]) <= a * (SumOver(g, Rest) + g[x])
  <2> DEFINE p == SumOver(f, Rest)
             q == SumOver(g, Rest)
  <2>1. p \in Nat /\ q \in Nat /\ k * p <= a * q
    BY <1>9, <1>11
  <2> HIDE DEF p, q
  <2>2. k * (p + f[x]) = k * p + k * f[x] /\ a * (q + g[x]) = a * q + a * g[x]
    BY <1>12, <2>1
  <2>3. k * p \in Nat /\ k * f[x] \in Nat /\ a * q \in Nat /\ a * g[x] \in Nat
    BY <1>12, <2>1, ProductNat
  <2>4. k * (p + f[x]) <= a * (q + g[x])
    BY <1>12, <2>1, <2>2, <2>3
  <2> QED
    BY <2>4 DEF p, q
<1> QED
  BY <1>5, <1>10, <1>13

\* A smaller function on a smaller set has a smaller total.
LEMMA SumMonotone ==
  ASSUME NEW S, NEW R \in SUBSET S, IsFiniteSet(S), NEW f, NEW g,
         \A s \in S : f[s] \in Nat, \A s \in R : g[s] \in Nat /\ g[s] <= f[s]
  PROVE  SumOver(g, R) <= SumOver(f, S)
<1>1. Units(g, R) \subseteq Units(f, S)
  <2> SUFFICES ASSUME NEW s \in R
               PROVE  {s} \X (1 .. g[s]) \subseteq Units(f, S)
    BY DEF Units
  <2>1. 1 .. g[s] \subseteq 1 .. f[s]
    OBVIOUS
  <2> QED
    BY <2>1 DEF Units
<1>2. IsFiniteSet(Units(f, S))
  BY UnitsFinite
<1> QED
  BY <1>1, <1>2, FS_Subset DEF SumOver

\* One element more in the domain puts its value into the total.
LEMMA SumGrown ==
  ASSUME NEW S, IsFiniteSet(S), NEW x, x \notin S, NEW f, NEW g, \A s \in S : f[s] \in Nat,
         \A s \in S : g[s] = f[s], g[x] \in Nat
  PROVE  SumOver(g, S \cup {x}) = SumOver(f, S) + g[x]
<1>1. IsFiniteSet(S \cup {x}) /\ (S \cup {x}) \ {x} = S
  BY FS_AddElement
<1>2. SumOver(g, S \cup {x}) = SumOver(g, S) + g[x]
  <2>1. \A s \in S \cup {x} : g[s] \in Nat
    OBVIOUS
  <2>2. SumOver(g, S \cup {x}) = SumOver(g, (S \cup {x}) \ {x}) + g[x]
    BY <1>1, <2>1, SumSplit
  <2> QED
    BY <1>1, <2>2
<1> QED
  BY <1>2, SumSame

-----------------------------------------------------------------------------
(* Types.                                                                  *)

LEMMA ConstantsType ==
  /\ BPS_DENOM \in Nat \ {0} /\ REWARD_SCALE \in Nat \ {0}
  /\ PLATFORM_FEE_BPS \in Nat /\ PLATFORM_FEE_BPS <= BPS_DENOM
  /\ IsFiniteSet(Accounts) /\ IsFiniteSet(Events) /\ Events \subseteq Nat
  /\ MaxEvents \in Nat /\ Wired \in BOOLEAN
  /\ CreateArgs \subseteq CreateArgsType
  /\ Amounts \subseteq Nat /\ Gifts \subseteq Nat /\ TopUps \subseteq Nat
  /\ PenaltyRates \subseteq Nat /\ Quantities \subseteq Nat
<1>1. MaxEvents \in Int /\ 1 \in Int
  BY FundAssumption DEF FundAssumption
<1>2. IsFiniteSet(Events)
  BY <1>1, FS_Interval DEF Events
<1> QED
  BY <1>1, <1>2, FundAssumption DEF FundAssumption, Events

-----------------------------------------------------------------------------
(* Types.                                                                  *)

\* Assigning a value of its type to one field keeps an event's record an
\* EventConfig; longer updates are taken apart into these.
LEMMA FieldUpdate ==
  ASSUME NEW r \in EventConfig
  PROVE  /\ \A c \in Accounts : [r EXCEPT !.organizer = c] \in EventConfig
         /\ \A s \in EventStatus : [r EXCEPT !.status = s] \in EventConfig
         /\ \A v \in 0 .. BPS_DENOM : [r EXCEPT !.organizerShareBps = v] \in EventConfig
         /\ \A v \in Nat :
              /\ [r EXCEPT !.fundingGoal = v] \in EventConfig
              /\ [r EXCEPT !.currentFunding = v] \in EventConfig
              /\ [r EXCEPT !.fundingDeadline = v] \in EventConfig
              /\ [r EXCEPT !.organizerStakeLocked = v] \in EventConfig
              /\ [r EXCEPT !.ticketPrice = v] \in EventConfig
              /\ [r EXCEPT !.maxTickets = v] \in EventConfig
              /\ [r EXCEPT !.refundPool = v] \in EventConfig
              /\ [r EXCEPT !.escrowedRevenue = v] \in EventConfig
              /\ [r EXCEPT !.totalShares = v] \in EventConfig
              /\ [r EXCEPT !.accRewardPerShare = v] \in EventConfig
              /\ [r EXCEPT !.totalMinted = v] \in EventConfig
         /\ \A b \in BOOLEAN :
              /\ [r EXCEPT !.investmentEnabled = b] \in EventConfig
              /\ [r EXCEPT !.refundsEnabled = b] \in EventConfig
              /\ [r EXCEPT !.sharesFinalized = b] \in EventConfig
              /\ [r EXCEPT !.revenueReleased = b] \in EventConfig
<1>1. \A c \in Accounts : [r EXCEPT !.organizer = c] \in EventConfig
  BY DEF EventConfig
<1>2. \A s \in EventStatus : [r EXCEPT !.status = s] \in EventConfig
  BY DEF EventConfig
<1>3. \A v \in 0 .. BPS_DENOM : [r EXCEPT !.organizerShareBps = v] \in EventConfig
  BY DEF EventConfig
<1>4. \A v \in Nat : [r EXCEPT !.fundingGoal = v] \in EventConfig
  BY DEF EventConfig
<1>5. \A v \in Nat : [r EXCEPT !.currentFunding = v] \in EventConfig
  BY DEF EventConfig
<1>6. \A v \in Nat : [r EXCEPT !.fundingDeadline = v] \in EventConfig
  BY DEF EventConfig
<1>7. \A v \in Nat : [r EXCEPT !.organizerStakeLocked = v] \in EventConfig
  BY DEF EventConfig
<1>8. \A v \in Nat : [r EXCEPT !.ticketPrice = v] \in EventConfig
  BY DEF EventConfig
<1>9. \A v \in Nat : [r EXCEPT !.maxTickets = v] \in EventConfig
  BY DEF EventConfig
<1>10. \A v \in Nat : [r EXCEPT !.refundPool = v] \in EventConfig
  BY DEF EventConfig
<1>11. \A v \in Nat : [r EXCEPT !.escrowedRevenue = v] \in EventConfig
  BY DEF EventConfig
<1>12. \A v \in Nat : [r EXCEPT !.totalShares = v] \in EventConfig
  BY DEF EventConfig
<1>13. \A v \in Nat : [r EXCEPT !.accRewardPerShare = v] \in EventConfig
  BY DEF EventConfig
<1>14. \A v \in Nat : [r EXCEPT !.totalMinted = v] \in EventConfig
  BY DEF EventConfig
<1>15. \A b \in BOOLEAN : [r EXCEPT !.investmentEnabled = b] \in EventConfig
  BY DEF EventConfig
<1>16. \A b \in BOOLEAN : [r EXCEPT !.refundsEnabled = b] \in EventConfig
  BY DEF EventConfig
<1>17. \A b \in BOOLEAN : [r EXCEPT !.sharesFinalized = b] \in EventConfig
  BY DEF EventConfig
<1>18. \A b \in BOOLEAN : [r EXCEPT !.revenueReleased = b] \in EventConfig
  BY DEF EventConfig
<1> QED
  BY <1>1, <1>2, <1>3, <1>4, <1>5, <1>6, <1>7, <1>8, <1>9, <1>10, <1>11, <1>12, <1>13, <1>14, <1>15, <1>16, <1>17, <1>18

\* The operators that rewrite one event's record keep it an EventConfig.
LEMMA CreatedType ==
  ASSUME NEW c \in Accounts, NEW a \in CreateArgsType, NEW stake \in Nat,
         a.organizerShareBps <= BPS_DENOM
  PROVE  CreatedEvent(c, a, stake) \in EventConfig
<1> DEFINE invest == a.investmentEnabled
           goal == IF invest THEN a.fundingGoal ELSE 0
           deadline == IF invest THEN a.fundingDeadline ELSE 0
           status == IF invest THEN "Funding" ELSE "Funded"
           r1 == [NoEvent EXCEPT !.organizer = c]
           r2 == [r1 EXCEPT !.investmentEnabled = invest]
           r3 == [r2 EXCEPT !.fundingGoal = goal]
           r4 == [r3 EXCEPT !.fundingDeadline = deadline]
           r5 == [r4 EXCEPT !.organizerStakeLocked = stake]
           r6 == [r5 EXCEPT !.organizerShareBps = a.organizerShareBps]
           r7 == [r6 EXCEPT !.ticketPrice = a.ticketPrice]
           r8 == [r7 EXCEPT !.maxTickets = a.maxTickets]
           r9 == [r8 EXCEPT !.status = status]
           r10 == [r9 EXCEPT !.sharesFinalized = ~invest]
<1>1. /\ a.organizerShareBps \in 0 .. BPS_DENOM /\ a.ticketPrice \in Nat /\ a.maxTickets \in Nat
      /\ invest \in BOOLEAN /\ (~invest) \in BOOLEAN /\ goal \in Nat /\ deadline \in Nat
      /\ status \in EventStatus
  <2>1. /\ a.organizerShareBps \in Nat /\ a.ticketPrice \in Nat /\ a.maxTickets \in Nat
        /\ a.fundingGoal \in Nat /\ a.fundingDeadline \in Nat
    BY DEF CreateArgsType
  <2>2. invest \in BOOLEAN
    BY DEF CreateArgsType
  <2>3. (~invest) \in BOOLEAN
    OBVIOUS
  <2>4. goal \in Nat /\ deadline \in Nat
    BY <2>1
  <2>5. status \in EventStatus
    BY DEF EventStatus
  <2>6. a.organizerShareBps \in 0 .. BPS_DENOM
    BY <2>1, ConstantsType
  <2> QED
    BY <2>1, <2>2, <2>3, <2>4, <2>5, <2>6
<1>2. NoEvent \in EventConfig
  BY ConstantsType DEF NoEvent, EventConfig, EventStatus
<1>3. CreatedEvent(c, a, stake) = r10
  BY DEF CreatedEvent
<1> HIDE DEF invest, goal, deadline, status
<1>4. r1 \in EventConfig
  BY <1>2, FieldUpdate
<1>5. r2 \in EventConfig
  <2> HIDE DEF r1
  <2> QED
    BY <1>1, <1>4, FieldUpdate
<1>6. r3 \in EventConfig
  <2> HIDE DEF r2
  <2> QED
    BY <1>1, <1>5, FieldUpdate
<1>7. r4 \in EventConfig
  <2> HIDE DEF r3
  <2> QED
    BY <1>1, <1>6, FieldUpdate
<1>8. r5 \in EventConfig
  <2> HIDE DEF r4
  <2> QED
    BY <1>1, <1>7, FieldUpdate
<1>9. r6 \in EventConfig
  <2> HIDE DEF r5
  <2> QED
    BY <1>1, <1>8, FieldUpdate
<1>10. r7 \in EventConfig
  <2> HIDE DEF r6
  <2> QED
    BY <1>1, <1>9, FieldUpdate
<1>11. r8 \in EventConfig
  <2> HIDE DEF r7
  <2> QED
    BY <1>1, <1>10, FieldUpdate
<1>12. r9 \in EventConfig
  <2> HIDE DEF r8
  <2> QED
    BY <1>1, <1>11, FieldUpdate
<1>13. r10 \in EventConfig
  <2> HIDE DEF r9
  <2> QED
    BY <1>1, <1>12, FieldUpdate
<1> QED
  BY <1>3, <1>13

LEMMA ContributedType ==
  ASSUME NEW r \in EventConfig, NEW v \in Nat
  PROVE  Contributed(r, v) \in EventConfig
<1> DEFINE reached == r.currentFunding + v >= r.fundingGoal
           status == IF reached THEN "Funded" ELSE r.status
           final == r.sharesFinalized \/ reached
           r1 == [r EXCEPT !.totalShares = r.totalShares + v]
           r2 == [r1 EXCEPT !.currentFunding = r.currentFunding + v]
           r3 == [r2 EXCEPT !.status = status]
           r4 == [r3 EXCEPT !.sharesFinalized = final]
<1>1. /\ r.totalShares + v \in Nat /\ r.currentFunding + v \in Nat
      /\ status \in EventStatus /\ final \in BOOLEAN
  BY DEF EventConfig, EventStatus
<1>2. Contributed(r, v) = r4
  BY DEF Contributed, EventConfig
<1> HIDE DEF reached, status, final
<1>3. r1 \in EventConfig
  BY <1>1, FieldUpdate
<1>4. r2 \in EventConfig
  <2> HIDE DEF r1
  <2> QED
    BY <1>1, <1>3, FieldUpdate
<1>5. r3 \in EventConfig
  <2> HIDE DEF r2
  <2> QED
    BY <1>1, <1>4, FieldUpdate
<1>6. r4 \in EventConfig
  <2> HIDE DEF r3
  <2> QED
    BY <1>1, <1>5, FieldUpdate
<1> QED
  BY <1>2, <1>6

LEMMA CancelledType ==
  ASSUME NEW r \in EventConfig
  PROVE  Cancelled(r) \in EventConfig
<1> DEFINE pool == r.refundPool + r.escrowedRevenue
           enabled == r.refundsEnabled \/ r.totalMinted > 0 \/ pool > 0
           r1 == [r EXCEPT !.status = "Cancelled"]
           r2 == [r1 EXCEPT !.sharesFinalized = TRUE]
           r3 == [r2 EXCEPT !.refundPool = pool]
           r4 == [r3 EXCEPT !.escrowedRevenue = 0]
           r5 == [r4 EXCEPT !.refundsEnabled = enabled]
<1>1. pool \in Nat /\ enabled \in BOOLEAN /\ "Cancelled" \in EventStatus
  BY DEF EventConfig, EventStatus
<1>2. Cancelled(r) = r5
  BY DEF Cancelled, EventConfig
<1> HIDE DEF pool, enabled
<1>3. r1 \in EventConfig
  BY <1>1, FieldUpdate
<1>4. r2 \in EventConfig
  <2> HIDE DEF r1
  <2> QED
    BY <1>1, <1>3, FieldUpdate
<1>5. r3 \in EventConfig
  <2> HIDE DEF r2
  <2> QED
    BY <1>1, <1>4, FieldUpdate
<1>6. r4 \in EventConfig
  <2> HIDE DEF r3
  <2> QED
    BY <1>1, <1>5, FieldUpdate
<1>7. r5 \in EventConfig
  <2> HIDE DEF r4
  <2> QED
    BY <1>1, <1>6, FieldUpdate
<1> QED
  BY <1>2, <1>7

LEMMA FinalizedType ==
  ASSUME NEW r \in EventConfig
  PROVE  Finalized(r) \in EventConfig
<1>1. CASE ~r.investmentEnabled
  BY <1>1 DEF Finalized, EventConfig, EventStatus
<1>2. CASE r.investmentEnabled /\ r.status = "Funded"
  BY <1>2 DEF Finalized, EventConfig, EventStatus
<1>3. CASE r.investmentEnabled /\ r.status # "Funded"
  BY <1>3, CancelledType DEF Finalized
<1> QED
  BY <1>1, <1>2, <1>3

\* releaseRevenue splits the escrow without remainder: fee, organizer's share
\* and the donators' pool, which is empty when there is no share to divide it by.
LEMMA SplitExact ==
  ASSUME NEW r \in EventConfig
  PROVE  /\ PlatformFee(r) \in Nat /\ OrganizerShare(r) \in Nat /\ DonatorPool(r) \in Nat
         /\ PlatformFee(r) + OrganizerShare(r) + DonatorPool(r) = r.escrowedRevenue
         /\ r.totalShares = 0 => DonatorPool(r) = 0
<1> DEFINE x == r.escrowedRevenue
           afterFee == x - PlatformFee(r)
<1>1. x \in Nat /\ r.organizerShareBps \in Nat /\ r.organizerShareBps <= BPS_DENOM
  BY ConstantsType DEF EventConfig
<1>2. PlatformFee(r) \in 0 .. x
  BY <1>1, ConstantsType, FractionBound DEF PlatformFee
<1>3. afterFee \in Nat
  BY <1>1, <1>2
<1>4. (afterFee * r.organizerShareBps) \div BPS_DENOM \in 0 .. afterFee
  <2> HIDE DEF afterFee
  <2> QED
    BY <1>1, <1>3, ConstantsType, FractionBound
<1>5. OrganizerShare(r) \in 0 .. afterFee
  BY <1>3, <1>4 DEF OrganizerShare
<1>6. r.totalShares = 0 => OrganizerShare(r) = afterFee
  BY DEF OrganizerShare
<1> QED
  BY <1>1, <1>2, <1>3, <1>5, <1>6 DEF DonatorPool
LEMMA TypeInit == Init => TypeOK
<1>1. NoEvent \in EventConfig
  BY ConstantsType DEF NoEvent, EventConfig, EventStatus
<1> QED
  BY <1>1, ConstantsType DEF Init, TypeOK

\* What the rewards are computed from is natural, whoever asks.
LEMMA RewardType ==
  ASSUME TypeOK, NEW e \in Events, NEW u \in Accounts
  PROVE  Accumulated(e, u) \in Nat /\ PendingReward(e, u) \in Nat
<1>1. /\ shareOf[e][u] \in Nat /\ rewardDebt[e][u] \in Nat /\ pending[e][u] \in Nat
      /\ ev[e].accRewardPerShare \in Nat
  BY DEF TypeOK, EventConfig
<1>2. shareOf[e][u] * ev[e].accRewardPerShare \in Nat
  BY <1>1, ProductNat
<1>3. Accumulated(e, u) \in Nat
  BY <1>2, ConstantsType, QuotientBound DEF Accumulated
<1> QED
  BY <1>1, <1>3 DEF PendingReward

LEMMA RewardPerShareType ==
  ASSUME NEW pool \in Nat, NEW shares \in Nat, shares = 0 => pool = 0
  PROVE  RewardPerShare(pool, shares) \in Nat
<1>1. CASE pool = 0
  BY <1>1 DEF RewardPerShare
<1>2. CASE pool # 0
  <2>1. pool * REWARD_SCALE \in Nat /\ shares \in Nat \ {0}
    BY <1>2, ConstantsType, ProductNat
  <2> QED
    BY <1>2, <2>1, QuotientBound DEF RewardPerShare
<1> QED
  BY <1>1, <1>2

\* A transaction of Fund that rewrites one event's record.
Writes(e, r) == ev' = [ev EXCEPT ![e] = r]

LEMMA WritesType ==
  ASSUME TypeOK, NEW e \in Events, NEW r \in EventConfig, Writes(e, r)
  PROVE  ev' \in [Events -> EventConfig]
BY DEF Writes, TypeOK

LEMMA CreateEventType ==
  ASSUME TypeOK, NEW c \in Accounts, NEW a \in CreateArgs, NEW v \in Amounts,
         CreateEvent(c, a, v)
  PROVE  TypeOK'
<1>1. v \in Nat /\ a \in CreateArgsType /\ a.organizerShareBps <= BPS_DENOM
  BY ConstantsType DEF CreateEvent, ValidArgs
<1>2. nextEventId \in Events
  BY ConstantsType DEF CreateEvent, TypeOK, Events
<1>3. ev' \in [Events -> EventConfig]
  BY <1>1, <1>2, CreatedType DEF CreateEvent, TypeOK
<1> QED
  BY <1>1, <1>3 DEF CreateEvent, TypeOK, Receive, userVars, wiringVars

LEMMA ContributeType ==
  ASSUME TypeOK, NEW c \in Accounts, NEW e \in Events, NEW v \in Amounts,
         Contribute(c, e, v)
  PROVE  TypeOK'
<1>1. v \in Nat /\ ev[e] \in EventConfig /\ shareOf[e][c] + v \in Nat
  BY ConstantsType DEF TypeOK
<1>2. ev' \in [Events -> EventConfig]
  BY <1>1, ContributedType DEF Contribute, TypeOK
<1>3. Accumulated(e, c) \in Nat /\ PendingReward(e, c) \in Nat
  BY RewardType
<1>4. /\ shareOf' \in [Events -> [Accounts -> Nat]]
      /\ rewardDebt' \in [Events -> [Accounts -> Nat]]
      /\ pending' \in [Events -> [Accounts -> Nat]]
  BY <1>1, <1>3 DEF Contribute, TypeOK
<1> QED
  BY <1>1, <1>2, <1>4 DEF Contribute, TypeOK, Receive, wiringVars

LEMMA LifecycleType ==
  ASSUME TypeOK, NEW c \in Accounts, NEW e \in Events, LifecycleStep(c, e)
  PROVE  TypeOK'
<1> DEFINE r == ev[e]
<1>0. r \in EventConfig
  BY DEF TypeOK
<1>1. CASE FinalizeFunding(c, e)
  <2>1. ev' \in [Events -> EventConfig]
    BY <1>0, <1>1, FinalizedType DEF FinalizeFunding, TypeOK
  <2> QED
    BY <1>1, <2>1 DEF FinalizeFunding, TypeOK, userVars, wiringVars
<1>2. CASE \E reason \in Reasons : CancelEvent(c, e, reason)
  <2>1. ev' \in [Events -> EventConfig]
    BY <1>0, <1>2, CancelledType DEF CancelEvent, TypeOK
  <2> QED
    BY <1>2, <2>1 DEF CancelEvent, TypeOK, userVars, wiringVars
<1>3. CASE \E q \in Quantities : StartTicketing(c, e, q)
  <2>1. PICK q \in Quantities : StartTicketing(c, e, q)
    BY <1>3
  <2> DEFINE r1 == [r EXCEPT !.totalMinted = r.totalMinted + q]
             r2 == [r1 EXCEPT !.status = "Ticketing"]
  <2>2. r.totalMinted + q \in Nat
    BY <1>0, ConstantsType DEF EventConfig
  <2>3. r1 \in EventConfig
    BY <1>0, <2>2, FieldUpdate
  <2>4. r2 \in EventConfig
    <3> HIDE DEF r1
    <3> QED
      BY <2>3, FieldUpdate DEF EventStatus
  <2>5. Writes(e, r2)
    BY <2>1 DEF StartTicketing, TypeOK, Writes
  <2>6. ev' \in [Events -> EventConfig]
    BY <2>4, <2>5, WritesType
  <2> QED
    BY <2>1, <2>6 DEF StartTicketing, TypeOK, userVars, wiringVars
<1>4. CASE \E sold, used \in Quantities : SetCompletedIfThresholdMet(c, e, sold, used)
  <2>1. [r EXCEPT !.status = "Completed"] \in EventConfig
    BY <1>0, FieldUpdate DEF EventStatus
  <2>2. ev' \in [Events -> EventConfig]
    BY <1>4, <2>1 DEF SetCompletedIfThresholdMet, TypeOK
  <2> QED
    BY <1>4, <2>2 DEF SetCompletedIfThresholdMet, TypeOK, userVars, wiringVars
<1>5. CASE ReleaseRevenue(c, e)
  <2> DEFINE acc == r.accRewardPerShare + RewardPerShare(DonatorPool(r), r.totalShares)
             r1 == [r EXCEPT !.escrowedRevenue = 0]
             r2 == [r1 EXCEPT !.revenueReleased = TRUE]
             r3 == [r2 EXCEPT !.accRewardPerShare = acc]
  <2>1. /\ PlatformFee(r) \in Nat /\ OrganizerShare(r) \in Nat /\ DonatorPool(r) \in Nat
        /\ r.totalShares = 0 => DonatorPool(r) = 0
    BY <1>0, SplitExact
  <2>2. r.totalShares \in Nat /\ r.accRewardPerShare \in Nat
    BY <1>0 DEF EventConfig
  <2>3. acc \in Nat
    <3>1. RewardPerShare(DonatorPool(r), r.totalShares) \in Nat
      BY <2>1, <2>2, RewardPerShareType
    <3> QED
      BY <2>2, <3>1
  <2>4. Writes(e, r3)
    BY <1>5 DEF ReleaseRevenue, TypeOK, Writes
  <2>5. r3 \in EventConfig
    <3> HIDE DEF acc
    <3>1. r1 \in EventConfig
      BY <1>0, FieldUpdate
    <3>2. r2 \in EventConfig
      <4> HIDE DEF r1
      <4> QED
        BY <3>1, FieldUpdate
    <3> QED
      <4> HIDE DEF r2
      <4> QED
        BY <2>3, <3>2, FieldUpdate
  <2>6. ev' \in [Events -> EventConfig]
    BY <2>4, <2>5, WritesType
  <2>7. balance' \in Nat
    BY <1>5, <2>1 DEF ReleaseRevenue, TypeOK
  <2>8. rewardReserve' \in [Events -> Int]
    BY <1>5, <2>1 DEF ReleaseRevenue, TypeOK
  <2> QED
    BY <1>5, <2>6, <2>7, <2>8 DEF ReleaseRevenue, TypeOK, userVars, wiringVars
<1>6. CASE RefundTickets(c, e)
  <2> DEFINE pool == r.refundPool + r.escrowedRevenue
             r1 == [r EXCEPT !.refundPool = pool]
             r2 == [r1 EXCEPT !.escrowedRevenue = 0]
             r3 == [r2 EXCEPT !.refundsEnabled = TRUE]
  <2>1. pool \in Nat
    BY <1>0 DEF EventConfig
  <2>2. Writes(e, r3)
    BY <1>6 DEF RefundTickets, TypeOK, Writes
  <2>3. r3 \in EventConfig
    <3> HIDE DEF pool
    <3>1. r1 \in EventConfig
      BY <1>0, <2>1, FieldUpdate
    <3>2. r2 \in EventConfig
      <4> HIDE DEF r1
      <4> QED
        BY <3>1, FieldUpdate
    <3> QED
      <4> HIDE DEF r2
      <4> QED
        BY <3>2, FieldUpdate
  <2>4. ev' \in [Events -> EventConfig]
    BY <2>2, <2>3, WritesType
  <2> QED
    BY <1>6, <2>4 DEF RefundTickets, TypeOK, userVars, wiringVars
<1> QED
  BY <1>1, <1>2, <1>3, <1>4, <1>5, <1>6 DEF LifecycleStep
LEMMA MoneyType ==
  ASSUME TypeOK, NEW c \in Accounts, NEW e \in Events, MoneyStep(c, e)
  PROVE  TypeOK'
<1> DEFINE r == ev[e]
<1>0. /\ r \in EventConfig /\ shareOf[e][c] \in Nat /\ r.organizerStakeLocked \in Nat
      /\ r.totalShares \in Nat /\ r.refundPool \in Nat /\ balance \in Nat
  BY DEF TypeOK, EventConfig
<1>1. CASE \E v \in Amounts : Contribute(c, e, v)
  BY <1>1, ContributeType
<1>2. CASE ClaimReward(c, e)
  <2>1. Accumulated(e, c) \in Nat /\ PendingReward(e, c) \in Nat
    BY RewardType
  <2>2. /\ rewardDebt' \in [Events -> [Accounts -> Nat]]
        /\ pending' \in [Events -> [Accounts -> Nat]]
        /\ rewardReserve' \in [Events -> Int]
    BY <1>2, <2>1 DEF ClaimReward, TypeOK
  <2>3. balance' \in Nat
    BY <1>0, <1>2, <2>1 DEF ClaimReward, Pay, CanPay
  <2> QED
    BY <1>2, <2>2, <2>3 DEF ClaimReward, TypeOK, wiringVars
<1>3. CASE ClaimContributionRefund(e, c)
  <2> DEFINE amount == shareOf[e][c]
             left == IF r.totalShares >= amount THEN r.totalShares - amount ELSE 0
  <2>1. left \in Nat
    BY <1>0
  <2>2. Writes(e, [r EXCEPT !.totalShares = left])
    BY <1>3 DEF ClaimContributionRefund, TypeOK, Writes
  <2>3. [r EXCEPT !.totalShares = left] \in EventConfig
    <3> HIDE DEF left
    <3> QED
      BY <1>0, <2>1, FieldUpdate
  <2>4. ev' \in [Events -> EventConfig]
    BY <2>2, <2>3, WritesType
  <2>5. /\ shareOf' \in [Events -> [Accounts -> Nat]]
        /\ rewardDebt' \in [Events -> [Accounts -> Nat]]
        /\ pending' \in [Events -> [Accounts -> Nat]]
    BY <1>3 DEF ClaimContributionRefund, TypeOK
  <2>6. balance' \in Nat
    BY <1>0, <1>3 DEF ClaimContributionRefund, Pay, CanPay
  <2> QED
    BY <1>3, <2>4, <2>5, <2>6 DEF ClaimContributionRefund, TypeOK, wiringVars
<1>4. CASE WithdrawStake(c, e)
  <2>1. [r EXCEPT !.organizerStakeLocked = 0] \in EventConfig
    BY <1>0, FieldUpdate
  <2>2. ev' \in [Events -> EventConfig]
    BY <1>4, <2>1 DEF WithdrawStake, TypeOK
  <2>3. balance' \in Nat
    BY <1>0, <1>4 DEF WithdrawStake, Pay, CanPay
  <2> QED
    BY <1>4, <2>2, <2>3 DEF WithdrawStake, TypeOK, userVars, wiringVars
<1>5. CASE \E v \in Amounts : ClaimTicketRefund(e, v, c)
  <2>1. PICK v \in Amounts : ClaimTicketRefund(e, v, c)
    BY <1>5
  <2>2. r.refundPool - v \in Nat /\ v \in Nat
    BY <1>0, <2>1, ConstantsType DEF ClaimTicketRefund
  <2>3. [r EXCEPT !.refundPool = r.refundPool - v] \in EventConfig
    BY <1>0, <2>2, FieldUpdate
  <2>4. Writes(e, [r EXCEPT !.refundPool = r.refundPool - v])
    BY <2>1 DEF ClaimTicketRefund, TypeOK, Writes
  <2>5. ev' \in [Events -> EventConfig]
    BY <2>3, <2>4, WritesType
  <2>6. balance' \in Nat
    BY <1>0, <2>1, <2>2 DEF ClaimTicketRefund, Pay, CanPay
  <2> QED
    BY <2>1, <2>5, <2>6 DEF ClaimTicketRefund, TypeOK, userVars, wiringVars
<1>6. CASE \E v \in TopUps : DepositRefundPool(c, e, v)
  <2>1. PICK v \in TopUps : DepositRefundPool(c, e, v)
    BY <1>6
  <2>2. r.refundPool + v \in Nat /\ v \in Nat
    BY <1>0, ConstantsType
  <2>3. [r EXCEPT !.refundPool = r.refundPool + v] \in EventConfig
    BY <1>0, <2>2, FieldUpdate
  <2>4. Writes(e, [r EXCEPT !.refundPool = r.refundPool + v])
    BY <2>1 DEF DepositRefundPool, TypeOK, Writes
  <2>5. ev' \in [Events -> EventConfig]
    BY <2>3, <2>4, WritesType
  <2> QED
    BY <2>1, <2>2, <2>5 DEF DepositRefundPool, Receive, TypeOK, userVars, wiringVars
<1> QED
  BY <1>1, <1>2, <1>3, <1>4, <1>5, <1>6 DEF MoneyStep

LEMMA ContractType ==
  ASSUME TypeOK, NEW e \in Events, ContractStep(e)
  PROVE  TypeOK'
<1> DEFINE r == ev[e]
<1>0. /\ r \in EventConfig /\ r.organizerStakeLocked \in Nat
      /\ r.escrowedRevenue \in Nat /\ r.refundPool \in Nat
  BY DEF TypeOK, EventConfig
<1>1. CASE \E p \in PenaltyRates : ApplyPenalty(e, p)
  <2>1. PICK p \in PenaltyRates : ApplyPenalty(e, p)
    BY <1>1
  <2> DEFINE amount == (r.organizerStakeLocked * p) \div BPS_DENOM
             r1 == [r EXCEPT !.organizerStakeLocked = r.organizerStakeLocked - amount]
             r2 == [r1 EXCEPT !.refundPool = r.refundPool + amount]
  <2>2. amount \in 0 .. r.organizerStakeLocked
    BY <1>0, <2>1, ConstantsType, FractionBound DEF ApplyPenalty, PenaltyRateValid
  <2>3. Writes(e, r2)
    BY <2>1 DEF ApplyPenalty, TypeOK, Writes
  <2>4. r2 \in EventConfig
    <3> HIDE DEF amount
    <3>1. r.organizerStakeLocked - amount \in Nat /\ r.refundPool + amount \in Nat
      BY <1>0, <2>2
    <3>2. r1 \in EventConfig
      BY <1>0, <3>1, FieldUpdate
    <3> QED
      <4> HIDE DEF r1
      <4> QED
        BY <3>1, <3>2, FieldUpdate
  <2>5. ev' \in [Events -> EventConfig]
    BY <2>3, <2>4, WritesType
  <2> QED
    BY <2>1, <2>5 DEF ApplyPenalty, TypeOK, userVars, wiringVars
<1>2. CASE \E v \in Amounts : DepositTicketRevenue(e, v) \/ DepositRoyalty(e, v)
  <2>1. PICK v \in Amounts : DepositTicketRevenue(e, v) \/ DepositRoyalty(e, v)
    BY <1>2
  <2>2. r.escrowedRevenue + v \in Nat /\ v \in Nat
    BY <1>0, ConstantsType
  <2>3. [r EXCEPT !.escrowedRevenue = r.escrowedRevenue + v] \in EventConfig
    BY <1>0, <2>2, FieldUpdate
  <2>4. Writes(e, [r EXCEPT !.escrowedRevenue = r.escrowedRevenue + v])
    BY <2>1 DEF DepositTicketRevenue, DepositRoyalty, TypeOK, Writes
  <2>5. ev' \in [Events -> EventConfig]
    BY <2>3, <2>4, WritesType
  <2> QED
    BY <2>1, <2>2, <2>5
       DEF DepositTicketRevenue, DepositRoyalty, Receive, TypeOK, userVars, wiringVars
<1> QED
  BY <1>1, <1>2 DEF ContractStep

LEMMA TypeStep ==
  ASSUME TypeOK, [Next]_vars
  PROVE  TypeOK'
<1>1. CASE UNCHANGED vars
  BY <1>1 DEF TypeOK, vars
<1>2. CASE SetTicketContract \/ SetMarketplaceContract \/ Tick
  <2>1. CASE SetTicketContract
    BY <2>1 DEF SetTicketContract, TypeOK, userVars
  <2>2. CASE SetMarketplaceContract
    BY <2>2 DEF SetMarketplaceContract, TypeOK, userVars
  <2>3. CASE Tick
    BY <2>3 DEF Tick, TypeOK, userVars, wiringVars
  <2> QED
    BY <1>2, <2>1, <2>2, <2>3
<1>3. CASE \E v \in Gifts : ReceiveEther(v)
  BY <1>3, ConstantsType DEF ReceiveEther, Receive, TypeOK, userVars, wiringVars
<1>4. CASE \E c \in Accounts, a \in CreateArgs, v \in Amounts : CreateEvent(c, a, v)
  BY <1>4, CreateEventType
<1>5. CASE \E c \in Accounts, e \in Events : LifecycleStep(c, e) \/ MoneyStep(c, e)
  BY <1>5, LifecycleType, MoneyType
<1>6. CASE \E e \in Events : ContractStep(e)
  BY <1>6, ContractType
<1> QED
  BY <1>1, <1>2, <1>3, <1>4, <1>5, <1>6 DEF Next

\* Every field the contract writes stays in its unsigned range: no stake,
\* pool or balance is ever decremented below zero.
THEOREM TypeCorrect == Spec => []TypeOK
BY TypeInit, TypeStep, PTL DEF Spec

-----------------------------------------------------------------------------
(* Safety.                                                                 *)

RewardsOf(e) == [u \in Accounts |-> PendingReward(e, u)]

\* What the event's donators can claim is reserved for them.
Backed(e) == SumOver(RewardsOf(e), Accounts) <= rewardReserve[e]

SharesExact(e) == ev[e].totalShares = SumOver(shareOf[e], Accounts)

\* A released event is Completed, frozen, and not refunding.
Released(e) == ev[e].revenueReleased =>
  ev[e].status = "Completed" /\ ev[e].sharesFinalized /\ ~ev[e].refundsEnabled

\* Nothing accrues before the release.
Unreleased(e) == ~ev[e].revenueReleased =>
  /\ ev[e].accRewardPerShare = 0
  /\ rewardReserve[e] = 0
  /\ \A u \in Accounts : rewardDebt[e][u] = 0

NothingPending(e) == \A u \in Accounts : pending[e][u] = 0

\* An event whose shares may still change is in its funding phase.
Opening(e) == Exists(e) /\ ~ev[e].sharesFinalized => ev[e].status = "Funding"

\* An id not yet handed out has the zero record.
Fresh(e) == nextEventId <= e => ev[e] = NoEvent

EventInv(e) ==
  /\ Backed(e)
  /\ SharesExact(e)
  /\ Released(e)
  /\ Unreleased(e)
  /\ NothingPending(e)
  /\ Opening(e)
  /\ Fresh(e)

IInv ==
  /\ TypeOK
  /\ \A e \in Events : EventInv(e)
  /\ Solvent

-----------------------------------------------------------------------------
(* Rewards.                                                                *)

\* Without accrual and with nothing pending nobody can claim anything.
LEMMA NoReward ==
  ASSUME TypeOK, NEW e \in Events, NEW u \in Accounts,
         ev[e].accRewardPerShare = 0, pending[e][u] = 0
  PROVE  PendingReward(e, u) = 0
<1>1. shareOf[e][u] \in Nat /\ rewardDebt[e][u] \in Nat
  BY DEF TypeOK
<1>2. Accumulated(e, u) = 0
  BY <1>1, ConstantsType DEF Accumulated
<1> QED
  BY <1>1, <1>2 DEF PendingReward

LEMMA NoRewardPrime ==
  ASSUME TypeOK', NEW e \in Events,
         ev'[e].accRewardPerShare = 0, \A u \in Accounts : pending'[e][u] = 0
  PROVE  \A u \in Accounts : PendingReward(e, u)' = 0
<1> SUFFICES ASSUME NEW u \in Accounts
             PROVE  PendingReward(e, u)' = 0
  OBVIOUS
<1>1. shareOf'[e][u] \in Nat /\ rewardDebt'[e][u] \in Nat
  BY DEF TypeOK
<1>2. Accumulated(e, u)' = 0
  BY <1>1, ConstantsType DEF Accumulated
<1> QED
  BY <1>1, <1>2 DEF PendingReward

LEMMA QuietBacked ==
  ASSUME TypeOK', NEW e \in Events,
         ev'[e].accRewardPerShare = 0, \A u \in Accounts : pending'[e][u] = 0,
         rewardReserve'[e] >= 0
  PROVE  Backed(e)'
<1>1. \A u \in Accounts : RewardsOf(e)'[u] = 0
  BY NoRewardPrime DEF RewardsOf
<1>2. SumOver(RewardsOf(e)', Accounts) = 0
  BY <1>1, SumZero
<1> QED
  BY <1>2 DEF Backed

\* Rewards stay backed when nothing they are computed from changes.
LEMMA SameBacked ==
  ASSUME NEW e \in Events, Backed(e),
         ev'[e].accRewardPerShare = ev[e].accRewardPerShare,
         shareOf'[e] = shareOf[e], rewardDebt'[e] = rewardDebt[e],
         pending'[e] = pending[e], rewardReserve'[e] = rewardReserve[e]
  PROVE  Backed(e)'
<1>1. RewardsOf(e)' = RewardsOf(e)
  BY DEF RewardsOf, PendingReward, Accumulated
<1> QED
  BY <1>1 DEF Backed

\* The reserve an event backs its rewards with is never negative.
LEMMA ReserveNat ==
  ASSUME TypeOK, NEW e \in Events, Backed(e)
  PROVE  rewardReserve[e] \in Nat
<1>1. \A u \in Accounts : RewardsOf(e)[u] \in Nat
  BY RewardType DEF RewardsOf
<1>2. SumOver(RewardsOf(e), Accounts) \in Nat
  BY <1>1, ConstantsType, UnitsFinite
<1> QED
  BY <1>2 DEF Backed, TypeOK

LEMMA RewardTypePrime ==
  ASSUME TypeOK', NEW e \in Events
  PROVE  \A u \in Accounts : PendingReward(e, u)' \in Nat
<1> SUFFICES ASSUME NEW u \in Accounts
             PROVE  PendingReward(e, u)' \in Nat
  OBVIOUS
<1>1. /\ shareOf'[e][u] \in Nat /\ rewardDebt'[e][u] \in Nat /\ pending'[e][u] \in Nat
      /\ ev'[e].accRewardPerShare \in Nat
  BY DEF TypeOK, EventConfig
<1>2. shareOf'[e][u] * ev'[e].accRewardPerShare \in Nat
  BY <1>1, ProductNat
<1>3. Accumulated(e, u)' \in Nat
  BY <1>2, ConstantsType, QuotientBound DEF Accumulated
<1> QED
  BY <1>1, <1>3 DEF PendingReward

LEMMA ReserveNatPrime ==
  ASSUME TypeOK', NEW e \in Events, Backed(e)'
  PROVE  rewardReserve'[e] \in Nat
<1>1. \A u \in Accounts : RewardsOf(e)'[u] \in Nat
  BY RewardTypePrime DEF RewardsOf
<1>2. SumOver(RewardsOf(e)', Accounts) \in Nat
  BY <1>1, ConstantsType, UnitsFinite
<1> QED
  BY <1>2 DEF Backed, TypeOK

-----------------------------------------------------------------------------
(* Frames: the events a transaction does not write, and the balance.       *)

Same(f) ==
  /\ ev'[f] = ev[f]
  /\ shareOf'[f] = shareOf[f]
  /\ rewardDebt'[f] = rewardDebt[f]
  /\ pending'[f] = pending[f]
  /\ rewardReserve'[f] = rewardReserve[f]

OthersSame(e) == \A f \in Events \ {e} : Same(f)

LEMMA FrameInv ==
  ASSUME NEW f \in Events, EventInv(f), Same(f), TypeOK, TypeOK',
         nextEventId' >= nextEventId
  PROVE  EventInv(f)'
<1>1. Backed(f)'
  BY SameBacked DEF EventInv, Same
<1>2. Fresh(f)'
  <2>1. f \in Nat /\ nextEventId \in Nat /\ nextEventId' \in Nat
    BY ConstantsType DEF TypeOK
  <2> QED
    BY <2>1 DEF EventInv, Fresh, Same
<1> QED
  BY <1>1, <1>2 DEF EventInv, Same, SharesExact, Released, Unreleased,
                    NothingPending, Opening, Exists

HeldByEvent == [e \in Events |-> Held(e)]

LEMMA HeldNat ==
  ASSUME TypeOK, TypeOK', NEW e \in Events, Backed(e), Backed(e)'
  PROVE  Held(e) \in Nat /\ Held(e)' \in Nat
<1>1. rewardReserve[e] \in Nat /\ rewardReserve'[e] \in Nat
  BY ReserveNat, ReserveNatPrime
<1>2. ev[e] \in EventConfig /\ ev'[e] \in EventConfig
  BY DEF TypeOK
<1> QED
  BY <1>1, <1>2 DEF Held, EventConfig

\* The balance covers the books when it moves by at least as much as the books
\* of the one event that is written.
LEMMA SolventFrame ==
  ASSUME TypeOK, TypeOK', Solvent, \A f \in Events : Backed(f) /\ Backed(f)',
         NEW e \in Events, OthersSame(e),
         balance + Held(e)' <= balance' + Held(e)
  PROVE  Solvent'
<1>1. \A f \in Events : Held(f) \in Nat /\ Held(f)' \in Nat
  BY HeldNat
<1>2. HeldByEvent \in [Events -> Nat] /\ HeldByEvent' \in [Events -> Nat]
  BY <1>1 DEF HeldByEvent
<1>3. \A f \in Events \ {e} : HeldByEvent'[f] = HeldByEvent[f]
  BY DEF HeldByEvent, OthersSame, Same, Held
<1>4. SumOver(HeldByEvent', Events)
        = SumOver(HeldByEvent, Events) - HeldByEvent[e] + HeldByEvent'[e]
  BY <1>2, <1>3, ConstantsType, SumUpdate
<1>5. HeldByEvent[e] = Held(e) /\ HeldByEvent'[e] = Held(e)'
  BY DEF HeldByEvent
<1>6. SumOver(HeldByEvent, Events) \in Nat
  BY <1>2, ConstantsType, UnitsFinite
<1>7. balance \in Nat /\ balance' \in Nat
  BY DEF TypeOK
<1> QED
  BY <1>1, <1>4, <1>5, <1>6, <1>7 DEF Solvent, HeldByEvent

\* So a transaction that writes event e is judged by e alone.
Kept(e) ==
  /\ EventInv(e)'
  /\ OthersSame(e)
  /\ nextEventId' >= nextEventId
  /\ balance + Held(e)' <= balance' + Held(e)

LEMMA OneEventStep ==
  ASSUME IInv, TypeOK', NEW e \in Events, Kept(e)
  PROVE  IInv'
<1>1. \A f \in Events : EventInv(f)'
  BY FrameInv DEF IInv, Kept, OthersSame
<1>2. Solvent'
  BY <1>1, SolventFrame DEF IInv, Kept, EventInv
<1> QED
  BY <1>1, <1>2 DEF IInv
-----------------------------------------------------------------------------
(* One lemma per transaction.                                              *)

LEMMA CreatedFields ==
  ASSUME NEW c, NEW a, NEW v
  PROVE  LET r == CreatedEvent(c, a, v)
         IN  /\ r.organizerStakeLocked = v /\ r.escrowedRevenue = 0 /\ r.refundPool = 0
             /\ r.totalShares = 0 /\ r.accRewardPerShare = 0
             /\ ~r.revenueReleased
             /\ ~r.sharesFinalized => r.status = "Funding"
<1> DEFINE r == CreatedEvent(c, a, v)
<1>1. r.organizerStakeLocked = v /\ r.escrowedRevenue = 0 /\ r.refundPool = 0
  BY DEF CreatedEvent, NoEvent
<1>2. r.totalShares = 0 /\ r.accRewardPerShare = 0
  BY DEF CreatedEvent, NoEvent
<1>3. r.revenueReleased = FALSE
  BY DEF CreatedEvent, NoEvent
<1>4. r.sharesFinalized = ~a.investmentEnabled
  BY DEF CreatedEvent, NoEvent
<1>5. r.status = IF a.investmentEnabled THEN "Funding" ELSE "Funded"
  BY DEF CreatedEvent, NoEvent
<1> HIDE DEF r
<1> QED
  BY <1>1, <1>2, <1>3, <1>4, <1>5 DEF r

LEMMA CreateKept ==
  ASSUME IInv, TypeOK', NEW c \in Accounts, NEW a \in CreateArgs, NEW v \in Amounts,
         NEW e \in Events, e = nextEventId, CreateEvent(c, a, v)
  PROVE  Kept(e)
<1> DEFINE r == ev'[e]
<1>1. e \in Nat
  BY ConstantsType
<1>2. EventInv(e) /\ TypeOK /\ v \in Nat
  BY <1>1, ConstantsType DEF IInv
<1>3. ev[e] = NoEvent
  BY <1>1, <1>2 DEF EventInv, Fresh
<1>4. r = CreatedEvent(c, a, v)
  BY <1>1, <1>2 DEF CreateEvent, TypeOK
<1>5. /\ r.organizerStakeLocked = v /\ r.escrowedRevenue = 0 /\ r.refundPool = 0
      /\ r.totalShares = 0 /\ r.accRewardPerShare = 0
      /\ ~r.revenueReleased
      /\ ~r.sharesFinalized => r.status = "Funding"
  BY <1>4, CreatedFields
<1>6. /\ ev[e].organizerStakeLocked = 0 /\ ev[e].escrowedRevenue = 0 /\ ev[e].refundPool = 0
      /\ ev[e].totalShares = 0 /\ ~ev[e].revenueReleased
  BY <1>3 DEF NoEvent
<1>7. rewardReserve[e] = 0
  BY <1>2, <1>6 DEF EventInv, Unreleased
<1>8. OthersSame(e)
  BY <1>2 DEF OthersSame, Same, CreateEvent, TypeOK, userVars
<1>9. EventInv(e)'
  <2>1. Backed(e)'
    BY <1>1, <1>2, <1>5, <1>7, QuietBacked DEF EventInv, NothingPending, CreateEvent, userVars
  <2>2. SharesExact(e)'
    BY <1>2, <1>5, <1>6 DEF EventInv, SharesExact, CreateEvent, userVars
  <2>3. Unreleased(e)'
    BY <1>2, <1>5, <1>6, <1>7 DEF EventInv, Unreleased, CreateEvent, userVars
  <2>4. Released(e)' /\ NothingPending(e)' /\ Opening(e)'
    BY <1>2, <1>5 DEF EventInv, Released, NothingPending, Opening, CreateEvent, userVars
  <2>5. Fresh(e)'
    BY <1>1 DEF Fresh, CreateEvent
  <2> QED
    BY <2>1, <2>2, <2>3, <2>4, <2>5 DEF EventInv
<1>10. Held(e) = 0 /\ Held(e)' = v
  BY <1>2, <1>5, <1>6, <1>7 DEF Held, CreateEvent
<1> QED
  BY <1>1, <1>2, <1>8, <1>9, <1>10 DEF Kept, CreateEvent, Receive, TypeOK

LEMMA ContributeKept ==
  ASSUME IInv, TypeOK', NEW c \in Accounts, NEW e \in Events, NEW v \in Amounts,
         Contribute(c, e, v)
  PROVE  Kept(e)
<1> DEFINE old == ev[e]
           new == ev'[e]
<1>1. EventInv(e) /\ TypeOK /\ v \in Nat /\ old \in EventConfig
  BY ConstantsType DEF IInv, TypeOK
<1>2. new = Contributed(old, v)
  BY <1>1 DEF Contribute, TypeOK
<1>3. /\ new.organizerStakeLocked = old.organizerStakeLocked
      /\ new.escrowedRevenue = old.escrowedRevenue
      /\ new.refundPool = old.refundPool
      /\ new.totalShares = old.totalShares + v
      /\ new.accRewardPerShare = old.accRewardPerShare
      /\ new.revenueReleased = old.revenueReleased
      /\ ~new.sharesFinalized => new.status = old.status
  BY <1>1, <1>2 DEF Contributed, EventConfig
<1>4. old.status = "Funding" /\ ~old.sharesFinalized
  BY DEF Contribute, FundingOpen
<1>5. ~old.revenueReleased
  BY <1>1, <1>4 DEF EventInv, Released
<1>6. /\ old.accRewardPerShare = 0 /\ rewardReserve[e] = 0
      /\ \A u \in Accounts : rewardDebt[e][u] = 0 /\ pending[e][u] = 0
  BY <1>1, <1>5 DEF EventInv, Unreleased, NothingPending
<1>7. PendingReward(e, c) = 0 /\ Accumulated(e, c) = 0
  <2>1. shareOf[e][c] \in Nat
    BY <1>1 DEF TypeOK
  <2>2. Accumulated(e, c) = 0
    BY <1>6, <2>1, ConstantsType DEF Accumulated
  <2> QED
    BY <1>1, <1>6, <2>2, NoReward
<1>8. \A u \in Accounts : rewardDebt'[e][u] = 0 /\ pending'[e][u] = 0
  BY <1>1, <1>6, <1>7 DEF Contribute, TypeOK
<1>9. shareOf'[e] = [shareOf[e] EXCEPT ![c] = shareOf[e][c] + v]
  BY <1>1 DEF Contribute, TypeOK
<1>10. OthersSame(e)
  BY <1>1 DEF OthersSame, Same, Contribute, TypeOK
<1>11. EventInv(e)'
  <2>1. Backed(e)'
    BY <1>3, <1>6, <1>8, QuietBacked DEF Contribute
  <2>2. SharesExact(e)'
    <3>1. shareOf[e] \in [Accounts -> Nat] /\ shareOf'[e] \in [Accounts -> Nat]
      BY <1>1 DEF TypeOK
    <3>2. SumOver(shareOf'[e], Accounts) = SumOver(shareOf[e], Accounts) - shareOf[e][c] + shareOf'[e][c]
      BY <1>9, <3>1, ConstantsType, SumUpdate
    <3>3. shareOf'[e][c] = shareOf[e][c] + v /\ shareOf[e][c] \in Nat
      BY <1>9, <3>1
    <3>4. old.totalShares \in Nat /\ old.totalShares = SumOver(shareOf[e], Accounts)
      BY <1>1 DEF EventInv, SharesExact, EventConfig
    <3> QED
      BY <1>1, <1>3, <3>2, <3>3, <3>4 DEF SharesExact
  <2>3. Released(e)' /\ Unreleased(e)'
    BY <1>3, <1>5, <1>6, <1>8 DEF Released, Unreleased, Contribute
  <2>4. NothingPending(e)' /\ Opening(e)'
    BY <1>3, <1>4, <1>8 DEF NothingPending, Opening
  <2>5. Fresh(e)'
    <3>1. ~(nextEventId <= e)
      BY <1>1, <1>4 DEF EventInv, Fresh, NoEvent
    <3> QED
      BY <3>1 DEF Fresh, Contribute
  <2> QED
    BY <2>1, <2>2, <2>3, <2>4, <2>5 DEF EventInv
<1>12. balance + Held(e)' <= balance' + Held(e)
  BY <1>1, <1>3, <1>6 DEF Held, Contribute, Receive, EventConfig, TypeOK
<1> QED
  BY <1>1, <1>10, <1>11, <1>12 DEF Kept, Contribute, TypeOK

Money(r) == r.organizerStakeLocked + r.escrowedRevenue + r.refundPool

\* Most transactions move money between balance, stake, escrow and refund pool,
\* or change the phase, and leave shares and rewards alone.
LEMMA BooksKept ==
  ASSUME IInv, TypeOK', NEW e \in Events, Exists(e),
         NEW r, Writes(e, r),
         UNCHANGED <<userVars, rewardReserve, nextEventId>>,
         r.accRewardPerShare = ev[e].accRewardPerShare,
         r.totalShares = ev[e].totalShares,
         r.revenueReleased = ev[e].revenueReleased,
         r.revenueReleased =>
           r.status = "Completed" /\ r.sharesFinalized /\ ~r.refundsEnabled,
         ~r.sharesFinalized => r.status = "Funding",
         balance + Money(r) <= balance' + Money(ev[e])
  PROVE  Kept(e)
<1>1. EventInv(e) /\ TypeOK
  BY DEF IInv
<1>2. ev'[e] = r /\ \A f \in Events \ {e} : ev'[f] = ev[f]
  BY <1>1 DEF Writes, TypeOK
<1>3. OthersSame(e)
  BY <1>1, <1>2 DEF OthersSame, Same, userVars
<1>4. Backed(e)'
  BY <1>1, <1>2, SameBacked DEF EventInv, userVars
<1>5. SharesExact(e)'
  BY <1>1, <1>2 DEF EventInv, SharesExact, userVars
<1>6. Released(e)' /\ Opening(e)'
  BY <1>1, <1>2 DEF Released, Opening, Exists
<1>7. Unreleased(e)' /\ NothingPending(e)'
  BY <1>1, <1>2 DEF EventInv, Unreleased, NothingPending, userVars
<1>8. Fresh(e)'
  BY <1>1 DEF EventInv, Fresh, Exists, NoEvent
<1>9. balance + Held(e)' <= balance' + Held(e)
  <2>1. /\ Money(r) \in Nat /\ Money(ev[e]) \in Nat
        /\ balance \in Nat /\ balance' \in Nat
        /\ rewardReserve[e] \in Int /\ ev[e].totalShares \in Nat
    BY <1>1, <1>2 DEF Money, TypeOK, EventConfig
  <2>2. Held(e) = Money(ev[e]) + ev[e].totalShares + rewardReserve[e]
    BY DEF Held, Money
  <2>3. Held(e)' = Money(r) + ev[e].totalShares + rewardReserve[e]
    BY <1>2 DEF Held, Money
  <2> QED
    BY <2>1, <2>2, <2>3
<1>10. nextEventId' >= nextEventId
  BY <1>1 DEF TypeOK
<1> QED
  BY <1>3, <1>4, <1>5, <1>6, <1>7, <1>8, <1>9, <1>10 DEF Kept, EventInv

\* What cancelling does to the books: the escrow becomes refund pool.
LEMMA CancelledBooks ==
  ASSUME NEW r \in EventConfig
  PROVE  /\ Money(Cancelled(r)) = Money(r)
         /\ Cancelled(r).accRewardPerShare = r.accRewardPerShare
         /\ Cancelled(r).totalShares = r.totalShares
         /\ Cancelled(r).revenueReleased = r.revenueReleased
         /\ Cancelled(r).sharesFinalized
<1> DEFINE n == Cancelled(r)
<1>1. /\ n.organizerStakeLocked = r.organizerStakeLocked
      /\ n.escrowedRevenue = 0
      /\ n.refundPool = r.refundPool + r.escrowedRevenue
      /\ r.organizerStakeLocked \in Nat /\ r.escrowedRevenue \in Nat /\ r.refundPool \in Nat
  BY DEF Cancelled, EventConfig
<1>2. n.accRewardPerShare = r.accRewardPerShare /\ n.totalShares = r.totalShares
  BY DEF Cancelled, EventConfig
<1>3. n.revenueReleased = r.revenueReleased /\ n.sharesFinalized = TRUE
  BY DEF Cancelled, EventConfig
<1> HIDE DEF n
<1> QED
  BY <1>1, <1>2, <1>3 DEF Money, n

LEMMA FinalizeKept ==
  ASSUME IInv, TypeOK', NEW c \in Accounts, NEW e \in Events, FinalizeFunding(c, e)
  PROVE  Kept(e)
<1> DEFINE old == ev[e]
           new == Finalized(old)
<1>1. /\ EventInv(e) /\ TypeOK /\ old \in EventConfig /\ Exists(e)
      /\ Writes(e, new) /\ UNCHANGED <<userVars, rewardReserve, nextEventId>>
      /\ balance' = balance
  BY DEF IInv, TypeOK, FinalizeFunding, OrganizerOrAdmin, Writes
<1>2. ~old.sharesFinalized /\ ~old.revenueReleased
  BY <1>1 DEF FinalizeFunding, EventInv, Released
<1>3. /\ new.accRewardPerShare = old.accRewardPerShare
      /\ new.totalShares = old.totalShares
      /\ new.revenueReleased = old.revenueReleased
      /\ new.sharesFinalized
      /\ Money(new) = Money(old)
  <2>1. CASE ~old.investmentEnabled
    BY <1>1, <2>1 DEF Finalized, EventConfig, Money
  <2>2. CASE old.investmentEnabled /\ old.status = "Funded"
    BY <1>1, <2>2 DEF Finalized, EventConfig, Money
  <2>3. CASE old.investmentEnabled /\ old.status # "Funded"
    BY <1>1, <2>3, CancelledBooks DEF Finalized
  <2> QED
    BY <2>1, <2>2, <2>3
<1>4. balance + Money(new) <= balance' + Money(old)
  <2>1. Money(old) \in Nat /\ balance \in Nat
    BY <1>1 DEF Money, EventConfig, TypeOK
  <2> QED
    BY <1>1, <1>3, <2>1
<1> HIDE DEF new
<1> QED
  BY <1>1, <1>2, <1>3, <1>4, BooksKept

LEMMA CancelKept ==
  ASSUME IInv, TypeOK', NEW c \in Accounts, NEW e \in Events, NEW reason \in Reasons,
         CancelEvent(c, e, reason)
  PROVE  Kept(e)
<1> DEFINE old == ev[e]
           new == Cancelled(old)
<1>1. /\ TypeOK /\ old \in EventConfig /\ Exists(e)
      /\ Writes(e, new) /\ UNCHANGED <<userVars, rewardReserve, nextEventId>>
      /\ balance' = balance
  BY DEF IInv, TypeOK, CancelEvent, OrganizerOrAdmin, Writes
<1>2. ~old.revenueReleased
  BY DEF CancelEvent, CancelAllowed
<1>3. /\ new.accRewardPerShare = old.accRewardPerShare
      /\ new.totalShares = old.totalShares
      /\ new.revenueReleased = old.revenueReleased
      /\ new.sharesFinalized
      /\ Money(new) = Money(old)
  BY <1>1, CancelledBooks
<1>4. balance + Money(new) <= balance' + Money(old)
  <2>1. Money(old) \in Nat /\ balance \in Nat
    BY <1>1 DEF Money, EventConfig, TypeOK
  <2> QED
    BY <1>1, <1>3, <2>1
<1> HIDE DEF new
<1> QED
  BY <1>1, <1>2, <1>3, <1>4, BooksKept

LEMMA TicketingKept ==
  ASSUME IInv, TypeOK', NEW c \in Accounts, NEW e \in Events, NEW q \in Quantities,
         StartTicketing(c, e, q)
  PROVE  Kept(e)
<1> DEFINE old == ev[e]
           new == [old EXCEPT !.totalMinted = @ + q, !.status = "Ticketing"]
<1>1. /\ EventInv(e) /\ TypeOK /\ old \in EventConfig /\ Exists(e)
      /\ UNCHANGED <<userVars, rewardReserve, nextEventId>> /\ balance' = balance
  BY DEF IInv, TypeOK, StartTicketing, OrganizerOrAdmin
<1>2. Writes(e, new)
  BY <1>1 DEF StartTicketing, Writes, TypeOK
<1>3. old.status \in {"Funded", "Ticketing"} /\ old.sharesFinalized
  BY DEF StartTicketing, MayMint
<1>4. ~old.revenueReleased
  BY <1>1, <1>3 DEF EventInv, Released
<1>5. /\ new.accRewardPerShare = old.accRewardPerShare
      /\ new.totalShares = old.totalShares
      /\ new.revenueReleased = old.revenueReleased
      /\ new.sharesFinalized = old.sharesFinalized
      /\ Money(new) = Money(old)
  BY <1>1 DEF EventConfig, Money
<1>6. balance + Money(new) <= balance' + Money(old)
  <2>1. Money(old) \in Nat /\ balance \in Nat
    BY <1>1 DEF Money, EventConfig, TypeOK
  <2> QED
    BY <1>1, <1>5, <2>1
<1> HIDE DEF new
<1> QED
  BY <1>1, <1>2, <1>3, <1>4, <1>5, <1>6, BooksKept

LEMMA CompletedKept ==
  ASSUME IInv, TypeOK', NEW c \in Accounts, NEW e \in Events, NEW sold, NEW used,
         SetCompletedIfThresholdMet(c, e, sold, used)
  PROVE  Kept(e)
<1> DEFINE old == ev[e]
           new == [old EXCEPT !.status = "Completed"]
<1>1. /\ EventInv(e) /\ TypeOK /\ old \in EventConfig /\ Exists(e)
      /\ UNCHANGED <<userVars, rewardReserve, nextEventId>> /\ balance' = balance
  BY DEF IInv, TypeOK, SetCompletedIfThresholdMet, OrganizerOrAdmin
<1>2. Writes(e, new)
  BY <1>1 DEF SetCompletedIfThresholdMet, Writes, TypeOK
<1>3. old.status = "Ticketing"
  BY DEF SetCompletedIfThresholdMet
<1>4. ~old.revenueReleased /\ old.sharesFinalized
  BY <1>1, <1>3 DEF EventInv, Released, Opening
<1>5. /\ new.accRewardPerShare = old.accRewardPerShare
      /\ new.totalShares = old.totalShares
      /\ new.revenueReleased = old.revenueReleased
      /\ new.sharesFinalized = old.sharesFinalized
      /\ Money(new) = Money(old)
  BY <1>1 DEF EventConfig, Money
<1>6. balance + Money(new) <= balance' + Money(old)
  <2>1. Money(old) \in Nat /\ balance \in Nat
    BY <1>1 DEF Money, EventConfig, TypeOK
  <2> QED
    BY <1>1, <1>5, <2>1
<1> HIDE DEF new
<1> QED
  BY <1>1, <1>2, <1>4, <1>5, <1>6, BooksKept

LEMMA RefundTicketsKept ==
  ASSUME IInv, TypeOK', NEW c \in Accounts, NEW e \in Events, RefundTickets(c, e)
  PROVE  Kept(e)
<1> DEFINE old == ev[e]
           new == [old EXCEPT !.refundPool = @ + old.escrowedRevenue,
                              !.escrowedRevenue = 0, !.refundsEnabled = TRUE]
<1>1. /\ TypeOK /\ old \in EventConfig /\ Exists(e)
      /\ UNCHANGED <<userVars, rewardReserve, nextEventId>> /\ balance' = balance
  BY DEF IInv, TypeOK, RefundTickets, OrganizerOrAdmin
<1>2. Writes(e, new)
  BY <1>1 DEF RefundTickets, Writes, TypeOK
<1>3. ~old.revenueReleased /\ old.sharesFinalized
  BY DEF RefundTickets, MayRefundTickets
<1>4. /\ new.accRewardPerShare = old.accRewardPerShare
      /\ new.totalShares = old.totalShares
      /\ new.revenueReleased = old.revenueReleased
      /\ new.sharesFinalized = old.sharesFinalized
      /\ Money(new) = Money(old)
  BY <1>1 DEF EventConfig, Money
<1>5. balance + Money(new) <= balance' + Money(old)
  <2>1. Money(old) \in Nat /\ balance \in Nat
    BY <1>1 DEF Money, EventConfig, TypeOK
  <2> QED
    BY <1>1, <1>4, <2>1
<1> HIDE DEF new
<1> QED
  BY <1>1, <1>2, <1>3, <1>4, <1>5, BooksKept

\* Payments, deposits and penalties move money only.
OnlyMoney(old, new) ==
  /\ new.accRewardPerShare = old.accRewardPerShare
  /\ new.totalShares = old.totalShares
  /\ new.revenueReleased = old.revenueReleased
  /\ new.sharesFinalized = old.sharesFinalized
  /\ new.status = old.status
  /\ new.refundsEnabled = old.refundsEnabled

LEMMA MovedMoneyKept ==
  ASSUME IInv, TypeOK', NEW e \in Events, Exists(e), NEW r, Writes(e, r),
         UNCHANGED <<userVars, rewardReserve, nextEventId>>,
         OnlyMoney(ev[e], r),
         balance + Money(r) <= balance' + Money(ev[e])
  PROVE  Kept(e)
<1>1. EventInv(e)
  BY DEF IInv
<1>2. /\ r.revenueReleased =>
           r.status = "Completed" /\ r.sharesFinalized /\ ~r.refundsEnabled
      /\ ~r.sharesFinalized => r.status = "Funding"
  BY <1>1 DEF EventInv, Released, Opening, OnlyMoney
<1> QED
  BY <1>2, BooksKept DEF OnlyMoney

LEMMA StakeKept ==
  ASSUME IInv, TypeOK', NEW c \in Accounts, NEW e \in Events, WithdrawStake(c, e)
  PROVE  Kept(e)
<1> DEFINE old == ev[e]
           new == [old EXCEPT !.organizerStakeLocked = 0]
<1>1. /\ TypeOK /\ old \in EventConfig /\ Exists(e)
      /\ UNCHANGED <<userVars, rewardReserve, nextEventId>>
      /\ balance' = balance - old.organizerStakeLocked
  BY DEF IInv, TypeOK, WithdrawStake, OrganizerOrAdmin, Pay
<1>2. Writes(e, new)
  BY <1>1 DEF WithdrawStake, Writes, TypeOK
<1>3. OnlyMoney(old, new)
  BY <1>1 DEF EventConfig, OnlyMoney
<1>4. balance + Money(new) <= balance' + Money(old)
  BY <1>1 DEF Money, EventConfig, TypeOK
<1> HIDE DEF new
<1> QED
  BY <1>1, <1>2, <1>3, <1>4, MovedMoneyKept

LEMMA TicketRefundKept ==
  ASSUME IInv, TypeOK', NEW e \in Events, NEW v \in Nat, NEW to,
         ClaimTicketRefund(e, v, to)
  PROVE  Kept(e)
<1> DEFINE old == ev[e]
           new == [old EXCEPT !.refundPool = @ - v]
<1>1. /\ TypeOK /\ old \in EventConfig /\ Exists(e)
      /\ UNCHANGED <<userVars, rewardReserve, nextEventId>>
      /\ balance' = balance - v
  BY DEF IInv, TypeOK, ClaimTicketRefund, Pay
<1>2. Writes(e, new)
  BY <1>1 DEF ClaimTicketRefund, Writes, TypeOK
<1>3. OnlyMoney(old, new)
  BY <1>1 DEF EventConfig, OnlyMoney
<1>4. balance + Money(new) <= balance' + Money(old)
  BY <1>1 DEF Money, EventConfig, TypeOK
<1> HIDE DEF new
<1> QED
  BY <1>1, <1>2, <1>3, <1>4, MovedMoneyKept

LEMMA TopUpKept ==
  ASSUME IInv, TypeOK', NEW c, NEW e \in Events, NEW v \in Nat, DepositRefundPool(c, e, v)
  PROVE  Kept(e)
<1> DEFINE old == ev[e]
           new == [old EXCEPT !.refundPool = @ + v]
<1>1. /\ TypeOK /\ old \in EventConfig /\ Exists(e)
      /\ UNCHANGED <<userVars, rewardReserve, nextEventId>>
      /\ balance' = balance + v
  BY DEF IInv, TypeOK, DepositRefundPool, OrganizerOrAdmin, Receive
<1>2. Writes(e, new)
  BY <1>1 DEF DepositRefundPool, Writes, TypeOK
<1>3. OnlyMoney(old, new)
  BY <1>1 DEF EventConfig, OnlyMoney
<1>4. balance + Money(new) <= balance' + Money(old)
  BY <1>1 DEF Money, EventConfig, TypeOK
<1> HIDE DEF new
<1> QED
  BY <1>1, <1>2, <1>3, <1>4, MovedMoneyKept

LEMMA DepositKept ==
  ASSUME IInv, TypeOK', NEW e \in Events, NEW v \in Nat,
         DepositTicketRevenue(e, v) \/ DepositRoyalty(e, v)
  PROVE  Kept(e)
<1> DEFINE old == ev[e]
           new == [old EXCEPT !.escrowedRevenue = @ + v]
<1>1. /\ TypeOK /\ old \in EventConfig /\ Exists(e)
      /\ UNCHANGED <<userVars, rewardReserve, nextEventId>>
      /\ balance' = balance + v
  BY DEF IInv, TypeOK, DepositTicketRevenue, DepositRoyalty, Receive
<1>2. Writes(e, new)
  BY <1>1 DEF DepositTicketRevenue, DepositRoyalty, Writes, TypeOK
<1>3. OnlyMoney(old, new)
  BY <1>1 DEF EventConfig, OnlyMoney
<1>4. balance + Money(new) <= balance' + Money(old)
  BY <1>1 DEF Money, EventConfig, TypeOK
<1> HIDE DEF new
<1> QED
  BY <1>1, <1>2, <1>3, <1>4, MovedMoneyKept

LEMMA PenaltyKept ==
  ASSUME IInv, TypeOK', NEW e \in Events, NEW p \in Nat, ApplyPenalty(e, p)
  PROVE  Kept(e)
<1> DEFINE old == ev[e]
           amount == (old.organizerStakeLocked * p) \div BPS_DENOM
           new == [old EXCEPT !.organizerStakeLocked = @ - amount, !.refundPool = @ + amount]
<1>1. /\ TypeOK /\ old \in EventConfig /\ Exists(e)
      /\ UNCHANGED <<userVars, rewardReserve, nextEventId>>
      /\ balance' = balance
  BY DEF IInv, TypeOK, ApplyPenalty
<1>2. Writes(e, new)
  BY <1>1 DEF ApplyPenalty, Writes, TypeOK
<1>3. amount \in Nat
  <2>1. old.organizerStakeLocked \in Nat /\ p <= BPS_DENOM
    BY <1>1 DEF EventConfig, ApplyPenalty, PenaltyRateValid
  <2> QED
    BY <2>1, ConstantsType, FractionBound
<1> HIDE DEF amount
<1>4. OnlyMoney(old, new)
  BY <1>1 DEF EventConfig, OnlyMoney
<1>5. balance + Money(new) <= balance' + Money(old)
  BY <1>1, <1>3 DEF Money, EventConfig, TypeOK
<1> HIDE DEF new
<1> QED
  BY <1>1, <1>2, <1>4, <1>5, MovedMoneyKept

-----------------------------------------------------------------------------
(* The transactions that make, pay and destroy rewards.                    *)

\* Rounding down twice - the reward per share and each donator's part - never
\* hands out more than the pool that was divided.
LEMMA RewardsWithinPool ==
  ASSUME TypeOK', NEW e \in Events, NEW pool \in Nat, NEW shares \in Nat,
         shares = 0 => pool = 0,
         shares = SumOver(shareOf'[e], Accounts),
         ev'[e].accRewardPerShare = RewardPerShare(pool, shares),
         \A u \in Accounts : rewardDebt'[e][u] = 0 /\ pending'[e][u] = 0
  PROVE  SumOver(RewardsOf(e)', Accounts) <= pool
<1> DEFINE acc == ev'[e].accRewardPerShare
           reward == RewardsOf(e)'
           held == shareOf'[e]
<1>1. acc \in Nat /\ held \in [Accounts -> Nat]
  BY DEF TypeOK, EventConfig
<1>2. reward \in [Accounts -> Nat]
  BY RewardTypePrime DEF RewardsOf
<1>3. \A u \in Accounts : REWARD_SCALE * reward[u] <= acc * held[u]
  <2> SUFFICES ASSUME NEW u \in Accounts
               PROVE  REWARD_SCALE * reward[u] <= acc * held[u]
    OBVIOUS
  <2> DEFINE x == held[u] * acc
  <2>1. held[u] \in Nat
    BY <1>1
  <2>2. x \in Nat /\ x = acc * held[u]
    BY <1>1, <2>1, ProductNat
  <2>3. x \div REWARD_SCALE \in Nat /\ REWARD_SCALE * (x \div REWARD_SCALE) <= x
    <3> HIDE DEF x
    <3> QED
      BY <2>2, ConstantsType, QuotientBound
  <2>4. Accumulated(e, u)' = x \div REWARD_SCALE
    BY DEF Accumulated
  <2>5. PendingReward(e, u)' = x \div REWARD_SCALE
    <3> HIDE DEF x
    <3> QED
      BY <2>3, <2>4 DEF PendingReward
  <2> QED
    BY <2>2, <2>3, <2>5 DEF RewardsOf
<1>4. REWARD_SCALE * SumOver(reward, Accounts) <= acc * shares
  <2> HIDE DEF acc, reward, held
  <2>1. REWARD_SCALE * SumOver(reward, Accounts) <= acc * SumOver(held, Accounts)
    BY <1>1, <1>2, <1>3, ConstantsType, SumScaled
  <2> QED
    BY <2>1 DEF held
<1>5. acc * shares <= REWARD_SCALE * pool
  <2>1. CASE pool = 0
    BY <2>1, ConstantsType DEF RewardPerShare
  <2>2. CASE pool # 0
    <3> DEFINE y == pool * REWARD_SCALE
    <3>1. y \in Nat /\ y = REWARD_SCALE * pool /\ shares \in Nat \ {0}
      BY <2>2, ConstantsType, ProductNat
    <3>2. acc = y \div shares
      BY <2>2 DEF RewardPerShare
    <3> HIDE DEF y
    <3>3. shares * (y \div shares) <= y /\ y \div shares \in Nat
      BY <3>1, QuotientBound
    <3>4. shares * acc <= y
      BY <3>2, <3>3
    <3>5. acc * shares = shares * acc
      BY <1>1
    <3> QED
      BY <3>1, <3>4, <3>5
  <2> QED
    BY <2>1, <2>2
<1>6. SumOver(reward, Accounts) \in Nat
  BY <1>2, ConstantsType, UnitsFinite
<1>7. SumOver(reward, Accounts) <= pool
  <2> HIDE DEF acc, reward, held
  <2> DEFINE total == SumOver(reward, Accounts)
  <2> HIDE DEF total
  <2>1. total \in Nat /\ REWARD_SCALE * total <= acc * shares
    BY <1>4, <1>6 DEF total
  <2>2. /\ REWARD_SCALE * total \in Nat /\ acc * shares \in Nat
        /\ REWARD_SCALE * pool \in Nat
    BY <1>1, <2>1, ConstantsType, ProductNat
  <2>3. REWARD_SCALE * total <= REWARD_SCALE * pool
    BY <1>5, <2>1, <2>2
  <2>4. total <= pool
    BY <2>1, <2>3, ConstantsType, ProductCancel
  <2> QED
    BY <2>4 DEF total
<1> QED
  BY <1>7

LEMMA ReleaseKept ==
  ASSUME IInv, TypeOK', NEW c \in Accounts, NEW e \in Events, ReleaseRevenue(c, e)
  PROVE  Kept(e)
<1> DEFINE old == ev[e]
           new == ev'[e]
           fee == PlatformFee(old)
           share == OrganizerShare(old)
           pool == DonatorPool(old)
<1>1. EventInv(e) /\ TypeOK /\ old \in EventConfig
  BY DEF IInv, TypeOK
<1>2. /\ Exists(e) /\ old.sharesFinalized /\ ~old.revenueReleased
      /\ old.status = "Completed" /\ ~old.refundsEnabled
  BY DEF ReleaseRevenue, OrganizerOrAdmin, MayRelease
<1>3. /\ fee \in Nat /\ share \in Nat /\ pool \in Nat
      /\ fee + share + pool = old.escrowedRevenue
      /\ old.totalShares = 0 => pool = 0
  BY <1>1, SplitExact
<1>4. /\ old.accRewardPerShare = 0 /\ rewardReserve[e] = 0
      /\ \A u \in Accounts : rewardDebt[e][u] = 0 /\ pending[e][u] = 0
  BY <1>1, <1>2 DEF EventInv, Unreleased, NothingPending
<1>5. old.totalShares \in Nat /\ RewardPerShare(pool, old.totalShares) \in Nat
  <2>1. old.totalShares \in Nat
    BY <1>1 DEF EventConfig
  <2> QED
    BY <1>3, <2>1, RewardPerShareType
<1>6. /\ new.organizerStakeLocked = old.organizerStakeLocked
      /\ new.escrowedRevenue = 0
      /\ new.refundPool = old.refundPool
      /\ new.totalShares = old.totalShares
      /\ new.revenueReleased = TRUE
      /\ new.sharesFinalized = old.sharesFinalized
      /\ new.status = old.status
      /\ new.refundsEnabled = old.refundsEnabled
      /\ new.accRewardPerShare = old.accRewardPerShare + RewardPerShare(pool, old.totalShares)
  BY <1>1 DEF ReleaseRevenue, TypeOK, EventConfig
<1>7. rewardReserve'[e] = pool
  BY <1>1, <1>3, <1>4 DEF ReleaseRevenue, TypeOK
<1>8. shareOf' = shareOf /\ rewardDebt' = rewardDebt /\ pending' = pending
      /\ nextEventId' = nextEventId
  BY DEF ReleaseRevenue, userVars
<1>9. balance' = balance - (fee + share)
  BY DEF ReleaseRevenue
<1>10. OthersSame(e)
  BY <1>1, <1>8 DEF OthersSame, Same, ReleaseRevenue, TypeOK
<1> HIDE DEF fee, share, pool
<1>11. EventInv(e)'
  <2>1. new.accRewardPerShare = RewardPerShare(pool, old.totalShares)
    BY <1>4, <1>5, <1>6
  <2>2. old.totalShares = SumOver(shareOf'[e], Accounts)
    BY <1>1, <1>8 DEF EventInv, SharesExact
  <2>3. SumOver(RewardsOf(e)', Accounts) <= pool
    BY <1>3, <1>4, <1>5, <1>8, <2>1, <2>2, RewardsWithinPool
  <2>4. Backed(e)'
    BY <1>7, <2>3 DEF Backed
  <2>5. SharesExact(e)'
    BY <1>6, <2>2 DEF SharesExact
  <2>6. Released(e)' /\ Unreleased(e)' /\ Opening(e)'
    BY <1>2, <1>6 DEF Released, Unreleased, Opening
  <2>7. NothingPending(e)'
    BY <1>4, <1>8 DEF NothingPending
  <2>8. Fresh(e)'
    BY <1>1, <1>2, <1>8 DEF EventInv, Fresh, Exists, NoEvent
  <2> QED
    BY <2>4, <2>5, <2>6, <2>7, <2>8 DEF EventInv
<1>12. balance + Held(e)' <= balance' + Held(e)
  <2>1. /\ old.organizerStakeLocked \in Nat /\ old.escrowedRevenue \in Nat
        /\ old.refundPool \in Nat /\ balance \in Nat
    BY <1>1 DEF TypeOK, EventConfig
  <2>2. Held(e) = old.organizerStakeLocked + old.escrowedRevenue + old.refundPool
                    + old.totalShares
    BY <1>4, <1>5, <2>1 DEF Held
  <2>3. Held(e)' = old.organizerStakeLocked + old.refundPool + old.totalShares + pool
    BY <1>3, <1>5, <1>6, <1>7, <2>1 DEF Held
  <2> QED
    BY <1>3, <1>5, <1>9, <2>1, <2>2, <2>3
<1>13. nextEventId' >= nextEventId
  BY <1>1, <1>8 DEF TypeOK
<1> QED
  BY <1>10, <1>11, <1>12, <1>13 DEF Kept

\* A donator takes her reward out of the reserve and of the sum it backs alike.
LEMMA ClaimRewardKept ==
  ASSUME IInv, TypeOK', NEW c \in Accounts, NEW e \in Events, ClaimReward(c, e)
  PROVE  Kept(e)
<1> DEFINE paid == PendingReward(e, c)
<1>1. EventInv(e) /\ TypeOK
  BY DEF IInv
<1>2. /\ ev' = ev /\ shareOf' = shareOf /\ nextEventId' = nextEventId
      /\ balance' = balance - paid
      /\ rewardReserve'[e] = rewardReserve[e] - paid
      /\ pending'[e] = [pending[e] EXCEPT ![c] = 0]
      /\ rewardDebt'[e] = [rewardDebt[e] EXCEPT ![c] = Accumulated(e, c)]
  BY <1>1 DEF ClaimReward, Pay, TypeOK
<1>3. paid \in Nat /\ Accumulated(e, c) \in Nat
  BY <1>1, RewardType
<1>4. OthersSame(e)
  BY <1>1 DEF OthersSame, Same, ClaimReward, TypeOK
<1>5. \A u \in Accounts : Accumulated(e, u)' = Accumulated(e, u)
  BY <1>2 DEF Accumulated
<1>6. PendingReward(e, c)' = 0
  <2>1. pending'[e][c] = 0 /\ rewardDebt'[e][c] = Accumulated(e, c)
    BY <1>1, <1>2 DEF TypeOK
  <2> QED
    BY <1>3, <1>5, <2>1 DEF PendingReward
<1>7. \A u \in Accounts \ {c} : PendingReward(e, u)' = PendingReward(e, u)
  <2> SUFFICES ASSUME NEW u \in Accounts \ {c}
               PROVE  PendingReward(e, u)' = PendingReward(e, u)
    OBVIOUS
  <2>1. pending'[e][u] = pending[e][u] /\ rewardDebt'[e][u] = rewardDebt[e][u]
    BY <1>1, <1>2 DEF TypeOK
  <2> QED
    BY <1>5, <2>1 DEF PendingReward
<1>8. SumOver(RewardsOf(e)', Accounts) = SumOver(RewardsOf(e), Accounts) - paid
  <2>1. RewardsOf(e) \in [Accounts -> Nat]
    BY <1>1, RewardType DEF RewardsOf
  <2>2. RewardsOf(e)' \in [Accounts -> Nat]
    BY RewardTypePrime DEF RewardsOf
  <2>3. \A u \in Accounts \ {c} : RewardsOf(e)'[u] = RewardsOf(e)[u]
    BY <1>7 DEF RewardsOf
  <2>4. RewardsOf(e)[c] = paid /\ RewardsOf(e)'[c] = 0
    BY <1>6 DEF RewardsOf
  <2>5. SumOver(RewardsOf(e)', Accounts)
          = SumOver(RewardsOf(e), Accounts) - RewardsOf(e)[c] + RewardsOf(e)'[c]
    BY <2>1, <2>2, <2>3, ConstantsType, SumUpdate
  <2>6. SumOver(RewardsOf(e), Accounts) \in Nat
    BY <2>1, ConstantsType, UnitsFinite
  <2> QED
    BY <1>3, <2>4, <2>5, <2>6
<1>9. ev[e].revenueReleased
  <2> SUFFICES ASSUME ~ev[e].revenueReleased
               PROVE  FALSE
    OBVIOUS
  <2>1. ev[e].accRewardPerShare = 0 /\ pending[e][c] = 0
    BY <1>1 DEF EventInv, Unreleased, NothingPending
  <2>2. paid = 0
    BY <1>1, <2>1, NoReward
  <2> QED
    BY <2>2 DEF ClaimReward
<1>10. EventInv(e)'
  <2>1. Backed(e)'
    <3>1. RewardsOf(e) \in [Accounts -> Nat]
      BY <1>1, RewardType DEF RewardsOf
    <3>2. SumOver(RewardsOf(e), Accounts) \in Nat /\ rewardReserve[e] \in Int
      BY <1>1, <3>1, ConstantsType, UnitsFinite DEF TypeOK
    <3> QED
      BY <1>1, <1>2, <1>3, <1>8, <3>2 DEF EventInv, Backed
  <2>2. SharesExact(e)' /\ Released(e)' /\ Opening(e)' /\ Fresh(e)'
    BY <1>1, <1>2 DEF EventInv, SharesExact, Released, Opening, Fresh, Exists
  <2>3. Unreleased(e)'
    BY <1>2, <1>9 DEF Unreleased
  <2>4. NothingPending(e)'
    BY <1>1, <1>2 DEF EventInv, NothingPending, TypeOK
  <2> QED
    BY <2>1, <2>2, <2>3, <2>4 DEF EventInv
<1>11. balance + Held(e)' <= balance' + Held(e)
  <2>1. /\ ev[e].organizerStakeLocked \in Nat /\ ev[e].escrowedRevenue \in Nat
        /\ ev[e].refundPool \in Nat /\ ev[e].totalShares \in Nat
        /\ balance \in Nat /\ rewardReserve[e] \in Int
    BY <1>1 DEF TypeOK, EventConfig
  <2> QED
    BY <1>2, <1>3, <2>1 DEF Held
<1> QED
  BY <1>1, <1>2, <1>4, <1>10, <1>11 DEF Kept, TypeOK

\* A donator paid back takes her shares out of both sides of the share count,
\* and no reward is left to recompute: a cancelled event was never released.
LEMMA ContributionRefundKept ==
  ASSUME IInv, TypeOK', NEW e \in Events, NEW u \in Accounts, ClaimContributionRefund(e, u)
  PROVE  Kept(e)
<1> DEFINE old == ev[e]
           new == ev'[e]
           amount == shareOf[e][u]
<1>1. EventInv(e) /\ TypeOK /\ old \in EventConfig /\ amount \in Nat
  BY DEF IInv, TypeOK
<1>2. /\ old.status = "Cancelled" /\ balance' = balance - amount
      /\ nextEventId' = nextEventId /\ rewardReserve' = rewardReserve
  BY DEF ClaimContributionRefund, Pay
<1>3. /\ shareOf'[e] = [shareOf[e] EXCEPT ![u] = 0]
      /\ rewardDebt'[e] = [rewardDebt[e] EXCEPT ![u] = 0]
      /\ pending'[e] = [pending[e] EXCEPT ![u] = 0]
  BY <1>1 DEF ClaimContributionRefund, TypeOK
<1>4. /\ shareOf[e] \in [Accounts -> Nat] /\ shareOf'[e] \in [Accounts -> Nat]
      /\ rewardDebt[e] \in [Accounts -> Nat] /\ pending[e] \in [Accounts -> Nat]
  BY <1>1 DEF TypeOK
<1>5. old.totalShares = SumOver(shareOf[e], Accounts) /\ old.totalShares \in Nat
  BY <1>1 DEF EventInv, SharesExact, EventConfig
<1>6. amount <= old.totalShares
  BY <1>4, <1>5, ConstantsType, SumBound
<1>7. /\ new.organizerStakeLocked = old.organizerStakeLocked
      /\ new.escrowedRevenue = old.escrowedRevenue
      /\ new.refundPool = old.refundPool
      /\ new.totalShares = old.totalShares - amount
      /\ new.accRewardPerShare = old.accRewardPerShare
      /\ new.revenueReleased = old.revenueReleased
      /\ new.sharesFinalized = old.sharesFinalized
      /\ new.status = old.status
  BY <1>1, <1>5, <1>6 DEF ClaimContributionRefund, TypeOK, EventConfig
<1>8. ~old.revenueReleased
  BY <1>1, <1>2 DEF EventInv, Released
<1>9. /\ old.accRewardPerShare = 0 /\ rewardReserve[e] = 0
      /\ \A w \in Accounts : rewardDebt[e][w] = 0 /\ pending[e][w] = 0
  BY <1>1, <1>8 DEF EventInv, Unreleased, NothingPending
<1>10. \A w \in Accounts : rewardDebt'[e][w] = 0 /\ pending'[e][w] = 0
  BY <1>3, <1>4, <1>9
<1>11. OthersSame(e)
  BY <1>1 DEF OthersSame, Same, ClaimContributionRefund, TypeOK
<1>12. EventInv(e)'
  <2>1. Backed(e)'
    BY <1>2, <1>7, <1>9, <1>10, QuietBacked
  <2>2. SharesExact(e)'
    <3>1. SumOver(shareOf'[e], Accounts)
            = SumOver(shareOf[e], Accounts) - shareOf[e][u] + shareOf'[e][u]
      BY <1>3, <1>4, ConstantsType, SumUpdate
    <3>2. shareOf'[e][u] = 0
      BY <1>3, <1>4
    <3> QED
      BY <1>1, <1>5, <1>7, <3>1, <3>2 DEF SharesExact
  <2>3. Released(e)' /\ Unreleased(e)' /\ NothingPending(e)'
    BY <1>2, <1>7, <1>8, <1>9, <1>10 DEF Released, Unreleased, NothingPending
  <2>4. Opening(e)' /\ Fresh(e)'
    BY <1>1, <1>2, <1>7 DEF EventInv, Opening, Fresh, Exists, NoEvent
  <2> QED
    BY <2>1, <2>2, <2>3, <2>4 DEF EventInv
<1>13. balance + Held(e)' <= balance' + Held(e)
  <2>1. /\ old.organizerStakeLocked \in Nat /\ old.escrowedRevenue \in Nat
        /\ old.refundPool \in Nat /\ balance \in Nat
    BY <1>1 DEF TypeOK, EventConfig
  <2> QED
    BY <1>1, <1>2, <1>5, <1>6, <1>7, <1>9, <2>1 DEF Held
<1> QED
  BY <1>1, <1>2, <1>11, <1>12, <1>13 DEF Kept, TypeOK

-----------------------------------------------------------------------------
(* The invariant, and the properties it implies.                           *)

LEMMA InvInit == Init => IInv
<1> SUFFICES ASSUME Init
             PROVE  IInv
  OBVIOUS
<1>1. TypeOK
  BY TypeInit
<1>2. \A e \in Events : EventInv(e)
  <2> SUFFICES ASSUME NEW e \in Events
               PROVE  EventInv(e)
    OBVIOUS
  <2>1. /\ ev[e] = NoEvent /\ rewardReserve[e] = 0
        /\ \A u \in Accounts : shareOf[e][u] = 0 /\ rewardDebt[e][u] = 0 /\ pending[e][u] = 0
    BY DEF Init
  <2>2. /\ ev[e].accRewardPerShare = 0 /\ ev[e].totalShares = 0
        /\ ev[e].revenueReleased = FALSE /\ ev[e].status = "None"
    BY <2>1 DEF NoEvent
  <2>3. \A u \in Accounts : RewardsOf(e)[u] = 0
    BY <1>1, <2>1, <2>2, NoReward DEF RewardsOf
  <2>4. Backed(e)
    BY <2>1, <2>3, SumZero DEF Backed
  <2>5. SharesExact(e)
    BY <2>1, <2>2, SumZero DEF SharesExact
  <2> QED
    BY <2>1, <2>2, <2>4, <2>5
       DEF EventInv, Released, Unreleased, NothingPending, Opening, Exists, Fresh
<1>3. Solvent
  <2>1. \A e \in Events : HeldByEvent[e] = 0
    BY DEF Init, HeldByEvent, Held, NoEvent
  <2>2. SumOver(HeldByEvent, Events) = 0
    BY <2>1, SumZero
  <2> QED
    BY <2>2 DEF Solvent, HeldByEvent, Init
<1> QED
  BY <1>1, <1>2, <1>3 DEF IInv

\* Nothing that is about an event changes, and the balance does not fall.
LEMMA NoEventStep ==
  ASSUME IInv, TypeOK', UNCHANGED <<ev, userVars, nextEventId, rewardReserve>>,
         balance <= balance'
  PROVE  IInv'
<1>1. \A f \in Events : Same(f)
  BY DEF Same, userVars
<1>2. nextEventId' >= nextEventId
  BY DEF IInv, TypeOK
<1>3. \A f \in Events : EventInv(f)'
  BY <1>1, <1>2, FrameInv DEF IInv
<1>4. Solvent'
  <2>1. HeldByEvent' = HeldByEvent
    BY DEF HeldByEvent, Held
  <2>2. \A f \in Events : Held(f) \in Nat
    BY <1>3, HeldNat DEF IInv, EventInv
  <2>3. SumOver(HeldByEvent, Events) \in Nat
    BY <2>2, ConstantsType, UnitsFinite DEF HeldByEvent
  <2>4. balance \in Nat /\ balance' \in Nat
    BY DEF IInv, TypeOK
  <2> QED
    BY <2>1, <2>3, <2>4 DEF IInv, Solvent, HeldByEvent
<1> QED
  BY <1>3, <1>4 DEF IInv

LEMMA InvStep ==
  ASSUME IInv, [Next]_vars
  PROVE  IInv'
<1>1. TypeOK'
  BY TypeStep DEF IInv
<1>2. CASE UNCHANGED vars
  <2>1. balance \in Nat
    BY DEF IInv, TypeOK
  <2> QED
    BY <1>1, <1>2, <2>1, NoEventStep DEF vars, userVars
<1>3. CASE SetTicketContract \/ SetMarketplaceContract \/ Tick
  <2>1. balance' = balance /\ balance \in Nat
    BY <1>3 DEF SetTicketContract, SetMarketplaceContract, Tick, IInv, TypeOK
  <2>2. UNCHANGED <<ev, userVars, nextEventId, rewardReserve>>
    BY <1>3 DEF SetTicketContract, SetMarketplaceContract, Tick
  <2> QED
    BY <1>1, <2>1, <2>2, NoEventStep
<1>4. CASE \E v \in Gifts : ReceiveEther(v)
  <2>1. PICK v \in Gifts : ReceiveEther(v)
    BY <1>4
  <2>2. balance <= balance'
    BY <2>1, ConstantsType DEF ReceiveEther, Receive, IInv, TypeOK
  <2> QED
    BY <1>1, <2>1, <2>2, NoEventStep DEF ReceiveEther
<1>5. CASE \E c \in Accounts, a \in CreateArgs, v \in Amounts : CreateEvent(c, a, v)
  <2>1. PICK c \in Accounts, a \in CreateArgs, v \in Amounts : CreateEvent(c, a, v)
    BY <1>5
  <2>2. PICK e \in Events : e = nextEventId
    BY <2>1, ConstantsType DEF IInv, TypeOK, CreateEvent, Events
  <2>3. Kept(e)
    BY <1>1, <2>1, <2>2, CreateKept
  <2> QED
    BY <1>1, <2>3, OneEventStep
<1>6. CASE \E c \in Accounts, e \in Events : LifecycleStep(c, e)
  <2>1. PICK c \in Accounts, e \in Events : LifecycleStep(c, e)
    BY <1>6
  <2>2. Kept(e)
    BY <1>1, <2>1, FinalizeKept, CancelKept, TicketingKept, CompletedKept,
       ReleaseKept, RefundTicketsKept DEF LifecycleStep
  <2> QED
    BY <1>1, <2>2, OneEventStep
<1>7. CASE \E c \in Accounts, e \in Events : MoneyStep(c, e)
  <2>1. PICK c \in Accounts, e \in Events : MoneyStep(c, e)
    BY <1>7
  <2>2. Amounts \subseteq Nat /\ TopUps \subseteq Nat
    BY ConstantsType
  <2>3. Kept(e)
    BY <1>1, <2>1, <2>2, ContributeKept, ClaimRewardKept, ContributionRefundKept,
       StakeKept, TicketRefundKept, TopUpKept DEF MoneyStep
  <2> QED
    BY <1>1, <2>3, OneEventStep
<1>8. CASE \E e \in Events : ContractStep(e)
  <2>1. PICK e \in Events : ContractStep(e)
    BY <1>8
  <2>2. Amounts \subseteq Nat /\ PenaltyRates \subseteq Nat
    BY ConstantsType
  <2>3. Kept(e)
    BY <1>1, <2>1, <2>2, PenaltyKept, DepositKept DEF ContractStep
  <2> QED
    BY <1>1, <2>3, OneEventStep
<1> QED
  BY <1>2, <1>3, <1>4, <1>5, <1>6, <1>7, <1>8 DEF Next

THEOREM Invariant == Spec => []IInv
BY InvInit, InvStep, PTL DEF Spec

\* The contract's one balance covers what it owes on all events together, so no
\* event is ever paid out of another event's money.
THEOREM Solvency == Spec => []Solvent
<1>1. IInv => Solvent
  BY DEF IInv
<1> QED
  BY <1>1, Invariant, PTL

\* The division losses of accRewardPerShare always fall on the donators' side:
\* claims never exceed what the release set aside.
THEOREM RewardsAreBacked == Spec => []RewardsBacked
<1>1. IInv => RewardsBacked
  BY DEF IInv, EventInv, Backed, RewardsOf, RewardsBacked
<1> QED
  BY <1>1, Invariant, PTL

\* totalShares is the sum of the shares, for any number of donators.
THEOREM SharesAlwaysAddUp == Spec => []SharesAddUp
<1>1. IInv => SharesAddUp
  BY DEF IInv, EventInv, SharesExact, SharesAddUp
<1> QED
  BY <1>1, Invariant, PTL

\* Releasing revenue and enabling refunds exclude each other forever.
THEOREM OneSettlement == Spec => []SettlementExclusive
<1>1. IInv => SettlementExclusive
  BY DEF IInv, EventInv, Released, SettlementExclusive
<1> QED
  BY <1>1, Invariant, PTL

\* No reward is ever owed on a cancelled event.
THEOREM CancelledOwesNoReward == Spec => []CancelledNeverReleased
<1>1. IInv => CancelledNeverReleased
  <2> SUFFICES ASSUME IInv, NEW e \in Events, ev[e].status = "Cancelled"
               PROVE  /\ ~ev[e].revenueReleased
                      /\ rewardReserve[e] = 0
                      /\ \A u \in Accounts : PendingReward(e, u) = 0
    BY DEF CancelledNeverReleased
  <2>1. ~ev[e].revenueReleased
    BY DEF IInv, EventInv, Released
  <2>2. /\ ev[e].accRewardPerShare = 0 /\ rewardReserve[e] = 0
        /\ \A u \in Accounts : pending[e][u] = 0
    BY <2>1 DEF IInv, EventInv, Unreleased, NothingPending
  <2> QED
    BY <2>1, <2>2, NoReward DEF IInv
<1> QED
  BY <1>1, Invariant, PTL

\* Shares of a finalized event move only when a cancelled event pays a donator
\* all of hers back.
THEOREM SharesStayFrozen == Spec => SharesFrozen
<1> DEFINE Frozen == \A e \in Events, u \in Accounts :
             ev[e].sharesFinalized /\ shareOf'[e][u] # shareOf[e][u] =>
               /\ ev[e].status = "Cancelled"
               /\ shareOf'[e][u] = 0
               /\ balance' = balance - shareOf[e][u]
<1>1. ASSUME TypeOK, [Next]_vars
      PROVE  Frozen
  <2>1. CASE shareOf' = shareOf
    BY <2>1
  <2>2. CASE \E c \in Accounts, e \in Events, v \in Amounts : Contribute(c, e, v)
    <3>1. PICK c \in Accounts, e \in Events, v \in Amounts : Contribute(c, e, v)
      BY <2>2
    <3>2. ~ev[e].sharesFinalized /\ \A f \in Events \ {e} : shareOf'[f] = shareOf[f]
      BY <1>1, <3>1 DEF Contribute, FundingOpen, TypeOK
    <3> QED
      BY <3>2
  <2>3. CASE \E e \in Events, u \in Accounts : ClaimContributionRefund(e, u)
    <3>1. PICK e \in Events, u \in Accounts : ClaimContributionRefund(e, u)
      BY <2>3
    <3>2. /\ ev[e].status = "Cancelled" /\ balance' = balance - shareOf[e][u]
          /\ shareOf'[e][u] = 0
          /\ \A f \in Events, w \in Accounts :
               f # e \/ w # u => shareOf'[f][w] = shareOf[f][w]
      BY <1>1, <3>1 DEF ClaimContributionRefund, Pay, TypeOK
    <3> QED
      BY <3>2
  <2>4. CASE UNCHANGED vars
    BY <2>1, <2>4 DEF vars
  <2>5. CASE SetTicketContract \/ SetMarketplaceContract \/ Tick \/ \E v \in Gifts : ReceiveEther(v)
    BY <2>1, <2>5 DEF SetTicketContract, SetMarketplaceContract, Tick, ReceiveEther, userVars
  <2>6. CASE \E c \in Accounts, a \in CreateArgs, v \in Amounts : CreateEvent(c, a, v)
    BY <2>1, <2>6 DEF CreateEvent, userVars
  <2>7. CASE \E c \in Accounts, e \in Events : LifecycleStep(c, e)
    BY <2>1, <2>7 DEF LifecycleStep, FinalizeFunding, CancelEvent, StartTicketing,
         SetCompletedIfThresholdMet, ReleaseRevenue, RefundTickets, userVars
  <2>8. CASE \E c \in Accounts, e \in Events : MoneyStep(c, e)
    BY <2>1, <2>2, <2>3, <2>8 DEF MoneyStep, ClaimReward, WithdrawStake,
         ClaimTicketRefund, DepositRefundPool, userVars
  <2>9. CASE \E e \in Events : ContractStep(e)
    BY <2>1, <2>9 DEF ContractStep, ApplyPenalty, DepositTicketRevenue, DepositRoyalty, userVars
  <2> QED
    BY <1>1, <2>4, <2>5, <2>6, <2>7, <2>8, <2>9 DEF Next
<1>2. TypeOK /\ [Next]_vars => [Frozen]_vars
  BY <1>1
<1> QED
  BY <1>2, TypeCorrect, PTL DEF Spec, SharesFrozen
-----------------------------------------------------------------------------
(* What a transaction does to the ticket money of an event: the escrow and *)
(* the refund pool together, from which the tickets still Sold are paid.   *)

TicketMoney(r) == r.escrowedRevenue + r.refundPool

\* Ticket money that is not released stays, and a cancellation moves all of it
\* into the pool and opens the refunds if there is any.
MoneyKept(old, new) ==
  /\ new.status = "None" => old.status = "None"
  /\ new.refundPool >= old.refundPool
  /\ old.status # "None" /\ ~new.revenueReleased =>
       ~old.revenueReleased /\ TicketMoney(new) >= TicketMoney(old)
  /\ old.status # "None" /\ new.status = "Cancelled" =>
       \/ /\ old.status = "Cancelled"
          /\ old.refundsEnabled => new.refundsEnabled
       \/ /\ ~old.revenueReleased
          /\ new.refundPool = TicketMoney(old)
          /\ TicketMoney(old) > 0 => new.refundsEnabled

AllMoneyKept == \A e \in Events : MoneyKept(ev[e], ev'[e])

LEMMA MoneyUntouched ==
  ASSUME NEW r \in EventConfig
  PROVE  MoneyKept(r, r)
BY DEF MoneyKept, TicketMoney, EventConfig

LEMMA OneMoneyKept ==
  ASSUME TypeOK, NEW e \in Events, \A f \in Events \ {e} : ev'[f] = ev[f],
         MoneyKept(ev[e], ev'[e])
  PROVE  AllMoneyKept
<1>1. \A f \in Events : ev[f] \in EventConfig
  BY DEF TypeOK
<1> QED
  BY <1>1, MoneyUntouched DEF AllMoneyKept

\* No field a refund depends on changes.
LEMMA RefundFieldsKept ==
  ASSUME NEW old \in EventConfig, NEW new,
         new.status # "None", new.status # "Cancelled" \/ new.status = old.status,
         new.refundPool = old.refundPool, new.escrowedRevenue = old.escrowedRevenue,
         new.revenueReleased = old.revenueReleased, new.refundsEnabled = old.refundsEnabled
  PROVE  MoneyKept(old, new)
BY DEF MoneyKept, TicketMoney, EventConfig

LEMMA CancelledMoney ==
  ASSUME NEW r \in EventConfig, ~r.revenueReleased
  PROVE  MoneyKept(r, Cancelled(r))
<1> DEFINE new == Cancelled(r)
<1>1. /\ new.status = "Cancelled" /\ new.escrowedRevenue = 0
      /\ new.refundPool = r.refundPool + r.escrowedRevenue
      /\ new.revenueReleased = r.revenueReleased
      /\ r.refundPool + r.escrowedRevenue > 0 => new.refundsEnabled
  BY DEF Cancelled, EventConfig
<1>2. r.refundPool \in Nat /\ r.escrowedRevenue \in Nat
  BY DEF EventConfig
<1> HIDE DEF new
<1>3. MoneyKept(r, new)
  BY <1>1, <1>2 DEF MoneyKept, TicketMoney
<1> QED
  BY <1>3 DEF new

LEMMA CreateMoney ==
  ASSUME IInv, NEW c \in Accounts, NEW a \in CreateArgs, NEW v, CreateEvent(c, a, v)
  PROVE  AllMoneyKept
<1>1. PICK e \in Events : e = nextEventId
  BY ConstantsType DEF IInv, TypeOK, CreateEvent, Events
<1>2. TypeOK /\ ev[e] = NoEvent
  BY <1>1, ConstantsType DEF IInv, EventInv, Fresh
<1>3. ev'[e] = CreatedEvent(c, a, v) /\ \A f \in Events \ {e} : ev'[f] = ev[f]
  BY <1>1, <1>2 DEF CreateEvent, TypeOK
<1>4. ev[e].status = "None" /\ ev[e].refundPool = 0
  BY <1>2 DEF NoEvent
<1>5. CreatedEvent(c, a, v).refundPool = 0
  BY CreatedFields
<1>6. MoneyKept(ev[e], ev'[e])
  BY <1>3, <1>4, <1>5 DEF MoneyKept
<1> QED
  BY <1>2, <1>3, <1>6, OneMoneyKept

LEMMA ContributeMoney ==
  ASSUME IInv, NEW c \in Accounts, NEW e \in Events, NEW v, Contribute(c, e, v)
  PROVE  AllMoneyKept
<1> DEFINE old == ev[e]
           new == ev'[e]
<1>1. TypeOK /\ old \in EventConfig
  BY DEF IInv, TypeOK
<1>2. new = Contributed(old, v) /\ \A f \in Events \ {e} : ev'[f] = ev[f]
  BY <1>1 DEF Contribute, TypeOK
<1>3. old.status = "Funding"
  BY DEF Contribute, FundingOpen
<1>4. /\ new.escrowedRevenue = old.escrowedRevenue
      /\ new.refundPool = old.refundPool
      /\ new.revenueReleased = old.revenueReleased
      /\ new.refundsEnabled = old.refundsEnabled
      /\ new.status \in {"Funding", "Funded"}
  BY <1>1, <1>2, <1>3 DEF Contributed, EventConfig
<1>5. MoneyKept(old, new)
  <2> HIDE DEF old, new
  <2> QED
    BY <1>1, <1>4, RefundFieldsKept
<1> QED
  BY <1>1, <1>2, <1>5, OneMoneyKept

LEMMA FinalizeMoney ==
  ASSUME IInv, NEW c \in Accounts, NEW e \in Events, FinalizeFunding(c, e)
  PROVE  AllMoneyKept
<1> DEFINE old == ev[e]
           new == ev'[e]
<1>1. TypeOK /\ old \in EventConfig /\ EventInv(e)
  BY DEF IInv, TypeOK
<1>2. new = Finalized(old) /\ \A f \in Events \ {e} : ev'[f] = ev[f]
  BY <1>1 DEF FinalizeFunding, TypeOK
<1>3. old.status # "None" /\ ~old.sharesFinalized
  BY DEF FinalizeFunding, OrganizerOrAdmin, Exists
<1>4. old.status = "Funding" /\ ~old.revenueReleased
  BY <1>1, <1>3 DEF EventInv, Opening, Released, Exists
<1>5. MoneyKept(old, new)
  <2>1. CASE ~old.investmentEnabled
    <3>1. /\ new.escrowedRevenue = old.escrowedRevenue
          /\ new.refundPool = old.refundPool
          /\ new.revenueReleased = old.revenueReleased
          /\ new.refundsEnabled = old.refundsEnabled
          /\ new.status = "Funded"
      BY <1>1, <1>2, <2>1 DEF Finalized, EventConfig
    <3> HIDE DEF old, new
    <3> QED
      BY <1>1, <3>1, RefundFieldsKept
  <2>2. CASE old.investmentEnabled
    <3>1. new = Cancelled(old)
      BY <1>2, <1>4, <2>2 DEF Finalized
    <3> QED
      BY <1>1, <1>4, <3>1, CancelledMoney
  <2> QED
    BY <2>1, <2>2
<1> QED
  BY <1>1, <1>2, <1>5, OneMoneyKept

LEMMA CancelMoney ==
  ASSUME IInv, NEW c \in Accounts, NEW e \in Events, NEW reason, CancelEvent(c, e, reason)
  PROVE  AllMoneyKept
<1>1. TypeOK /\ ev[e] \in EventConfig
  BY DEF IInv, TypeOK
<1>2. ev'[e] = Cancelled(ev[e]) /\ \A f \in Events \ {e} : ev'[f] = ev[f]
  BY <1>1 DEF CancelEvent, TypeOK
<1>3. ~ev[e].revenueReleased
  BY DEF CancelEvent, CancelAllowed
<1> QED
  BY <1>1, <1>2, <1>3, CancelledMoney, OneMoneyKept

LEMMA PhaseMoney ==
  ASSUME IInv, NEW c \in Accounts, NEW e \in Events,
         \/ \E q \in Nat : StartTicketing(c, e, q)
         \/ \E sold, used : SetCompletedIfThresholdMet(c, e, sold, used)
         \/ WithdrawStake(c, e)
  PROVE  AllMoneyKept
<1> DEFINE old == ev[e]
           new == ev'[e]
<1>1. TypeOK /\ old \in EventConfig
  BY DEF IInv, TypeOK
<1>2. /\ \A f \in Events \ {e} : ev'[f] = ev[f]
      /\ new.escrowedRevenue = old.escrowedRevenue
      /\ new.refundPool = old.refundPool
      /\ new.revenueReleased = old.revenueReleased
      /\ new.refundsEnabled = old.refundsEnabled
      /\ new.status \in {"Ticketing", "Completed"}
  <2>1. CASE \E q \in Nat : StartTicketing(c, e, q)
    <3>1. PICK q \in Nat : StartTicketing(c, e, q)
      BY <2>1
    <3>2. old.totalMinted + q \in Nat
      BY <1>1 DEF EventConfig
    <3> QED
      BY <1>1, <3>1, <3>2 DEF StartTicketing, TypeOK, EventConfig
  <2>2. CASE \E sold, used : SetCompletedIfThresholdMet(c, e, sold, used)
    BY <1>1, <2>2 DEF SetCompletedIfThresholdMet, TypeOK, EventConfig
  <2>3. CASE WithdrawStake(c, e)
    BY <1>1, <2>3 DEF WithdrawStake, MayWithdrawStake, TypeOK, EventConfig
  <2> QED
    BY <2>1, <2>2, <2>3
<1>3. MoneyKept(old, new)
  <2> HIDE DEF old, new
  <2> QED
    BY <1>1, <1>2, RefundFieldsKept
<1> QED
  BY <1>1, <1>2, <1>3, OneMoneyKept

LEMMA ContributionRefundMoney ==
  ASSUME IInv, NEW e \in Events, NEW u, ClaimContributionRefund(e, u)
  PROVE  AllMoneyKept
<1> DEFINE old == ev[e]
           new == ev'[e]
<1>1. TypeOK /\ old \in EventConfig
  BY DEF IInv, TypeOK
<1>2. /\ \A f \in Events \ {e} : ev'[f] = ev[f]
      /\ new.escrowedRevenue = old.escrowedRevenue
      /\ new.refundPool = old.refundPool
      /\ new.revenueReleased = old.revenueReleased
      /\ new.refundsEnabled = old.refundsEnabled
      /\ new.status = old.status /\ old.status = "Cancelled"
  BY <1>1 DEF ClaimContributionRefund, TypeOK, EventConfig
<1>3. MoneyKept(old, new)
  <2> HIDE DEF old, new
  <2> QED
    BY <1>1, <1>2, RefundFieldsKept
<1> QED
  BY <1>1, <1>2, <1>3, OneMoneyKept

LEMMA ReleaseMoney ==
  ASSUME IInv, NEW c \in Accounts, NEW e \in Events, ReleaseRevenue(c, e)
  PROVE  AllMoneyKept
<1> DEFINE old == ev[e]
           new == ev'[e]
<1>1. TypeOK /\ old \in EventConfig
  BY DEF IInv, TypeOK
<1>2. /\ \A f \in Events \ {e} : ev'[f] = ev[f]
      /\ new.refundPool = old.refundPool /\ new.revenueReleased = TRUE
      /\ new.status = old.status /\ old.status = "Completed"
  BY <1>1 DEF ReleaseRevenue, MayRelease, TypeOK, EventConfig
<1>3. old.refundPool \in Nat
  BY <1>1 DEF EventConfig
<1>4. MoneyKept(old, new)
  BY <1>2, <1>3 DEF MoneyKept
<1> QED
  BY <1>1, <1>2, <1>4, OneMoneyKept

LEMMA RefundTicketsMoney ==
  ASSUME IInv, NEW c \in Accounts, NEW e \in Events, RefundTickets(c, e)
  PROVE  AllMoneyKept
<1> DEFINE old == ev[e]
           new == ev'[e]
<1>1. TypeOK /\ old \in EventConfig
  BY DEF IInv, TypeOK
<1>2. /\ \A f \in Events \ {e} : ev'[f] = ev[f]
      /\ new.escrowedRevenue = 0
      /\ new.refundPool = old.refundPool + old.escrowedRevenue
      /\ new.revenueReleased = old.revenueReleased
      /\ new.status = old.status /\ old.status \in {"Ticketing", "Completed"}
  BY <1>1 DEF RefundTickets, MayRefundTickets, TypeOK, EventConfig
<1>3. old.refundPool \in Nat /\ old.escrowedRevenue \in Nat
  BY <1>1 DEF EventConfig
<1>4. MoneyKept(old, new)
  <2> HIDE DEF old, new
  <2> QED
    BY <1>2, <1>3 DEF MoneyKept, TicketMoney
<1> QED
  BY <1>1, <1>2, <1>4, OneMoneyKept

\* Deposits of any kind, and penalties, only add to the ticket money.
LEMMA DepositMoney ==
  ASSUME IInv, NEW e \in Events,
         \/ \E v \in Nat : DepositTicketRevenue(e, v) \/ DepositRoyalty(e, v)
         \/ \E c : \E v \in Nat : DepositRefundPool(c, e, v)
         \/ \E p \in PenaltyRates : ApplyPenalty(e, p)
  PROVE  AllMoneyKept
<1> DEFINE old == ev[e]
           new == ev'[e]
           Grown ==
             /\ \A f \in Events \ {e} : ev'[f] = ev[f]
             /\ \E v, w \in Nat : /\ new.escrowedRevenue = old.escrowedRevenue + v
                                 /\ new.refundPool = old.refundPool + w
             /\ new.revenueReleased = old.revenueReleased
             /\ new.refundsEnabled = old.refundsEnabled
             /\ new.status = old.status
<1>1. TypeOK /\ old \in EventConfig
  BY DEF IInv, TypeOK
<1>2. /\ old.refundPool \in Nat /\ old.escrowedRevenue \in Nat /\ old.organizerStakeLocked \in Nat
      /\ old.status # "None"
  BY <1>1 DEF EventConfig, DepositTicketRevenue, DepositRoyalty, DepositRefundPool, ApplyPenalty,
              OrganizerOrAdmin, Exists
<1>3. Grown
  <2>1. ASSUME NEW v \in Nat, DepositTicketRevenue(e, v) \/ DepositRoyalty(e, v)
        PROVE  Grown
    <3>1. /\ \A f \in Events \ {e} : ev'[f] = ev[f]
          /\ new.escrowedRevenue = old.escrowedRevenue + v /\ new.refundPool = old.refundPool
          /\ new.revenueReleased = old.revenueReleased
          /\ new.refundsEnabled = old.refundsEnabled
          /\ new.status = old.status
      BY <1>1, <2>1 DEF DepositTicketRevenue, DepositRoyalty, TypeOK, EventConfig
    <3>2. new.refundPool = old.refundPool + 0 /\ 0 \in Nat
      BY <1>2, <3>1
    <3> QED
      BY <3>1, <3>2
  <2>2. ASSUME NEW c, NEW v \in Nat, DepositRefundPool(c, e, v)
        PROVE  Grown
    <3>1. /\ \A f \in Events \ {e} : ev'[f] = ev[f]
          /\ new.escrowedRevenue = old.escrowedRevenue /\ new.refundPool = old.refundPool + v
          /\ new.revenueReleased = old.revenueReleased
          /\ new.refundsEnabled = old.refundsEnabled
          /\ new.status = old.status
      BY <1>1, <2>2 DEF DepositRefundPool, TypeOK, EventConfig
    <3>2. new.escrowedRevenue = old.escrowedRevenue + 0 /\ 0 \in Nat
      BY <1>2, <3>1
    <3> QED
      BY <3>1, <3>2
  <2>3. ASSUME NEW p \in PenaltyRates, ApplyPenalty(e, p)
        PROVE  Grown
    <3> DEFINE amount == (old.organizerStakeLocked * p) \div BPS_DENOM
    <3>1. /\ \A f \in Events \ {e} : ev'[f] = ev[f]
          /\ new.escrowedRevenue = old.escrowedRevenue /\ new.refundPool = old.refundPool + amount
          /\ new.revenueReleased = old.revenueReleased
          /\ new.refundsEnabled = old.refundsEnabled
          /\ new.status = old.status
      BY <1>1, <2>3 DEF ApplyPenalty, TypeOK, EventConfig
    <3>2. amount \in Nat
      <4>1. p \in Nat
        BY ConstantsType
      <4>2. old.organizerStakeLocked * p \in Nat
        BY <1>2, <4>1, ProductNat
      <4> QED
        BY <4>2, ConstantsType, QuotientBound
    <3> HIDE DEF amount
    <3>3. new.escrowedRevenue = old.escrowedRevenue + 0 /\ 0 \in Nat
      BY <1>2, <3>1
    <3> QED
      BY <3>1, <3>2, <3>3
  <2> QED
    BY <2>1, <2>2, <2>3
<1>4. PICK v, w \in Nat : /\ new.escrowedRevenue = old.escrowedRevenue + v
                          /\ new.refundPool = old.refundPool + w
  BY <1>3
<1>5. MoneyKept(old, new)
  <2> HIDE DEF old, new
  <2> QED
    BY <1>2, <1>3, <1>4 DEF MoneyKept, TicketMoney
<1> QED
  BY <1>1, <1>3, <1>5, OneMoneyKept

-----------------------------------------------------------------------------
(***************************************************************************)
(* Fund implements EventLifecycle: the phases only move forward and the    *)
(* settlement of an event is decided once.                                 *)
(***************************************************************************)
\* One transaction's effect on the abstract view of the event it writes.
Stutters(r, n) == n.status = r.status /\ SettlementOf(n) = SettlementOf(r)

Advances(r, n) ==
  /\ n.status \in Lifecycle!Successors(r.status)
  /\ \/ SettlementOf(n) = SettlementOf(r)
     \/ n.status = "Cancelled" /\ SettlementOf(n) = "refunding"

Refunds(r, n) ==
  /\ n.status = r.status /\ r.status \in {"Ticketing", "Completed"}
  /\ SettlementOf(r) = "open" /\ SettlementOf(n) = "refunding"

Releases(r, n) ==
  /\ n.status = r.status /\ r.status = "Completed"
  /\ SettlementOf(r) = "open" /\ SettlementOf(n) = "released"

Abstracted(e) ==
  LET r == ev[e]
      n == ev'[e]
  IN  /\ \A f \in Events \ {e} : ev'[f] = ev[f]
      /\ Stutters(r, n) \/ Advances(r, n) \/ Refunds(r, n) \/ Releases(r, n)

Phase == [e \in Events |-> ev[e].status]
Settlement == [e \in Events |-> SettlementOf(ev[e])]

LEMMA AbstractStep ==
  ASSUME TypeOK, TypeOK', NEW e \in Events, Abstracted(e)
  PROVE  [Lifecycle!Next]_(Lifecycle!vars)
<1> DEFINE r == ev[e]
           n == ev'[e]
<1>1. /\ Phase' = [Phase EXCEPT ![e] = n.status]
      /\ Settlement' = [Settlement EXCEPT ![e] = SettlementOf(n)]
  BY DEF Abstracted, Phase, Settlement
<1>2. Phase[e] = r.status /\ Settlement[e] = SettlementOf(r)
  BY DEF Phase, Settlement
<1>3. n.status \in EventStatus
  BY DEF TypeOK, EventConfig
<1>4. CASE Stutters(r, n)
  <2>1. Phase' = Phase /\ Settlement' = Settlement
    BY <1>1, <1>2, <1>4 DEF Stutters, Phase, Settlement
  <2> QED
    BY <2>1 DEF Lifecycle!vars, Phase, Settlement
<1>5. CASE Advances(r, n)
  <2>1. PICK p \in Lifecycle!Phases : p = n.status
    BY <1>3 DEF Lifecycle!Phases, EventStatus
  <2>2. Lifecycle!Move(e, p)
    BY <1>1, <1>2, <1>5, <2>1 DEF Lifecycle!Move, Advances, Phase
  <2>3. \/ UNCHANGED Settlement
        \/ p = "Cancelled" /\ Settlement' = [Settlement EXCEPT ![e] = "refunding"]
    BY <1>1, <1>2, <1>5, <2>1 DEF Advances, Settlement
  <2>4. Lifecycle!Advance(e)
    BY <2>2, <2>3 DEF Lifecycle!Advance, Settlement
  <2> QED
    BY <2>4 DEF Lifecycle!Next
<1>6. CASE Refunds(r, n)
  <2>1. Phase' = Phase
    BY <1>1, <1>2, <1>6 DEF Refunds, Phase
  <2>2. Lifecycle!Refund(e)
    BY <1>1, <1>2, <1>6, <2>1 DEF Lifecycle!Refund, Refunds, Phase, Settlement
  <2> QED
    BY <2>2 DEF Lifecycle!Next
<1>7. CASE Releases(r, n)
  <2>1. Phase' = Phase
    BY <1>1, <1>2, <1>7 DEF Releases, Phase
  <2>2. Lifecycle!Release(e)
    BY <1>1, <1>2, <1>7, <2>1 DEF Lifecycle!Release, Releases, Phase, Settlement
  <2> QED
    BY <2>2 DEF Lifecycle!Next
<1> QED
  BY <1>4, <1>5, <1>6, <1>7 DEF Abstracted

\* Each transaction of Fund is at most one step of the event's life.
LEMMA CreateAbstracts ==
  ASSUME IInv, TypeOK', NEW c \in Accounts, NEW a \in CreateArgs, NEW v \in Amounts,
         NEW e \in Events, e = nextEventId, CreateEvent(c, a, v)
  PROVE  Abstracted(e)
<1> DEFINE n == CreatedEvent(c, a, v)
<1>1. TypeOK /\ e \in Nat
  BY ConstantsType DEF IInv
<1>2. ev[e] = NoEvent
  BY <1>1 DEF IInv, EventInv, Fresh
<1>3. ev'[e] = n /\ \A f \in Events \ {e} : ev'[f] = ev[f]
  BY <1>1 DEF CreateEvent, TypeOK
<1>4. n.status \in {"Funding", "Funded"}
  BY DEF CreatedEvent, NoEvent
<1>5. n.revenueReleased = FALSE /\ n.refundsEnabled = FALSE
  BY DEF CreatedEvent, NoEvent
<1>6. /\ ev[e].status = "None"
      /\ ev[e].revenueReleased = FALSE /\ ev[e].refundsEnabled = FALSE
  BY <1>2 DEF NoEvent
<1> HIDE DEF n
<1>7. SettlementOf(n) = SettlementOf(ev[e])
  BY <1>5, <1>6 DEF SettlementOf
<1>8. n.status \in Lifecycle!Successors(ev[e].status)
  BY <1>4, <1>6 DEF Lifecycle!Successors
<1> QED
  BY <1>3, <1>7, <1>8 DEF Abstracted, Advances

\* Transactions that only move money leave the event where it is.
LEMMA OnlyMoneyAbstracts ==
  ASSUME TypeOK, NEW e \in Events, NEW r, Writes(e, r),
         r.status = ev[e].status, r.revenueReleased = ev[e].revenueReleased,
         r.refundsEnabled = ev[e].refundsEnabled
  PROVE  Abstracted(e)
<1>1. ev'[e] = r /\ \A f \in Events \ {e} : ev'[f] = ev[f]
  BY DEF Writes, TypeOK
<1>2. SettlementOf(r) = SettlementOf(ev[e])
  BY DEF SettlementOf
<1> QED
  BY <1>1, <1>2 DEF Abstracted, Stutters

\* Cancelling decides for refunds or leaves the settlement as it was.
LEMMA CancelledAbstracts ==
  ASSUME TypeOK, NEW e \in Events, Writes(e, Cancelled(ev[e])),
         ev[e].status \in {"Funding", "Funded", "Ticketing"},
         ~ev[e].revenueReleased
  PROVE  Abstracted(e)
<1> DEFINE r == ev[e]
           n == Cancelled(r)
<1>0. r \in EventConfig /\ r.refundsEnabled \in BOOLEAN
  BY DEF TypeOK, EventConfig
<1>1. ev'[e] = n /\ \A f \in Events \ {e} : ev'[f] = ev[f]
  BY DEF Writes, TypeOK
<1>2. n.status = "Cancelled" /\ n.revenueReleased = r.revenueReleased
  BY <1>0 DEF Cancelled, EventConfig
<1>3. r.refundsEnabled => n.refundsEnabled
  BY <1>0 DEF Cancelled, EventConfig
<1>4. n.refundsEnabled \in BOOLEAN
  <2>1. n \in EventConfig
    BY <1>0, CancelledType
  <2> QED
    BY <2>1 DEF EventConfig
<1> HIDE DEF n
<1>5. SettlementOf(n) = SettlementOf(r) \/ SettlementOf(n) = "refunding"
  BY <1>2, <1>3, <1>4 DEF SettlementOf
<1>6. n.status \in Lifecycle!Successors(r.status)
  BY <1>2 DEF Lifecycle!Successors
<1> QED
  BY <1>1, <1>2, <1>5, <1>6 DEF Abstracted, Advances

LEMMA LifecycleAbstracts ==
  ASSUME IInv, NEW c \in Accounts, NEW e \in Events, LifecycleStep(c, e)
  PROVE  Abstracted(e)
<1> DEFINE r == ev[e]
<1>0. TypeOK /\ EventInv(e) /\ r \in EventConfig
  BY DEF IInv, TypeOK
<1>1. CASE FinalizeFunding(c, e)
  <2>1. Exists(e) /\ ~r.sharesFinalized /\ Writes(e, Finalized(r))
    BY <1>0, <1>1 DEF FinalizeFunding, OrganizerOrAdmin, Writes, TypeOK
  <2>2. r.status = "Funding" /\ ~r.revenueReleased
    BY <1>0, <2>1 DEF EventInv, Opening, Released
  <2>3. CASE ~r.investmentEnabled
    <3> DEFINE n == Finalized(r)
    <3>1. /\ n.status = "Funded" /\ n.revenueReleased = r.revenueReleased
          /\ n.refundsEnabled = r.refundsEnabled
      BY <1>0, <2>3 DEF Finalized, EventConfig
    <3>2. ev'[e] = n /\ \A f \in Events \ {e} : ev'[f] = ev[f]
      BY <1>0, <2>1 DEF Writes, TypeOK
    <3> HIDE DEF n
    <3>3. SettlementOf(n) = SettlementOf(r)
      BY <3>1 DEF SettlementOf
    <3>4. n.status \in Lifecycle!Successors(r.status)
      BY <2>2, <3>1 DEF Lifecycle!Successors
    <3> QED
      BY <3>2, <3>3, <3>4 DEF Abstracted, Advances
  <2>4. CASE r.investmentEnabled
    <3>1. Finalized(r) = Cancelled(r)
      BY <2>2, <2>4 DEF Finalized
    <3> QED
      BY <1>0, <2>1, <2>2, <3>1, CancelledAbstracts
  <2>5. r.investmentEnabled \in BOOLEAN
    BY <1>0 DEF EventConfig
  <2> QED
    BY <2>3, <2>4, <2>5
<1>2. CASE \E reason \in Reasons : CancelEvent(c, e, reason)
  <2>1. /\ Writes(e, Cancelled(r)) /\ ~r.revenueReleased
        /\ r.status \in {"Funding", "Funded", "Ticketing"}
    BY <1>2 DEF CancelEvent, CancelAllowed, Writes
  <2> QED
    BY <1>0, <2>1, CancelledAbstracts
<1>3. CASE \E q \in Quantities : StartTicketing(c, e, q)
  <2>1. PICK q \in Quantities : StartTicketing(c, e, q)
    BY <1>3
  <2> DEFINE n == [r EXCEPT !.totalMinted = @ + q, !.status = "Ticketing"]
  <2>2. ev'[e] = n /\ \A f \in Events \ {e} : ev'[f] = ev[f]
    BY <1>0, <2>1 DEF StartTicketing, TypeOK
  <2>3. /\ n.status = "Ticketing" /\ n.revenueReleased = r.revenueReleased
        /\ n.refundsEnabled = r.refundsEnabled
    BY <1>0 DEF EventConfig
  <2> HIDE DEF n
  <2>4. SettlementOf(n) = SettlementOf(r)
    BY <2>3 DEF SettlementOf
  <2>5. r.status \in {"Funded", "Ticketing"}
    BY <2>1 DEF StartTicketing, MayMint
  <2>6. r.status = "Funded" => n.status \in Lifecycle!Successors(r.status)
    BY <2>3 DEF Lifecycle!Successors
  <2> QED
    BY <2>2, <2>3, <2>4, <2>5, <2>6 DEF Abstracted, Advances, Stutters
<1>4. CASE \E sold, used \in Quantities : SetCompletedIfThresholdMet(c, e, sold, used)
  <2> DEFINE n == [r EXCEPT !.status = "Completed"]
  <2>1. ev'[e] = n /\ \A f \in Events \ {e} : ev'[f] = ev[f]
    BY <1>0, <1>4 DEF SetCompletedIfThresholdMet, TypeOK
  <2>2. /\ n.status = "Completed" /\ n.revenueReleased = r.revenueReleased
        /\ n.refundsEnabled = r.refundsEnabled
    BY <1>0 DEF EventConfig
  <2> HIDE DEF n
  <2>3. SettlementOf(n) = SettlementOf(r)
    BY <2>2 DEF SettlementOf
  <2>4. n.status \in Lifecycle!Successors(r.status)
    BY <1>4, <2>2 DEF SetCompletedIfThresholdMet, Lifecycle!Successors
  <2> QED
    BY <2>1, <2>3, <2>4 DEF Abstracted, Advances
<1>5. CASE ReleaseRevenue(c, e)
  <2> DEFINE n == ev'[e]
  <2>1. \A f \in Events \ {e} : ev'[f] = ev[f]
    BY <1>0, <1>5 DEF ReleaseRevenue, TypeOK
  <2>2. /\ n.status = r.status /\ n.refundsEnabled = r.refundsEnabled
        /\ n.revenueReleased = TRUE
    BY <1>0, <1>5 DEF ReleaseRevenue, TypeOK, EventConfig
  <2>3. r.status = "Completed" /\ ~r.refundsEnabled /\ ~r.revenueReleased
    BY <1>5 DEF ReleaseRevenue, MayRelease
  <2>4. SettlementOf(r) = "open" /\ SettlementOf(n) = "released"
    BY <2>2, <2>3 DEF SettlementOf
  <2> QED
    BY <2>1, <2>2, <2>3, <2>4 DEF Abstracted, Releases
<1>6. CASE RefundTickets(c, e)
  <2> DEFINE n == ev'[e]
  <2>1. \A f \in Events \ {e} : ev'[f] = ev[f]
    BY <1>0, <1>6 DEF RefundTickets, TypeOK
  <2>2. /\ n.status = r.status /\ n.revenueReleased = r.revenueReleased
        /\ n.refundsEnabled = TRUE
    BY <1>0, <1>6 DEF RefundTickets, TypeOK, EventConfig
  <2>3. r.status \in {"Ticketing", "Completed"} /\ ~r.revenueReleased
    BY <1>6 DEF RefundTickets, MayRefundTickets
  <2>4. r.refundsEnabled \in BOOLEAN
    BY <1>0 DEF EventConfig
  <2>5. SettlementOf(n) = "refunding" /\ SettlementOf(r) \in {"open", "refunding"}
    BY <2>2, <2>3, <2>4 DEF SettlementOf
  <2> QED
    BY <2>1, <2>2, <2>3, <2>5 DEF Abstracted, Refunds, Stutters
<1> QED
  BY <1>1, <1>2, <1>3, <1>4, <1>5, <1>6 DEF LifecycleStep

LEMMA ContributeAbstracts ==
  ASSUME IInv, NEW c \in Accounts, NEW e \in Events, NEW v \in Nat, Contribute(c, e, v)
  PROVE  Abstracted(e)
<1> DEFINE r == ev[e]
           n == Contributed(r, v)
<1>0. TypeOK /\ r \in EventConfig
  BY DEF IInv, TypeOK
<1>1. ev'[e] = n /\ \A f \in Events \ {e} : ev'[f] = ev[f]
  BY <1>0 DEF Contribute, TypeOK
<1>2. r.status = "Funding"
  BY DEF Contribute, FundingOpen
<1>3. n.status \in {"Funding", "Funded"}
  BY <1>0, <1>2 DEF Contributed, EventConfig
<1>4. n.revenueReleased = r.revenueReleased /\ n.refundsEnabled = r.refundsEnabled
  BY <1>0 DEF Contributed, EventConfig
<1> HIDE DEF n
<1>5. SettlementOf(n) = SettlementOf(r)
  BY <1>4 DEF SettlementOf
<1>6. n.status = "Funded" => n.status \in Lifecycle!Successors(r.status)
  BY <1>2 DEF Lifecycle!Successors
<1> QED
  BY <1>1, <1>2, <1>3, <1>5, <1>6 DEF Abstracted, Advances, Stutters

LEMMA MoneyAbstracts ==
  ASSUME IInv, NEW c \in Accounts, NEW e \in Events, MoneyStep(c, e)
  PROVE  Abstracted(e)
<1> DEFINE r == ev[e]
           n == ev'[e]
<1>0. TypeOK /\ r \in EventConfig
  BY DEF IInv, TypeOK
<1>1. CASE \E v \in Amounts : Contribute(c, e, v)
  BY <1>1, ConstantsType, ContributeAbstracts
<1>2. CASE ClaimReward(c, e)
  BY <1>2 DEF ClaimReward, Abstracted, Stutters
<1>3. CASE \/ ClaimContributionRefund(e, c) \/ WithdrawStake(c, e)
           \/ \E v \in Amounts : ClaimTicketRefund(e, v, c)
           \/ \E v \in TopUps : DepositRefundPool(c, e, v)
  <2>1. /\ \A f \in Events \ {e} : ev'[f] = ev[f]
        /\ n.status = r.status /\ n.revenueReleased = r.revenueReleased
        /\ n.refundsEnabled = r.refundsEnabled
    BY <1>0, <1>3 DEF ClaimContributionRefund, WithdrawStake, ClaimTicketRefund,
         DepositRefundPool, TypeOK, EventConfig
  <2>2. SettlementOf(n) = SettlementOf(r)
    BY <2>1 DEF SettlementOf
  <2> QED
    BY <2>1, <2>2 DEF Abstracted, Stutters
<1> QED
  BY <1>1, <1>2, <1>3 DEF MoneyStep

LEMMA ContractAbstracts ==
  ASSUME IInv, NEW e \in Events, ContractStep(e)
  PROVE  Abstracted(e)
<1> DEFINE r == ev[e]
           n == ev'[e]
<1>0. TypeOK /\ r \in EventConfig
  BY DEF IInv, TypeOK
<1>1. /\ \A f \in Events \ {e} : ev'[f] = ev[f]
      /\ n.status = r.status /\ n.revenueReleased = r.revenueReleased
      /\ n.refundsEnabled = r.refundsEnabled
  <2>1. CASE \E p \in PenaltyRates : ApplyPenalty(e, p)
    <3>1. PICK p \in PenaltyRates : ApplyPenalty(e, p)
      BY <2>1
    <3> DEFINE amount == (r.organizerStakeLocked * p) \div BPS_DENOM
    <3>2. ev' = [ev EXCEPT ![e].organizerStakeLocked = @ - amount, ![e].refundPool = @ + amount]
      BY <3>1 DEF ApplyPenalty, PenaltyRateValid
    <3> HIDE DEF amount
    <3> QED
      BY <1>0, <3>2 DEF TypeOK, EventConfig
  <2>2. CASE \E v \in Amounts : DepositTicketRevenue(e, v) \/ DepositRoyalty(e, v)
    BY <1>0, <2>2 DEF DepositTicketRevenue, DepositRoyalty, TypeOK, EventConfig
  <2> QED
    BY <2>1, <2>2 DEF ContractStep
<1>2. SettlementOf(n) = SettlementOf(r)
  BY <1>1 DEF SettlementOf
<1> QED
  BY <1>1, <1>2 DEF Abstracted, Stutters

\* Fund implements EventLifecycle: in every behaviour each event moves forward
\* through its phases and its ticket money is settled once, one way.
THEOREM Implementation == Spec => ImplementsLifecycle
<1>1. Init => Lifecycle!Init
  <2> SUFFICES ASSUME Init
               PROVE  Lifecycle!Init
    OBVIOUS
  <2>1. \A e \in Events : ev[e].status = "None" /\ SettlementOf(ev[e]) = "open"
    BY DEF Init, NoEvent, SettlementOf
  <2> QED
    BY <2>1 DEF Lifecycle!Init
<1>2. ASSUME IInv, [Next]_vars
      PROVE  [Lifecycle!Next]_(Lifecycle!vars)
  <2>1. TypeOK /\ TypeOK'
    BY <1>2, TypeStep DEF IInv
  <2>2. CASE ev' = ev
    BY <2>2 DEF Lifecycle!vars
  <2>3. CASE \E e \in Events : Abstracted(e)
    BY <2>1, <2>3, AbstractStep
  <2>4. CASE UNCHANGED vars
    BY <2>2, <2>4 DEF vars
  <2>5. CASE SetTicketContract \/ SetMarketplaceContract \/ Tick \/ \E v \in Gifts : ReceiveEther(v)
    BY <2>2, <2>5 DEF SetTicketContract, SetMarketplaceContract, Tick, ReceiveEther
  <2>6. CASE \E c \in Accounts, a \in CreateArgs, v \in Amounts : CreateEvent(c, a, v)
    <3>1. PICK c \in Accounts, a \in CreateArgs, v \in Amounts : CreateEvent(c, a, v)
      BY <2>6
    <3>2. PICK e \in Events : e = nextEventId
      BY <2>1, <3>1, ConstantsType DEF TypeOK, CreateEvent, Events
    <3>3. Abstracted(e)
      BY <1>2, <2>1, <3>1, <3>2, CreateAbstracts
    <3> QED
      BY <2>3, <3>3
  <2>7. CASE \E c \in Accounts, e \in Events : LifecycleStep(c, e) \/ MoneyStep(c, e)
    BY <1>2, <2>3, <2>7, LifecycleAbstracts, MoneyAbstracts
  <2>8. CASE \E e \in Events : ContractStep(e)
    BY <1>2, <2>3, <2>8, ContractAbstracts
  <2> QED
    BY <1>2, <2>4, <2>5, <2>6, <2>7, <2>8 DEF Next
<1>3. IInv /\ [Next]_vars => [Lifecycle!Next]_(Lifecycle!vars)
  BY <1>2
<1> QED
  BY <1>1, <1>3, Invariant, PTL DEF Spec, Lifecycle!Spec, ImplementsLifecycle
=============================================================================
