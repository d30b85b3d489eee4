---------------------------- MODULE DepositProofs ----------------------------
(***************************************************************************)
(* The balance a user is shown never exceeds what was sent to her, for any *)
(* number of orders, wallets, callbacks, crashes and refused writes.       *)
(*                                                                         *)
(* That a wallet's credit is within what was sent is not inductive: a job  *)
(* writes back what it READ plus its own amount, however many other jobs   *)
(* wrote in between.  But every job past its transfer has sent an amount   *)
(* that no credit and no read value can contain yet, so the invariant      *)
(* leaves room for all of them at once.                                    *)
(***************************************************************************)
EXTENDS Deposit, Integers, FiniteSetTheorems, FunctionTheorems, TLAPS

-----------------------------------------------------------------------------
(* Totals, by the number of their units.                                   *)

\* The units of a function are finitely many, so a total is a number.
LEMMA UnitsFinite ==
  ASSUME NEW S, IsFiniteSet(S), NEW f, \A s \in S : f[s] \in Nat
  PROVE  IsFiniteSet(Units(f, S)) /\ SumOver(f, S) \in Nat
<1> DEFINE Parts == {{s} \X (1 .. f[s]) : s \in S}
           part == [s \in S |-> {s} \X (1 .. f[s])]
<1>1. \A P \in Parts : IsFiniteSet(P)
  <2> SUFFICES ASSUME NEW s \in S
               PROVE  IsFiniteSet({s} \X (1 .. f[s]))
    OBVIOUS
  <2>1. IsFiniteSet({s})
    BY FS_Singleton
  <2>2. f[s] \in Int
    OBVIOUS
  <2>3. IsFiniteSet(1 .. f[s])
    BY <2>2, FS_Interval
  <2> QED
    BY <2>1, <2>3, FS_Product
<1>2. part \in Surjection(S, Parts)
  BY DEF Surjection
<1>3. IsFiniteSet(Parts)
  BY <1>2, FS_Surjection
<1>4. IsFiniteSet(UNION Parts)
  BY <1>1, <1>3, FS_UNION
<1> QED
  BY <1>4, FS_CardinalityType DEF Units, SumOver

\* The units of one element are as many as the function gives it.
LEMMA UnitsOfOne ==
  ASSUME NEW x, NEW n \in Nat
  PROVE  IsFiniteSet({x} \X (1 .. n)) /\ Cardinality({x} \X (1 .. n)) = n
<1>1. IsFiniteSet({x}) /\ Cardinality({x}) = 1
  BY FS_Singleton
<1>2. n \in Int /\ 1 \in Int
  OBVIOUS
<1>3. IsFiniteSet(1 .. n) /\ Cardinality(1 .. n) = n
  BY <1>2, FS_Interval
<1>4. Cardinality({x} \X (1 .. n)) = 1 * n
  BY <1>1, <1>3, FS_Product
<1> QED
  BY <1>1, <1>3, <1>4, FS_Product

\* Taking one element out of the domain takes its value out of the total.
LEMMA SumSplit ==
  ASSUME NEW S, IsFiniteSet(S), NEW f, \A s \in S : f[s] \in Nat, NEW x \in S
  PROVE  SumOver(f, S) = SumOver(f, S \ {x}) + f[x]
<1> DEFINE Rest == Units(f, S \ {x})
           One == {x} \X (1 .. f[x])
<1>1. Units(f, S) = Rest \cup One
  BY DEF Units
<1>2. Rest \cap One = {}
  BY DEF Units
<1>3. IsFiniteSet(Units(f, S))
  BY UnitsFinite
<1>4. IsFiniteSet(Rest)
  BY <1>1, <1>3, FS_Subset
<1>5. IsFiniteSet(One) /\ Cardinality(One) = f[x]
  BY UnitsOfOne
<1>6. Cardinality(Rest \cup One) = Cardinality(Rest) + Cardinality(One) - Cardinality(Rest \cap One)
  BY <1>4, <1>5, FS_Union
<1>7. Cardinality(Rest \cap One) = 0
  BY <1>2, FS_EmptySet
<1>8. Cardinality(Rest) \in Nat /\ f[x] \in Nat
  BY <1>4, FS_CardinalityType
<1> QED
  BY <1>1, <1>5, <1>6, <1>7, <1>8 DEF SumOver

\* Two functions that agree off x have totals that differ as their values at x.
LEMMA SumUpdate ==
  ASSUME NEW S, IsFiniteSet(S), NEW f \in [S -> Nat], NEW g \in [S -> Nat],
         NEW x \in S, \A s \in S \ {x} : g[s] = f[s]
  PROVE  SumOver(g, S) = SumOver(f, S) - f[x] + g[x]
<1>1. Units(g, S \ {x}) = Units(f, S \ {x})
  BY DEF Units
<1>2. SumOver(g, S \ {x}) = SumOver(f, S \ {x})
  BY <1>1 DEF SumOver
<1>3. SumOver(f, S) = SumOver(f, S \ {x}) + f[x]
  BY SumSplit
<1>4. SumOver(g, S) = SumOver(g, S \ {x}) + g[x]
  BY SumSplit
<1>5. SumOver(f, S \ {x}) \in Nat
  <2>1. IsFiniteSet(S \ {x})
    BY FS_RemoveElement
  <2>2. IsFiniteSet(Units(f, S))
    BY UnitsFinite
  <2>3. Units(f, S \ {x}) \subseteq Units(f, S)
    BY DEF Units
  <2>4. IsFiniteSet(Units(f, S \ {x}))
    BY <2>2, <2>3, FS_Subset
  <2> QED
    BY <2>4, FS_CardinalityType DEF SumOver
<1>6. f[x] \in Nat /\ g[x] \in Nat
  OBVIOUS
<1> QED
  BY <1>2, <1>3, <1>4, <1>5, <1>6

\* Nothing adds up to zero.
LEMMA SumZero ==
  ASSUME NEW S, NEW f, \A s \in S : f[s] = 0
  PROVE  SumOver(f, S) = 0
<1>1. Units(f, S) = {}
  BY DEF Units
<1> QED
  BY <1>1, FS_EmptySet DEF SumOver

-----------------------------------------------------------------------------
(* What is proved of the orders and the wallets.                           *)

\* Past the transfer, and not yet credited.
InFlight == {"wait", "saveCompleted", "readBalance", "saveBalance"}

Uncredited(w) ==
  [j \in Jobs |-> IF jobs[j].at \in InFlight /\ WalletOfJob(j) = w THEN AmountOfJob(j) ELSE 0]

Outstanding(w) == SumOver(Uncredited(w), Jobs)

SentTo(w) == [o \in OrdersOf(w) |-> transfers[o] * EthAmount[o]]

Sent(w) == SumOver(SentTo(w), OrdersOf(w))

CreditInv(w) == credit[w] + Outstanding(w) <= Sent(w)

\* What a job is about to write back leaves the same room.
ReadInv(j) == jobs[j].at = "saveBalance" =>
  jobs[j].read + Outstanding(WalletOfJob(j)) <= Sent(WalletOfJob(j))

\* A callback being handled is about an order.
Addressed(j) == jobs[j].at # "unused" => jobs[j].order \in Orders

IInv ==
  /\ TypeOK
  /\ \A j \in Jobs : Addressed(j) /\ ReadInv(j)
  /\ \A w \in Wallets : CreditInv(w)

-----------------------------------------------------------------------------
(* What the steps of one job do.                                           *)

LEMMA ConstantsType ==
  /\ IsFiniteSet(Orders) /\ NoOrder \notin Orders
  /\ WalletOf \in [Orders -> Wallets]
  /\ EthAmount \in [Orders -> Nat \ {0}]
  /\ MaxCallbacks \in Nat /\ Funds \in Nat /\ MaxFaults \in Nat
  /\ IsFiniteSet(Jobs)
<1>1. MaxCallbacks \in Int
  BY DepositAssumption DEF DepositAssumption
<1>2. IsFiniteSet(Jobs)
  BY <1>1, FS_Interval DEF Jobs
<1> QED
  BY <1>2, DepositAssumption DEF DepositAssumption

\* Job j goes on to the await p; its order stays.
Moves(j, p) ==
  /\ jobs' \in [Jobs -> Job]
  /\ \A i \in Jobs \ {j} : jobs'[i] = jobs[i]
  /\ jobs'[j].at = p
  /\ jobs'[j].order = jobs[j].order

LEMMA GotoMoves ==
  ASSUME TypeOK, NEW j \in Jobs, NEW p \in Points, Goto(j, p)
  PROVE  Moves(j, p)
BY DEF TypeOK, Job, Goto, Moves

LEMMA CopyMoves ==
  ASSUME TypeOK, NEW j \in Jobs, NEW p \in Points, NEW s \in OrderStatus,
         jobs' = [jobs EXCEPT ![j].copy = s, ![j].at = p]
  PROVE  Moves(j, p)
<1> DEFINE r == [jobs[j] EXCEPT !.copy = s]
<1>1. jobs' = [jobs EXCEPT ![j] = [r EXCEPT !.at = p]]
  BY DEF TypeOK
<1>2. r \in Job /\ r.order = jobs[j].order
  BY DEF TypeOK, Job
<1> HIDE DEF r
<1>3. [r EXCEPT !.at = p] \in Job /\ [r EXCEPT !.at = p].order = r.order /\ [r EXCEPT !.at = p].at = p
  BY <1>2 DEF Job
<1> QED
  BY <1>1, <1>2, <1>3 DEF TypeOK, Moves

LEMMA ReadMoves ==
  ASSUME TypeOK, NEW j \in Jobs, NEW p \in Points, NEW n \in Nat,
         jobs' = [jobs EXCEPT ![j].read = n, ![j].at = p]
  PROVE  Moves(j, p) /\ jobs'[j].read = n
<1> DEFINE r == [jobs[j] EXCEPT !.read = n]
<1>1. jobs' = [jobs EXCEPT ![j] = [r EXCEPT !.at = p]]
  BY DEF TypeOK
<1>2. r \in Job /\ r.order = jobs[j].order /\ r.read = n
  BY DEF TypeOK, Job
<1> HIDE DEF r
<1>3. /\ [r EXCEPT !.at = p] \in Job /\ [r EXCEPT !.at = p].order = r.order
      /\ [r EXCEPT !.at = p].at = p /\ [r EXCEPT !.at = p].read = r.read
  BY <1>2 DEF Job
<1> QED
  BY <1>1, <1>2, <1>3 DEF TypeOK, Moves

OthersType ==
  /\ status \in [Orders -> OrderStatus]
  /\ transfers \in [Orders -> Nat]
  /\ relayer \in Nat
  /\ credit \in [Wallets -> Nat]
  /\ faults \in Nat

\* Nothing is sent, and the job is as uncredited as it was.
Quiet(j) ==
  /\ \E p \in Points \ {"saveBalance"} :
       Moves(j, p) /\ (p \in InFlight => jobs[j].at \in InFlight)
  /\ UNCHANGED <<transfers, credit>>

Sends(j) ==
  /\ jobs[j].at = "send" /\ Moves(j, "wait")
  /\ transfers' = [transfers EXCEPT ![jobs[j].order] = @ + 1]
  /\ UNCHANGED credit

Reads(j) ==
  /\ jobs[j].at = "readBalance" /\ Moves(j, "saveBalance")
  /\ jobs'[j].read = credit[WalletOfJob(j)]
  /\ UNCHANGED <<transfers, credit>>

Credits(j) ==
  /\ jobs[j].at = "saveBalance" /\ Moves(j, "done")
  /\ \/ credit' = [credit EXCEPT ![WalletOfJob(j)] = jobs[j].read + AmountOfJob(j)]
     \/ credit' = credit
  /\ UNCHANGED transfers

LEMMA SaveType ==
  ASSUME TypeOK, NEW j \in Jobs, NEW s \in OrderStatus, Save(j, s)
  PROVE  OthersType' /\ UNCHANGED <<transfers, credit>>
BY DEF TypeOK, OthersType, Save

LEMMA RefusedType ==
  ASSUME TypeOK, Refused
  PROVE  OthersType' /\ UNCHANGED <<transfers, credit>>
BY DEF TypeOK, OthersType, Refused

LEMMA JobEffects ==
  ASSUME TypeOK, NEW j \in Jobs, Addressed(j), JobStep(j)
  PROVE  OthersType' /\ (Quiet(j) \/ Sends(j) \/ Reads(j) \/ Credits(j))
<1>1. /\ jobs[j].at \in Points /\ jobs[j].copy \in OrderStatus /\ jobs[j].read \in Nat
      /\ OthersType
  BY DEF TypeOK, Job, OthersType
<1>2. jobs[j].at # "unused" =>
        /\ jobs[j].order \in Orders /\ status[jobs[j].order] \in OrderStatus
        /\ WalletOfJob(j) \in Wallets /\ AmountOfJob(j) \in Nat
  BY ConstantsType DEF Addressed, TypeOK, WalletOfJob, AmountOfJob
<1>3. CASE FindOrder(j)
  <2>1. /\ status[jobs[j].order] \in OrderStatus
        /\ AfterFind(jobs[j].callback, status[jobs[j].order]) \in Points \ (InFlight \cup {"saveBalance"})
    BY <1>2, <1>3 DEF FindOrder, AfterFind, Points, InFlight
  <2>2. Moves(j, AfterFind(jobs[j].callback, status[jobs[j].order]))
    BY <1>3, <2>1, CopyMoves DEF FindOrder
  <2> QED
    BY <1>1, <1>3, <2>1, <2>2 DEF FindOrder, Quiet, OthersType
<1>4. CASE SavePaid(j)
  <2>1. OthersType' /\ UNCHANGED <<transfers, credit>>
    BY <1>4, SaveType, RefusedType DEF SavePaid, OrderStatus
  <2>2. Moves(j, "load") \/ Moves(j, "done")
    BY <1>4, GotoMoves DEF SavePaid, Points
  <2> QED
    BY <2>1, <2>2 DEF Quiet, Points, InFlight
<1>5. CASE LoadOrder(j)
  <2>1. status[jobs[j].order] \in OrderStatus
    BY <1>2, <1>5 DEF LoadOrder
  <2>2. Moves(j, "saveProcessing") \/ Moves(j, "done")
    BY <1>5, <2>1, CopyMoves DEF LoadOrder, Points
  <2> QED
    BY <1>1, <1>5, <2>2 DEF LoadOrder, Quiet, Points, InFlight, OthersType
<1>6. CASE SaveProcessing(j)
  <2>1. OthersType' /\ UNCHANGED <<transfers, credit>>
    BY <1>6, SaveType, RefusedType DEF SaveProcessing, Progress, OrderStatus
  <2>2. Moves(j, "checkFunds") \/ Moves(j, "saveFailed")
    BY <1>6, GotoMoves, CopyMoves DEF SaveProcessing, Progress, Points, OrderStatus
  <2> QED
    BY <2>1, <2>2 DEF Quiet, Points, InFlight
<1>7. CASE CheckRelayerBalance(j)
  <2>1. Moves(j, "send") \/ Moves(j, "saveFailed")
    BY <1>7, GotoMoves DEF CheckRelayerBalance, Points
  <2> QED
    BY <1>1, <1>7, <2>1 DEF CheckRelayerBalance, Quiet, Points, InFlight, OthersType
<1>8. CASE SendTransaction(j)
  <2>1. CASE transfers' = transfers
    <3>1. jobs[j].order \in Orders
      BY <1>2, <1>8 DEF SendTransaction
    <3>2. transfers[jobs[j].order] \in Nat
      BY <1>1, <3>1 DEF OthersType
    <3>3. Goto(j, "saveFailed") /\ UNCHANGED <<transfers, relayer>>
      BY <1>1, <1>8, <2>1, <3>1, <3>2 DEF SendTransaction, OthersType
    <3>4. Moves(j, "saveFailed")
      BY <3>3, GotoMoves DEF Points
    <3> QED
      BY <1>1, <1>8, <3>3, <3>4 DEF SendTransaction, Quiet, Points, InFlight, OthersType
  <2>2. CASE transfers' # transfers
    <3>1. /\ relayer >= AmountOfJob(j) /\ relayer' = relayer - AmountOfJob(j)
          /\ transfers' = [transfers EXCEPT ![jobs[j].order] = @ + 1] /\ Goto(j, "wait")
      BY <1>8, <2>2 DEF SendTransaction
    <3>2. Moves(j, "wait")
      BY <3>1, GotoMoves DEF Points
    <3>3. relayer' \in Nat
      BY <1>1, <1>2, <1>8, <3>1 DEF SendTransaction, OthersType
    <3>4. transfers' \in [Orders -> Nat]
      <4>1. jobs[j].order \in Orders
        BY <1>2, <1>8 DEF SendTransaction
      <4>2. transfers[jobs[j].order] + 1 \in Nat
        BY <1>1, <4>1 DEF OthersType
      <4> QED
        BY <1>1, <3>1, <4>2 DEF OthersType
    <3> QED
      BY <1>1, <1>8, <3>1, <3>2, <3>3, <3>4 DEF SendTransaction, Sends, OthersType
  <2> QED
    BY <2>1, <2>2
<1>9. CASE WaitForReceipt(j)
  <2>1. Moves(j, "saveCompleted") \/ Moves(j, "saveFailed")
    BY <1>9, GotoMoves DEF WaitForReceipt, Points
  <2> QED
    BY <1>1, <1>9, <2>1 DEF WaitForReceipt, Quiet, Points, InFlight, OthersType
<1>10. CASE SaveCompleted(j)
  <2>1. OthersType' /\ UNCHANGED <<transfers, credit>>
    BY <1>10, SaveType, RefusedType DEF SaveCompleted, Progress, OrderStatus
  <2>2. Moves(j, "readBalance") \/ Moves(j, "saveFailed")
    BY <1>10, GotoMoves, CopyMoves DEF SaveCompleted, Progress, Points, OrderStatus
  <2> QED
    BY <1>10, <2>1, <2>2 DEF SaveCompleted, Quiet, Points, InFlight
<1>11. CASE SaveFailed(j)
  <2>1. OthersType' /\ UNCHANGED <<transfers, credit>>
    BY <1>11, SaveType, RefusedType DEF SaveFailed, Progress, OrderStatus
  <2>2. Moves(j, "done")
    BY <1>11, GotoMoves, CopyMoves DEF SaveFailed, Progress, Points, OrderStatus
  <2> QED
    BY <2>1, <2>2 DEF Quiet, Points, InFlight
<1>12. CASE ReadBalance(j)
  <2>1. credit[WalletOfJob(j)] \in Nat
    BY <1>1, <1>2, <1>12 DEF ReadBalance, OthersType
  <2>2. Moves(j, "saveBalance") /\ jobs'[j].read = credit[WalletOfJob(j)]
    BY <1>12, <2>1, ReadMoves DEF ReadBalance, Points
  <2> QED
    BY <1>1, <1>12, <2>2 DEF ReadBalance, Reads, OthersType
<1>13. CASE SaveBalance(j)
  <2>1. Moves(j, "done")
    BY <1>13, GotoMoves DEF SaveBalance, Points
  <2>2. jobs[j].read + AmountOfJob(j) \in Nat
    BY <1>1, <1>2, <1>13 DEF SaveBalance
  <2> QED
    BY <1>1, <1>13, <2>1, <2>2 DEF SaveBalance, Credits, OthersType, Refused
<1> QED
  BY <1>3, <1>4, <1>5, <1>6, <1>7, <1>8, <1>9, <1>10, <1>11, <1>12, <1>13 DEF JobStep

-----------------------------------------------------------------------------
(* The totals.                                                             *)

LEMMA SumTypes ==
  ASSUME TypeOK, \A j \in Jobs : Addressed(j), NEW w \in Wallets
  PROVE  /\ Uncredited(w) \in [Jobs -> Nat] /\ Outstanding(w) \in Nat
         /\ SentTo(w) \in [OrdersOf(w) -> Nat] /\ Sent(w) \in Nat
         /\ IsFiniteSet(OrdersOf(w)) /\ credit[w] \in Nat
<1>1. \A j \in Jobs : jobs[j].at \in InFlight => AmountOfJob(j) \in Nat
  BY ConstantsType DEF Addressed, InFlight, AmountOfJob
<1>2. Uncredited(w) \in [Jobs -> Nat]
  BY <1>1 DEF Uncredited
<1>3. \A o \in OrdersOf(w) : transfers[o] * EthAmount[o] \in Nat
  <2> SUFFICES ASSUME NEW o \in OrdersOf(w)
               PROVE  transfers[o] * EthAmount[o] \in Nat
    OBVIOUS
  <2>1. transfers[o] \in Nat /\ EthAmount[o] \in Nat
    BY ConstantsType DEF OrdersOf, TypeOK
  <2> QED
    BY <2>1
<1>4. SentTo(w) \in [OrdersOf(w) -> Nat]
  BY <1>3 DEF SentTo
<1>5. IsFiniteSet(OrdersOf(w))
  BY ConstantsType, FS_Subset DEF OrdersOf
<1>6. Outstanding(w) \in Nat
  BY <1>2, ConstantsType, UnitsFinite DEF Outstanding
<1>7. Sent(w) \in Nat
  BY <1>4, <1>5, UnitsFinite DEF Sent
<1> QED
  BY <1>2, <1>4, <1>5, <1>6, <1>7 DEF TypeOK

LEMMA SumTypesPrime ==
  ASSUME TypeOK', \A j \in Jobs : Addressed(j)', NEW w \in Wallets
  PROVE  /\ Uncredited(w)' \in [Jobs -> Nat] /\ Outstanding(w)' \in Nat
         /\ SentTo(w)' \in [OrdersOf(w) -> Nat] /\ Sent(w)' \in Nat /\ credit'[w] \in Nat
<1>1. \A j \in Jobs : jobs'[j].at \in InFlight => AmountOfJob(j)' \in Nat
  BY ConstantsType DEF Addressed, InFlight, AmountOfJob
<1>2. Uncredited(w)' \in [Jobs -> Nat]
  BY <1>1 DEF Uncredited
<1>3. \A o \in OrdersOf(w) : transfers'[o] * EthAmount[o] \in Nat
  <2> SUFFICES ASSUME NEW o \in OrdersOf(w)
               PROVE  transfers'[o] * EthAmount[o] \in Nat
    OBVIOUS
  <2>1. transfers'[o] \in Nat /\ EthAmount[o] \in Nat
    BY ConstantsType DEF OrdersOf, TypeOK
  <2> QED
    BY <2>1
<1>4. SentTo(w)' \in [OrdersOf(w) -> Nat]
  BY <1>3 DEF SentTo
<1>5. IsFiniteSet(OrdersOf(w))
  BY ConstantsType, FS_Subset DEF OrdersOf
<1>6. Outstanding(w)' \in Nat
  <2>1. SumOver(Uncredited(w)', Jobs) \in Nat
    BY <1>2, ConstantsType, UnitsFinite
  <2> QED
    BY <2>1 DEF Outstanding
<1>7. Sent(w)' \in Nat
  <2>1. SumOver(SentTo(w)', OrdersOf(w)) \in Nat
    BY <1>4, <1>5, UnitsFinite
  <2> QED
    BY <2>1 DEF Sent
<1> QED
  BY <1>2, <1>4, <1>6, <1>7 DEF TypeOK

\* A move of one job moves the outstanding total by that job's part.
LEMMA OutstandingMoves ==
  ASSUME TypeOK, TypeOK', \A i \in Jobs : Addressed(i) /\ Addressed(i)',
         NEW j \in Jobs, NEW p, Moves(j, p), NEW w \in Wallets
  PROVE  Outstanding(w)' = Outstanding(w) - Uncredited(w)[j] + Uncredited(w)'[j]
<1>1. Uncredited(w) \in [Jobs -> Nat] /\ Uncredited(w)' \in [Jobs -> Nat]
  BY SumTypes, SumTypesPrime
<1>2. \A i \in Jobs \ {j} : Uncredited(w)'[i] = Uncredited(w)[i]
  BY DEF Moves, Uncredited, WalletOfJob, AmountOfJob
<1>3. SumOver(Uncredited(w)', Jobs)
        = SumOver(Uncredited(w), Jobs) - Uncredited(w)[j] + Uncredited(w)'[j]
  BY <1>1, <1>2, ConstantsType, SumUpdate
<1> QED
  BY <1>3 DEF Outstanding

LEMMA SentSame ==
  ASSUME UNCHANGED transfers, NEW w
  PROVE  Sent(w)' = Sent(w)
BY DEF Sent, SentTo

\* Less outstanding and nothing sent or credited keeps the invariant, as long
\* as no other value has been read.
LEMMA RoomKept ==
  ASSUME IInv, TypeOK', \A j \in Jobs : Addressed(j)', UNCHANGED <<transfers, credit>>,
         \A w \in Wallets : Outstanding(w)' <= Outstanding(w),
         \A j \in Jobs : jobs'[j].at = "saveBalance" => jobs'[j] = jobs[j]
  PROVE  IInv'
<1>1. \A w \in Wallets : /\ Outstanding(w) \in Nat /\ Outstanding(w)' \in Nat
                         /\ Sent(w) \in Nat /\ Sent(w)' = Sent(w) /\ credit[w] \in Nat
  BY SumTypes, SumTypesPrime, SentSame DEF IInv
<1>2. \A w \in Wallets : CreditInv(w)'
  BY <1>1 DEF IInv, CreditInv
<1>3. ASSUME NEW j \in Jobs, jobs'[j].at = "saveBalance"
      PROVE  jobs'[j].read + Outstanding(WalletOfJob(j))' <= Sent(WalletOfJob(j))'
  <2>1. jobs'[j] = jobs[j] /\ jobs[j].at = "saveBalance"
    BY <1>3
  <2>2. PICK w \in Wallets : w = WalletOfJob(j)
    BY <2>1, ConstantsType DEF IInv, Addressed, WalletOfJob
  <2>3. WalletOfJob(j)' = w
    BY <2>1, <2>2 DEF WalletOfJob
  <2>4. jobs[j].read + Outstanding(w) <= Sent(w) /\ jobs[j].read \in Nat
    BY <2>1, <2>2 DEF IInv, ReadInv, TypeOK, Job
  <2>5. jobs[j].read + Outstanding(w)' <= Sent(w)'
    BY <1>1, <2>4
  <2> QED
    BY <2>1, <2>3, <2>5
<1> QED
  BY <1>2, <1>3 DEF IInv, ReadInv

-----------------------------------------------------------------------------
(* One lemma per kind of step.                                             *)

LEMMA QuietKept ==
  ASSUME IInv, TypeOK', \A i \in Jobs : Addressed(i)', NEW j \in Jobs, Quiet(j)
  PROVE  IInv'
<1>1. PICK p \in Points \ {"saveBalance"} : Moves(j, p) /\ (p \in InFlight => jobs[j].at \in InFlight)
  BY DEF Quiet
<1>2. ASSUME NEW w \in Wallets
      PROVE  Outstanding(w)' <= Outstanding(w)
  <2>1. Outstanding(w)' = Outstanding(w) - Uncredited(w)[j] + Uncredited(w)'[j]
    BY <1>1, OutstandingMoves DEF IInv
  <2>2. Outstanding(w) \in Nat /\ Uncredited(w)[j] \in Nat /\ Uncredited(w)'[j] \in Nat
    BY SumTypes, SumTypesPrime DEF IInv
  <2>3. Uncredited(w)'[j] = 0 \/ Uncredited(w)'[j] = Uncredited(w)[j]
    BY <1>1 DEF Moves, Uncredited, WalletOfJob, AmountOfJob
  <2> QED
    BY <2>1, <2>2, <2>3
<1>3. \A i \in Jobs : jobs'[i].at = "saveBalance" => jobs'[i] = jobs[i]
  BY <1>1 DEF Moves
<1> QED
  BY <1>2, <1>3, RoomKept DEF Quiet

\* A transfer adds the same to what is sent and to what is outstanding.
LEMMA SendsKept ==
  ASSUME IInv, TypeOK', \A i \in Jobs : Addressed(i)', NEW j \in Jobs, Sends(j)
  PROVE  IInv'
<1>1. PICK o \in Orders, v \in Wallets, amount \in Nat :
        o = jobs[j].order /\ v = WalletOf[o] /\ amount = EthAmount[o]
  BY ConstantsType DEF IInv, Addressed, Sends
<1>2. WalletOfJob(j) = v /\ AmountOfJob(j) = amount /\ WalletOfJob(j)' = v /\ AmountOfJob(j)' = amount
  BY <1>1 DEF Sends, Moves, WalletOfJob, AmountOfJob
<1>3. \A w \in Wallets : /\ Outstanding(w) \in Nat /\ Sent(w) \in Nat /\ credit[w] \in Nat
                         /\ Outstanding(w)' \in Nat /\ Sent(w)' \in Nat
  BY SumTypes, SumTypesPrime DEF IInv
<1>4. ASSUME NEW w \in Wallets
      PROVE  Outstanding(w)' = IF w = v THEN Outstanding(w) + amount ELSE Outstanding(w)
  <2>1. Outstanding(w)' = Outstanding(w) - Uncredited(w)[j] + Uncredited(w)'[j]
    BY OutstandingMoves DEF IInv, Sends
  <2>2. Uncredited(w)[j] = 0 /\ Uncredited(w)'[j] = IF w = v THEN amount ELSE 0
    BY <1>2 DEF Sends, Moves, Uncredited, InFlight
  <2> QED
    BY <1>3, <2>1, <2>2
<1>5. ASSUME NEW w \in Wallets
      PROVE  Sent(w)' = IF w = v THEN Sent(w) + amount ELSE Sent(w)
  <2>1. transfers \in [Orders -> Nat] /\ transfers' = [transfers EXCEPT ![o] = @ + 1]
    BY <1>1 DEF IInv, TypeOK, Sends
  <2>2. CASE w = v
    <3>1. o \in OrdersOf(w)
      BY <1>1, <2>2 DEF OrdersOf
    <3>2. SentTo(w) \in [OrdersOf(w) -> Nat] /\ SentTo(w)' \in [OrdersOf(w) -> Nat] /\ IsFiniteSet(OrdersOf(w))
      BY SumTypes, SumTypesPrime DEF IInv
    <3>3. \A q \in OrdersOf(w) \ {o} : SentTo(w)'[q] = SentTo(w)[q]
      BY <2>1 DEF SentTo, OrdersOf
    <3>4. SentTo(w)'[o] = SentTo(w)[o] + amount
      <4>1. SentTo(w)[o] = transfers[o] * amount /\ SentTo(w)'[o] = (transfers[o] + 1) * amount
        BY <1>1, <2>1, <3>1 DEF SentTo
      <4>2. transfers[o] \in Nat
        BY <2>1
      <4> QED
        BY <4>1, <4>2
    <3>5. SumOver(SentTo(w)', OrdersOf(w))
            = SumOver(SentTo(w), OrdersOf(w)) - SentTo(w)[o] + SentTo(w)'[o]
      BY <3>1, <3>2, <3>3, SumUpdate
    <3>6. Sent(w) \in Nat /\ SentTo(w)[o] \in Nat
      BY <1>3, <3>1, <3>2
    <3>7. Sent(w)' = Sent(w) - SentTo(w)[o] + SentTo(w)'[o]
      BY <3>5 DEF Sent
    <3> QED
      BY <2>2, <3>4, <3>6, <3>7
  <2>3. CASE w # v
    <3>1. \A q \in OrdersOf(w) : q # o
      BY <1>1, <2>3 DEF OrdersOf
    <3>2. SentTo(w)' = SentTo(w)
      BY <2>1, <3>1 DEF SentTo, OrdersOf
    <3> QED
      BY <2>3, <3>2 DEF Sent
  <2> QED
    BY <2>2, <2>3
<1>6. \A w \in Wallets : CreditInv(w)'
  BY <1>3, <1>4, <1>5 DEF IInv, CreditInv, Sends
<1>7. ASSUME NEW i \in Jobs, jobs'[i].at = "saveBalance"
      PROVE  jobs'[i].read + Outstanding(WalletOfJob(i))' <= Sent(WalletOfJob(i))'
  <2>1. jobs'[i] = jobs[i] /\ jobs[i].at = "saveBalance"
    BY <1>7 DEF Sends, Moves
  <2>2. PICK w \in Wallets : w = WalletOfJob(i)
    BY <2>1, ConstantsType DEF IInv, Addressed, WalletOfJob
  <2>3. WalletOfJob(i)' = w
    BY <2>1, <2>2 DEF WalletOfJob
  <2>4. jobs[i].read + Outstanding(w) <= Sent(w) /\ jobs[i].read \in Nat
    BY <2>1, <2>2 DEF IInv, ReadInv, TypeOK, Job
  <2>5. jobs[i].read + Outstanding(w)' <= Sent(w)'
    BY <1>1, <1>3, <1>4, <1>5, <2>4
  <2> QED
    BY <2>1, <2>3, <2>5
<1> QED
  BY <1>6, <1>7 DEF IInv, ReadInv

\* What a job reads is a credit, which leaves room for all that is outstanding.
LEMMA ReadsKept ==
  ASSUME IInv, TypeOK', \A i \in Jobs : Addressed(i)', NEW j \in Jobs, Reads(j)
  PROVE  IInv'
<1>1. PICK v \in Wallets : v = WalletOfJob(j) /\ v = WalletOfJob(j)'
  BY ConstantsType DEF IInv, Addressed, WalletOfJob, Reads, Moves
<1>2. AmountOfJob(j)' = AmountOfJob(j)
  BY DEF Reads, Moves, AmountOfJob
<1>3. \A w \in Wallets : Outstanding(w)' = Outstanding(w) /\ Sent(w)' = Sent(w)
  <2> SUFFICES ASSUME NEW w \in Wallets
               PROVE  Outstanding(w)' = Outstanding(w)
    BY SentSame DEF Reads
  <2>1. Outstanding(w)' = Outstanding(w) - Uncredited(w)[j] + Uncredited(w)'[j]
    BY OutstandingMoves DEF IInv, Reads
  <2>2. Outstanding(w) \in Nat /\ Uncredited(w)[j] \in Nat
    BY SumTypes DEF IInv
  <2>3. Uncredited(w)'[j] = Uncredited(w)[j]
    BY <1>1, <1>2 DEF Uncredited, Reads, Moves, InFlight
  <2> QED
    BY <2>1, <2>2, <2>3
<1>4. \A w \in Wallets : CreditInv(w)'
  BY <1>3 DEF IInv, CreditInv, Reads
<1>5. ASSUME NEW i \in Jobs, jobs'[i].at = "saveBalance"
      PROVE  jobs'[i].read + Outstanding(WalletOfJob(i))' <= Sent(WalletOfJob(i))'
  <2>1. CASE i = j
    <3>1. jobs'[i].read = credit[v]
      BY <1>1, <2>1 DEF Reads
    <3>2. credit[v] + Outstanding(v) <= Sent(v)
      BY DEF IInv, CreditInv
    <3> QED
      BY <1>1, <1>3, <2>1, <3>1, <3>2
  <2>2. CASE i # j
    <3>1. jobs'[i] = jobs[i]
      BY <2>2 DEF Reads, Moves
    <3>2. PICK w \in Wallets : w = WalletOfJob(i)
      BY <1>5, <3>1, ConstantsType DEF IInv, Addressed, WalletOfJob
    <3>3. WalletOfJob(i)' = w
      BY <3>1, <3>2 DEF WalletOfJob
    <3>4. jobs[i].read + Outstanding(w) <= Sent(w)
      BY <1>5, <3>1, <3>2 DEF IInv, ReadInv
    <3> QED
      BY <1>3, <3>1, <3>3, <3>4
  <2> QED
    BY <2>1, <2>2
<1> QED
  BY <1>4, <1>5 DEF IInv, ReadInv

\* A job that writes what it read plus its amount takes that amount out of the
\* outstanding.
LEMMA CreditsKept ==
  ASSUME IInv, TypeOK', \A i \in Jobs : Addressed(i)', NEW j \in Jobs, Credits(j)
  PROVE  IInv'
<1>1. PICK v \in Wallets, amount \in Nat : v = WalletOfJob(j) /\ amount = AmountOfJob(j)
  BY ConstantsType DEF IInv, Addressed, WalletOfJob, AmountOfJob, Credits
<1>2. \A w \in Wallets : /\ Outstanding(w) \in Nat /\ Sent(w) \in Nat /\ credit[w] \in Nat
                         /\ Outstanding(w)' \in Nat /\ Sent(w)' = Sent(w)
  BY SumTypes, SumTypesPrime, SentSame DEF IInv, Credits
<1>3. ASSUME NEW w \in Wallets
      PROVE  Outstanding(w) = IF w = v THEN Outstanding(w)' + amount ELSE Outstanding(w)'
  <2>1. Outstanding(w)' = Outstanding(w) - Uncredited(w)[j] + Uncredited(w)'[j]
    BY OutstandingMoves DEF IInv, Credits
  <2>2. Uncredited(w)'[j] = 0 /\ Uncredited(w)[j] = IF w = v THEN amount ELSE 0
    BY <1>1 DEF Credits, Moves, Uncredited, InFlight
  <2> QED
    BY <1>2, <2>1, <2>2
<1>4. jobs[j].read \in Nat /\ jobs[j].read + Outstanding(v) <= Sent(v)
  BY <1>1 DEF IInv, ReadInv, Credits, TypeOK, Job
<1>5. ASSUME NEW w \in Wallets
      PROVE  credit'[w] + Outstanding(w)' <= Sent(w)'
  <2>1. credit[w] + Outstanding(w) <= Sent(w)
    BY DEF IInv, CreditInv
  <2>2. CASE credit' = credit
    BY <1>1, <1>2, <1>3, <2>1, <2>2
  <2>3. CASE credit' = [credit EXCEPT ![v] = jobs[j].read + amount]
    <3>1. credit \in [Wallets -> Nat]
      BY DEF IInv, TypeOK
    <3>2. CASE w = v
      <4>1. credit'[w] = jobs[j].read + amount
        BY <2>3, <3>1, <3>2
      <4> QED
        BY <1>1, <1>2, <1>3, <1>4, <3>2, <4>1
    <3>3. CASE w # v
      <4>1. credit'[w] = credit[w]
        BY <2>3, <3>1, <3>3
      <4> QED
        BY <1>2, <1>3, <2>1, <3>3, <4>1
    <3> QED
      BY <3>2, <3>3
  <2> QED
    BY <1>1, <2>2, <2>3 DEF Credits
<1>6. ASSUME NEW i \in Jobs, jobs'[i].at = "saveBalance"
      PROVE  jobs'[i].read + Outstanding(WalletOfJob(i))' <= Sent(WalletOfJob(i))'
  <2>1. jobs'[i] = jobs[i] /\ jobs[i].at = "saveBalance"
    BY <1>6 DEF Credits, Moves
  <2>2. PICK w \in Wallets : w = WalletOfJob(i)
    BY <2>1, ConstantsType DEF IInv, Addressed, WalletOfJob
  <2>3. WalletOfJob(i)' = w
    BY <2>1, <2>2 DEF WalletOfJob
  <2>4. jobs[i].read + Outstanding(w) <= Sent(w) /\ jobs[i].read \in Nat
    BY <2>1, <2>2 DEF IInv, ReadInv, TypeOK, Job
  <2>5. jobs[i].read + Outstanding(w)' <= Sent(w)'
    BY <1>1, <1>2, <1>3, <2>4
  <2> QED
    BY <2>1, <2>3, <2>5
<1> QED
  BY <1>5, <1>6 DEF IInv, CreditInv, ReadInv

LEMMA JobKept ==
  ASSUME IInv, NEW j \in Jobs, JobStep(j)
  PROVE  IInv'
<1>1. OthersType' /\ (Quiet(j) \/ Sends(j) \/ Reads(j) \/ Credits(j))
  BY JobEffects DEF IInv
<1>2. PICK p : Moves(j, p)
  BY <1>1 DEF Quiet, Sends, Reads, Credits
<1>3. TypeOK'
  BY <1>1, <1>2 DEF TypeOK, OthersType, Moves
<1>4. jobs[j].at # "unused"
  BY DEF JobStep, FindOrder, SavePaid, LoadOrder, SaveProcessing, CheckRelayerBalance,
         SendTransaction, WaitForReceipt, SaveCompleted, SaveFailed, ReadBalance, SaveBalance
<1>5. \A i \in Jobs : Addressed(i)'
  BY <1>2, <1>4 DEF IInv, Addressed, Moves
<1> QED
  BY <1>1, <1>3, <1>5, QuietKept, SendsKept, ReadsKept, CreditsKept

\* Nobody has paid yet.
LEMMA InvInit ==
  ASSUME Init
  PROVE  IInv
<1>1. TypeOK
  <2>1. UnusedJob \in Job
    BY DEF UnusedJob, Job, Points, Callbacks, OrderStatus
  <2> QED
    BY <2>1, ConstantsType DEF Init, TypeOK, OrderStatus
<1>2. \A j \in Jobs : jobs[j].at = "unused"
  BY DEF Init, UnusedJob
<1>3. \A j \in Jobs : Addressed(j) /\ ReadInv(j)
  BY <1>2 DEF Addressed, ReadInv
<1>4. ASSUME NEW w \in Wallets
      PROVE  CreditInv(w)
  <2>1. \A j \in Jobs : Uncredited(w)[j] = 0
    BY <1>2 DEF Uncredited, InFlight
  <2>2. Outstanding(w) = 0
    BY <2>1, SumZero DEF Outstanding
  <2>3. Sent(w) \in Nat
    BY <1>1, <1>3, SumTypes
  <2>4. credit[w] = 0
    BY DEF Init
  <2> QED
    BY <2>2, <2>3, <2>4 DEF CreditInv
<1> QED
  BY <1>1, <1>3, <1>4 DEF IInv

\* A new order has sent nothing, and no job is about it.
LEMMA CreateKept ==
  ASSUME IInv, NEW o \in Orders, CreateDepositOrder(o)
  PROVE  IInv'
<1>1. TypeOK'
  BY DEF IInv, TypeOK, CreateDepositOrder, OrderStatus
<1>2. \A j \in Jobs : Addressed(j)'
  BY DEF IInv, Addressed, CreateDepositOrder
<1>3. \A w \in Wallets : Outstanding(w)' = Outstanding(w) /\ Outstanding(w) \in Nat
  BY SumTypes DEF IInv, Outstanding, Uncredited, WalletOfJob, AmountOfJob, CreateDepositOrder
<1> QED
  BY <1>1, <1>2, <1>3, RoomKept DEF CreateDepositOrder

\* A callback takes a job that was not used before.
LEMMA CallbackKept ==
  ASSUME IInv, NEW j \in Jobs, NEW o \in Orders, NEW c \in Callbacks, Callback(j, o, c)
  PROVE  IInv'
<1> DEFINE q == [jobs[j] EXCEPT !.at = "find"]
           r == [q EXCEPT !.order = o]
<1>1. jobs' = [jobs EXCEPT ![j] = [r EXCEPT !.callback = c]]
  BY DEF IInv, TypeOK, Callback
<1>2. q \in Job /\ q.at = "find"
  BY DEF IInv, TypeOK, Job, Points
<1> HIDE DEF q
<1>3. r \in Job /\ r.at = "find" /\ r.order = o
  BY <1>2 DEF Job
<1> HIDE DEF r
<1>4. /\ [r EXCEPT !.callback = c] \in Job
      /\ [r EXCEPT !.callback = c].at = "find" /\ [r EXCEPT !.callback = c].order = o
  BY <1>3 DEF Job
<1>5. /\ jobs' \in [Jobs -> Job] /\ jobs'[j].at = "find" /\ jobs'[j].order = o
      /\ \A i \in Jobs \ {j} : jobs'[i] = jobs[i]
  BY <1>1, <1>4 DEF IInv, TypeOK
<1>6. TypeOK'
  BY <1>5 DEF IInv, TypeOK, Callback
<1>7. \A i \in Jobs : Addressed(i)'
  BY <1>5 DEF IInv, Addressed
<1>8. ASSUME NEW w \in Wallets
      PROVE  Outstanding(w)' <= Outstanding(w)
  <2>1. Uncredited(w)' = Uncredited(w)
    BY <1>5 DEF Uncredited, InFlight, WalletOfJob, AmountOfJob, Callback
  <2>2. Outstanding(w) \in Nat
    BY SumTypes DEF IInv
  <2> QED
    BY <2>1, <2>2 DEF Outstanding
<1>9. \A i \in Jobs : jobs'[i].at = "saveBalance" => jobs'[i] = jobs[i]
  BY <1>5
<1> QED
  BY <1>6, <1>7, <1>8, <1>9, RoomKept DEF Callback

\* A restart forgets every job: what was outstanding is never credited.
LEMMA CrashKept ==
  ASSUME IInv, Crash
  PROVE  IInv'
<1>1. ASSUME NEW j \in Jobs
      PROVE  /\ jobs'[j] \in Job /\ jobs'[j].order = jobs[j].order
             /\ jobs'[j].at \in {"unused", "done"}
             /\ jobs[j].at = "unused" => jobs'[j].at = "unused"
  <2>1. jobs[j] \in Job
    BY DEF IInv, TypeOK
  <2>2. jobs'[j] = IF jobs[j].at = "unused" THEN jobs[j] ELSE [jobs[j] EXCEPT !.at = "done"]
    BY DEF Crash
  <2> QED
    BY <2>1, <2>2 DEF Job, Points
<1>2. TypeOK'
  <2>1. jobs' \in [Jobs -> Job]
    BY <1>1 DEF Crash
  <2> QED
    BY <2>1 DEF IInv, TypeOK, Crash
<1>3. \A j \in Jobs : Addressed(j)'
  <2> SUFFICES ASSUME NEW j \in Jobs, jobs'[j].at # "unused"
               PROVE  jobs'[j].order \in Orders
    BY DEF Addressed
  <2> QED
    BY <1>1 DEF IInv, Addressed
<1>4. ASSUME NEW w \in Wallets
      PROVE  Outstanding(w)' <= Outstanding(w)
  <2>1. \A j \in Jobs : Uncredited(w)'[j] = 0
    BY <1>1 DEF Uncredited, InFlight
  <2>2. SumOver(Uncredited(w)', Jobs) = 0
    BY <2>1, SumZero
  <2>3. Outstanding(w)' = 0
    BY <2>2 DEF Outstanding
  <2>4. Outstanding(w) \in Nat
    BY SumTypes DEF IInv
  <2> QED
    BY <2>3, <2>4
<1> QED
  BY <1>1, <1>2, <1>3, <1>4, RoomKept DEF Crash

LEMMA InvStep ==
  ASSUME IInv, [Next]_vars
  PROVE  IInv'
<1>1. ASSUME NEW o \in Orders, CreateDepositOrder(o)
      PROVE  IInv'
  BY <1>1, CreateKept
<1>2. ASSUME NEW j \in Jobs, NEW o \in Orders, NEW c \in Callbacks, Callback(j, o, c)
      PROVE  IInv'
  BY <1>2, CallbackKept
<1>3. ASSUME NEW j \in Jobs, JobStep(j)
      PROVE  IInv'
  BY <1>3, JobKept
<1>4. CASE Crash
  BY <1>4, CrashKept
<1>5. CASE UNCHANGED vars
  <2>1. TypeOK' /\ \A j \in Jobs : Addressed(j)'
    BY <1>5 DEF IInv, TypeOK, Addressed, vars
  <2>2. \A w \in Wallets : Outstanding(w)' = Outstanding(w) /\ Outstanding(w) \in Nat
    BY <1>5, SumTypes DEF IInv, Outstanding, Uncredited, WalletOfJob, AmountOfJob, vars
  <2> QED
    BY <1>5, <2>1, <2>2, RoomKept DEF vars
<1> QED
  BY <1>1, <1>2, <1>3, <1>4, <1>5 DEF Next

-----------------------------------------------------------------------------
LEMMA DepositInvariant == Spec => []IInv
<1>1. Init => IInv
  BY InvInit
<1>2. IInv /\ [Next]_vars => IInv'
  BY InvStep
<1> QED
  BY <1>1, <1>2, PTL DEF Spec

\* Every order, job and balance keeps its type; in particular the relayer
\* wallet is never overdrawn.
THEOREM DepositTypeCorrect == Spec => []TypeOK
<1>1. IInv => TypeOK
  BY DEF IInv
<1> QED
  BY <1>1, DepositInvariant, PTL

\* The balance shown to a user never exceeds the ether that was sent to her
\* wallet, whatever callbacks of her deposits interleave in updateUserBalance.
THEOREM CreditStaysBacked == Spec => []CreditBacked
<1>1. IInv => CreditBacked
  <2> SUFFICES ASSUME IInv, NEW w \in Wallets
               PROVE  credit[w] <= Sent(w)
    BY DEF CreditBacked, Sent, SentTo
  <2>1. Outstanding(w) \in Nat /\ Sent(w) \in Nat /\ credit[w] \in Nat
    BY SumTypes DEF IInv
  <2> QED
    BY <2>1 DEF IInv, CreditInv
<1> QED
  BY <1>1, DepositInvariant, PTL
=============================================================================
