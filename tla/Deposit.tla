------------------------------ MODULE Deposit ------------------------------
(***************************************************************************)
(* Deposits: a user pays VND through VNPay and the relayer wallet sends    *)
(* her ether.  backend/src/controllers/deposits.controller.js answers the  *)
(* two callbacks of a payment, the IPN from VNPay and the return redirect  *)
(* of the user's browser; both end in processDeposit of                    *)
(* services/deposits/depositProcessor.service.js.                          *)
(*                                                                         *)
(* A job is one callback being handled.  Node runs it atomically between   *)
(* two awaits, so a step is the code from one await to the next, and jobs  *)
(* interleave at the awaits: a job works on the copy of the order it       *)
(* loaded, and save() writes only the fields that differ from that copy.   *)
(* Callbacks that fail verification, name no order or report another       *)
(* amount change nothing and are no step.                                  *)
(***************************************************************************)
EXTENDS Naturals, FiniteSets, Sums

CONSTANTS
  Orders, NoOrder,
  Wallets,
  WalletOf,     \* [Orders -> Wallets]
  EthAmount,    \* [Orders -> Nat]: the ether of an order
  MaxCallbacks, \* bound: callbacks delivered in all, repetitions included
  Funds,        \* the relayer wallet's balance at the start
  RpcFails,     \* whether the chain's node may refuse a call or fail to answer
  MaxFaults     \* bound: restarts of the server and refused database writes

ASSUME DepositAssumption ==
  /\ IsFiniteSet(Orders)
  /\ NoOrder \notin Orders
  /\ WalletOf \in [Orders -> Wallets]
  /\ EthAmount \in [Orders -> Nat \ {0}]
  /\ {MaxCallbacks, Funds, MaxFaults} \subseteq Nat
  /\ RpcFails \in BOOLEAN

VARIABLES
  status,     \* DepositOrder.status in the database
  jobs,       \* [Jobs -> Job]
  transfers,  \* ether transfers on the chain, per order
  relayer,    \* the relayer wallet's balance
  credit,     \* UserBalance.totalDeposited per wallet; 0: no document yet
  faults      \* restarts and refused writes so far

vars == <<status, jobs, transfers, relayer, credit, faults>>

Jobs == 1 .. MaxCallbacks

OrderStatus == {"none", "pending", "paid", "processing", "completed", "failed"}

\* The await a job is suspended at.
Points == {"unused", "find", "savePaid", "load", "saveProcessing", "checkFunds",
           "send", "wait", "saveCompleted", "readBalance", "saveBalance",
           "saveFailed", "done"}

Callbacks == {"ipn", "return"}

Job ==
  [at: Points, callback: Callbacks, order: Orders \cup {NoOrder},
   copy: OrderStatus, read: Nat]

UnusedJob ==
  [at |-> "unused", callback |-> "ipn", order |-> NoOrder, copy |-> "none", read |-> 0]

Init ==
  /\ status = [o \in Orders |-> "none"]
  /\ jobs = [j \in Jobs |-> UnusedJob]
  /\ transfers = [o \in Orders |-> 0]
  /\ relayer = Funds
  /\ credit = [w \in Wallets |-> 0]
  /\ faults = 0

WalletOfJob(j) == WalletOf[jobs[j].order]
AmountOfJob(j) == EthAmount[jobs[j].order]

Goto(j, point) == jobs' = [jobs EXCEPT ![j].at = point]

-----------------------------------------------------------------------------
(* Orders and callbacks.                                                   *)

CreateDepositOrder(o) ==
  /\ status[o] = "none"
  /\ status' = [status EXCEPT ![o] = "pending"]
  /\ UNCHANGED <<jobs, transfers, relayer, credit, faults>>

\* VNPay repeats an IPN it got no answer to, and the browser may load the
\* return page again.
Callback(j, o, callback) ==
  /\ jobs[j].at = "unused"
  /\ \A i \in 1 .. j - 1 : jobs[i].at # "unused"
  /\ status[o] # "none"
  /\ jobs' = [jobs EXCEPT ![j].at = "find", ![j].order = o, ![j].callback = callback]
  /\ UNCHANGED <<status, transfers, relayer, credit, faults>>

AlreadyProcessed(s) == s \in {"completed", "processing"}

\* The IPN marks any order that is not already processed as paid; the return
\* page only a pending one.
AfterFind(callback, s) ==
  IF AlreadyProcessed(s) THEN "done"
  ELSE IF callback = "ipn" \/ s = "pending" THEN "savePaid"
  ELSE "load"

FindOrder(j) ==
  LET s == status[jobs[j].order] IN
  /\ jobs[j].at = "find"
  /\ jobs' = [jobs EXCEPT ![j].copy = s, ![j].at = AfterFind(jobs[j].callback, s)]
  /\ UNCHANGED <<status, transfers, relayer, credit, faults>>

\* order.save() of a job whose copy now says s.
Save(j, s) ==
  /\ status' = IF s = jobs[j].copy THEN status
                                   ELSE [status EXCEPT ![jobs[j].order] = s]
  /\ UNCHANGED <<transfers, relayer, credit, faults>>

Refused ==
  /\ faults < MaxFaults
  /\ faults' = faults + 1
  /\ UNCHANGED <<status, transfers, relayer, credit>>

SavePaid(j) ==
  /\ jobs[j].at = "savePaid"
  /\ \/ Save(j, "paid") /\ Goto(j, "load")
     \/ Refused /\ Goto(j, "done")

-----------------------------------------------------------------------------
(* processDeposit.                                                         *)

LoadOrder(j) ==
  LET s == status[jobs[j].order] IN
  /\ jobs[j].at = "load"
  /\ jobs' = [jobs EXCEPT ![j].copy = s,
                          ![j].at = IF s = "paid" THEN "saveProcessing" ELSE "done"]
  /\ UNCHANGED <<status, transfers, relayer, credit, faults>>

\* A refused write of "processing" or "completed" throws into the catch block.
Progress(j, s, next) ==
  /\ jobs' = [jobs EXCEPT ![j].copy = s, ![j].at = next]
  /\ Save(j, s)

SaveProcessing(j) ==
  /\ jobs[j].at = "saveProcessing"
  /\ \/ Progress(j, "processing", "checkFunds")
     \/ Refused /\ Goto(j, "saveFailed")

CheckRelayerBalanceReturns(j) ==
  /\ jobs[j].at = "checkFunds"
  /\ Goto(j, IF relayer >= AmountOfJob(j) THEN "send" ELSE "done")
  /\ UNCHANGED <<status, transfers, relayer, credit, faults>>

CheckRelayerBalance(j) ==
  /\ jobs[j].at = "checkFunds"
  /\ \/ relayer >= AmountOfJob(j) /\ Goto(j, "send")
     \/ (relayer < AmountOfJob(j) \/ RpcFails) /\ Goto(j, "saveFailed")
  /\ UNCHANGED <<status, transfers, relayer, credit, faults>>

SendTransactionUnfunded(j) ==
  /\ jobs[j].at = "send"
  /\ transfers' = [transfers EXCEPT ![jobs[j].order] = @ + 1]
  /\ relayer' = relayer - AmountOfJob(j)
  /\ Goto(j, "wait")
  /\ UNCHANGED <<status, credit, faults>>

\* sendTransaction: the transfer is accepted and will be mined, or refused.
SendTransaction(j) ==
  /\ jobs[j].at = "send"
  /\ \/ /\ relayer >= AmountOfJob(j)
        /\ transfers' = [transfers EXCEPT ![jobs[j].order] = @ + 1]
        /\ relayer' = relayer - AmountOfJob(j)
        /\ Goto(j, "wait")
     \/ /\ relayer < AmountOfJob(j) \/ RpcFails
        /\ Goto(j, "saveFailed")
        /\ UNCHANGED <<transfers, relayer>>
  /\ UNCHANGED <<status, credit, faults>>

\* tx.wait(1) may fail although the transfer is mined.
WaitForReceipt(j) ==
  /\ jobs[j].at = "wait"
  /\ \/ Goto(j, "saveCompleted")
     \/ RpcFails /\ Goto(j, "saveFailed")
  /\ UNCHANGED <<status, transfers, relayer, credit, faults>>

SaveCompleted(j) ==
  /\ jobs[j].at = "saveCompleted"
  /\ \/ Progress(j, "completed", "readBalance")
     \/ Refused /\ Goto(j, "saveFailed")

SaveFailedCredits(j) ==
  /\ jobs[j].at = "saveFailed"
  /\ Progress(j, "failed", "readBalance")

\* The catch block.
SaveFailed(j) ==
  /\ jobs[j].at = "saveFailed"
  /\ \/ Progress(j, "failed", "done")
     \/ Refused /\ Goto(j, "done")

\* updateUserBalance: read the document, add, write it back.  Two first
\* deposits of a wallet both insert, and the unique index refuses the second.
ReadBalance(j) ==
  /\ jobs[j].at = "readBalance"
  /\ jobs' = [jobs EXCEPT ![j].read = credit[WalletOfJob(j)], ![j].at = "saveBalance"]
  /\ UNCHANGED <<status, transfers, relayer, credit, faults>>

SaveBalance(j) ==
  LET w == WalletOfJob(j) IN
  /\ jobs[j].at = "saveBalance"
  /\ Goto(j, "done")
  /\ \/ /\ jobs[j].read = 0 => credit[w] = 0
        /\ credit' = [credit EXCEPT ![w] = jobs[j].read + AmountOfJob(j)]
        /\ UNCHANGED <<status, transfers, relayer, faults>>
     \/ /\ jobs[j].read = 0 /\ credit[w] # 0
        /\ UNCHANGED <<status, transfers, relayer, credit, faults>>
     \/ Refused

-----------------------------------------------------------------------------
\* Jobs live in memory only.
Crash ==
  /\ faults < MaxFaults
  /\ faults' = faults + 1
  /\ jobs' = [j \in Jobs |-> IF jobs[j].at = "unused" THEN jobs[j]
                                                      ELSE [jobs[j] EXCEPT !.at = "done"]]
  /\ UNCHANGED <<status, transfers, relayer, credit>>

JobStep(j) ==
  \/ FindOrder(j) \/ SavePaid(j) \/ LoadOrder(j)
  \/ SaveProcessing(j) \/ CheckRelayerBalance(j) \/ SendTransaction(j)
  \/ WaitForReceipt(j) \/ SaveCompleted(j) \/ SaveFailed(j)
  \/ ReadBalance(j) \/ SaveBalance(j)

Next ==
  \/ \E o \in Orders : CreateDepositOrder(o)
  \/ \E j \in Jobs, o \in Orders, c \in Callbacks : Callback(j, o, c)
  \/ \E j \in Jobs : JobStep(j)
  \/ Crash

Spec == Init /\ [][Next]_vars

\* The event loop resumes every job whose await is answered, and the database
\* and the chain's node answer each call in the end.
FairSpec == Spec /\ \A j \in Jobs : WF_vars(JobStep(j))

-----------------------------------------------------------------------------
(* Properties.                                                             *)

TypeOK ==
  /\ status \in [Orders -> OrderStatus]
  /\ jobs \in [Jobs -> Job]
  /\ transfers \in [Orders -> Nat]
  /\ relayer \in Nat
  /\ credit \in [Wallets -> Nat]
  /\ faults \in Nat

JobsOf(o, points) == {j \in Jobs : jobs[j].order = o /\ jobs[j].at \in points}

OrdersOf(w) == {o \in Orders : WalletOf[o] = w}

\* The balance shown to a user never exceeds the ether that was sent to her
\* wallet, even though concurrent deposits read and write it unguarded.
CreditBacked ==
  \A w \in Wallets :
    credit[w] <= SumOver([o \in OrdersOf(w) |-> transfers[o] * EthAmount[o]], OrdersOf(w))

\* While nothing crashes and no write is refused, every order a payment was
\* reported for comes to rest as completed or failed: no interleaving of its
\* callbacks strands it in processing, where every later callback skips it.
PaymentsSettle ==
  \A o \in Orders :
    JobsOf(o, {"find"}) # {} ~>
      [](status[o] \in {"completed", "failed"} \/ faults > 0)

\* deposits.controller.js:256: an order already processed is skipped, so it is
\* paid out once.
PaidOutOnce == \A o \in Orders : transfers[o] <= 1
=============================================================================
