----------------------------- MODULE MCPlatform -----------------------------
(***************************************************************************)
(* Small instances of Platform: the admin organizes one event and bob buys *)
(* (and, on the market, each buys from the other).                         *)
(***************************************************************************)
EXTENDS Platform, TLC

CONSTANTS admin, bob

MCAccounts == {admin, bob}
JustAdmin == {admin}
JustBob == {bob}
MCFundTargets == {FundContract, bob}

SelfFundedArgs ==
  [investmentEnabled |-> FALSE, fundingGoal |-> 0, fundingDeadline |-> 0,
   minStakeRequired |-> 0, organizerShareBps |-> 2, ticketPrice |-> 1,
   maxTickets |-> 2]

MCCreateArgs == {SelfFundedArgs}
OneOrTwoTicketArgs == {SelfFundedArgs, [SelfFundedArgs EXCEPT !.maxTickets = 1]}
=============================================================================
