------------------------------- MODULE MCFund -------------------------------
(***************************************************************************)
(* A small instance of Fund: an admin and two other accounts; one funded   *)
(* and one self-funded kind of event.  Goals, prices and stakes are a few  *)
(* wei, and the scales are small so that the divisions round.              *)
(***************************************************************************)
EXTENDS Fund, TLC

CONSTANTS admin, u1, u2

MCAccounts == {admin, u1, u2}
MCRejecting == {}

InvestArgs ==
  [investmentEnabled |-> TRUE, fundingGoal |-> 2, fundingDeadline |-> 1,
   minStakeRequired |-> 1, organizerShareBps |-> 2, ticketPrice |-> 1,
   maxTickets |-> 1]

SelfFundedArgs ==
  [InvestArgs EXCEPT !.investmentEnabled = FALSE, !.minStakeRequired = 0]

MCCreateArgs == {InvestArgs, SelfFundedArgs}

Symmetry == Permutations({u1, u2})
=============================================================================
