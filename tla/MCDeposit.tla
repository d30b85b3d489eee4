----------------------------- MODULE MCDeposit -----------------------------
(***************************************************************************)
(* A small instance of Deposit: one order, called back three times, and a  *)
(* relayer that can pay it out twice.                                      *)
(***************************************************************************)
EXTENDS Deposit, TLC

CONSTANTS order, wallet

MCOrders == {order}
MCWallets == {wallet}
MCWalletOf == [o \in MCOrders |-> wallet]
MCEthAmount == [o \in MCOrders |-> 1]
=============================================================================
