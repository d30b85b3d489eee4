-------------------------------- MODULE Sums --------------------------------
(***************************************************************************)
(* Totals of natural-valued functions over finite sets.                    *)
(*                                                                         *)
(* A total is the number of units the function hands out: one element      *)
(* <<s, i>> for every s and every i in 1..f[s].  Written so, the law that  *)
(* updating one entry moves the total by the difference is a fact about    *)
(* cardinalities and needs no induction (module FundProofs).               *)
(***************************************************************************)
EXTENDS Naturals, FiniteSets

Units(f, S) == UNION {{s} \X (1 .. f[s]) : s \in S}

SumOver(f, S) == Cardinality(Units(f, S))
=============================================================================
