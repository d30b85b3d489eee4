-------------------------- MODULE MCFundProcessor --------------------------
(***************************************************************************)
(* Small instances of FundProcessor: an investor whose contribution        *)
(* reaches the goal of an event that is then cancelled and refunded, or    *)
(* completed and claimed from, or comes last and may be lost, or before    *)
(* a penalty beyond LongMax that nothing gets past; and an event that is   *)
(* cancelled with a penalty.  After a rebuild counted both penalties the   *)
(* smaller one throws too.                                                 *)
(***************************************************************************)
EXTENDS FundProcessor

CONSTANTS i1, c1, x, r1, p, p2, d, w1, q1

MCInvestors == {i1}
MCTxs == {c1, x, r1, p, p2, d, w1}
MCKind == [t \in MCTxs |->
  CASE t = c1 -> "reach" [] t = x -> "cancel" [] t = r1 -> "refund"
    [] t \in {p, p2} -> "penalty" [] t = d -> "complete" [] t = w1 -> "claim"]
MCWho == [t \in MCTxs |-> i1]
MCAmount == [t \in MCTxs |-> IF t = p2 THEN 2 ELSE 1]

\* An event cancelled with one penalty.
MCRebuildTxs == {c1, x, p}
MCOfRebuild(f) == [t \in MCRebuildTxs |-> f[t]]
MCRebuildKind == MCOfRebuild(MCKind)
MCRebuildWho == MCOfRebuild(MCWho)
MCRebuildAmount == MCOfRebuild(MCAmount)
MCRebuildPasts == {<<x, p>>}

MCOneRequest == {q1}
MCNoRequest == {}
MCPasts == {<<c1, x, r1>>, <<c1, d, w1>>, <<NoTx, p, c1>>, <<c1, p2, x>>, <<x, p>>}
=============================================================================
