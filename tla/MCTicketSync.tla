---------------------------- MODULE MCTicketSync ----------------------------
(***************************************************************************)
(* A small instance of TicketSync: a ticket bought by u1, listed, taken    *)
(* back or sold to u2, and used or refunded.                               *)
(***************************************************************************)
EXTENDS TicketSync

CONSTANTS u1, u2, l1, q1, q2, m, b, ls, sl, ul, us, rf

MCUsers == {u1, u2}
MCListings == {l1}
MCTxs == {m, b, ls, sl, ul, us, rf}
MCKind == [t \in MCTxs |->
  CASE t = m -> "mint" [] t = b -> "buy" [] t = ls -> "list" [] t = sl -> "sell"
    [] t = ul -> "unlist" [] t = us -> "use" [] t = rf -> "refund"]
MCBy == [t \in MCTxs |-> IF t = sl THEN u2 ELSE u1]
MCListing == [t \in MCTxs |-> IF t \in {ls, sl, ul} THEN l1 ELSE NoListing]

MCTwoRequests == {q1, q2}
MCEither == {{"ticket"}, {"marketplace"}}

\* Histories already mined: the ticket is not sold yet, bought, or sold again.
MCGrown(c, t) == Append(c, [fork |-> 0, tx |-> t, after |-> After(State(c), t)])
MCHistories ==
  LET minted == MCGrown(<<>>, m)
      waiting == MCGrown(minted, NoTx)
      listed == MCGrown(MCGrown(minted, b), ls)
  IN  {MCGrown(waiting, NoTx), MCGrown(waiting, b), MCGrown(listed, sl)}
=============================================================================
