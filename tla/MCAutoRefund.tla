---------------------------- MODULE MCAutoRefund ---------------------------
(* Small instances of AutoRefund. *)
EXTENDS AutoRefund

CONSTANTS t1, t2, c1, c2

MCEither == {{"tickets"}, {"contributions"}}
MCTokens == {t1, t2}
MCContributors == {c1, c2}
=============================================================================
