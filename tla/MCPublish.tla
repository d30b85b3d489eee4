------------------------------ MODULE MCPublish -----------------------------
(* Small instances of Publish. *)
EXTENDS Publish

CONSTANTS d1, d2, r1, r2

MCDrafts == {d1, d2}
MCApart == [d \in MCDrafts |-> IF d = d1 THEN 1 ELSE 2]
MCEdits == [d \in MCDrafts |-> IF d = d1 THEN {3} ELSE {}]
\* Two drafts with the same parameters: no run, see the README.
MCTwins == [d \in MCDrafts |-> 1]
MCInvest == {d1}
MCSecond == {d2}
MCRequests == {r1, r2}
=============================================================================
