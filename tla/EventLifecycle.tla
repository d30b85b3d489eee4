--------------------------- MODULE EventLifecycle ---------------------------
(***************************************************************************)
(* What the platform promises about one event, whatever contract keeps it: *)
(* it moves forward through its phases, ends Completed or Cancelled, and   *)
(* its ticket money is settled in at most one way - released to organizer, *)
(* platform and donators, or made refundable to the ticket holders - and   *)
(* never changes its mind.  Fund implements this specification.            *)
(***************************************************************************)
EXTENDS Naturals

CONSTANT Events

VARIABLES phase,        \* [Events -> Phases]
          settlement    \* [Events -> Settlements]

vars == <<phase, settlement>>

Phases == {"None", "Funding", "Funded", "Ticketing", "Completed", "Cancelled"}
Settlements == {"open", "released", "refunding"}

\* The phases one step may move to.
Successors(p) ==
  CASE p = "None"      -> {"Funding", "Funded"}
    [] p = "Funding"   -> {"Funded", "Cancelled"}
    [] p = "Funded"    -> {"Ticketing", "Cancelled"}
    [] p = "Ticketing" -> {"Completed", "Cancelled"}
    [] OTHER           -> {}

Init == /\ phase = [e \in Events |-> "None"]
        /\ settlement = [e \in Events |-> "open"]

Move(e, p) ==
  /\ p \in Successors(phase[e])
  /\ phase' = [phase EXCEPT ![e] = p]

\* Tickets may have been sold by the time an event is cancelled: cancelling
\* decides for refunds in the same step or leaves the settlement as it is.
Advance(e) ==
  \E p \in Phases :
    /\ Move(e, p)
    /\ \/ UNCHANGED settlement
       \/ /\ p = "Cancelled"
          /\ settlement' = [settlement EXCEPT ![e] = "refunding"]

Refund(e) ==
  /\ phase[e] \in {"Ticketing", "Completed"}
  /\ settlement[e] = "open"
  /\ settlement' = [settlement EXCEPT ![e] = "refunding"]
  /\ UNCHANGED phase

Release(e) ==
  /\ phase[e] = "Completed"
  /\ settlement[e] = "open"
  /\ settlement' = [settlement EXCEPT ![e] = "released"]
  /\ UNCHANGED phase

Next == \E e \in Events : Advance(e) \/ Refund(e) \/ Release(e)

Spec == Init /\ [][Next]_vars
=============================================================================
