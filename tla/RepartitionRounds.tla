------------------------- MODULE RepartitionRounds -------------------------
(* What repartitioning beside the execution promises to the requests that    *)
(* are dispatched meanwhile: maps change in rounds, one at a time.  A round  *)
(* is ordered, one new map is computed for it, that map takes the place of   *)
(* the active one, and then the round is over; a map that was computed is    *)
(* neither forgotten nor installed a second time, and none is installed that *)
(* was not ordered.                                                          *)
EXTENDS Naturals

CONSTANT Maps      \* the maps there may be

VARIABLES round,     \* where the round is
          active,    \* the map requests are dispatched by
          computed   \* the map of the round; the active one if there is none

vars == <<round, active, computed>>

Init ==
    /\ round = "none"
    /\ active \in Maps
    /\ computed = active

Goes(from, to) == round = from /\ round' = to

Order == Goes("none", "ordered") /\ UNCHANGED <<active, computed>>

Compute ==
    /\ Goes("ordered", "computed")
    /\ computed' \in Maps \ {active}
    /\ UNCHANGED active

Install ==
    /\ Goes("computed", "installed")
    /\ active' = computed
    /\ UNCHANGED computed

Close == Goes("installed", "none") /\ UNCHANGED <<active, computed>>

Next == Order \/ Compute \/ Install \/ Close

Safety == Init /\ [][Next]_vars

(* A round that was ordered comes to its end.                                *)
Fairness == WF_vars(Compute) /\ WF_vars(Install) /\ WF_vars(Close)

Spec == Safety /\ Fairness
=============================================================================
