------------------------- MODULE MCVehicleCoordinator -------------------------
(* Model values for checking VehicleCoordinator.                           *)
EXTENDS VehicleCoordinator, TLC

CONSTANTS lp1, lp2, v1, v2, p1, p2

TwoLoadpoints == {lp1, lp2}
TwoVehicles   == {v1, v2}
OneProc       == {p1}
TwoProcs      == {p1, p2}

\* Only the user's selections: these alone hold one vmu and wait
\* for another.
SelectNext ==
    \/ \E p \in Procs, lp \in Loadpoints, v \in Vehicles : SetVehicle(p, lp, v)
    \/ \E c \in Calls : Step(c)

SelectInit == Init /\ vehicles = Vehicles

SelectSpec == SelectInit /\ [][SelectNext]_vars

SelectFairSpec == SelectSpec /\ Fairness
=============================================================================
