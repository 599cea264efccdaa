-------------------------- MODULE MCVehicleDetection --------------------------
(* Model values for checking VehicleDetection.                             *)
EXTENDS VehicleDetection, TLC

CONSTANTS lp1, lp2, v1, loop, user

TwoLoadpoints == {lp1, lp2}
OneVehicle    == {v1}
LoopAndUser   == {loop, user}

\* lp1 has a default vehicle, lp2 detects.
FirstHasDefault == lp1 :> v1 @@ lp2 :> NoVehicle
=============================================================================
