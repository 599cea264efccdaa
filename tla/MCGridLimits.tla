----------------------------- MODULE MCGridLimits -----------------------------
(* Values for checking GridLimits.                                         *)
EXTENDS GridLimits

CONSTANTS heater, heatpump, inverter

(* A consumption limit that lasts two ticks, a production limit that lasts,  *)
(* what withdraws them, and one that is denied.  No failsafe limits are     *)
(* configured, the default; the Energy Guard writes them at any time.       *)
On(value, left) == [active |-> TRUE, value |-> value, left |-> left]
Off == [active |-> FALSE, value |-> 0, left |-> Forever]
GuardStatements ==
    [consumption |-> {On(3, 2), On(-1, Forever), Off},
     production  |-> {On(5, Forever), Off}]
ConfiguredFailsafe == [consumption |-> {0}, production |-> {NoLimit}]
WrittenFailsafe == [consumption |-> {4}, production |-> {3}]
TwoMeters == {heater, heatpump}
OneCurtailer == {inverter}
=============================================================================
