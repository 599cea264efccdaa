--------------------------- MODULE MCChargingSession ---------------------------
(* Values for checking ChargingSession.                                    *)
EXTENDS ChargingSession

\* All readings but the one at startup, which must not fail (see the README).
WhileRunning == Reads \ {"boot"}
Nothing == {}
OnlyProgress == {"progress"}
OnlyStop == {"stop"}
OnlyBoot == {"boot"}
=============================================================================
