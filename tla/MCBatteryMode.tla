------------------------------ MODULE MCBatteryMode ------------------------------
(* Values for checking BatteryMode.                                        *)
EXTENDS BatteryMode

\* A battery that knows all modes; one that cannot be discharged on request and
\* one that can be neither held nor charged.
Full == <<Modes \ {"unknown"}>>
Mixed == <<{"normal", "hold", "charge"}, {"normal", "discharge"}>>

HoldOnly == {"hold"}
DischargeOnly == {"discharge"}
ChargeOnly == {"charge"}
HoldOrCharge == {"hold", "charge"}
=============================================================================
