------------------------------- MODULE GridLimits -------------------------------
(***************************************************************************)
(* How the grid operator's limits reach the devices: the HEMS driver of     *)
(* module EEBus and the site, which in every cycle asks the driver what is *)
(* in force (core/site_circuits.go, applyHemsLimits), dims the consumers   *)
(* with a dimmer and curtails the inverters.  The site talks to a device   *)
(* only when the state changes or after a failed attempt.                  *)
(*                                                                         *)
(* The site asks the driver once and then talks to the devices.  What the  *)
(* driver does meanwhile neither sees nor changes anything of the site, so *)
(* that asking and applying are one step.                                  *)
(***************************************************************************)
EXTENDS EEBus

CONSTANTS
    Meters,         \* aux and ext meters with a dimmer
    Curtailers,     \* curtailers and curtailable pv meters
    MaxRestarts     \* bound of the restarts of the program

ASSUME RestartsAssumption == MaxRestarts \in Nat

VARIABLES
    dimmed,         \* site.dimmed
    curtailPercent, \* site.curtailPercent
    meterDimmed,    \* the meters' state
    curtailed,      \* the curtailers' state
    restarts

siteVars == <<dimmed, curtailPercent, meterDimmed, curtailed>>
vars == <<eebusVars, siteVars, restarts>>

GridTypeOK ==
    /\ TypeOK
    /\ dimmed \in {Nil, 0, 1}
    /\ curtailPercent \in (0 .. 100) \cup {Nil}
    /\ meterDimmed \in [Meters -> {0, 1}]
    /\ curtailed \in [Curtailers -> 0 .. 100]
    /\ restarts \in 0 .. MaxRestarts

GridInit ==
    /\ Init
    /\ dimmed = Nil /\ curtailPercent = Nil
    /\ meterDimmed = [m \in Meters |-> 0]
    /\ curtailed = [c \in Curtailers |-> 100]
    /\ restarts = 0

\* hems.Dimmed: Nil, or whether (1) or not (0) consumption is limited.
Dimmed ==
    IF MaxConsumptionPower = Nil THEN Nil
    ELSE IF MaxConsumptionPower > 0 THEN 1 ELSE 0

\* What comes of asking a device for its state and telling it the wanted one: it
\* fails, or it fails although the device has obeyed.
Outcomes == {"ok", "failed", "obeyed"}

Told(device, outcome, wanted) ==
    [d \in DOMAIN device |-> IF outcome[d] = "failed" THEN device[d] ELSE wanted]

\* Mutant: what was applied last is not invalidated.
RememberedAnyway(outcome, wanted) == wanted

\* The site remembers what it has applied only when every device took it.
Remembered(outcome, wanted) ==
    IF \A d \in DOMAIN outcome : outcome[d] = "ok" THEN wanted ELSE Nil

DimMeters ==
    /\ Dimmed # Nil /\ dimmed # Dimmed
    /\ \E outcome \in [Meters -> Outcomes] :
          /\ meterDimmed' = Told(meterDimmed, outcome, Dimmed)
          /\ dimmed' = Remembered(outcome, Dimmed)
    /\ UNCHANGED <<eebusVars, curtailPercent, curtailed, restarts>>

CurtailPV ==
    /\ CurtailedPercent # Nil /\ curtailPercent # CurtailedPercent
    /\ \E outcome \in [Curtailers -> Outcomes] :
          /\ curtailed' = Told(curtailed, outcome, CurtailedPercent)
          /\ curtailPercent' = Remembered(outcome, CurtailedPercent)
    /\ UNCHANGED <<eebusVars, dimmed, meterDimmed, restarts>>

Driver == Next /\ UNCHANGED <<siteVars, restarts>>

\* The process ends and starts again: what it was told is lost, also the failsafe
\* limits, which are those of the configuration again; the devices stay as they
\* are.  The Energy Guard has to state its limits anew.
Restart ==
    /\ restarts < MaxRestarts
    /\ restarts' = restarts + 1
    /\ guard' = [d \in Directions |-> [active |-> FALSE, value |-> 0, left |-> Forever]]
    /\ stated' = [d \in Directions |-> [active |-> FALSE, value |-> 0, duration |-> 0]]
    /\ activated' = [d \in Directions |-> Nil]
    /\ status' = "normal"
    /\ heartbeat' = HeartbeatTimeout + 1
    /\ returned' = Zero
    /\ following' = FALSE
    /\ dimmed' = Nil /\ curtailPercent' = Nil
    /\ failsafe' \in [consumption : FailsafeLimits["consumption"],
                     production : FailsafeLimits["production"]]
    /\ UNCHANGED <<meterDimmed, curtailed>>

GridNext == Driver \/ DimMeters \/ CurtailPV \/ Restart

\* The driver is only started once the Energy Guard is connected, its loop and the
\* site's loop go on, time passes, and devices that are told again and again obey
\* at last.
GridFairness ==
    /\ WF_eebusVars(Connect)
    /\ WF_eebusVars(Run)
    /\ WF_eebusVars(Tick)
    /\ SF_vars(DimMeters /\ dimmed' # Nil)
    /\ SF_vars(CurtailPV /\ curtailPercent' # Nil)

GridSpec == GridInit /\ [][GridNext]_vars /\ GridFairness

-----------------------------------------------------------------------------

\* There was no failsafe limit when failsafe was entered (FailsafeHeld).
Unlimited(d) == status = "failsafe" /\ ~InForce(d)

\* What the grid operator orders: without heartbeats the failsafe limit, else its
\* limit as long as it lasts, else nothing.
Ordered(d) ==
    IF HeartbeatLost THEN IF Unlimited(d) THEN NoLimit ELSE failsafe[d]
    ELSE IF Stands(d) THEN guard[d].value
    ELSE NoLimit

OrderedDim == IF Ordered("consumption") \in {NoLimit, 0} THEN 0 ELSE 1
OrderedPercent ==
    IF Ordered("production") = NoLimit THEN 100 ELSE PercentOf(Ordered("production"))

\* What is ordered for good, with heartbeats that keep coming or stay away, reaches
\* every device and stays with it: limits that were written before, in or after
\* failsafe, the failsafe limits, and the end of a limit, be it withdrawn, out of
\* time or released with the heartbeat, although devices fail, obey without saying
\* so, and outlive the program.
OrdersReachDevices ==
    /\ <>[][UNCHANGED <<HeartbeatLost, OrderedDim>>]_vars =>
           <>[](\A m \in Meters : meterDimmed[m] = OrderedDim)
    /\ <>[][UNCHANGED <<HeartbeatLost, OrderedPercent>>]_vars =>
           <>[](\A c \in Curtailers : curtailed[c] = OrderedPercent)
=============================================================================
