---------------------------- MODULE VehicleDetection ----------------------------
(***************************************************************************)
(* How loadpoints find their vehicle: core/loadpoint_vehicle.go on top of  *)
(* the coordinator.  The site's control loop is one goroutine, Loop, that  *)
(* updates the loadpoints one after the other: it handles the charger's    *)
(* connect and disconnect, reads the charger's vehicle id and queries the  *)
(* status of the vehicles nobody else has.  The other goroutines are the   *)
(* user's (HTTP, MQTT) and the configuration's.                            *)
(***************************************************************************)
EXTENDS VehicleCoordinator

CONSTANTS
    Loop,           \* the goroutine of the site's control loop
    DefaultVehicle, \* Loadpoint.defaultVehicle, or NoVehicle
    Detectable      \* vehicles with a status api and without AutodetectDisabled

ASSUME LoopIsProc == Loop \in Procs
ASSUME Defaults == DefaultVehicle \in [Loadpoints -> OptVehicle]
ASSUME DetectableVehicles == Detectable \subseteq Vehicles

VARIABLES
    prepared,       \* loadpoints Prepare has run for, before the loop starts
    connected,      \* the charger reports a vehicle (status B or C)
    identifier,     \* Loadpoint.vehicleIdentifier: the vehicle it stands for
    match           \* the loop's status query in progress: loadpoint and result

detectionVars == <<vars, prepared, connected, identifier, match>>

NoMatch == [lp |-> NoLoadpoint, v |-> NoVehicle]

Controller == <<Loop, "caller">>

DetectionInit ==
    /\ Init
    /\ vehicles # {}
    /\ \A lp \in Loadpoints : DefaultVehicle[lp] \notin unseen
    /\ prepared = {}
    /\ connected = [lp \in Loadpoints |-> FALSE]
    /\ identifier = [lp \in Loadpoints |-> NoVehicle]
    /\ match = NoMatch

-----------------------------------------------------------------------------
(* The status query.                                                       *)

Statuses == {"A", "B", "C", "error"}

\* Vehicles lp may detect: its own and those the table says nobody has.
AvailableDetectibleVehicles(lp) ==
    {v \in vehicles \cap Detectable : tracked[v] \in {lp, NoLoadpoint}}

\* The only vehicle in the charger's state or, when none is, the only one that
\* is plugged in or charging.
IdentifyVehicleByStatus(available, status, lpStatus) ==
    LET plugged == {v \in available : status[v] \in {"B", "C"}}
        exact   == {v \in plugged : status[v] = lpStatus}
        best    == IF exact = {} THEN plugged ELSE exact
    IN  IF Cardinality(best) = 1 THEN CHOOSE v \in best : TRUE ELSE NoVehicle

\* Detection is running: no vehicle, and there are some to be found.
Detecting(lp) ==
    /\ connected[lp]
    /\ vehicle[lp] = NoVehicle
    /\ vehicleDetect[lp]
    /\ vehicles # {}

LoopIdle == Idle(Loop) /\ match = NoMatch /\ prepared = Loadpoints

-----------------------------------------------------------------------------
(* The loop's handlers.                                                    *)

\* Prepare, for each loadpoint before the loop starts: the default vehicle.
Prepare(lp) ==
    /\ Idle(Loop)
    /\ lp \notin prepared
    /\ prepared' = prepared \cup {lp}
    /\ IF DefaultVehicle[lp] # NoVehicle
       THEN Enter(Loop, lp, DefaultVehicle[lp], "leave")
       ELSE UNCHANGED vars
    /\ UNCHANGED <<connected, identifier, match>>

\* evVehicleConnectHandler: the default vehicle, or else start detection.
VehicleConnect(lp) ==
    /\ LoopIdle
    /\ ~connected[lp]
    /\ connected' = [connected EXCEPT ![lp] = TRUE]
    /\ IF DefaultVehicle[lp] # NoVehicle
       THEN Enter(Loop, lp, DefaultVehicle[lp], "leave")
       ELSE /\ vehicleDetect' = [vehicleDetect EXCEPT ![lp] = @ \/ vehicles # {}]
            /\ UNCHANGED <<vehicles, unseen, tracked, vehicle, vmu, frame>>
    /\ UNCHANGED <<prepared, identifier, match>>

\* Mutant: the default vehicle is written to lp.vehicle, not passed through the
\* coordinator.
VehicleDisconnectDirect(lp) ==
    /\ LoopIdle
    /\ connected[lp]
    /\ connected' = [connected EXCEPT ![lp] = FALSE]
    /\ identifier' = [identifier EXCEPT ![lp] = NoVehicle]
    /\ vehicleDetect' = [vehicleDetect EXCEPT ![lp] = FALSE]
    /\ vehicle' = [vehicle EXCEPT ![lp] = DefaultVehicle[lp]]
    /\ UNCHANGED <<vehicles, unseen, tracked, frame, vmu, prepared, match>>

\* evVehicleDisconnectHandler: forget the charger's id, stop detection, back
\* to the default vehicle.
VehicleDisconnect(lp) ==
    /\ LoopIdle
    /\ connected[lp]
    /\ connected' = [connected EXCEPT ![lp] = FALSE]
    /\ identifier' = [identifier EXCEPT ![lp] = NoVehicle]
    /\ vehicleDetect' = [vehicleDetect EXCEPT ![lp] = FALSE]
    /\ frame' = [frame EXCEPT ![Controller] = Entered(lp, DefaultVehicle[lp], "leave")]
    /\ UNCHANGED <<vehicles, unseen, tracked, vehicle, vmu, prepared, match>>

\* identifyVehicle: the charger reports the id of a configured vehicle.  It is
\* applied once, when the id changes, and only if it is not the active one.
IdentifyVehicle(lp, v) ==
    /\ LoopIdle
    /\ connected[lp]
    /\ v \in vehicles
    /\ identifier[lp] # v
    /\ vmu[lp] = NoCall                     \* GetVehicle
    /\ identifier' = [identifier EXCEPT ![lp] = v]
    /\ vehicleDetect' = [vehicleDetect EXCEPT ![lp] = FALSE]
    /\ frame' = IF vehicle[lp] = v THEN frame
                ELSE [frame EXCEPT ![Controller] = Entered(lp, v, "leave")]
    /\ UNCHANGED <<vehicles, unseen, tracked, vehicle, vmu, prepared, connected, match>>

\* The charger no longer reports an id, or one of no configured vehicle.
IdentifyNothing(lp) ==
    /\ LoopIdle
    /\ connected[lp]
    /\ identifier[lp] # NoVehicle
    /\ identifier' = [identifier EXCEPT ![lp] = NoVehicle]
    /\ UNCHANGED <<vars, prepared, connected, match>>

\* identifyVehicleByStatus, first half: the slow query of the vehicles.
QueryStatus(lp) ==
    /\ LoopIdle
    /\ Detecting(lp)
    /\ \E lpStatus \in {"B", "C"}, status \in [Vehicles -> Statuses] :
          match' = [lp |-> lp,
                    v  |-> IdentifyVehicleByStatus(AvailableDetectibleVehicles(lp),
                                                   status, lpStatus)]
    /\ UNCHANGED <<vars, prepared, connected, identifier>>

\* Mutant: a result that lost to a selection is kept, for no loadpoint.
ApplyMatchKept ==
    LET lp == match.lp IN
    /\ Idle(Loop)
    /\ match # NoMatch
    /\ vmu[lp] = NoCall
    /\ IF match.v = NoVehicle \/ vehicle[lp] # NoVehicle
       THEN match' = [match EXCEPT !.lp = NoLoadpoint] /\ UNCHANGED <<vehicleDetect, frame>>
       ELSE /\ vehicleDetect' = [vehicleDetect EXCEPT ![lp] = FALSE]
            /\ frame' = [frame EXCEPT ![Controller] = Entered(lp, match.v, "leave")]
            /\ UNCHANGED match
    /\ UNCHANGED <<vehicles, unseen, tracked, vehicle, vmu,
                   prepared, connected, identifier>>

\* identifyVehicleByStatus, second half: apply the result unless a vehicle was
\* assigned meanwhile.
ApplyMatch ==
    LET lp == match.lp IN
    /\ Idle(Loop)
    /\ match # NoMatch
    /\ vmu[lp] = NoCall                     \* GetVehicle
    /\ IF match.v = NoVehicle \/ vehicle[lp] # NoVehicle
       THEN match' = NoMatch /\ UNCHANGED <<vehicleDetect, frame>>
       ELSE /\ vehicleDetect' = [vehicleDetect EXCEPT ![lp] = FALSE]
            /\ frame' = [frame EXCEPT ![Controller] = Entered(lp, match.v, "leave")]
            /\ UNCHANGED match
    /\ UNCHANGED <<vehicles, unseen, tracked, vehicle, vmu,
                   prepared, connected, identifier>>

\* Mutant: the timeout is reported, but detection goes on.
DetectionTimeoutGoesOn(lp) ==
    /\ LoopIdle
    /\ Detecting(lp)
    /\ UNCHANGED detectionVars

\* vehicleUnidentified after vehicleDetectDuration: a guest vehicle.
DetectionTimeout(lp) ==
    /\ LoopIdle
    /\ Detecting(lp)
    /\ vehicleDetect' = [vehicleDetect EXCEPT ![lp] = FALSE]
    /\ UNCHANGED <<vehicles, unseen, tracked, vehicle, vmu, frame,
                   prepared, connected, identifier, match>>

\* A step of setActiveVehicle; the loop's query is over when its call returns.
CallStep(c) ==
    /\ Step(c)
    /\ match' = IF c = Controller /\ frame'[c].pc = "idle" THEN NoMatch ELSE match
    /\ UNCHANGED <<prepared, connected, identifier>>

-----------------------------------------------------------------------------
Handler(lp) ==
    \/ Prepare(lp)
    \/ VehicleConnect(lp) \/ VehicleDisconnect(lp)
    \/ IdentifyNothing(lp)
    \/ \E v \in Vehicles : IdentifyVehicle(lp, v)
    \/ QueryStatus(lp)
    \/ DetectionTimeout(lp)

\* The user and the configuration, from goroutines other than the loop.
Request(p) ==
    /\ \/ \E lp \in Loadpoints :
             \/ StartVehicleDetection(p, lp)
             \/ \E v \in OptVehicle : SetVehicle(p, lp, v)
       \/ \E v \in Vehicles : Add(p, v) \/ Delete(p, v)
    /\ UNCHANGED <<prepared, connected, identifier, match>>

DetectionNext ==
    \/ \E lp \in Loadpoints : Handler(lp)
    \/ ApplyMatch
    \/ \E p \in Procs \ {Loop} : Request(p)
    \/ \E c \in Calls : CallStep(c)

DetectionSpec == DetectionInit /\ [][DetectionNext]_detectionVars

(***************************************************************************)
(* Fairness: calls return (see VehicleCoordinator), the loop finishes the  *)
(* query it started, and it comes round to every loadpoint again, so that  *)
(* it sees detection run out of time.                                      *)
(***************************************************************************)
DetectionFairness ==
    /\ \A c \in Calls : SF_detectionVars(CallStep(c))
    /\ SF_detectionVars(ApplyMatch)
    /\ \A lp \in Loadpoints : SF_detectionVars(DetectionTimeout(lp))

DetectionFairSpec == DetectionSpec /\ DetectionFairness

-----------------------------------------------------------------------------
DetectionTypeOK ==
    /\ TypeOK
    /\ prepared \subseteq Loadpoints
    /\ connected \in [Loadpoints -> BOOLEAN]
    /\ identifier \in [Loadpoints -> OptVehicle]
    /\ match \in [lp : OptLoadpoint, v : OptVehicle]
    /\ match # NoMatch => match.lp \in Loadpoints

\* The loop's handlers and the requests use the coordinator as VehicleCoordinator
\* specifies it: everything they do to lp.vehicle and to the table goes through
\* setActiveVehicle, under vmu.  Its theorems hold here.
ImplementsCoordinator == Spec

\* Detection does not go on for ever: it finds a vehicle, times out, or has
\* nothing to wait for.
DetectionEnds ==
    \A lp \in Loadpoints :
        vehicleDetect[lp] ~> \/ ~vehicleDetect[lp] \/ vehicle[lp] # NoVehicle
                            \/ ~connected[lp] \/ vehicles = {}

\* Status detection never replaces another vehicle: "the status query is slow, a
\* vehicle assigned meanwhile (user selection) wins" (loadpoint_vehicle.go:354).
UserSelectionWins ==
    [][match # NoMatch /\ Assign(Controller) =>
          vehicle[match.lp] \in {NoVehicle, match.v}]_detectionVars

=============================================================================
