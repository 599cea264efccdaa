--------------------------- MODULE VehicleCoordinator ---------------------------
(***************************************************************************)
(* Assignment of vehicles to loadpoints.                                   *)
(*                                                                         *)
(* core/coordinator keeps one table, tracked, from vehicles to the         *)
(* loadpoint that owns them; every loadpoint keeps its own lp.vehicle.     *)
(* Loadpoint.setActiveVehicle changes both: it holds the loadpoint's vmu   *)
(* while it releases the old vehicle, acquires the new one and assigns it. *)
(* Acquiring a vehicle another loadpoint owns calls that loadpoint's       *)
(* SetVehicle(nil) synchronously, after c.mu has been unlocked but with    *)
(* the acquiring loadpoint's vmu still held.                               *)
(*                                                                         *)
(* Goroutines (Procs: the site's control loop, HTTP handlers, MQTT         *)
(* listeners, the configuration bus) run these operations concurrently.    *)
(* A step of this module is a section protected by one mutex: c.mu is      *)
(* never held across a step, vmu is the variable vmu.  A goroutine has two *)
(* call frames: the operation it entered ("caller") and the SetVehicle(nil)*)
(* the coordinator runs on its behalf ("evict").                           *)
(***************************************************************************)
EXTENDS Naturals, FiniteSets

CONSTANTS
    Loadpoints,     \* the site's loadpoints
    Vehicles,       \* vehicle instances
    Procs,          \* goroutines
    NoLoadpoint,    \* no entry in tracked
    NoVehicle,      \* a nil vehicle
    NoCall          \* an unlocked vmu

\* A call frame of a goroutine.
Calls == Procs \X {"caller", "evict"}

ASSUME DistinctNils ==
    /\ NoLoadpoint \notin Loadpoints
    /\ NoVehicle \notin Vehicles
    /\ NoCall \notin Calls

VARIABLES
    vehicles,       \* Coordinator.vehicles, the configured vehicles
    unseen,         \* vehicle instances the configuration has not created yet
    tracked,        \* Coordinator.tracked
    vehicle,        \* Loadpoint.vehicle of each loadpoint
    vmu,            \* Loadpoint.vmu: the call that holds it, or NoCall
    vehicleDetect,  \* Loadpoint.vehicleDetect is not zero: detection is running
    frame           \* the call frames: where each stands, and its arguments

vars == <<vehicles, unseen, tracked, vehicle, vmu, vehicleDetect, frame>>

(***************************************************************************)
(* A frame is a call of setActiveVehicle(v) on loadpoint lp.  What its     *)
(* caller does to the detection afterwards is then: SetVehicle stops it,   *)
(* StartVehicleDetection starts it, the loadpoint's own handlers leave it. *)
(***************************************************************************)
Places == {"idle", "lock", "release", "acquire", "assign", "detect"}

Thens == {"stop", "start", "leave"}

OptLoadpoint == Loadpoints \cup {NoLoadpoint}
OptVehicle   == Vehicles \cup {NoVehicle}

Frame == [pc : Places, lp : OptLoadpoint, v : OptVehicle, then : Thens]

IdleFrame == [pc |-> "idle", lp |-> NoLoadpoint, v |-> NoVehicle, then |-> "leave"]

Callee(c) == <<c[1], "evict">>

Idle(p) == \A l \in {"caller", "evict"} : frame[<<p, l>>].pc = "idle"

Entered(lp, v, then) == [pc |-> "lock", lp |-> lp, v |-> v, then |-> then]

Goto(c, pc) == frame' = [frame EXCEPT ![c].pc = pc]

Return(c) == frame' = [frame EXCEPT ![c] = IdleFrame]

-----------------------------------------------------------------------------
Init ==
    /\ vehicles \in SUBSET Vehicles
    /\ unseen = Vehicles \ vehicles
    /\ tracked = [v \in Vehicles |-> NoLoadpoint]
    /\ vehicle = [lp \in Loadpoints |-> NoVehicle]
    /\ vmu = [lp \in Loadpoints |-> NoCall]
    /\ vehicleDetect = [lp \in Loadpoints |-> FALSE]
    /\ frame = [c \in Calls |-> IdleFrame]

(***************************************************************************)
(* Operations a goroutine may start.                                       *)
(***************************************************************************)

\* A goroutine enters setActiveVehicle(v) on lp.
Enter(p, lp, v, then) ==
    /\ Idle(p)
    /\ frame' = [frame EXCEPT ![<<p, "caller">>] = Entered(lp, v, then)]
    /\ UNCHANGED <<vehicles, unseen, tracked, vehicle, vmu, vehicleDetect>>

\* The user selects or removes the vehicle (HTTP, MQTT).
SetVehicle(p, lp, v) ==
    /\ v \in vehicles \cup {NoVehicle}
    /\ Enter(p, lp, v, "stop")

\* The user restarts detection.
StartVehicleDetection(p, lp) == Enter(p, lp, NoVehicle, "start")

\* The loadpoint itself assigns a vehicle: its default vehicle on connect and
\* disconnect, even when that has been deleted, or a vehicle it identified.
\* Most of these handlers stop the detection first.
SetActiveVehicle(p, lp, v) ==
    /\ v \notin unseen
    /\ Idle(p)
    /\ frame' = [frame EXCEPT ![<<p, "caller">>] = Entered(lp, v, "leave")]
    /\ vehicleDetect' \in {vehicleDetect, [vehicleDetect EXCEPT ![lp] = FALSE]}
    /\ UNCHANGED <<vehicles, unseen, tracked, vehicle, vmu>>

\* The loadpoint starts or stops detection, without taking a lock.
SwitchDetection(p, lp) ==
    /\ Idle(p)
    /\ vehicleDetect' = [vehicleDetect EXCEPT ![lp] = ~@]
    /\ UNCHANGED <<vehicles, unseen, tracked, vehicle, vmu, frame>>

\* A vehicle is created in the configuration.
Add(p, v) ==
    /\ Idle(p)
    /\ v \in unseen
    /\ vehicles' = vehicles \cup {v}
    /\ unseen' = unseen \ {v}
    /\ UNCHANGED <<tracked, vehicle, vmu, vehicleDetect, frame>>

\* A vehicle is deleted from the configuration; its owner, if it has one, is
\* told after c.mu is unlocked.
Delete(p, v) ==
    /\ Idle(p)
    /\ v \in vehicles
    /\ vehicles' = vehicles \ {v}
    /\ tracked' = [tracked EXCEPT ![v] = NoLoadpoint]
    /\ frame' = IF tracked[v] = NoLoadpoint
                THEN frame
                ELSE [frame EXCEPT ![<<p, "evict">>] =
                            Entered(tracked[v], NoVehicle, "stop")]
    /\ UNCHANGED <<unseen, vehicle, vmu, vehicleDetect>>

(***************************************************************************)
(* Steps of a call of setActiveVehicle.                                    *)
(***************************************************************************)

\* lp.vmu.Lock()
Lock(c) ==
    LET f == frame[c] IN
    /\ f.pc = "lock"
    /\ vmu[f.lp] = NoCall
    /\ vmu' = [vmu EXCEPT ![f.lp] = c]
    /\ Goto(c, "release")
    /\ UNCHANGED <<vehicles, unseen, tracked, vehicle, vehicleDetect>>

\* Mutant: Release leaves a vehicle alone that another loadpoint owns by now.
ReleaseOwned(c) ==
    LET f == frame[c]
        old == vehicle[f.lp]
    IN
    /\ f.pc = "release"
    /\ tracked' = IF old = NoVehicle \/ tracked[old] # f.lp THEN tracked
                  ELSE [tracked EXCEPT ![old] = NoLoadpoint]
    /\ Goto(c, IF f.v = NoVehicle THEN "assign" ELSE "acquire")
    /\ UNCHANGED <<vehicles, unseen, vehicle, vmu, vehicleDetect>>

\* coordinator.Release(lp.vehicle), whoever owns that vehicle by now.
Release(c) ==
    LET f == frame[c]
        old == vehicle[f.lp]
    IN
    /\ f.pc = "release"
    /\ tracked' = IF old = NoVehicle THEN tracked
                  ELSE [tracked EXCEPT ![old] = NoLoadpoint]
    /\ Goto(c, IF f.v = NoVehicle THEN "assign" ELSE "acquire")
    /\ UNCHANGED <<vehicles, unseen, vehicle, vmu, vehicleDetect>>

\* Mutant: a vehicle another loadpoint owns is waited for, not taken.
AcquireFree(c) ==
    LET f == frame[c]
        free == tracked[f.v] \in {NoLoadpoint, f.lp}
    IN
    /\ f.pc = "acquire"
    /\ tracked' = IF free THEN [tracked EXCEPT ![f.v] = f.lp] ELSE tracked
    /\ frame' = IF free THEN [frame EXCEPT ![c].pc = "assign"] ELSE frame
    /\ UNCHANGED <<vehicles, unseen, vehicle, vmu, vehicleDetect>>

\* coordinator.Acquire(v): another owner is evicted by a call of its
\* SetVehicle(nil) from this goroutine.
Acquire(c) ==
    LET f == frame[c]
        owner == tracked[f.v]
    IN
    /\ f.pc = "acquire"
    /\ tracked' = [tracked EXCEPT ![f.v] = f.lp]
    /\ frame' = IF owner \in {NoLoadpoint, f.lp}
                THEN [frame EXCEPT ![c].pc = "assign"]
                ELSE [frame EXCEPT ![c].pc = "assign",
                                   ![Callee(c)] = Entered(owner, NoVehicle, "stop")]
    /\ UNCHANGED <<vehicles, unseen, vehicle, vmu, vehicleDetect>>

\* lp.vehicle = v; lp.vmu.Unlock(), once the eviction has returned.
Assign(c) ==
    LET f == frame[c] IN
    /\ f.pc = "assign"
    /\ c[2] = "caller" => frame[Callee(c)].pc = "idle"
    /\ vehicle' = [vehicle EXCEPT ![f.lp] = f.v]
    /\ vmu' = [vmu EXCEPT ![f.lp] = NoCall]
    /\ IF f.then = "leave" THEN Return(c) ELSE Goto(c, "detect")
    /\ UNCHANGED <<vehicles, unseen, tracked, vehicleDetect>>

\* The second section under vmu, of SetVehicle and StartVehicleDetection.
Detection(c) ==
    LET f == frame[c] IN
    /\ f.pc = "detect"
    /\ vmu[f.lp] = NoCall
    /\ vehicleDetect' = [vehicleDetect EXCEPT ![f.lp] = (f.then = "start")]
    /\ Return(c)
    /\ UNCHANGED <<vehicles, unseen, tracked, vehicle, vmu>>

Step(c) == Lock(c) \/ Release(c) \/ Acquire(c) \/ Assign(c) \/ Detection(c)

Start(p) ==
    \/ \E lp \in Loadpoints :
          \/ StartVehicleDetection(p, lp) \/ SwitchDetection(p, lp)
          \/ \E v \in OptVehicle : SetVehicle(p, lp, v) \/ SetActiveVehicle(p, lp, v)
    \/ \E v \in Vehicles : Add(p, v) \/ Delete(p, v)

Next ==
    \/ \E p \in Procs : Start(p)
    \/ \E c \in Calls : Step(c)

Spec == Init /\ [][Next]_vars

(***************************************************************************)
(* Fairness.  A goroutine that can run does run, and a sync.Mutex in its   *)
(* starvation mode hands the lock to the longest waiter, so a call that is *)
(* able to lock infinitely often gets the lock.                            *)
(***************************************************************************)
Fairness == \A c \in Calls : SF_vars(Step(c))

FairSpec == Spec /\ Fairness

-----------------------------------------------------------------------------
TypeOK ==
    /\ vehicles \subseteq Vehicles
    /\ unseen \subseteq Vehicles
    /\ tracked \in [Vehicles -> OptLoadpoint]
    /\ vehicle \in [Loadpoints -> OptVehicle]
    /\ vmu \in [Loadpoints -> Calls \cup {NoCall}]
    /\ vehicleDetect \in [Loadpoints -> BOOLEAN]
    /\ frame \in [Calls -> Frame]
    /\ \A c \in Calls : frame[c].pc # "idle" => frame[c].lp \in Loadpoints

\* The coordinator never names a loadpoint that does not have the vehicle: an
\* owner either is assigned the vehicle or is inside setActiveVehicle with it,
\* so that an eviction, or Owner's caller, always addresses a real holder.
\* setActiveVehicle releases before it assigns, on every interleaving.
TrackedIsHeld ==
    \A v \in Vehicles : tracked[v] # NoLoadpoint =>
        \/ vehicle[tracked[v]] = v
        \/ \E c \in Calls : /\ frame[c].pc = "assign"
                            /\ frame[c].lp = tracked[v]
                            /\ frame[c].v = v

\* A loadpoint that has a vehicle, with no assignment under way, owns it: "Owner
\* returns the loadpoint that currently owns the vehicle" (coordinator.go:44).
HolderIsOwner ==
    (\A p \in Procs : Idle(p)) =>
        \A lp \in Loadpoints : vehicle[lp] \in vehicles => tracked[vehicle[lp]] = lp

\* lp waits for other: lp's vmu is held by a goroutine whose eviction of other
\* needs a vmu that is held.
WaitsFor(lp, other) ==
    \E p \in Procs :
        /\ vmu[lp] = <<p, "caller">>
        /\ frame[<<p, "evict">>].pc \in {"lock", "detect"}
        /\ frame[<<p, "evict">>].lp = other
        /\ vmu[other] # NoCall

\* No cycle of loadpoints waiting for each other's vmu, of any length: nested
\* SetVehicle calls cannot deadlock, although every steal holds two vmu.
NoLockCycle ==
    ~ \E S \in SUBSET Loadpoints :
        /\ S # {}
        /\ \A lp \in S : \E other \in S : WaitsFor(lp, other)

\* Every call of setActiveVehicle returns: no goroutine of the control loop or
\* of the API is stuck behind an eviction.
CallsReturn == \A c \in Calls : frame[c].pc # "idle" ~> frame[c].pc = "idle"

=============================================================================
