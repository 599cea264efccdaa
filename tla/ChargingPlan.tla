----------------------------- MODULE ChargingPlan -----------------------------
(***************************************************************************)
(* The charging plans of a vehicle: core/loadpoint_plan.go, with the plans *)
(* of loadpoint_effective.go and vehicle/adapter.go.  In every cycle       *)
(* plannerActive decides whether the loadpoint charges to keep a plan.     *)
(* Meanwhile the tariff is updated and the user changes the plan.          *)
(*                                                                         *)
(* The vehicle's state of charge rises by one per tick of full power.      *)
(***************************************************************************)
EXTENDS Planner

CONSTANTS
    Full,           \* the state of charge of 100%
    MaxTime,        \* bound: the clock stops
    Day,            \* until a repeating plan's next occurrence
    Tariffs,        \* the rates there may be, {} for none
    Strategies,     \* the vehicle's api.PlanStrategy
    StaticPlans,    \* what the user may plan: a goal and its time
    RepeatingPlan,  \* an active repeating plan, or NoPlan
    NoTime

\* A goal of zero is no plan.
NoPlan == [id |-> 0, time |-> NoTime, goal |-> 0]
Goals == [id : 1 .. 2, time : Nat, goal : 1 .. Full]

ASSUME PlanAssumption ==
    /\ Full \in Nat /\ MaxTime \in Nat /\ Day \in Nat
    /\ NoTime \notin Int
    /\ \A slots \in Tariffs : Proper(slots)
    /\ StaticPlans \subseteq {p \in Goals : p.id = 1}
    /\ RepeatingPlan \in {p \in Goals : p.id = 2} \cup {NoPlan}
    /\ \A s \in Strategies : s.precondition \in Nat /\ s.continuous \in BOOLEAN

VARIABLES
    now,
    rates,          \* the tariff's rates, as they are known
    strategy,
    soc,            \* vehicleSoc
    connected,
    static,         \* the vehicle's plan, or NoPlan
    planLocked,     \* Loadpoint.planLocked
    planActive,     \* Loadpoint.planActive
    planSlotEnd,    \* Loadpoint.planSlotEnd
    pc,             \* what the loop does next
    read,           \* what plannerActive has read of the plan
    pause           \* history: ticks since a plan was paused, SlotDuration if long ago

settings == <<rates, strategy, connected, static>>
active == <<planLocked, planActive, planSlotEnd>>
vars == <<now, soc, settings, active, pc, read, pause>>

Init ==
    /\ now = 0
    /\ rates \in Tariffs
    /\ strategy \in Strategies
    /\ soc = 0
    /\ connected = FALSE
    /\ static = NoPlan
    /\ planLocked = NoPlan
    /\ planActive = FALSE
    /\ planSlotEnd = NoTime
    /\ pc = "time"
    /\ read = NoPlan
    /\ pause = SlotDuration

-----------------------------------------------------------------------------
(* The plan in effect.                                                     *)

RequiredDuration(goal) == Later(0, goal - soc)

\* GetNextOccurrence.
Repeating ==
    IF RepeatingPlan = NoPlan \/ now <= RepeatingPlan.time THEN RepeatingPlan
    ELSE [RepeatingPlan EXCEPT !.time = @ + Day]

\* nextActivePlan: of the plans not yet reached, the one to be started first; of
\* two the static one.
NextActivePlan ==
    LET LatestStart(p) == p.time - RequiredDuration(p.goal)
        plans == {p \in {static, Repeating} : p # NoPlan /\ soc < p.goal}
        first == {p \in plans : \A other \in plans :
                    \/ LatestStart(p) < LatestStart(other)
                    \/ LatestStart(p) = LatestStart(other) /\ p.id <= other.id}
    IN  IF plans = {} THEN NoPlan ELSE CHOOSE p \in first : TRUE

\* Mutant: the next plan, whatever goal has been committed to.
NextPlanAlways == NextActivePlan

NextVehiclePlan == IF planLocked # NoPlan THEN planLocked ELSE NextActivePlan

-----------------------------------------------------------------------------
(* plannerActive, in three steps: the time, the goal and the rest are read  *)
(* one after the other, without a lock in between.                         *)

ReadPlanTime ==
    /\ pc = "time"
    /\ pc' = "goal"
    /\ read' = NextVehiclePlan
    /\ UNCHANGED <<now, soc, settings, active, pause>>

ReadPlanGoal ==
    /\ pc = "goal"
    /\ pc' = "decide"
    /\ read' = [read EXCEPT !.goal = NextVehiclePlan.goal]
    /\ UNCHANGED <<now, soc, settings, active, pause>>

\* Mutant: the end of the slot is remembered.
InactiveKeepsSlot ==
    /\ planActive' = FALSE
    /\ planLocked' = NoPlan
    /\ UNCHANGED planSlotEnd

\* setPlanActive(false).
Inactive ==
    /\ planActive' = FALSE
    /\ planLocked' = NoPlan
    /\ planSlotEnd' = NoTime

\* finishPlan: a repeating plan is kept.
FinishPlan == static' = IF NextVehiclePlan.id > 1 THEN static ELSE NoPlan

\* Nothing is planned.
Unplanned == ~connected \/ read.time = NoTime

\* An overrunning plan is kept as long as it is active.
Expired == read.time < now /\ ~planActive

Required == RequiredDuration(read.goal)

\* A plan for 100% goes on until the vehicle is disconnected.
Reached == Required = 0
ReachedFull == Reached /\ planActive /\ read.goal = Full

EffectivePlan == Plan(rates, now, Required, strategy.precondition, read.time, strategy.continuous)

\* Mutant: a short slot is never worth starting.
DeferredAlone(slot, plan) == ~planActive /\ slot.end - now < SlotDuration

\* A short slot is not worth starting, if a later one follows anyway.  (A tick is
\* longer than the minute that makes a slot short, here and in Continues.)
Deferred(slot, plan) ==
    /\ ~planActive
    /\ slot.end - now < SlotDuration
    /\ SlotHasLaterSuccessor(slot, plan)

\* Mutant: a pause may be short.
ContinuesOrPauses(plan) ==
    /\ planActive
    /\ \/ read.time < now
       \/ planSlotEnd # NoTime /\ now < planSlotEnd /\ Required > strategy.precondition
       \/ Required < SlotDuration /\ Required > strategy.precondition
       \/ strategy.continuous /\ Required > strategy.precondition

\* The plan is continued outside its slots: after its time, to the end of the slot
\* it was started in, for a short remainder, to avoid a short pause, or because
\* it is to be continuous.
Continues(plan) ==
    /\ planActive
    /\ \/ read.time < now
       \/ planSlotEnd # NoTime /\ now < planSlotEnd /\ Required > strategy.precondition
       \/ Required < SlotDuration /\ Required > strategy.precondition
       \/ Start(plan) - now < SlotDuration
       \/ strategy.continuous /\ Required > strategy.precondition

\* The goal is locked when the plan becomes active; the id is read only now.
LockPlanGoal ==
    planLocked' = IF planLocked # NoPlan THEN planLocked
                  ELSE LET id == NextVehiclePlan.id
                       IN  IF id = 0 THEN NoPlan ELSE [read EXCEPT !.id = id]

\* The plan in effect is paused.
Pause(plan) ==
    pause' = IF planActive /\ ~planActive' /\ plan # {} /\ NextVehiclePlan' = read
             THEN 0 ELSE pause

Decide(plan) ==
    /\ pc = "decide"
    /\ pc' = "tick"
    /\ \/ /\ Unplanned
          /\ Inactive
          /\ UNCHANGED static
       \/ /\ ~Unplanned
          /\ Expired \/ (Reached /\ ~ReachedFull)
          /\ FinishPlan
          /\ Inactive
       \/ /\ ~Unplanned /\ ~Expired /\ ReachedFull
          /\ UNCHANGED <<static, active>>
       \/ /\ ~Unplanned /\ ~Expired /\ ~Reached
          /\ UNCHANGED static
          /\ \/ \E slot \in SlotAt(now, plan) :
                   IF Deferred(slot, plan) THEN Inactive
                   ELSE /\ planActive' = TRUE
                        /\ LockPlanGoal
                        /\ planSlotEnd' = slot.end
             \/ /\ SlotAt(now, plan) = {}
                /\ IF plan # {} /\ Continues(plan) THEN UNCHANGED active ELSE Inactive
    /\ UNCHANGED <<now, soc, rates, strategy, connected, read>>
    /\ Pause(plan)

-----------------------------------------------------------------------------
(* The surroundings.                                                       *)

\* The vehicle charges at full power if the plan is active, or less.
Tick(charged) ==
    /\ pc = "tick" /\ now < MaxTime
    /\ charged = 1 => planActive /\ soc < Full
    /\ now' = now + 1
    /\ soc' = soc + charged
    /\ pc' = "time"
    /\ read' = NoPlan
    /\ pause' = Earlier(pause + 1, SlotDuration)
    /\ UNCHANGED <<settings, active>>

\* The loop is asked for another cycle.
RequestUpdate ==
    /\ pc' = IF pc = "tick" THEN "time" ELSE pc
    /\ read' = IF pc = "tick" THEN NoPlan ELSE read
    /\ pause' = SlotDuration

\* The status changes in Update, before plannerActive.
Connect ==
    /\ pc = "time" /\ ~connected
    /\ connected' = TRUE
    /\ UNCHANGED <<now, soc, rates, strategy, static, active, pc, read, pause>>

Disconnect ==
    /\ pc = "time" /\ connected
    /\ connected' = FALSE
    /\ Inactive
    /\ pause' = SlotDuration
    /\ UNCHANGED <<now, soc, rates, strategy, static, pc, read>>

NewRates ==
    /\ rates' \in Tariffs \ {rates}
    /\ pause' = SlotDuration
    /\ UNCHANGED <<now, soc, strategy, connected, static, active, pc, read>>

\* SetPlanSoc: the lock is cleared.
SetPlanSoc ==
    /\ static' \in ({p \in StaticPlans : now <= p.time} \cup {NoPlan}) \ {static}
    /\ planLocked' = NoPlan
    /\ RequestUpdate
    /\ UNCHANGED <<now, soc, rates, strategy, connected, planActive, planSlotEnd>>

\* SetMode, to now or off.
SetMode ==
    /\ Inactive
    /\ RequestUpdate
    /\ UNCHANGED <<now, soc, settings>>

Loop ==
    \/ ReadPlanTime
    \/ ReadPlanGoal
    \/ \E plan \in {IF Unplanned THEN {} ELSE EffectivePlan} : Decide(plan)

Next ==
    \/ Loop
    \/ \E charged \in 0 .. 1 : Tick(charged)
    \/ Connect \/ Disconnect \/ NewRates \/ SetPlanSoc \/ SetMode

Spec == Init /\ [][Next]_vars

-----------------------------------------------------------------------------
(* Properties.                                                             *)

\* Types of the variables.
TypeOK ==
    /\ now \in 0 .. MaxTime
    /\ rates \in Tariffs
    /\ strategy \in Strategies
    /\ soc \in 0 .. Full
    /\ connected \in BOOLEAN
    /\ static \in StaticPlans \cup {NoPlan}
    /\ planLocked # NoPlan => planLocked \in Goals
    /\ planActive \in BOOLEAN
    /\ planSlotEnd # NoTime => planActive /\ planSlotEnd \in Nat
    /\ pc \in {"time", "goal", "decide", "tick"}
    /\ pause \in 0 .. SlotDuration

\* plannerActive has an effective plan to make.
Planning == pc = "decide" /\ ~Unplanned /\ Required > 0

\* A plan is as long as what is needed, without the time that is left after the
\* last rate, and it is within the time there is.
PlanFits ==
    Planning =>
        LET plan == EffectivePlan
            target == Later(read.time, now + Required)
            beyond == IF rates = {} \/ target = now + Required THEN 0
                      ELSE Later(0, target - End(rates))
        IN  plan # {} =>
                /\ now <= Start(plan) /\ End(plan) <= target
                /\ Duration(plan) \in {Required, Required - beyond}

Price(t) == (CHOOSE r \in rates : t \in r.start .. r.end - 1).value

\* No time that is used before the preconditioning costs more than any that is
\* not used, as long as the rates suffice.
PlanIsCheapest ==
    Planning /\ rates # {} /\ ~strategy.continuous =>
        LET plan == EffectivePlan
            window == {t \in now .. Earlier(read.time - strategy.precondition, End(rates)) - 1 :
                          SlotAt(t, rates) # {}}
            used == {t \in window : SlotAt(t, plan) # {}}
        IN  Required <= Duration(Clamp(rates, now, read.time)) =>
                \A t \in used, u \in window \ used : Price(t) <= Price(u)

\* What is in effect can still be reached.
InTime == RequiredDuration(NextVehiclePlan.goal) <= NextVehiclePlan.time - now

\* One cycle's charging, for the plan in effect.
Charging ==
    /\ pc = "tick" /\ pc' = "time" /\ now' = now + 1
    /\ connected /\ NextVehiclePlan # NoPlan
    /\ read.time = NextVehiclePlan.time /\ read.goal = NextVehiclePlan.goal

\* Waiting for cheap slots, deferring short ones and pausing never loses the
\* goal: as long as the vehicle charges when it is told to, what could be reached
\* in time can still be.
DeadlineKept ==
    [][Charging /\ (planActive => soc' = soc + 1) /\ NextVehiclePlan' = NextVehiclePlan /\ InTime
          => InTime']_vars

\* "an overrunning plan keeps charging towards that goal instead of jumping to
\* the next plan" (PlanLock).
GoalKept ==
    [][Charging /\ planActive /\ soc' < NextVehiclePlan.goal
          => NextVehiclePlan' = NextVehiclePlan]_vars

\* A plan that is paused is not resumed before a slot's length ("avoid re-start"),
\* as long as nothing else happens: the pause is no longer followed once the rates or
\* the vehicle have changed, a plan or a mode has been set, or an update has been
\* requested (NewRates, SetPlanSoc, SetMode, Disconnect, RequestUpdate).
NoShortPause ==
    [][pc = "decide" /\ ~planActive /\ planActive' => pause = SlotDuration]_vars
=============================================================================
