----------------------------- MODULE ChargeControl -----------------------------
(***************************************************************************)
(* The control cycle of one loadpoint and the charger it drives.           *)
(*                                                                         *)
(* Loadpoint.Update runs in the site's control loop: it reads the charger's *)
(* status, synchronizes what the loadpoint believes with what the charger  *)
(* says, reads the charge mode and then executes the charging strategy,    *)
(* which ends in a current limit (setLimit) and sometimes a phase switch.  *)
(* Between these steps the user's requests arrive (other goroutines), the  *)
(* vehicle is plugged, unplugged, starts and stops, and the charger may    *)
(* act on its own or be operated from elsewhere.  A call to the charger    *)
(* can fail, and one that fails may still have been obeyed.                *)
(*                                                                         *)
(* Time is counted in ticks, powers in amperes times phases.  The vehicle  *)
(* draws the current it is offered.  There is no circuit, the charger      *)
(* reports its phases, and solar share and thresholds are the defaults.    *)
(***************************************************************************)
EXTENDS Integers, Sequences

CONSTANTS
    MinCurrent,         \* effectiveMinCurrent
    MaxCurrent,         \* effectiveMaxCurrent
    AvailPower,         \* surplus a cycle may find, the charge power included
    HasPhaseSwitching,  \* the charger switches between one and three phases
    HasCurrentGetter,   \* the charger reports the current it is set to
    Modes,              \* the charge modes the user selects
    AlwaysCharges,      \* the settings of always charge the user selects
    PhaseSettings,      \* the phase configurations the user selects
    DefaultMode,        \* mode restored on disconnect, or NoMode
    NoMode,
    EnableDelay,        \* ticks of surplus before pv mode enables
    DisableDelay,       \* ticks of shortage before pv mode disables
    SwitchDuration      \* chargerSwitchDuration, phaseSwitchDuration

ASSUME ChargeControlAssumption ==
    /\ MinCurrent \in Nat \ {0}
    /\ MaxCurrent \in Nat /\ MinCurrent <= MaxCurrent
    /\ AvailPower \subseteq Int
    /\ HasPhaseSwitching \in BOOLEAN
    /\ HasCurrentGetter \in BOOLEAN
    /\ Modes \subseteq {"off", "now", "smart"}
    /\ AlwaysCharges \subseteq {"off", "on", "once"}
    /\ PhaseSettings \subseteq {0, 1, 3}
    /\ NoMode \notin {"off", "now", "smart"}
    /\ DefaultMode \in {"off", "now", "smart", NoMode}
    /\ EnableDelay \in Nat \ {0}
    /\ DisableDelay \in Nat \ {0}
    /\ SwitchDuration \in Nat

VARIABLES
    status,             \* Loadpoint.status
    lp,                 \* what the control loop believes and its timers
    charger,            \* the device
    mode,               \* Loadpoint.mode
    alwaysCharge,       \* Loadpoint.alwaysCharge
    phasesConfigured,   \* Loadpoint.phasesConfigured, 0 is automatic
    limited,            \* LimitEnergyReached or LimitSocReached
    pc,                 \* next step of the control loop
    seenMode,           \* local of Update: the mode it read
    welcome             \* local of Update: welcomeCharge

vars == <<status, lp, charger, mode, alwaysCharge, phasesConfigured, limited, pc, seenMode, welcome>>

userVars == <<mode, alwaysCharge, phasesConfigured, limited>>

-----------------------------------------------------------------------------
(***************************************************************************)
(* A timer is Zero, or it counts ticks since it was started.  A timer set  *)
(* to the past (elapsed in the code) has passed every delay.               *)
(***************************************************************************)
LongestDelay == IF EnableDelay > DisableDelay THEN EnableDelay ELSE DisableDelay

Zero    == -1
Elapsed == LongestDelay + 1
Timers  == Zero .. Elapsed

Older(t) == IF t \in 0 .. (LongestDelay - 1) THEN t + 1 ELSE t

Started(t) == IF t = Zero THEN 0 ELSE t

\* chargerSwitched and phasesSwitched: ticks since then, as far as they matter.
Ages == 0 .. (SwitchDuration + 1)

Completed(age) == age > SwitchDuration

Statuses == {"none", "A", "B", "C"}

Currents == {0} \cup (MinCurrent .. MaxCurrent)

Loadpoint == [enabled : BOOLEAN, offered : Currents, phases : {1, 3},
              pvTimer : Timers, phaseTimer : Timers,
              chargerSwitched : Ages, phasesSwitched : Ages]

(***************************************************************************)
(* strayed: since the last consistent synchronization the device may have  *)
(* changed without the loadpoint knowing.  surged: a device that had not   *)
(* strayed was switched to three phases above the minimum current.         *)
(***************************************************************************)
Charger == [status : {"A", "B", "C"}, enabled : BOOLEAN, current : Currents,
            phases : {1, 3}, strayed : BOOLEAN, surged : BOOLEAN]

TypeOK ==
    /\ status \in Statuses
    /\ lp \in Loadpoint
    /\ charger \in Charger
    /\ mode \in {"off", "now", "smart"}
    /\ alwaysCharge \in {"off", "on", "once"}
    /\ phasesConfigured \in {0, 1, 3}
    /\ limited \in BOOLEAN
    /\ pc \in {"status", "sync", "strategy"}
    /\ seenMode \in {"off", "now", "smart"}
    /\ welcome \in BOOLEAN

-----------------------------------------------------------------------------
(***************************************************************************)
(* The strategy calls the charger several times, and each call may fail.   *)
(* An operation maps a situation, loadpoint, charger and error, to the set *)
(* of situations it may end in.                                            *)
(***************************************************************************)
Situation == [lp |-> lp, charger |-> charger, err |-> "none"]

\* A call that succeeds leads to ok.  One that fails leaves the loadpoint
\* alone; the device may have obeyed all the same.
Call(s, device, ok) ==
    {[ok EXCEPT !.charger = device],
     [s EXCEPT !.err = "failed"],
     [s EXCEPT !.err = "failed", !.charger = [device EXCEPT !.strayed = TRUE]]}

SetCurrent(s, current) ==
    IF current = s.lp.offered \/ current < MinCurrent
    THEN {s}
    ELSE Call(s, [s.charger EXCEPT !.current = current], [s EXCEPT !.lp.offered = current])

\* Mutant: what is believed is changed before the charger is asked.
SetEnabledEarly(s, current) ==
    LET enabled == current >= MinCurrent
    IN  IF enabled = s.lp.enabled
        THEN {s}
        ELSE Call([s EXCEPT !.lp.enabled = enabled],
                  [s.charger EXCEPT !.enabled = enabled],
                  [s EXCEPT !.lp.enabled = enabled, !.lp.chargerSwitched = 0,
                            !.lp.offered = IF enabled THEN @ ELSE 0])

SetEnabled(s, current) ==
    LET enabled == current >= MinCurrent
    IN  IF enabled = s.lp.enabled
        THEN {s}
        ELSE Call(s, [s.charger EXCEPT !.enabled = enabled],
                  [s EXCEPT !.lp.enabled = enabled, !.lp.chargerSwitched = 0,
                            !.lp.offered = IF enabled THEN @ ELSE 0])

\* The current first, then whether the charger is enabled at all.
SetLimit(s, current) ==
    UNION {IF t.err = "none" THEN SetEnabled(t, current) ELSE {t} : t \in SetCurrent(s, current)}

SwitchPhases(s, phases) ==
    Call(s, [s.charger EXCEPT !.phases = phases,
                              !.surged = @ \/ /\ phases > s.charger.phases
                                              /\ ~s.charger.strayed
                                              /\ s.charger.enabled
                                              /\ s.charger.current > MinCurrent],
         [s EXCEPT !.lp.phases = phases, !.lp.phaseTimer = Zero, !.lp.phasesSwitched = 0])
    \cup {[s EXCEPT !.err = "unavailable"]}

\* Mutant: the phases are switched at the current that is set.
ScalePhasesDirect(s, phases) ==
    IF s.lp.phases = phases THEN {s} ELSE SwitchPhases(s, phases)

ScalePhases(s, phases) ==
    IF s.lp.phases = phases
    THEN {s}
    ELSE UNION {IF t.err = "none" THEN SwitchPhases(t, phases) ELSE {t} :
                t \in IF s.lp.enabled /\ phases > 1 THEN SetLimit(s, MinCurrent) ELSE {s}}

\* The switch was not possible right now: go on with the phases as they are.
Tolerated(s) == [s EXCEPT !.err = IF @ = "unavailable" THEN "none" ELSE @]

ScalePhasesIfAvailable(s, phases) ==
    LET wanted == IF phasesConfigured = 0 THEN phases ELSE phasesConfigured
    IN  IF HasPhaseSwitching
        THEN {Tolerated(t) : t \in ScalePhases(s, wanted)}
        ELSE {s}

FastCharging(s) ==
    UNION {LET u == [t EXCEPT !.lp.phaseTimer = Zero]
           IN  IF u.err = "none" THEN SetLimit(u, MaxCurrent) ELSE {u} :
           t \in IF Completed(s.lp.phasesSwitched) THEN ScalePhasesIfAvailable(s, 3) ELSE {s}}

MinCharging(s) ==
    UNION {IF t.err = "none" THEN SetLimit(t, MinCurrent) ELSE {t} :
           t \in ScalePhasesIfAvailable(s, 1)}

ElapsePVTimer(S) == {[s EXCEPT !.lp.pvTimer = Elapsed] : s \in S}

-----------------------------------------------------------------------------
(***************************************************************************)
(* Surplus charging.  avail is the power left for the loadpoint, and now   *)
(* the one condition that matters most in a cycle: minimum soc or a plan   *)
(* (forced), a cheap tariff, an attractive feed-in, the vehicle's climate  *)
(* control, a home battery that holds charging at the minimum, or nothing. *)
(***************************************************************************)
Conditions == {"forced", "cheap", "feedIn", "climate", "support", "nothing"}

Climate(in) == in.now = "climate"

ChargePower == IF status = "C" THEN lp.offered * lp.phases ELSE 0

SitePower(in) == ChargePower - in.avail

\* Mutant: always charge is forgotten.
HoldSupported(in) == in.now = "support"

Hold(in) == alwaysCharge # "off" \/ in.now = "support"

MaxPhases == IF phasesConfigured = 1 THEN 1 ELSE 3

ScaleDown(s, in) ==
    /\ s.lp.phases > 1
    /\ phasesConfigured < 3
    /\ SitePower(in) > 0 \/ ~s.lp.enabled
    /\ in.avail < MinCurrent * s.lp.phases
    /\ ~s.lp.enabled \/ status # "C" \/ Hold(in) \/ in.avail >= MinCurrent \/ Climate(in)

ScaleUp(s, in) ==
    /\ s.lp.phases < MaxPhases
    /\ in.avail > MaxCurrent
    /\ in.avail >= MinCurrent * MaxPhases

\* The phase timer runs while a switch is called for, and the switch is made
\* once it has passed the delay, at once when the vehicle is not charging.
TimedScale(s, phases, delay) ==
    LET t == [s EXCEPT !.lp.phaseTimer = IF status # "C" THEN Elapsed ELSE Started(@)]
    IN  IF t.lp.phaseTimer >= delay
        THEN {[u EXCEPT !.err = "none"] : u \in ScalePhases(t, phases)}
        ELSE {t}

PvScalePhases(s, in) ==
    IF ~HasPhaseSwitching \/ ~Completed(s.lp.phasesSwitched) THEN {s}
    ELSE IF ScaleDown(s, in) THEN TimedScale(s, 1, DisableDelay)
    ELSE IF ScaleUp(s, in) THEN TimedScale(s, 3, EnableDelay)
    ELSE {[s EXCEPT !.lp.phaseTimer = Zero]}

\* The current the surplus allows on the phases of s.  Power measured before
\* a switch to three phases is spread over them.
AvailableCurrent(s, in) ==
    IF s.lp.phases > lp.phases
    THEN in.avail \div s.lp.phases
    ELSE (IF status = "C" THEN s.lp.offered ELSE 0) + (-SitePower(in)) \div s.lp.phases

\* Site power once a pending switch to one phase has been made.
ProjectedPower(s, in) ==
    IF HasPhaseSwitching /\ s.lp.phaseTimer # Zero
    THEN SitePower(in) - MinCurrent * (s.lp.phases - 1)
    ELSE SitePower(in)

\* One step of the pv timer: called says whether the switch is called for.
\* The current is held until the delay has passed and then becomes next.
PvTimer(s, called, delay, held, next) ==
    LET timer == Started(s.lp.pvTimer)
    IN  IF ~called THEN [timer |-> Zero, current |-> held]
        ELSE IF timer >= delay THEN [timer |-> Zero, current |-> next]
        ELSE [timer |-> timer, current |-> held]

\* Mutant: the maximum is forgotten.
Uncapped(current) == current

Capped(current) == IF current < MaxCurrent THEN current ELSE MaxCurrent

\* pvMaxCurrent after any phase switch: the timer and the target current.
PvTarget(s, in) ==
    LET available == AvailableCurrent(s, in)
    IN  IF available >= MinCurrent /\ (s.lp.enabled \/ alwaysCharge # "off")
          THEN [timer |-> Zero, current |-> Capped(available)]
        ELSE IF Hold(in) /\ available < MinCurrent
          THEN [timer |-> s.lp.pvTimer, current |-> MinCurrent]
        ELSE IF s.lp.enabled
          THEN PvTimer(s, ProjectedPower(s, in) >= 0 /\ ~Climate(in), DisableDelay, MinCurrent, 0)
          ELSE PvTimer(s, available >= MinCurrent, EnableDelay, 0, MinCurrent)

\* The battery support that holds charging also stops the disable timer.
BatterySupported(s, in) ==
    IF in.now = "support" /\ s.lp.enabled THEN [s EXCEPT !.lp.pvTimer = Zero] ELSE s

PvCharging(s, in) ==
    UNION {LET pv == PvTarget(t, in)
               kept == pv.current = 0 /\ ~Climate(in) /\ welcome
           IN  SetLimit([t EXCEPT !.lp.pvTimer = IF kept THEN Zero ELSE pv.timer],
                        IF pv.current = 0 /\ (Climate(in) \/ welcome) THEN MinCurrent ELSE pv.current) :
           t \in PvScalePhases(BatterySupported(s, in), in)}

SmartCharging(s, in) ==
    IF in.now = "cheap" THEN ElapsePVTimer(FastCharging(s))
    ELSE IF in.now = "feedIn"
    THEN ElapsePVTimer({[t EXCEPT !.lp.phaseTimer = Zero] :
            t \in IF alwaysCharge # "off" THEN MinCharging(s) ELSE SetLimit(s, 0)})
    ELSE PvCharging(s, in)

\* A fixed phase configuration goes before the mode.  When the charger cannot
\* switch now, its phases are assumed to be as configured from here on.
ApplyPhases(s) ==
    {IF t.err = "unavailable"
     THEN [t EXCEPT !.err = "none", !.lp.phases = phasesConfigured, !.lp.phaseTimer = Zero]
     ELSE t : t \in ScalePhases(s, phasesConfigured)}

\* Mutant: minimum soc and plan go before mode off.
StrategiesForcedFirst(s, in) ==
    IF status \notin {"B", "C"} THEN SetLimit(s, 0)
    ELSE IF HasPhaseSwitching /\ phasesConfigured \notin {0, s.lp.phases} THEN ApplyPhases(s)
    ELSE IF in.now = "forced" THEN ElapsePVTimer(FastCharging(s))
    ELSE IF seenMode = "off" THEN SetLimit(s, IF welcome THEN MinCurrent ELSE 0)
    ELSE IF limited THEN SetLimit(s, IF Climate(in) THEN MinCurrent ELSE 0)
    ELSE IF seenMode = "now" THEN FastCharging(s)
    ELSE SmartCharging(s, in)

\* The switch statement of Update.
Strategies(s, in) ==
    IF status \notin {"B", "C"} THEN SetLimit(s, 0)
    ELSE IF HasPhaseSwitching /\ phasesConfigured \notin {0, s.lp.phases} THEN ApplyPhases(s)
    ELSE IF seenMode = "off" THEN SetLimit(s, IF welcome THEN MinCurrent ELSE 0)
    ELSE IF in.now = "forced" THEN ElapsePVTimer(FastCharging(s))
    ELSE IF limited THEN SetLimit(s, IF Climate(in) THEN MinCurrent ELSE 0)
    ELSE IF seenMode = "now" THEN FastCharging(s)
    ELSE SmartCharging(s, in)

-----------------------------------------------------------------------------
(***************************************************************************)
(* What a change of status, and a change of mode, does to the loadpoint.   *)
(***************************************************************************)
ModeTimers(l, m) ==
    CASE m \in {"now", "off"} -> [l EXCEPT !.phaseTimer = Zero, !.pvTimer = Zero]
      [] m = "smart" /\ alwaysCharge # "off" -> [l EXCEPT !.pvTimer = Zero]
      [] OTHER -> l

SyncChargerPhases(l) ==
    IF HasPhaseSwitching /\ charger.phases # l.phases
    THEN [l EXCEPT !.phases = charger.phases, !.phaseTimer = Zero]
    ELSE l

EvVehicleConnect(l) == [SyncChargerPhases(l) EXCEPT !.pvTimer = Elapsed]

EvChargeStop(l) == IF l.pvTimer = Elapsed THEN l ELSE [l EXCEPT !.pvTimer = Zero]

EvVehicleDisconnect(l) ==
    IF DefaultMode \in {NoMode, mode} THEN l ELSE ModeTimers(l, DefaultMode)

Connects(prev, new) == prev = "A" \/ (new # "A" /\ prev = "none")

\* The handlers of the events a change from prev to new leads to, in order.
Handled(l, prev, new) ==
    LET c == IF Connects(prev, new) THEN EvVehicleConnect(l) ELSE l
        d == IF prev = "C" THEN EvChargeStop(c) ELSE c
    IN  IF new = "A" THEN EvVehicleDisconnect(d) ELSE d

\* A stop the phase switch causes is ignored until the switch is completed.
Interrupted == charger.status = "B" /\ status = "C" /\ ~Completed(lp.phasesSwitched)

\* The status changes since the last cycle, oldest first.  dropped: the charger
\* counts the connection from zero again, so the vehicle has been away.
StatusChanges(dropped) ==
    CASE Interrupted -> <<>>
      [] dropped /\ charger.status # "A" /\ status \notin {"A", "none"} -> <<"A", charger.status>>
      [] charger.status # status -> <<charger.status>>
      [] OTHER -> <<>>

-----------------------------------------------------------------------------
(***************************************************************************)
(* The control loop.                                                       *)
(***************************************************************************)

\* A status that cannot be read ends the cycle, as if it had not begun.
UpdateChargerStatus ==
    /\ pc = "status"
    /\ pc' = "sync"
    /\ \E dropped, wanted \in BOOLEAN :
          LET changes == StatusChanges(dropped)
              away    == changes # <<>> /\ changes[1] = "A"
          IN  /\ status' = IF changes = <<>> THEN status ELSE charger.status
              /\ lp' = CASE changes = <<>> -> lp
                         [] Len(changes) = 1 -> Handled(lp, status, changes[1])
                         [] OTHER -> Handled(Handled(lp, status, "A"), "A", changes[2])
              /\ mode' = IF away /\ DefaultMode # NoMode THEN DefaultMode ELSE mode
              /\ alwaysCharge' = IF away /\ alwaysCharge = "once" THEN "off" ELSE alwaysCharge
              /\ limited' = (limited /\ ~away)
              /\ welcome' = /\ wanted
                            /\ changes # <<>>
                            /\ changes[Len(changes)] # "A"
                            /\ status = "A" \/ Len(changes) = 2
    /\ UNCHANGED <<charger, phasesConfigured, seenMode>>

\* May the loadpoint adopt what the charger says?
ShouldBeConsistent == Completed(lp.chargerSwitched) /\ Completed(lp.phasesSwitched)

\* Mutant: the charger is not asked for its current.
SyncedCurrentNot == lp.offered

\* Both enabled: take over the current the charger is set to or, unless it can
\* tell, a measured current that is clearly higher; then its phases.
SyncedCurrent ==
    IF HasCurrentGetter \/ (status = "C" /\ charger.current > lp.offered + 1)
    THEN charger.current
    ELSE lp.offered

SyncEnabled(s) ==
    LET t == [s EXCEPT !.lp.offered = SyncedCurrent]
    IN  IF ShouldBeConsistent
        THEN {[t EXCEPT !.lp = SyncChargerPhases(@), !.charger.strayed = FALSE],
              [t EXCEPT !.err = "failed"]}
        ELSE {t}

\* Charging though disabled: enable the charger to correct its state.  The
\* loadpoint treats it as enabled even when that fails.
CorrectCharger(s) ==
    LET on == [s.charger EXCEPT !.enabled = TRUE, !.strayed = TRUE]
    IN  Call([s EXCEPT !.lp.enabled = TRUE, !.charger.strayed = TRUE], on,
             [s EXCEPT !.lp.enabled = TRUE, !.lp.pvTimer = Elapsed])

SyncDisabled(s) ==
    {IF ShouldBeConsistent /\ s.charger.phases = s.lp.phases
     THEN [s EXCEPT !.charger.strayed = FALSE]
     ELSE s}

SyncCharger(s) ==
    LET lost    == /\ ~charger.enabled /\ status = "C" /\ Completed(lp.phasesSwitched)
        enabled == charger.enabled \/ lost
    IN  IF lost /\ ShouldBeConsistent THEN CorrectCharger(s)
        ELSE IF enabled /\ lp.enabled THEN SyncEnabled(s)
        ELSE IF enabled = lp.enabled THEN SyncDisabled(s)
        ELSE IF ~enabled /\ ~Completed(lp.phasesSwitched)
        THEN Call(s, [s.charger EXCEPT !.enabled = TRUE], s)
        ELSE {IF ShouldBeConsistent THEN [s EXCEPT !.lp.enabled = enabled] ELSE s}

\* An error ends the cycle, otherwise it goes on with the mode of this moment.
Sync ==
    /\ pc = "sync"
    /\ \E s \in SyncCharger(Situation) :
          /\ lp' = s.lp
          /\ charger' = s.charger
          /\ pc' = IF s.err = "none" THEN "strategy" ELSE "status"
    /\ seenMode' = mode
    /\ UNCHANGED <<status, welcome, userVars>>

\* The charger does not say whether it is enabled.
SyncFails ==
    /\ pc = "sync"
    /\ pc' = "status"
    /\ UNCHANGED <<status, lp, charger, seenMode, welcome, userVars>>

Inputs == [avail : AvailPower, now : Conditions]

\* The strategy is executed and ends with error err.
StrategyEnds(err) ==
    /\ pc = "strategy"
    /\ \E in \in Inputs : \E s \in Strategies(Situation, in) :
          /\ s.err = err
          /\ lp' = s.lp
          /\ charger' = s.charger
    /\ pc' = "status"
    /\ UNCHANGED <<status, seenMode, welcome, userVars>>

Strategy == \E err \in {"none", "failed", "unavailable"} : StrategyEnds(err)

Tick ==
    /\ pc = "status"
    /\ lp' = [lp EXCEPT !.pvTimer = Older(@), !.phaseTimer = Older(@),
                        !.chargerSwitched = IF Completed(@) THEN @ ELSE @ + 1,
                        !.phasesSwitched = IF Completed(@) THEN @ ELSE @ + 1]
    /\ UNCHANGED <<status, charger, pc, seenMode, welcome, userVars>>

-----------------------------------------------------------------------------
(***************************************************************************)
(* The user, through other goroutines.                                     *)
(***************************************************************************)
SetMode ==
    /\ \E m \in Modes \ {mode} : mode' = m /\ lp' = ModeTimers(lp, m)
    /\ UNCHANGED <<status, charger, alwaysCharge, phasesConfigured, limited, pc, seenMode, welcome>>

SetAlwaysCharge ==
    /\ \E ac \in AlwaysCharges \ {alwaysCharge} :
          /\ alwaysCharge' = ac
          /\ lp' = IF ac # "off" THEN [lp EXCEPT !.pvTimer = Zero] ELSE lp
    /\ UNCHANGED <<status, charger, mode, phasesConfigured, limited, pc, seenMode, welcome>>

SetPhasesConfigured ==
    /\ HasPhaseSwitching
    /\ phasesConfigured' \in PhaseSettings \ {phasesConfigured}
    /\ UNCHANGED <<status, lp, charger, mode, alwaysCharge, limited, pc, seenMode, welcome>>

\* A limit is reached, or the user raises, lowers or removes it.
ChangeLimit ==
    /\ limited' = ~limited
    /\ UNCHANGED <<status, lp, charger, mode, alwaysCharge, phasesConfigured, pc, seenMode, welcome>>

(***************************************************************************)
(* The vehicle and the device.                                             *)
(***************************************************************************)
ChargerOnly == UNCHANGED <<status, lp, pc, seenMode, welcome, userVars>>

Plug ==
    /\ charger.status = "A"
    /\ charger' = [charger EXCEPT !.status = "B"]
    /\ ChargerOnly

Unplug ==
    /\ charger.status # "A"
    /\ charger' = [charger EXCEPT !.status = "A"]
    /\ ChargerOnly

StartDrawing ==
    /\ charger.status = "B" /\ charger.enabled
    /\ charger' = [charger EXCEPT !.status = "C"]
    /\ ChargerOnly

StopDrawing ==
    /\ charger.status = "C"
    /\ charger' = [charger EXCEPT !.status = "B"]
    /\ ChargerOnly

\* The device switches itself, or is operated past the loadpoint.
Stray ==
    /\ \E on \in BOOLEAN, current \in {MinCurrent, MaxCurrent} :
          charger' = [charger EXCEPT !.enabled = on, !.current = current, !.strayed = TRUE]
    /\ ChargerOnly

-----------------------------------------------------------------------------
(***************************************************************************)
(* Prepare takes over whether the charger is enabled, if it can tell, and  *)
(* sets an enabled one to the minimum current.  Nothing is switched yet,   *)
(* as far as the loadpoint knows, and the mode is the one it was left in.  *)
(***************************************************************************)
Init ==
    /\ status = "none"
    /\ mode \in Modes
    /\ seenMode = mode
    /\ alwaysCharge \in AlwaysCharges \ {"once"}
    /\ phasesConfigured = 0
    /\ limited = FALSE
    /\ pc = "status"
    /\ welcome = FALSE
    /\ \E on, known \in BOOLEAN, current \in {MinCurrent, MaxCurrent}, st \in {"A", "B", "C"} :
          LET device == [status |-> st, enabled |-> on, current |-> current, phases |-> 3,
                         strayed |-> TRUE, surged |-> FALSE]
              fresh  == [enabled |-> on /\ known, offered |-> 0, phases |-> 3,
                         pvTimer |-> Zero, phaseTimer |-> Zero,
                         chargerSwitched |-> SwitchDuration + 1,
                         phasesSwitched |-> SwitchDuration + 1]
              s      == [lp |-> fresh, charger |-> device, err |-> "none"]
          IN  \E t \in IF on /\ known THEN SetLimit(s, MinCurrent) ELSE {s} :
                 lp = t.lp /\ charger = t.charger

Loop == UpdateChargerStatus \/ Sync \/ SyncFails \/ Strategy

Users == SetMode \/ SetAlwaysCharge \/ SetPhasesConfigured \/ ChangeLimit

Device == Plug \/ Unplug \/ StartDrawing \/ StopDrawing \/ Stray

Next == Loop \/ Tick \/ Users \/ Device

Spec == Init /\ [][Next]_vars

(***************************************************************************)
(* The loop runs on; a synchronization and a strategy that can succeed do  *)
(* so in the end, also when calls to the charger fail now and then; time   *)
(* passes between cycles; a disabled charger stops the vehicle.            *)
(***************************************************************************)
SyncSucceeds == Sync /\ pc' = "strategy"

Fairness ==
    /\ WF_vars(UpdateChargerStatus)
    /\ WF_vars(Sync)
    /\ SF_vars(SyncSucceeds)
    /\ WF_vars(Strategy)
    /\ SF_vars(StrategyEnds("none"))
    /\ SF_vars(Tick)
    /\ WF_vars(StopDrawing /\ ~charger.enabled)

FairSpec == Spec /\ Fairness

-----------------------------------------------------------------------------
\* The loadpoint knows whether a charger that did not act behind its back is
\* enabled.  (setLimit and syncCharger, each of whose calls may fail.)
Agreement == ~charger.strayed => lp.enabled = charger.enabled

\* The charger is never switched to three phases while set above the minimum
\* current, as far as the loadpoint can know.  (scalePhases drops the current
\* before it scales up.)
NoSurge == ~charger.surged

\* While the mode stays off, nobody is welcomed and the charger does not act
\* on its own, it ends up disabled.
OffSettles ==
    <>[](mode = "off" /\ ~welcome /\ ~charger.strayed) => <>[](~charger.enabled)

\* With a vehicle connected in mode now, no limit reached and a charger that
\* does not act on its own, the vehicle is in the end offered the maximum.
NowSettles ==
    <>[](mode = "now" /\ ~limited /\ charger.status # "A" /\ ~charger.strayed)
        => <>[](charger.enabled /\ charger.current = MaxCurrent)

\* Always charge keeps charging whatever the surplus, the tariff and the pv
\* timers say.
AlwaysChargeSettles ==
    <>[](/\ mode = "smart" /\ alwaysCharge # "off"
         /\ ~limited /\ charger.status # "A" /\ ~charger.strayed)
        => <>[](charger.enabled)

\* A charger the strategy enables has been given the current it now offers.
\* (setLimit: "ensure we always re-set current when enabling charger".)
ReenableSetsCurrent ==
    [][pc = "strategy" /\ ~lp.enabled /\ lp'.enabled => charger'.current = lp'.offered]_vars

\* Also when the charger cannot switch to the single phase the user configured,
\* the charging strategy goes on with what comes after the phase switch: mode
\* off still ends with the charger disabled.  (Update adopts the configured
\* phases "so the switch is not re-attempted on every cycle".)
FixedPhasesHonourOff ==
    <>[](/\ mode = "off" /\ phasesConfigured = 1
         /\ ~welcome /\ charger.status # "A" /\ ~charger.strayed)
        => <>[](~charger.enabled)

\* A running pv timer was started after the last switch, so that the charger
\* is not switched back before the delay has passed once more.  (pvMaxCurrent
\* resets the timer when it switches, "to prevent immediate re-enabling".)
PvTimerIsFresh ==
    lp.pvTimer \in 0 .. LongestDelay /\ lp.pvTimer > 0 => lp.pvTimer <= lp.chargerSwitched
=============================================================================
