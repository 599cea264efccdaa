# Formal models of evcc's control core

evcc decides, every 30 seconds or so, how much each charging point ("loadpoint")
of a home may draw, from the surplus of the solar system, the tariffs, the state of the
home battery, the grid operator's limits and what its users ask for. This directory holds TLA+ models of that
decision's concurrent and stateful parts, TLC configurations that check them on small instances, and TLAPS proofs.

All paths below are relative to the repository's root (`src/`). Line numbers of every definition are in `PROJECT.json`
under `map`.

## 1. Inventory

| component | state | operations | hard behaviour | what makes it correct | module |
|---|---|---|---|---|---|
| vehicle coordinator `core/coordinator` | table vehicle → loadpoint | acquire, release, add, delete, owner | callers hold their loadpoint's `vmu` while acquire calls `SetVehicle(nil)` of the evicted loadpoint, which takes that loadpoint's `vmu` | one owner per vehicle, no deadlock, calls return | `VehicleCoordinator` |
| vehicle detection `core/loadpoint_vehicle.go` | vehicle, `vehicleDetect`, identifier | connect, disconnect, identify by charger id or by status, time-out, user selection | slow status query between a check and a set; two goroutines | the coordinator's promises hold with it, detection ends | `VehicleDetection` |
| loadpoint control cycle `core/loadpoint.go`, `loadpoint_phases.go`, `loadpoint_api.go` | status, enabled, offered current, phases, pv and phase timer, switch times, mode | status change handlers, `syncCharger`, the strategy switch of `Update`, `setLimit`, `scalePhases`, `pvMaxCurrent`, the setters | the charger acts on its own, calls fail half way, timers span cycles and are shared, setters run between the steps of a cycle | loadpoint and charger agree, the mode is carried out, no surge on a phase switch | `ChargeControl` |
| battery mode `core/site_battery.go`, `core/site_api.go:706-754` | recorded, external and applied mode, external timer | required mode, apply to each battery, record, set and withdraw external mode, watchdog, shutdown | one of several batteries fails; watchdog, loop and shutdown run concurrently | grid limits hold, batteries are released, an external mode expires | `BatteryMode` |
| charging session `core/loadpoint_session.go`, `core/session` | session in memory, its row in the database | create, persist, stop, finalize, clear, close open sessions at start | vehicles exchanged between cycles, crashes and restarts in mid-session, readings that fail or are garbage | energy is booked once, never more than was delivered | `SessionLedger`, `ChargingSession` |
| charge rater, energy metrics `core/wrapper/chargerater.go`, `core/energy_metrics.go` | start of charge, energy charged | start, stop, reset, update | the meter cannot be read when charging starts | as above | `ChargingSession` |
| circuits `core/circuit`, `core/site_circuits.go` | tree of limits, measured or summed power and current | update, validate power and current | vehicles that draw later what they are offered now, nested limits, meters that fail, chargers found enabled | no update overcommits, overcommitment and overload end | `Circuit`, `LoadManagement` |
| charging plans `core/loadpoint_plan.go`, `core/planner` | static and repeating plans, lock, active slot | the plan in effect, `plannerActive`, set plan, finish | the plan is made anew in every cycle while tariff, vehicle and user change | the goal is reached in time and at the least cost | `Planner`, `ChargingPlan` |
| grid operator's limits `hems/eebus`, `core/site_circuits.go` | limits and when they came into force, failsafe, heartbeat; what the site has applied | limit, failsafe limit and heartbeat events, `run`, dim meters, curtail inverters | lost heartbeats, renewed and expiring limits, devices that fail, restarts | failsafe holds, limits last as long as they should, orders reach the devices | `EEBus`, `GridLimits` |
| site loop `core/site.go` | round robin, requested updates | tick, requested update | two channels in one select, one of capacity one | every loadpoint is updated again and again | turns in `LoadManagement`, steps of a cycle also in `BatteryMode`, `GridLimits` |
| battery boost `core/loadpoint.go:2338-2349, 1703-1754` | off, start, continue, hold | user sets, loop advances | unlocked read, compare and write | boost only in smart mode | planned |
| priorities `core/prioritizer` | reserved power per loadpoint | get reserved power, update | order of loadpoints | lower priorities yield | planned |
| wake-up timer `core/timer.go` | start time, attempts | start, stop, elapsed | restarts | at most six attempts per start | planned |
| other grid operator drivers `hems/relay`, `fnn`, `shm`, `custom` | a contact or a remote value | run | - | - | not modelled |
| effective settings, smart cost | none | pure selection | - | - | inputs of `ChargeControl` |
| optimizer `core/site_optimizer.go` | last solution | remote solve | asynchronous result | - | an input only |
| soc estimator, metrics database | floating point, SQL | - | - | - | not modelled |
| chargers, meters, vehicles, plugins, templates, tariffs, server, messengers, UI, cmd | devices and I/O | - | - | - | not modelled; devices are the environment |

How they interact: `Site.Run` calls `Site.update` for one loadpoint at a time, which reads the meters, updates the circuits, applies the
grid operator's limits, updates the battery mode and
calls `Loadpoint.Update`. `Update` publishes status events to handlers on the same
goroutine, which create sessions, select vehicles through the coordinator and reset timers; its strategy asks the planner, and what it decides passes the circuits before it
reaches the charger. HTTP, MQTT and messengers call the setters of
`loadpoint_api.go` and `site_api.go` on goroutines of their own; these store a value under the loadpoint's or the site's
mutex and request an update through a channel. HEMS drivers run their own loop. There is no lock around a whole cycle: every setter can run between any two locked sections of it.

## 2. Plan

Done, checked and proved about (safety and, where there is one, the refinement): `VehicleCoordinator` and `VehicleDetection`, which refines it; `ChargeControl`; `BatteryMode`;
`SessionLedger` and `ChargingSession`, which refines it; `Circuit` and `LoadManagement`; `Planner` and `ChargingPlan`; `EEBus` and `GridLimits`.

Left, in this order:

1. `BatteryBoost`: boost states against mode changes; composes with the user's part of `ChargeControl`
2. the site power and priorities, on top of the turns in `LoadManagement`
3. the wake-up timer, as part of `ChargeControl`
4. energy plans and the optimizer's plans in `ChargingPlan`

Every invariant, action property and refinement that a passing run checks is a theorem (section 5). Left to prove:
plans over tariffs with holes, and whatever the modules above will state.

## 3. Modules

### VehicleCoordinator

One `SetVehicle` call is a stack of frames: the call that was made and, while it evicts, the nested call for the evicted loadpoint. A frame
holds the loadpoint and vehicle and how far `setActiveVehicle` got: `Enter`, `Lock` (takes `vmu`), `Release` (gives up the old vehicle), `Acquire`
(the table entry, and a nested frame for its old owner), `Assign`. The coordinator's own mutex is
held within one step, except that `acquire` calls the owner without it. `Add` and `Delete` are the vehicle configuration; `Detection` is the flag `SetVehicle` clears.

### VehicleDetection

`EXTENDS VehicleCoordinator`. One action per handler of the control loop (`VehicleConnect`, `VehicleDisconnect`, `IdentifyVehicle`,
`QueryStatus`/`ApplyMatch`, `DetectionTimeout`), which start calls of the coordinator's model, and the user's `SetVehicle` and
`StartVehicleDetection` from another goroutine. `QueryStatus` and `ApplyMatch` are two actions because the code queries remote vehicles in between without a lock. It implements `VehicleCoordinator`'s specification (`ImplementsCoordinator`).

### ChargeControl

One loadpoint and its charger. A cycle is three steps: `UpdateChargerStatus` (status changes and their handlers), `Sync` (`syncCharger`,
then the mode is read) and `Strategy` (the switch statement of `Update`), between which setters, the vehicle and the device act.
Because a call to the charger can fail, and may have been obeyed all the same, every operation that calls the
charger is an operator from a situation (loadpoint, charger, error) to the set of situations it may end in; `SetLimit`, `ScalePhases`, `FastCharging` and the rest compose these as the
methods compose.

`lp` holds what only the control loop and the timers' resets use; `charger` is the device. `charger.strayed` is history: since the last consistent
synchronization the device may have changed without the loadpoint's knowledge (it acted on its own, or obeyed a call that failed). `charger.surged` is history for `NoSurge`.

Abstractions: time in ticks, timers as ages that saturate past the longest delay, `Elapsed` for the code's constant of that name; power in amperes times phases;
the vehicle draws what it is offered; the charger reports its phases; solar share 1 and no custom thresholds; `AvailPower` is what a
cycle may find, any value in any cycle. Of the conditions that matter to the strategy (minimum soc or plan, cheap tariff, attractive feed-in, climate
control, battery support) one holds per cycle, which is enough since each is tested in an order the model keeps. Left out: circuits,
optimizer suggestions, battery boost, the §14a dimmer's early return, the wake-up timer, integrated, heating and continuous devices.
A status that cannot be read ends the cycle before anything is changed, so it has no action of its own.

### BatteryMode

The loop's steps are its locked sections: `ReadExternal`, `ReadTimer`, `UpdateBatteryMode` (the decision), one `ApplyBatteryMode` per battery (or `SocFails`,
`ApplyFails`, `ApplyNotAvailable`), `RecordBatteryMode`. `SetBatteryModeExternal` runs on API goroutines; a watchdog takes three steps, since
`batteryModeWatchdogExpired` reads how old the timer is, reads again whether it is running and then withdraws the mode; `Shutdown` runs beside the loop
(`cmd/root.go:551-555`). What tariffs, fast charging loadpoints and the optimizer call for is one variable, `demand`, that may change at any time.
Batteries that cannot be controlled are not in the model.

### SessionLedger, ChargingSession

`SessionLedger` says what the session history promises: a meter that counts, and bookings that never shrink and never exceed what was counted.
`ChargingSession` is the machine behind it: the charge meter, the plug, one loadpoint's memory (charge rater, metrics, session, what was notified) and its
rows in the database. A cycle is three steps, as in `Update`: `UpdateProgress` (`publishChargeProgress`), `UpdateStatus` (the status is read, one or, when the connection
timer shows that the vehicle was exchanged, two status changes run their handlers, then the user may be notified) and `UpdateReturn`. Between two steps energy flows and the user plugs. Each place where the code reads the meter
is named (`Reads`), and `Failing` and `Garbled` say which readings may fail or return register garbage: one value, above any energy a session may have.
`Crash` loses the memory, `Shutdown` finalizes, `Restart` closes the sessions that were left open (`ClosePendingSessionsInHistory`). `observed` and `clean` are history.
Left out: the integrating rater of meters without a total, chargers with counters of their own, price, solar share and other session data, two loadpoints.

### Circuit, LoadManagement

`Circuit` has the tree and its operators: `Update` (children first; a meter that fails ends the update, `Reached`; a value older than the
time-out counts as overload), `ValidatePower` and `ValidateCurrent` up the chain of parents, the HEMS limit of the root. `LoadManagement` composes
it with loadpoints, their chargers and the site's schedule: `UpdateInTurn` and `RequestedUpdate` are the two channels of `Site.Run`, `ReadMeters` is the site's reading of loadpoints and circuits at the start
of a cycle. `SetLimit` is the rest of the cycle: `Synced` is what `syncCharger` adopts of the charger's current and state, `Granted` what the circuits leave of a target of the strategy, `TellCurrent` and `Switch` the two
calls to the charger. In `SetLimitFails` one of them fails, obeyed or not (`FailTo`). `Init` is `Prepare`: each charger that is found enabled is adopted and set to the minimum current while no circuit has been read (`Unread`).
In between, vehicles draw more or less of what their chargers offer, a charger in `Unruly` is switched or set by someone else (`Stray`), other consumers come and go, meters fail, and the HEMS sets a limit.

Abstractions: one phase, on which an ampere is a watt; strategies may ask for any target; whether a charger is due to be adopted (`shouldBeConsistent`) is chosen freely; a measured loadpoint has a charge meter of its own.
Circuits measure only when a cycle begins, so other consumers and meters change between cycles. `EndCycle` forgets what the next `ReadMeters` computes anew before it is used (`chargePower`, `AddedUp` circuits).
Left out: phase switching, the "disabled but charging" correction, a current getter that is not available.

### Planner, ChargingPlan

`Planner` has the slot selection as operators on sets of slots: the cheapest slots, the cheapest window, the continuous plan, preconditioning, and rates that end
before the plan does. The code's loop over the sorted rates is a set comprehension over what costs less; sets need no sorting. Rates and plans are sets of slots that do not overlap (`Proper`), and costs and durations are sums over such a set. `ChargingPlan` is `plannerActive`: it reads time, goal and id of the plan in effect in three steps,
because the code reads them without a lock, and decides. Meanwhile the user sets plans and modes, the tariff is updated, the vehicle comes and goes, and it charges at
full power or less. `pause` is history. Left out: energy plans, the optimizer's plans, a soc that drops, the charger's minimum power in planning.

### EEBus, GridLimits

`EEBus` is the driver. `guard` is the Energy Guard's side: the limit it has stated and what is left of it, kept by the eebus-go library; `stated`, `activated`, `failsafe`, `status`,
`heartbeat`, `returned` and `following` are the driver's. Each event handler and each way through `run` is an action. Events do not overlap, since `ucCallback` (`server/eebus/eebus.go:596-605`) delivers them under a mutex
of its own: a handler reads or approves a limit first and takes the driver's mutex, which `run` holds throughout, only to store it, but what the handler does before is not seen by the driver, so it is as if done then. An age is only counted as far as a comparison can tell (`Oldest`). `GridLimits` adds the site: `DimMeters` and `CurtailPV` ask the driver for what is in force and talk to every device, each of which
may fail or fail after it has obeyed; `dimmed` and `curtailPercent` are what the site believes to have applied. `Restart` loses all memory and leaves the devices as they are.
Left out: the driver's rows in the sessions database, the passthrough relay, the failsafe duration (stored, but nothing reads it), a production limit without a nominal power (an error in every cycle).

## 4. Runs

| run | instance | what it shows |
|---|---|---|
| `coordinator` | 2 loadpoints, 2 vehicles, 2 goroutines, the user's selections, starvation free mutexes | `NoLockCycle`: nested calls never wait for each other in a cycle; `CallsReturn` |
| `coordinator_owner` | one goroutine, every operation | violation: `HolderIsOwner`, the evicted loadpoint deletes its successor's entry |
| `detection` | 2 loadpoints, 1 vehicle that is the default of one and can be detected by the other, user and fair loop | `ImplementsCoordinator` (refinement); `TrackedIsHeld`: the table never names a loadpoint that neither has the vehicle nor is assigning it; `DetectionEnds` |
| `charge` | charger that switches phases and reports its current; modes now and smart, default mode now; phases automatic or fixed to three | `Agreement`, `NoSurge` |
| `charge_live` | no phase switching, all modes, default mode off, always charge once, fair | `OffSettles`, `NowSettles`, `AlwaysChargeSettles` |
| `charge_off` | phases fixed to one, switch unavailable | violation: `FixedPhasesHonourOff` |
| `battery` | 2 batteries that each lack some modes, an API that asks for hold, a demand for charge, failing calls, fair loop | `ExternalIsTimed`, `GridLimitsHeld`, `Released`, `ExternalWins` |
| `battery_watchdog` | 1 battery | violation: `ExternalIsWatched` |
| `circuit` | 2 loadpoints, one with a charger that acts on its own, below `yard`, which sums what they are offered (1 A), below `house`, which is metered (3 W), with other consumers, a meter that fails and a HEMS limit | `NeverOvercommits`, `EveryoneUpdated`, `OvercommitmentEnds`, `OverloadRelieved`, `OfflineStops` |
| `session` | a meter that counts to 4, 2 sessions, 1 fault, crashes and restarts | `ImplementsLedger` (refinement), `SessionsPlausible`, `BooksWhatItSaw`, `NotifiedInTurn` |
| `plan` | seven tariffs, six strategies, three goals of the user and a repeating one, time to 11 with slots of 3 | `PlanFits`, `PlanIsCheapest`, `DeadlineKept`, `GoalKept`, `NoShortPause` |
| `hems` | a consumption limit that runs out, one that is denied, a production limit without end, failsafe limits that are not configured but written at any time, lost heartbeats, 2 meters, 1 inverter, 1 restart | `FailsafeHeld`, `StandingLimitKept`, `OrdersReachDevices` |

Each passing run but `coordinator` and `charge_live` also checks its module's type invariant. Each violation contradicts a comment of the code; `PROJECT.json` quotes it
under `findings`. Every property of a passing run has a mutant in the module (named
`Mutant:` in its comment), a plausible bug under which TLC finds the property violated.

`NoSurge` is about what the loadpoint can know: a charger that does not report its current and has reset itself is taken for one
that is set to the offered current, and TLC finds `NoSurge` violated there (see `ReenableSetsCurrent` below).

### Bounds

- Coordinator: two loadpoints are enough for an eviction and for two that evict each other; longer cycles are the theorem's. Detection: one vehicle is enough for
  all handlers to compete; several are the refinement theorem's.
- Charge control: minimum 1 and maximum 2 A, which keeps "minimum", "between" and "maximum" apart once
  surplus is capped; a surplus of 0, 1 or 6 (too little, enough for one phase, enough for three) or 0 or 12; enable and disable delays of one tick,
  so that a cycle starts a timer and a later one finds it elapsed; switch duration 0. Timers and ages saturate where no comparison can tell them apart, so nothing is cut off.
- Battery: two batteries are the smallest number of which one can fail after another has changed; `Expiry` of 0 or 1 ticks stands for the minute;
  one watchdog at a time (a set that would need a second one waits: leaked watchdogs only tick). `demand` and the limits change freely.
- Circuits: two loadpoints of 1 or 2 A below 1 A can be started one at a time only, and `Prepare` overcommits the yard when it finds both chargers enabled; the house has less than both loadpoints
  and the other consumers may draw, so either circuit can be the binding one. The charger of the first loadpoint acts on its own and reports its current; that of the second obeys and does not report.
- Sessions: two sessions let one be left open and another begin; a meter of 4 lets each of them have energy before and after a fault. The reading at
  start must not fail and only progress readings are garbled, see below.
- Plans: a slot of three ticks has an inside and two ends; four slots hold a cheapest one before, between or after others; goals of one and two slots, a goal of everything
  (`Full`), and a repeating plan due between them. `MaxTime` is the last deadline and one more.
- Grid limits: the shortest times whose boundaries differ: a limit lasts two ticks, a heartbeat counts for one tick and is lost after a second, so that it may keep coming or stay away for good; failsafe is left one tick after the heartbeat
  is back. No failsafe limits are configured, as by default, and the control box writes one for each direction, before, in or after failsafe. Nothing is cut off, ages saturate.

No symmetry is used: the instances name what tells loadpoints, circuits and devices apart.

### Fairness

The control loop runs on (weak fairness of its steps: `Site.Run` ticks for ever). In `ChargeControl` a synchronization and a
strategy that can succeed do so in the end (strong fairness: the property says nothing of a charger that fails for good), time passes between cycles, and a disabled
charger stops the vehicle. In `BatteryMode` only the loop is fair: neither the
watchdog nor time has to run. Its calls may fail; `loop.failed` remembers it, and the properties are about behaviours in which it never happened. In the coordinator, Go's mutexes
do not starve a waiter (they hand over after a millisecond), so a step that is able to lock again and again gets the lock. In detection, the loop and time run on. In `LoadManagement` ticks come through
however many updates are requested (strong fairness: Go's `select` picks at random among the channels that are ready), cycles end, and a loadpoint that is updated again and again is so successfully again and again, and finds its charger as it believes it to be or adopts it: a charger that acts on its own does not do so within the minute after
each time it is switched, for ever
(strong fairness, written out because its `ENABLED` is only that the loadpoint is being updated); meters, vehicles and the HEMS owe nothing, and `OvercommitmentEnds` and `OverloadRelieved` speak of behaviours in
which the environment settles (`Settled`). In `GridLimits` the driver connects (`NewEEBus` waits for it), its loop runs and time passes (weak fairness), and the site's calls to
all devices succeed again and again (strong fairness); the Energy Guard and the heartbeat owe nothing. `OrdersReachDevices` is about orders that settle, with heartbeats that keep coming or stay away. Session and plan are checked
for safety only and have no fairness.

Deadlock is checked in every run but those of `BatteryMode`, where the system stops after shutdown, and `session` and `plan`, where it stops at the bounds of meter, rows and time.

### Stated but not among the runs

Properties that the code's comments suggest, which are defined in the modules and do not hold in them. TLC finds these counterexamples when they are added to a configuration:

- `UserSelectionWins` (`core/loadpoint_vehicle.go:354-360`): the vehicle is checked and then set without a lock, so a selection made
  within these few instructions is overwritten by the detected vehicle.
- `PvTimerIsFresh` (`core/loadpoint.go:1895`, "reset timer to prevent immediate charger re-enabling"): the charger can be disabled without
  `resetPVTimer`, for instance by a limit (`core/loadpoint.go:1207`), and a pv timer that was started as a disable timer goes on as the enable timer.
- `ReenableSetsCurrent` (`core/loadpoint.go:1068`, "ensure we always re-set current when enabling charger"): a charger without current getter that was found disabled or enabled
  by itself (lines 885, 1022) is enabled with the current it had, since the loadpoint remembers to have offered the same.
- `GridLimitsRegained` (`core/site_battery.go:83`): a battery took the charge mode, the call to the next one failed, so the site does not know it
  is charging. When the HEMS then dims and the demand ends, the next cycle succeeds without touching it.
- `ShutdownReverts` (`core/site.go:387-394`): shutdown between applying a mode and recording it finds the site's mode unmodified and leaves the batteries as they are.

### Where the properties had to be bounded

While modelling, TLC showed what the properties above cannot promise; their wording or the run's constants exclude it:

- A start overcommits: `Prepare` (`core/loadpoint.go:845-851`) sets each charger that it finds enabled to the minimum current while the circuits still read zero, and `syncCharger` (lines 907-943) adopts what chargers
  are set to by others. So `NeverOvercommits` says what an update may add, and `OvercommitmentEnds` that the rest is taken back.
- A loadpoint whose charger has switched itself off, or could not be enabled, keeps its offered current (only disabling forgets it, `core/loadpoint.go:1069`) and its circuit goes on counting it (`core/loadpoint_api.go:828`).
  `OvercommitmentEnds` therefore excuses a circuit with every charger off: such offers may add up to more than its limit for good, and then none of its loadpoints is granted anything until
  someone switches a charger on or the process starts anew.
- A child circuit's meter that fails ends the update of its parents and of the circuits after it (`core/circuit/circuit.go`), so that these keep their last reading and are never marked
  overloaded, whatever the configured time-out says. `OfflineStops` is about circuits that the update reaches (`Reached`).
- The plan's lock is read by `nextVehiclePlan` and written by the loop without a common lock (`core/loadpoint_plan.go:253-255`): a plan that the user sets in between is not the locked one, and `finishPlan` deletes a plan set just before.
- A tariff with a hole between two slots: the plan may be shorter than required. `PlanFits` is checked with tariffs that have none, and the theorems about plans assume `TariffsGapless`.
- `finalizeSessionEnergy` (`core/loadpoint_session.go:143-165`) books whatever the meter says, garbage too, which `stopSession` guards against; with `Garbled <- OnlyStop` TLC finds `SessionsPlausible` violated.
- A failed reading at start counts as zero (`core/site.go:251`), and a session that was left open is closed with a negative energy; with `Failing <- OnlyBoot` TLC finds `SessionsPlausible` violated.
- A limit that was written while the heartbeat was lost ends failsafe as soon as the heartbeat returns (`hems/eebus/eebus.go:257`), though the comment above says "following".
- A limit that ran before failsafe, and is still stored as active when the release time of 120 s has passed, is applied again with its whole duration.
- A production limit that is withdrawn with the value 0 reads as 0 % between the event and the next `run`, and the site may apply that. `OrdersReachDevices` sees it corrected.
- A consumption limit of 0 W is treated as none (`EffectiveLimit`).
- A failsafe limit that is written in failsafe where there was none (the default of `hems/eebus/eebus.go:72-83`) is not in force until failsafe is entered again (lines 230-238), though `MaxConsumptionPower` says
  "failsafe limit in failsafe" (line 404). `FailsafeHeld` says so, and `OrdersReachDevices` does not count such a limit as ordered (`Unlimited`).
- A meter that loses its limit by itself is not told again (`core/site_circuits.go:105` compares with what was last told). Devices of the model keep what they were told.

## 5. Proofs

`VehicleProofs` proves of `VehicleCoordinator`, for any sets of loadpoints, vehicles and goroutines:

- `TypeCorrect`: `Spec => []TypeOK`.
- `TrackedSound`: `Spec => []TrackedIsHeld`. It needs the invariant that a frame which is past `Lock` is the owner of its
  loadpoint's `vmu`, so no two frames change the same loadpoint's vehicle.
- `DeadlockFree`: `Spec => []NoLockCycle`. A goroutine that waits for the `vmu` of an evicted loadpoint holds that of the loadpoint it assigns to, and
  the evicted loadpoint was tracked as the owner of the vehicle. The inductive invariant shows why no cycle closes: a frame has released its
  loadpoint's old vehicle before it acquires the new one, so a loadpoint that waits owns nothing another loadpoint could be waiting for.

and of `VehicleDetection`, for any default vehicles and ids:

- `Implementation`: `DetectionSpec => ImplementsCoordinator`. Every handler that calls `setActiveVehicle` is a call of the coordinator's model, every other step leaves the coordinator's
  variables alone. What had to be found is that the loop never calls for a vehicle it has not seen or while its goroutine is in a call (`SeenInv`).
- `DetectionTracked` and `DetectionDeadlockFree`: with that, `TrackedIsHeld` and `NoLockCycle` hold of detection as they do of the coordinator; `DetectionTypeCorrect` for its own variables.

`BatteryModeProofs` proves, for any number of batteries, whatever modes each supports, and any external modes, suggestions and watchdogs:

- `TypeCorrect`: `Spec => []TypeOK`, with the lemmas on `SupportedBatteryMode` and `DeviceMode` (what they return is supported,
  and charge or discharge only if that was asked for).
- `ExternalTimed`: `Spec => []ExternalIsTimed`.
- `LimitsHeld`: `Spec => []GridLimitsHeld`, assuming that every battery supports the normal mode (`AllNormal`): one that does not cannot be
  stopped. While no call failed, `LimitInv` says that the applied mode is the device's (`Consistent`); that a battery which charges or discharges does so because of the mode being
  applied, if its turn has come, or else because of the site's mode (`Following`); and that neither is forbidden by the limits the cycle saw (`Allowed`).
  The property alone is not inductive: it says nothing in the middle of a cycle, where batteries are in the old and in the new mode.

`ChargeControlProofs` proves, for any range of currents, surplus, delays, modes and phase settings:

- `ControlTypeCorrect`, `LoadpointAgrees` (`Agreement`) and `NeverSurges` (`NoSurge`, if the charger reports its current). Every operation is a set of situations, so there is one lemma per
  operation: a well-formed situation (`Fit`) has well-formed outcomes only, and what the situation promised is kept. The inductive invariant adds to the three properties that a loadpoint which is about to run its
  strategy offers what the charger has (`Offering`): that is what `Sync` has just made sure of, and what a switch to three phases relies on, since it first reduces the current
  only when the offered one says it has to.

`SumTheorems` has the facts about `SumFunctionOnSet`, the sum over a finite set, that the next three modules cite: what an element more or less, a union, a partition, a smaller summand
or a single change does to a sum. The library's induction theorems take an operator, so induction is stated with the set of the arguments for which a claim holds; it follows from
`<` on the natural numbers being well-founded, and gives that the recursive function the fold is defined by exists and is unique.

`LoadManagementProofs` proves, for any tree of circuits, any loadpoints, limits and meters:

- `LoadTypeCorrect`.
- `CircuitsNeverOvercommit`: `Spec => NeverOvercommits`. What validation grants fits into every circuit above (`Validated`), and an update makes
  the current of a circuit that adds up its loadpoints the sum over all loadpoints below it (`CurrentIsSum`), by induction over the depth. A step of `SetLimit` keeps to the bound
  only if what the circuit added up at the beginning of the cycle is still what its loadpoints are offered. That is `Counted`, the invariant beside the types.
  What the circuit has counted of the loadpoint itself, what it has adopted since (`OwnIncrease`) and what it is then told or not told, failing calls included, is `Bounded`.

`ChargingSessionProofs` proves, for any meter, number of sessions and of faults, with crashes and restarts:

- `SessionTypeCorrect` and `NotificationsTakeTurns`, whichever readings fail or are garbage, the one at start included. Their invariant `Steady` says nothing of sums: every handler keeps a row saved at most once
  (`Sane`), no row is written past the bound but one that was pending when it was reached (`FewRows`), and what the user heard last agrees with the status and the pending notification (`Heard`).
- `SessionsArePlausible` and the refinement `HistoryIsLedger`: `Spec => ImplementsLedger`. These assume that the reading at start does not fail and that garbage comes from progress readings only
  (`ReadingsGood`; why is at the end of section 4). Both rest on marks `w`: what the meter had counted when the vehicle of each session was
  connected, whether or not the code could read it. The sessions then lie one after the other (`RowsKept`): a row's mark and energy never reach past the mark of the next row or the meter, so the sum over the
  history telescopes and never exceeds what was counted. The session in memory fits in as the last row, or after it (`SessionFits`), and what the rater may still count for it lies between its mark and the meter (`Rated`),
  except that garbage may have made its count negative, too low for any booking (`Countable`). No step takes energy from a row that was written (`Grows`).
- `NothingSeenIsLost`: `Spec => []BooksWhatItSaw`, without `ReadingsGood`. As long as nothing failed, every reading was good and the marks are in order (`Ordered`), and what was observed is what the history has booked
  before the session in memory and what the rater would count for it now (`Exact`).

`PlanProofs` proves, for any goals, times, strategies and lengths of a slot, and for tariffs without holes (`TariffsGapless`; `PlanTypeCorrect` needs no such assumption):

- `PlanTypeCorrect`.
- `PlansFit` and `PlansAreCheapest`. Plans are compared by the ticks they cover (`Ticks`): slots that do not overlap last as long as they have ticks, so a sum of durations becomes a cardinality, and clamping an intersection.
  The slots are taken in a total order (`Cheaper`), so what is taken is all that comes before the last slot, and only that one is cut.
- `DeadlinesAreKept`: in every cycle that ends without an active plan there is a tick to spare (`Kept`), so that waiting for the next one loses nothing. It is
  the decision, not the plan, that has to be shown to leave it: an inactive plan has a first slot that is not now, a short slot is deferred, or a plan was paused.
- `GoalsAreKept`: a plan that is active and not locked is not over, and of the two plans that may compete the one that charges stays the one that is chosen.
- `PausesLast`: during a pause the plan in effect is the one that was paused, and what was planned for it when the pause began starts no earlier than a slot's length later (`Paused`). What is planned anew
  in a later cycle, for the same time, tariff and strategy, uses none of the time in between either, although there is less to choose from (`PlanAway`).

`GridLimitsProofs` proves, for any limits, durations, devices and number of restarts:

- `StandingLimitIsKept`: the driver knows every limit that stands, and the time left to it plus the age of its activation is at most its duration
  (`AllUnderstood`), so none is expired early. A restart is a start: the Energy Guard's connection states its limits anew.
- `FailsafeIsHeld`: `GridSpec => FailsafeHeld`, for any failsafe limits, unset or not, and any writes. In failsafe nothing but entering it decides what is in force (`FailsafeGoesOn`), and a production
  limit in force is configured (`FailsafeKnown`), so what is told in failsafe is the failsafe limit or nothing.
- `GridTypeCorrect`: percentages lie in 0..100 for every limit and nominal power.

All assume only the modules' named assumptions on the constants and those named here.

Only model-checked: liveness, which like `ENABLED` is out of the proof system's reach (`CallsReturn`, `DetectionEnds`, `OffSettles`, `NowSettles`, `AlwaysChargeSettles`, `Released`, `ExternalWins`, `EveryoneUpdated`,
`OvercommitmentEnds`, `OverloadRelieved`, `OfflineStops`, `OrdersReachDevices`). Every other property of the passing runs is stated by a theorem.
No module that is proved about declares a recursive operator.

## 6. Not modelled

- The planned modules of section 2: battery boost, the site's power and priorities, the wake-up timer. The parts of the site loop that circuits, battery and grid limits need are in their modules.
- What section 1 calls inputs: effective settings, smart cost, the optimizer. They are pure selections or remote calls without state of their own; their outcomes are free choices in the models.
- The other grid operator drivers: `relay`, `fnn` and `custom` read a contact or a value and hand it on, with neither heartbeat nor expiry; `shm` is a server of device descriptions.
- The soc estimator (floating point) and the metrics database (SQL).
- Device drivers, plugins, templates, tariffs, the server, messengers, configuration and the user interface, which are most of the repository's lines. They are I/O, parsing or storage, and meet the
  control core only through calls the models contain as actions.
