------------------------------ MODULE BatteryMode ------------------------------
(***************************************************************************)
(* The mode of the home batteries.                                         *)
(*                                                                         *)
(* Once per cycle the site's control loop determines the mode its          *)
(* batteries should be in, applies it to each of them and, when that       *)
(* succeeded for all, records it as the site's battery mode.  Other        *)
(* goroutines set and withdraw an external mode, which a watchdog          *)
(* withdraws when nobody renews it for a minute, and shut the site down.   *)
(* A step is one locked section, or one call to a battery.                 *)
(***************************************************************************)
EXTENDS Integers, Sequences

CONSTANTS
    N,              \* number of batteries, in the order they are configured
    Supported,      \* modes each battery supports
    ExternalModes,  \* external modes the API is asked for
    Suggestions,    \* what tariffs and the optimizer may call for
    Watchdogs,      \* watchdog goroutines there may be at a time
    Expiry          \* ticks after which an external mode is withdrawn

Batteries == 1 .. N

Modified == {"hold", "charge", "holdcharge", "discharge"}

Modes == Modified \cup {"unknown", "normal"}

ASSUME BatteryModeAssumption ==
    /\ N \in Nat \ {0}
    /\ Supported \in [Batteries -> SUBSET (Modes \ {"unknown"})]
    /\ ExternalModes \subseteq Modes \ {"unknown"}
    /\ Suggestions \subseteq Modes \ {"unknown"}
    /\ Expiry \in Nat

VARIABLES
    batteryMode,    \* Site.batteryMode
    external,       \* Site.batteryModeExternal
    timer,          \* Site.batteryModeExternalTimer: NoTime, or ticks since
    applied,        \* Site.batteryModeApplied
    device,         \* the mode each battery is in
    demand,         \* what tariffs, loadpoints and the optimizer call for
    dimmed,         \* the HEMS limits consumption
    curtailed,      \* the HEMS curtails production
    loop,           \* the control loop: where it is and its locals
    watchdog,       \* the state of each watchdog
    down            \* the site has been shut down

siteVars == <<batteryMode, external, timer>>

vars == <<batteryMode, external, timer, applied, device, demand, dimmed, curtailed, loop, watchdog, down>>

NoTime == -1
Expired == Expiry + 1

(***************************************************************************)
(* ext and reset are what requiredBatteryMode read, mode is what has to be *)
(* applied, next the battery whose turn it is.  limits: the modes the grid *)
(* operator forbade in the cycle that just ended, none if it failed.       *)
(* failed: history, a battery did not do what it was asked for.            *)
(***************************************************************************)
Loop == [pc : {"external", "timer", "decide", "apply", "record"},
         ext : Modes, reset : BOOLEAN, mode : Modes, next : 1 .. (N + 1),
         limits : SUBSET {"charge", "discharge"}, failed : BOOLEAN]

\* Batteries are only asked for what they support.
TypeOK ==
    /\ batteryMode \in Modes
    /\ external \in Modes
    /\ timer \in NoTime .. Expired
    /\ applied \in [Batteries -> Modes]
    /\ device \in [Batteries -> Modes]
    /\ \A b \in Batteries : /\ applied[b] \in Supported[b] \cup {"unknown"}
                            /\ device[b] \in Supported[b] \cup {"normal"}
    /\ demand \in Modes
    /\ dimmed \in BOOLEAN
    /\ curtailed \in BOOLEAN
    /\ loop \in Loop
    /\ watchdog \in [Watchdogs -> {"none", "waiting", "late", "expired"}]
    /\ down \in BOOLEAN

Init ==
    /\ batteryMode = "unknown"
    /\ external = "unknown"
    /\ timer = NoTime
    /\ applied = [b \in Batteries |-> "unknown"]
    /\ device = [b \in Batteries |-> "normal"]
    /\ demand = "unknown"
    /\ dimmed = FALSE
    /\ curtailed = FALSE
    /\ loop = [pc |-> "external", ext |-> "unknown", reset |-> FALSE, mode |-> "unknown",
               next |-> 1, limits |-> {}, failed |-> FALSE]
    /\ watchdog = [w \in Watchdogs |-> "none"]
    /\ down = FALSE

-----------------------------------------------------------------------------
(***************************************************************************)
(* The control loop.                                                       *)
(***************************************************************************)
ReadExternal ==
    /\ loop.pc = "external"
    /\ loop' = [loop EXCEPT !.pc = IF external = "unknown" THEN "timer" ELSE "decide",
                            !.ext = external, !.reset = FALSE, !.limits = {}]
    /\ UNCHANGED <<siteVars, applied, device, demand, dimmed, curtailed, watchdog>>

ReadTimer ==
    /\ loop.pc = "timer"
    /\ loop' = [loop EXCEPT !.pc = "decide", !.reset = timer # NoTime]
    /\ UNCHANGED <<siteVars, applied, device, demand, dimmed, curtailed, watchdog>>

\* Mutant: a mode nobody asks for any longer is kept until another is.
RequiredUntilNext ==
    CASE loop.reset -> "normal"
      [] loop.ext # "unknown" -> IF loop.ext = batteryMode THEN "unknown" ELSE loop.ext
      [] demand # "unknown" -> IF demand = batteryMode THEN "unknown" ELSE demand
      [] OTHER -> "unknown"

\* Mutant: tariffs and the optimizer go before the external mode.
RequiredDemandFirst ==
    CASE loop.reset -> "normal"
      [] demand # "unknown" -> IF demand = batteryMode THEN "unknown" ELSE demand
      [] loop.ext # "unknown" -> IF loop.ext = batteryMode THEN "unknown" ELSE loop.ext
      [] batteryMode \in Modified -> "normal"
      [] OTHER -> "unknown"

\* The mode to change to, or unknown to leave the batteries as they are.
RequiredBatteryMode ==
    CASE loop.reset -> "normal"
      [] loop.ext # "unknown" -> IF loop.ext = batteryMode THEN "unknown" ELSE loop.ext
      [] demand # "unknown" -> IF demand = batteryMode THEN "unknown" ELSE demand
      [] batteryMode \in Modified -> "normal"
      [] OTHER -> "unknown"

\* Mode m is requested, or nothing is and the site already is in m.
FromTo(requested, m) == requested = m \/ (requested = "unknown" /\ batteryMode = m)

\* Mutant: the limits are looked at only when a mode is entered.
LimitedOnEntry(requested) ==
    CASE requested = "charge" /\ dimmed -> "hold"
      [] requested = "discharge" /\ curtailed -> "normal"
      [] OTHER -> requested

\* The grid operator's limits go before what was required.
Limited(requested) ==
    LET mode == IF FromTo(requested, "charge") /\ dimmed THEN "hold" ELSE requested
    IN  IF FromTo(mode, "discharge") /\ curtailed THEN "normal" ELSE mode

\* The modes the limits forbid.
Forbidden == (IF dimmed THEN {"charge"} ELSE {}) \cup (IF curtailed THEN {"discharge"} ELSE {})

\* An active charge or discharge mode is applied again in every cycle, for the
\* sake of the soc bounds.
UpdateBatteryMode ==
    LET mode == Limited(RequiredBatteryMode)
    IN  /\ loop.pc = "decide"
        /\ loop' = [loop EXCEPT !.ext = "unknown", !.reset = FALSE, !.mode = mode,
                       !.next = 1, !.limits = Forbidden,
                       !.pc = IF mode # "unknown" \/ batteryMode \in {"charge", "discharge"}
                              THEN "apply" ELSE "external"]
        /\ UNCHANGED <<siteVars, applied, device, demand, dimmed, curtailed, watchdog>>

\* Modes that take the place of an unsupported one, the closest first.
Fallbacks(mode) ==
    CASE mode = "charge" -> <<"charge", "hold", "normal">>
      [] mode = "discharge" -> <<"discharge", "holdcharge", "normal">>
      [] mode \in {"hold", "holdcharge"} -> <<mode, "normal">>
      [] OTHER -> <<mode>>

\* Mutant: the fallback is taken without asking whether it is supported.
FirstFallback(b, mode) ==
    IF mode \in Supported[b] THEN mode ELSE LET f == Fallbacks(mode) IN IF Len(f) > 1 THEN f[2] ELSE "unknown"

SupportedBatteryMode(b, mode) ==
    LET f  == Fallbacks(mode)
        ok == {i \in DOMAIN f : f[i] \in Supported[b]}
    IN  IF ok = {} THEN "unknown" ELSE f[CHOOSE i \in ok : \A j \in ok : i <= j]

\* A battery at its soc bound is held instead of charged or discharged.
Bounded(mode) == mode # "hold" /\ (FromTo(mode, "charge") \/ FromTo(mode, "discharge"))

DeviceMode(b, mode, atBound) ==
    LET m == IF Bounded(mode) /\ atBound THEN "hold" ELSE mode
    IN  IF m = "unknown" THEN m ELSE SupportedBatteryMode(b, m)

\* The cycle is over, and its locals are forgotten.
Ended == [loop EXCEPT !.pc = "external", !.mode = "unknown", !.next = 1]

NextBattery == [loop EXCEPT !.next = @ + 1, !.pc = IF loop.next = N THEN "record" ELSE @]

\* An error ends applyBatteryMode, and the cycle.  The device may have obeyed.
Abort == [Ended EXCEPT !.limits = {}, !.failed = TRUE]

ApplyBatteryMode ==
    /\ loop.pc = "apply"
    /\ \E atBound \in BOOLEAN :
          LET b == loop.next
              m == DeviceMode(b, loop.mode, atBound)
          IN  /\ loop' = NextBattery
              /\ IF m = "unknown"
                 THEN UNCHANGED <<applied, device>>
                 ELSE /\ applied' = [applied EXCEPT ![b] = m]
                      /\ device' = [device EXCEPT ![b] = IF applied[b] = m THEN @ ELSE m]
    /\ UNCHANGED <<siteVars, demand, dimmed, curtailed, watchdog>>

\* The soc is not known where it matters.
SocFails ==
    /\ loop.pc = "apply" /\ Bounded(loop.mode)
    /\ loop' = Abort
    /\ UNCHANGED <<siteVars, applied, device, demand, dimmed, curtailed, watchdog>>

\* The call to battery b to take mode m is made.
Calls(b, m) ==
    \E atBound \in BOOLEAN : m = DeviceMode(b, loop.mode, atBound) /\ m \notin {"unknown", applied[b]}

ApplyFails ==
    /\ loop.pc = "apply"
    /\ \E m \in Modes, obeyed \in BOOLEAN :
          /\ Calls(loop.next, m)
          /\ device' = IF obeyed THEN [device EXCEPT ![loop.next] = m] ELSE device
    /\ loop' = Abort
    /\ UNCHANGED <<siteVars, applied, demand, dimmed, curtailed, watchdog>>

\* The battery answers that the mode is not available now: it is skipped.
ApplyNotAvailable ==
    /\ loop.pc = "apply"
    /\ \E m \in Modes : Calls(loop.next, m)
    /\ loop' = [NextBattery EXCEPT !.limits = {}, !.failed = TRUE]
    /\ UNCHANGED <<siteVars, applied, device, demand, dimmed, curtailed, watchdog>>

\* Mutant: the timer is reset whether or not there is an external mode.
RecordAndReset ==
    /\ loop.pc = "record"
    /\ loop' = Ended
    /\ IF loop.mode = "unknown"
       THEN UNCHANGED <<batteryMode, timer>>
       ELSE batteryMode' = loop.mode /\ timer' = NoTime
    /\ UNCHANGED <<external, applied, device, demand, dimmed, curtailed, watchdog>>

\* SetBatteryMode, unless nothing changed.
RecordBatteryMode ==
    /\ loop.pc = "record"
    /\ loop' = Ended
    /\ IF loop.mode = "unknown"
       THEN UNCHANGED <<batteryMode, timer>>
       ELSE /\ batteryMode' = loop.mode
            /\ timer' = IF external = "unknown" THEN NoTime ELSE timer
    /\ UNCHANGED <<external, applied, device, demand, dimmed, curtailed, watchdog>>

-----------------------------------------------------------------------------
(***************************************************************************)
(* The external mode and its watchdogs.                                    *)
(***************************************************************************)
Running(w) == watchdog[w] # "none"

\* A watchdog is started when a mode is set and the timer is not running.
StartsWatchdog(mode) == mode \notin {"unknown", external} /\ timer = NoTime

\* The mode and the timer, as SetBatteryModeExternal sets them for the API and
\* for a watchdog.
SetExternal(mode) ==
    /\ external' = mode
    /\ timer' = IF mode = "unknown" THEN timer ELSE 0
    /\ UNCHANGED <<batteryMode, applied, device, demand, dimmed, curtailed, loop>>

SetBatteryModeExternal ==
    \E mode \in ExternalModes \cup {"unknown"} :
       /\ SetExternal(mode)
       /\ IF StartsWatchdog(mode)
          THEN \E w \in Watchdogs :
                  /\ ~Running(w)
                  /\ watchdog' = [watchdog EXCEPT ![w] = "waiting"]
          ELSE UNCHANGED watchdog

\* batteryModeWatchdogExpired in three steps: how long ago the timer was
\* started, whether it is running, and the withdrawal of the mode.  A timer
\* that is not running was started very long ago.
WatchdogLate(w) ==
    /\ watchdog[w] = "waiting" /\ timer \in {NoTime, Expired}
    /\ watchdog' = [watchdog EXCEPT ![w] = "late"]
    /\ UNCHANGED <<siteVars, applied, device, demand, dimmed, curtailed, loop>>

WatchdogChecks(w) ==
    /\ watchdog[w] = "late"
    /\ watchdog' = [watchdog EXCEPT ![w] = IF timer = NoTime THEN "waiting" ELSE "expired"]
    /\ UNCHANGED <<siteVars, applied, device, demand, dimmed, curtailed, loop>>

WatchdogExpires(w) ==
    /\ watchdog[w] = "expired"
    /\ watchdog' = [watchdog EXCEPT ![w] = "none"]
    /\ SetExternal("unknown")

Tick ==
    /\ timer \in 0 .. Expiry
    /\ timer' = timer + 1
    /\ UNCHANGED <<batteryMode, external, applied, device, demand, dimmed, curtailed, loop, watchdog>>

-----------------------------------------------------------------------------
(***************************************************************************)
(* The surroundings.                                                       *)
(***************************************************************************)
ChangeDemand ==
    /\ demand' \in (Suggestions \cup {"unknown"}) \ {demand}
    /\ UNCHANGED <<siteVars, applied, device, dimmed, curtailed, loop, watchdog>>

Dim ==
    /\ dimmed' = ~dimmed
    /\ UNCHANGED <<siteVars, applied, device, demand, curtailed, loop, watchdog>>

Curtail ==
    /\ curtailed' = ~curtailed
    /\ UNCHANGED <<siteVars, applied, device, demand, dimmed, loop, watchdog>>

\* The batteries are put back into normal mode if the site's mode is modified.
\* (No call fails here.)
Shutdown ==
    /\ ~down
    /\ down' = TRUE
    /\ IF batteryMode \in Modified
       THEN /\ device' = [b \in Batteries |->
                  IF SupportedBatteryMode(b, "normal") \in {"unknown", applied[b]}
                  THEN device[b] ELSE "normal"]
            /\ applied' = [b \in Batteries |->
                  IF SupportedBatteryMode(b, "normal") = "unknown" THEN applied[b] ELSE "normal"]
       ELSE UNCHANGED <<applied, device>>
    /\ UNCHANGED <<siteVars, demand, dimmed, curtailed, loop, watchdog>>

Cycle ==
    \/ ReadExternal \/ ReadTimer \/ UpdateBatteryMode
    \/ ApplyBatteryMode \/ SocFails \/ ApplyFails \/ ApplyNotAvailable
    \/ RecordBatteryMode

Watchdog == \E w \in Watchdogs : WatchdogLate(w) \/ WatchdogChecks(w) \/ WatchdogExpires(w)

Surroundings == SetBatteryModeExternal \/ ChangeDemand \/ Dim \/ Curtail

Works == Cycle \/ Watchdog \/ Tick \/ Surroundings

Next == (Works /\ ~down /\ UNCHANGED down) \/ Shutdown

Spec == Init /\ [][Next]_vars

\* The control loop runs on.  (A call that fails is a step of it.)
Fairness == WF_vars(Cycle /\ ~down /\ UNCHANGED down)

FairSpec == Spec /\ Fairness

-----------------------------------------------------------------------------
\* An external mode in force has its timer running, whatever the control loop
\* and the watchdogs do in between: the loop forgets the timer only once it has
\* seen the batteries back in normal mode.  (SetBatteryMode.)
ExternalIsTimed == external # "unknown" => timer # NoTime

\* As long as no battery failed to do what it was asked for, a cycle leaves no
\* battery in a mode the grid operator's limits forbid.  (updateBatteryMode:
\* "put battery into hold mode when charging is active and HEMS dimmed".)
GridLimitsHeld ==
    loop.pc = "external" /\ ~loop.failed => \A b \in Batteries : device[b] \notin loop.limits

\* After a cycle without an error, whatever failed before, no battery is in a
\* mode the grid operator's limits forbid.
GridLimitsRegained ==
    loop.pc = "external" => \A b \in Batteries : device[b] \notin loop.limits

\* Once nothing asks for a mode any longer, every battery that can goes back to
\* normal and stays there, unless one failed to do what it was asked for.
\* (requiredBatteryMode, with the reset of external control.)
Released ==
    <>[](~down /\ demand = "unknown" /\ external = "unknown" /\ ~loop.failed)
        => <>[](\A b \in Batteries : "normal" \in Supported[b] => device[b] = "normal")

\* An external hold that stays in force is what the batteries end up in,
\* whatever tariffs, optimizer and grid limits ask for, unless one failed to do
\* what it was asked for.
ExternalWins ==
    <>[](~down /\ external = "hold" /\ ~loop.failed)
        => <>[](\A b \in Batteries : "hold" \in Supported[b] => device[b] = "hold")

\* An external mode in force is watched, so that it is withdrawn when nobody
\* renews it.  (SetBatteryModeExternal: "start watchdog if not running".)
ExternalIsWatched == external # "unknown" => \E w \in Watchdogs : Running(w)

\* After shutdown no battery is left in a modified mode.  (Boot: "revert battery
\* mode on shutdown".)
ShutdownReverts == down => \A b \in Batteries : "normal" \in Supported[b] => device[b] \notin Modified
=============================================================================
