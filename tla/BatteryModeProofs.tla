--------------------------- MODULE BatteryModeProofs ---------------------------
(***************************************************************************)
(* What BatteryMode guarantees for any number of batteries, whatever modes *)
(* they support and whatever external modes and suggestions there are.     *)
(***************************************************************************)
EXTENDS BatteryMode, TLAPS

\* While a battery is to be changed, there is one whose turn it is.
Inv == TypeOK /\ (loop.pc = "apply" => loop.next <= N)

-----------------------------------------------------------------------------
(***************************************************************************)
(* The mode a battery is asked for.                                        *)
(***************************************************************************)
LEMMA FallbackList ==
    ASSUME NEW mode \in Modes \ {"unknown"}
    PROVE  /\ DOMAIN Fallbacks(mode) \in {1 .. 1, 1 .. 2, 1 .. 3}
           /\ \A i \in DOMAIN Fallbacks(mode) : Fallbacks(mode)[i] \in Modes \ {"unknown"}
           /\ \E i \in DOMAIN Fallbacks(mode) : Fallbacks(mode)[i] = "normal"
           /\ \A i \in DOMAIN Fallbacks(mode) :
                 Fallbacks(mode)[i] \in {"charge", "discharge"} => Fallbacks(mode)[i] = mode
           /\ mode = "normal" => \A i \in DOMAIN Fallbacks(mode) : Fallbacks(mode)[i] = "normal"
  <1>1. CASE mode = "charge"
    BY <1>1 DEF Fallbacks, Modes, Modified
  <1>2. CASE mode = "discharge"
    BY <1>2 DEF Fallbacks, Modes, Modified
  <1>3. CASE mode \in {"hold", "holdcharge"}
    BY <1>3 DEF Fallbacks, Modes, Modified
  <1>4. CASE mode = "normal"
    BY <1>4 DEF Fallbacks, Modes, Modified
  <1> QED
    BY <1>1, <1>2, <1>3, <1>4 DEF Modes, Modified

\* A set of places in a list of up to three has a first one.
LEMMA FirstOfThree ==
    ASSUME NEW S \in SUBSET (1 .. 3), S # {}
    PROVE  \E i \in S : \A j \in S : i <= j
  <1>1. CASE 1 \in S
    BY <1>1
  <1>2. CASE 1 \notin S /\ 2 \in S
    BY <1>2
  <1>3. CASE 1 \notin S /\ 2 \notin S
    <2>1. \A j \in S : j = 3
      BY <1>3
    <2>2. 3 \in S
      BY <2>1
    <2> QED
      BY <2>1, <2>2
  <1> QED
    BY <1>1, <1>2, <1>3

LEMMA SupportedMode ==
    ASSUME NEW b \in Batteries, NEW mode \in Modes \ {"unknown"}
    PROVE  LET m == SupportedBatteryMode(b, mode) IN
           /\ m # "unknown" => m \in Supported[b] /\ m \in Modes
           /\ m \in Modes
           /\ "normal" \in Supported[b] => m # "unknown"
           /\ m \in {"charge", "discharge"} => m = mode
           /\ mode = "normal" => m \in {"unknown", "normal"}
  <1> DEFINE f  == Fallbacks(mode)
             ok == {i \in DOMAIN f : f[i] \in Supported[b]}
             c  == CHOOSE i \in ok : \A j \in ok : i <= j
  <1>1. ok \in SUBSET (1 .. 3)
    BY FallbackList
  <1>2. CASE ok = {}
    <2>1. SupportedBatteryMode(b, mode) = "unknown"
      BY <1>2 DEF SupportedBatteryMode
    <2>2. "normal" \notin Supported[b]
      BY <1>2, FallbackList
    <2> QED
      BY <2>1, <2>2 DEF Modes
  <1>3. CASE ok # {}
    <2>1. c \in ok
      BY <1>1, <1>3, FirstOfThree
    <2>2. SupportedBatteryMode(b, mode) = f[c]
      BY <1>3 DEF SupportedBatteryMode
    <2>3. f[c] \in Supported[b]
      BY <2>1
    <2> HIDE DEF f, c
    <2> QED
      BY <2>1, <2>2, <2>3, FallbackList DEF ok, f
  <1> QED
    BY <1>2, <1>3

LEMMA DeviceModes ==
    ASSUME NEW b \in Batteries, NEW mode \in Modes, NEW atBound \in BOOLEAN
    PROVE  LET m == DeviceMode(b, mode, atBound) IN
           /\ m \in Modes
           /\ m # "unknown" => m \in Supported[b]
           /\ mode # "unknown" /\ "normal" \in Supported[b] => m # "unknown"
           /\ m \in {"charge", "discharge"} => m = mode
  <1>1. "hold" \in Modes \ {"unknown"}
    BY DEF Modes, Modified
  <1>2. CASE Bounded(mode) /\ atBound
    <2>1. DeviceMode(b, mode, atBound) = SupportedBatteryMode(b, "hold")
      BY <1>2 DEF DeviceMode
    <2> QED
      BY <2>1, <1>1, SupportedMode
  <1>3. CASE ~(Bounded(mode) /\ atBound) /\ mode = "unknown"
    BY <1>3 DEF DeviceMode, Modes
  <1>4. CASE ~(Bounded(mode) /\ atBound) /\ mode # "unknown"
    <2>1. DeviceMode(b, mode, atBound) = SupportedBatteryMode(b, mode)
      BY <1>4 DEF DeviceMode
    <2> QED
      BY <2>1, <1>4, SupportedMode
  <1> QED
    BY <1>2, <1>3, <1>4

-----------------------------------------------------------------------------
LEMMA InitInv == Init => Inv
  <1> SUFFICES ASSUME Init PROVE Inv
    OBVIOUS
  <1> USE BatteryModeAssumption DEF Init
  <1>1. loop \in Loop /\ loop.pc = "external"
    BY DEF Loop, Modes
  <1>2. timer \in NoTime .. Expired
    BY DEF NoTime, Expired
  <1>3. applied \in [Batteries -> Modes] /\ device \in [Batteries -> Modes]
    BY DEF Modes
  <1>4. \A b \in Batteries : /\ applied[b] \in Supported[b] \cup {"unknown"}
                            /\ device[b] \in Supported[b] \cup {"normal"}
    OBVIOUS
  <1>5. watchdog \in [Watchdogs -> {"none", "waiting", "late", "expired"}]
    OBVIOUS
  <1> QED
    BY <1>1, <1>2, <1>3, <1>4, <1>5 DEF Inv, TypeOK, Modes

\* What ApplyBatteryMode and the ways it may fail do to the loop.
LEMMA LoopTypes ==
    ASSUME Inv
    PROVE  /\ Ended \in Loop
           /\ Abort \in Loop /\ Abort.pc = "external"
           /\ loop.pc = "apply" =>
                 /\ NextBattery \in Loop
                 /\ [NextBattery EXCEPT !.limits = {}, !.failed = TRUE] \in Loop
                 /\ NextBattery.pc = "apply" => NextBattery.next <= N
                 /\ loop.next \in Batteries
  <1>1. /\ loop \in Loop /\ N \in Nat /\ 1 \in 1 .. (N + 1) /\ "unknown" \in Modes
        /\ loop.pc = "apply" => loop.next <= N
    BY BatteryModeAssumption DEF Inv, TypeOK, Modes
  <1>2. Ended \in Loop
    BY <1>1 DEF Ended, Loop
  <1>3. Abort \in Loop /\ Abort.pc = "external"
    <2>1. Ended.pc = "external"
      BY <1>1 DEF Ended, Loop
    <2> QED
      BY <1>2, <2>1 DEF Abort, Loop
  <1>4. ASSUME loop.pc = "apply"
        PROVE  /\ NextBattery \in Loop
               /\ [NextBattery EXCEPT !.limits = {}, !.failed = TRUE] \in Loop
               /\ NextBattery.pc = "apply" => NextBattery.next <= N
               /\ loop.next \in Batteries
    <2>1. loop.next \in 1 .. N /\ loop.next + 1 \in 1 .. (N + 1)
      BY <1>1, <1>4 DEF Loop
    <2>2. NextBattery \in Loop
      BY <1>1, <2>1 DEF NextBattery, Loop
    <2>3. NextBattery.pc = "apply" => NextBattery.next <= N
      BY <1>1, <2>1 DEF NextBattery, Loop
    <2>4. [NextBattery EXCEPT !.limits = {}, !.failed = TRUE] \in Loop
      BY <2>2 DEF Loop
    <2> QED
      BY <2>1, <2>2, <2>3, <2>4 DEF Batteries
  <1> QED
    BY <1>2, <1>3, <1>4

LEMMA NextInv == Inv /\ [Next]_vars => Inv'
  <1> SUFFICES ASSUME Inv, [Next]_vars PROVE Inv'
    OBVIOUS
  <1> USE BatteryModeAssumption DEF Inv, TypeOK
  <1>1. CASE ReadExternal /\ UNCHANGED down
    BY <1>1 DEF ReadExternal, siteVars, Loop
  <1>2. CASE ReadTimer /\ UNCHANGED down
    BY <1>2 DEF ReadTimer, siteVars, Loop
  <1>3. CASE UpdateBatteryMode /\ UNCHANGED down
    <2>1. Limited(RequiredBatteryMode) \in Modes
      BY DEF Limited, RequiredBatteryMode, Loop, Modes, Modified
    <2>2. Forbidden \in SUBSET {"charge", "discharge"}
      BY DEF Forbidden
    <2>3. 1 \in 1 .. (N + 1) /\ 1 <= N
      OBVIOUS
    <2>4. loop' \in Loop /\ loop'.next = 1
      BY <1>3, <2>1, <2>2, <2>3 DEF UpdateBatteryMode, Loop, Modes
    <2> QED
      BY <1>3, <2>3, <2>4 DEF UpdateBatteryMode, siteVars
  <1>4. CASE ApplyBatteryMode /\ UNCHANGED down
    <2>1. PICK atBound \in BOOLEAN :
             LET b == loop.next
                 m == DeviceMode(b, loop.mode, atBound)
             IN  /\ loop' = NextBattery
                 /\ IF m = "unknown"
                    THEN UNCHANGED <<applied, device>>
                    ELSE /\ applied' = [applied EXCEPT ![b] = m]
                         /\ device' = [device EXCEPT ![b] = IF applied[b] = m THEN @ ELSE m]
      BY <1>4 DEF ApplyBatteryMode
    <2>2. loop.next \in Batteries /\ loop.mode \in Modes
      BY <1>4, LoopTypes DEF ApplyBatteryMode, Loop
    <2> DEFINE m == DeviceMode(loop.next, loop.mode, atBound)
    <2>3. m \in Modes /\ (m # "unknown" => m \in Supported[loop.next])
      BY <2>2, DeviceModes
    <2>4. loop' \in Loop /\ (loop'.pc = "apply" => loop'.next <= N)
      BY <1>4, <2>1, LoopTypes DEF ApplyBatteryMode
    <2> HIDE DEF m
    <2>5. /\ applied' \in [Batteries -> Modes]
          /\ device' \in [Batteries -> Modes]
          /\ \A b \in Batteries : /\ applied'[b] \in Supported[b] \cup {"unknown"}
                                  /\ device'[b] \in Supported[b] \cup {"normal"}
      BY <2>1, <2>2, <2>3 DEF m
    <2> QED
      BY <1>4, <2>4, <2>5 DEF ApplyBatteryMode, siteVars
  <1>5. CASE SocFails /\ UNCHANGED down
    BY <1>5, LoopTypes DEF SocFails, siteVars
  <1>6. CASE ApplyFails /\ UNCHANGED down
    <2>1. loop.next \in Batteries /\ loop.mode \in Modes /\ loop' \in Loop /\ loop'.pc = "external"
      BY <1>6, LoopTypes DEF ApplyFails, Loop
    <2>2. PICK m \in Modes, obeyed \in BOOLEAN :
             /\ Calls(loop.next, m)
             /\ device' = IF obeyed THEN [device EXCEPT ![loop.next] = m] ELSE device
      BY <1>6 DEF ApplyFails
    <2>3. m \in Supported[loop.next]
      <3>1. PICK atBound \in BOOLEAN : m = DeviceMode(loop.next, loop.mode, atBound) /\ m # "unknown"
        BY <2>2 DEF Calls
      <3> QED
        BY <2>1, <3>1, DeviceModes
    <2>4. /\ device' \in [Batteries -> Modes]
          /\ \A b \in Batteries : device'[b] \in Supported[b] \cup {"normal"}
      BY <2>1, <2>2, <2>3
    <2> QED
      BY <1>6, <2>1, <2>4 DEF ApplyFails, siteVars
  <1>7. CASE ApplyNotAvailable /\ UNCHANGED down
    <2>1. loop' \in Loop /\ (loop'.pc = "apply" => loop'.next <= N)
      BY <1>7, LoopTypes DEF ApplyNotAvailable, NextBattery, Loop
    <2> QED
      BY <1>7, <2>1 DEF ApplyNotAvailable, siteVars
  <1>8. CASE RecordBatteryMode /\ UNCHANGED down
    <2>1. loop' \in Loop /\ loop'.pc = "external"
      BY <1>8, LoopTypes DEF RecordBatteryMode, Ended, Loop
    <2>2. batteryMode' \in Modes /\ timer' \in NoTime .. Expired
      BY <1>8 DEF RecordBatteryMode, Loop, NoTime, Expired
    <2> QED
      BY <1>8, <2>1, <2>2 DEF RecordBatteryMode
  <1>9. CASE SetBatteryModeExternal /\ UNCHANGED down
    BY <1>9 DEF SetBatteryModeExternal, SetExternal, Modes, NoTime, Expired
  <1>10. CASE Watchdog /\ UNCHANGED down
    BY <1>10 DEF Watchdog, WatchdogLate, WatchdogChecks, WatchdogExpires, SetExternal,
                 siteVars, Modes
  <1>11. CASE (Tick \/ ChangeDemand \/ Dim \/ Curtail) /\ UNCHANGED down
    <2>1. CASE Tick
      BY <1>11, <2>1 DEF Tick, NoTime, Expired
    <2>2. CASE ChangeDemand \/ Dim \/ Curtail
      BY <1>11, <2>2 DEF ChangeDemand, Dim, Curtail, siteVars, Modes
    <2> QED
      BY <1>11, <2>1, <2>2
  <1>12. CASE Shutdown
    <2>1. \A b \in Batteries : SupportedBatteryMode(b, "normal") # "unknown" => "normal" \in Supported[b]
      BY SupportedMode DEF Modes
    <2>2. applied' \in [Batteries -> Modes] /\ device' \in [Batteries -> Modes]
      BY <1>12 DEF Shutdown, Modes
    <2>3. \A b \in Batteries : /\ applied'[b] \in Supported[b] \cup {"unknown"}
                              /\ device'[b] \in Supported[b] \cup {"normal"}
      BY <1>12, <2>1 DEF Shutdown
    <2> QED
      BY <1>12, <2>2, <2>3 DEF Shutdown, siteVars
  <1>13. CASE UNCHANGED vars
    BY <1>13 DEF vars, siteVars
  <1> QED
    BY <1>1, <1>2, <1>3, <1>4, <1>5, <1>6, <1>7, <1>8, <1>9, <1>10, <1>11, <1>12, <1>13
       DEF Next, Works, Cycle, Surroundings

\* Every variable always has its type, and no battery is ever asked for a mode
\* it does not support.  (supportedBatteryMode.)
THEOREM TypeCorrect == Spec => []TypeOK
  <1>1. Inv => TypeOK
    BY DEF Inv
  <1> QED
    BY <1>1, InitInv, NextInv, PTL DEF Spec

-----------------------------------------------------------------------------
\* An external mode in force has its timer running.  (SetBatteryMode forgets
\* the timer only if there is no external mode.)
THEOREM ExternalTimed == Spec => []ExternalIsTimed
  <1>1. Init => ExternalIsTimed
    BY DEF Init, ExternalIsTimed
  <1>2. Inv /\ ExternalIsTimed /\ [Next]_vars => ExternalIsTimed'
    <2> SUFFICES ASSUME Inv, ExternalIsTimed, [Next]_vars PROVE ExternalIsTimed'
      OBVIOUS
    <2> USE DEF ExternalIsTimed, NoTime
    <2>1. CASE UNCHANGED <<external, timer>>
      BY <2>1
    <2>2. CASE RecordBatteryMode
      BY <2>2 DEF RecordBatteryMode
    <2>3. CASE SetBatteryModeExternal
      BY <2>3 DEF SetBatteryModeExternal, SetExternal
    <2>4. CASE \E w \in Watchdogs : WatchdogExpires(w)
      BY <2>4 DEF WatchdogExpires, SetExternal
    <2>5. CASE Tick
      BY <2>5, BatteryModeAssumption DEF Tick
    <2> QED
      BY <2>1, <2>2, <2>3, <2>4, <2>5
         DEF Next, Works, Cycle, Watchdog, Surroundings, ReadExternal, ReadTimer, UpdateBatteryMode,
             ApplyBatteryMode, SocFails, ApplyFails, ApplyNotAvailable, WatchdogLate, WatchdogChecks,
             ChangeDemand, Dim, Curtail, Shutdown, vars, siteVars
  <1> QED
    BY <1>1, <1>2, InitInv, NextInv, PTL DEF Spec
-----------------------------------------------------------------------------
(***************************************************************************)
(* The grid operator's limits.  While no battery has failed, one that      *)
(* charges or discharges does so because of the mode being applied, if its *)
(* turn has come, or else because of the site's mode (Following); and what *)
(* is being applied keeps the limits the cycle saw (Allowed).              *)
(***************************************************************************)
Target(b) == IF loop.mode # "unknown" /\ b < loop.next THEN loop.mode ELSE batteryMode

Places ==
    /\ loop.pc \notin {"apply", "record"} => loop.mode = "unknown" /\ loop.next = 1
    /\ loop.pc = "record" => loop.next = N + 1

Consistent == \A b \in Batteries : device[b] = IF applied[b] = "unknown" THEN "normal" ELSE applied[b]

Following == \A b \in Batteries : device[b] \in {"charge", "discharge"} => device[b] = Target(b)

Allowed == \A m \in loop.limits : ~FromTo(loop.mode, m)

LimitInv == Inv /\ Places /\ (~loop.failed => Consistent /\ Following /\ Allowed)

\* All batteries can be put into normal mode.
AllNormal == \A b \in Batteries : "normal" \in Supported[b]

LEMMA LimitsObeyed ==
    ASSUME NEW requested, NEW m \in Forbidden
    PROVE  ~FromTo(Limited(requested), m)
  BY DEF Forbidden, Limited, FromTo

LEMMA InitLimits == Init => LimitInv
  <1> SUFFICES ASSUME Init PROVE LimitInv
    OBVIOUS
  <1>1. Inv
    BY InitInv
  <1> QED
    BY <1>1 DEF Init, LimitInv, Places, Consistent, Following, Allowed

LEMMA NextLimits == AllNormal /\ LimitInv /\ [Next]_vars => LimitInv'
  <1> SUFFICES ASSUME AllNormal, LimitInv, [Next]_vars PROVE LimitInv'
    OBVIOUS
  <1>1. Inv /\ Inv'
    BY NextInv DEF LimitInv
  <1>2. /\ loop \in Loop /\ loop' \in Loop /\ N \in Nat \ {0}
        /\ loop.pc = "apply" => loop.next <= N
    BY <1>1, BatteryModeAssumption DEF Inv, TypeOK
  <1> USE DEF LimitInv, Places
  <1>3. CASE UNCHANGED <<batteryMode, applied, device, loop>>
    BY <1>1, <1>3 DEF Consistent, Following, Target, Allowed, FromTo
  <1>4. CASE ReadExternal
    <2>1. Places' /\ loop'.failed = loop.failed
      BY <1>2, <1>4 DEF ReadExternal, Loop
    <2>2. ~loop.failed => (Consistent /\ Following)'
      BY <1>2, <1>4 DEF ReadExternal, siteVars, Consistent, Following, Target, Loop
    <2>3. loop'.limits = {}
      BY <1>2, <1>4 DEF ReadExternal, Loop
    <2> QED
      BY <1>1, <2>1, <2>2, <2>3 DEF Allowed
  <1>5. CASE ReadTimer
    <2>1. /\ Places' /\ loop'.failed = loop.failed /\ loop'.limits = loop.limits
          /\ loop'.mode = loop.mode /\ loop'.next = loop.next
      BY <1>2, <1>5 DEF ReadTimer, Loop
    <2> QED
      BY <1>1, <1>5, <2>1 DEF ReadTimer, siteVars, Consistent, Following, Target, Allowed, FromTo
  <1>6. CASE UpdateBatteryMode
    <2> DEFINE mode == Limited(RequiredBatteryMode)
    <2> HIDE DEF mode
    <2>1. /\ loop.pc = "decide" /\ loop'.failed = loop.failed
          /\ loop'.mode = mode /\ loop'.next = 1 /\ loop'.limits = Forbidden
          /\ loop'.pc = IF mode # "unknown" \/ batteryMode \in {"charge", "discharge"}
                        THEN "apply" ELSE "external"
      BY <1>2, <1>6 DEF UpdateBatteryMode, Loop, mode
    <2>2. UNCHANGED <<batteryMode, applied, device>>
      BY <1>6 DEF UpdateBatteryMode, siteVars
    <2>3. Allowed'
      BY <2>1, <2>2, LimitsObeyed DEF Allowed, FromTo, mode
    <2>4. ~loop.failed => (Consistent /\ Following)'
      BY <2>1, <2>2 DEF Consistent, Following, Target, Batteries
    <2> QED
      BY <1>1, <2>1, <2>3, <2>4
  <1>7. CASE ApplyBatteryMode
    <2> DEFINE b == loop.next
    <2>1. PICK atBound \in BOOLEAN :
             LET m == DeviceMode(b, loop.mode, atBound)
             IN  /\ loop' = NextBattery
                 /\ IF m = "unknown"
                    THEN UNCHANGED <<applied, device>>
                    ELSE /\ applied' = [applied EXCEPT ![b] = m]
                         /\ device' = [device EXCEPT ![b] = IF applied[b] = m THEN @ ELSE m]
      BY <1>7 DEF ApplyBatteryMode
    <2> DEFINE m == DeviceMode(b, loop.mode, atBound)
    <2>2. /\ b \in Batteries /\ loop.mode \in Modes
          /\ applied \in [Batteries -> Modes] /\ device \in [Batteries -> Modes]
      BY <1>1, <1>7, LoopTypes DEF ApplyBatteryMode, Loop, Inv, TypeOK
    <2>3. /\ loop.mode # "unknown" => m # "unknown"
          /\ m \in {"charge", "discharge"} => m = loop.mode
      BY <2>2, DeviceModes DEF AllNormal
    <2>4. /\ loop'.failed = loop.failed /\ loop'.limits = loop.limits /\ loop'.mode = loop.mode
          /\ loop'.next = b + 1 /\ loop'.pc = IF b = N THEN "record" ELSE "apply"
      BY <1>2, <1>7, <2>1 DEF ApplyBatteryMode, NextBattery, Loop
    <2>5. batteryMode' = batteryMode
      BY <1>7 DEF ApplyBatteryMode, siteVars
    <2>6. Allowed => Allowed'
      BY <2>4, <2>5 DEF Allowed, FromTo
    <2>7. Consistent => Consistent'
      <3> HIDE DEF m
      <3>1. CASE m = "unknown"
        BY <2>1, <3>1 DEF Consistent, m
      <3>2. CASE m # "unknown"
        <4>1. /\ applied' = [applied EXCEPT ![b] = m]
              /\ device' = [device EXCEPT ![b] = IF applied[b] = m THEN @ ELSE m]
          BY <2>1, <3>2 DEF m
        <4> QED
          BY <2>2, <3>2, <4>1 DEF Consistent
      <3> QED
        BY <3>1, <3>2
    <2>8. Consistent /\ Following => Following'
      <3> SUFFICES ASSUME Consistent, Following, NEW c \in Batteries,
                          device'[c] \in {"charge", "discharge"}
                   PROVE  device'[c] = Target(c)'
        BY DEF Following
      <3>1. c \in Nat /\ b \in Nat
        BY <1>2, <2>2 DEF Batteries
      <3>2. CASE c # b
        <4>1. device'[c] = device[c]
          BY <2>1, <2>2, <3>2
        <4>2. Target(c)' = Target(c)
          BY <2>4, <2>5, <3>1, <3>2 DEF Target
        <4> QED
          BY <4>1, <4>2 DEF Following
      <3>3. CASE c = b /\ m = "unknown"
        <4>1. device' = device /\ loop.mode = "unknown"
          BY <2>1, <2>3, <3>3
        <4>2. Target(c)' = Target(c)
          BY <2>4, <2>5, <4>1 DEF Target
        <4> QED
          BY <4>1, <4>2 DEF Following
      <3>4. CASE c = b /\ m # "unknown"
        <4> HIDE DEF m
        <4>1. device'[b] = m
          BY <2>1, <2>2, <3>4 DEF Consistent, m
        <4>2. m = loop.mode
          BY <2>3, <3>4, <4>1
        <4>3. Target(c)' = loop.mode
          BY <2>4, <3>1, <3>4, <4>2 DEF Target
        <4> QED
          BY <3>4, <4>1, <4>2, <4>3
      <3> QED
        BY <3>2, <3>3, <3>4
    <2>9. Places'
      BY <2>4
    <2> QED
      BY <1>1, <2>4, <2>6, <2>7, <2>8, <2>9
  <1>8. CASE SocFails \/ ApplyFails
    <2>1. loop' = Abort
      BY <1>8 DEF SocFails, ApplyFails
    <2>2. /\ loop'.pc = "external" /\ loop'.mode = "unknown"
          /\ loop'.next = 1 /\ loop'.failed = TRUE
      BY <1>2, <2>1 DEF Abort, Ended, Loop
    <2> QED
      BY <1>1, <2>2
  <1>9. CASE ApplyNotAvailable
    BY <1>1, <1>2, <1>9 DEF ApplyNotAvailable, NextBattery, Loop
  <1>10. CASE RecordBatteryMode
    <2>1. /\ loop.pc = "record" /\ loop'.pc = "external" /\ loop'.mode = "unknown" /\ loop'.next = 1
          /\ loop'.limits = loop.limits /\ loop'.failed = loop.failed
      BY <1>2, <1>10 DEF RecordBatteryMode, Ended, Loop
    <2>2. batteryMode' = IF loop.mode = "unknown" THEN batteryMode ELSE loop.mode
      BY <1>10 DEF RecordBatteryMode
    <2>3. UNCHANGED <<applied, device>>
      BY <1>10 DEF RecordBatteryMode
    <2>4. \A b \in Batteries : Target(b)' = Target(b)
      BY <1>2, <2>1, <2>2 DEF Target, Batteries
    <2>5. Following => Following'
      BY <2>3, <2>4 DEF Following
    <2>6. Consistent => Consistent'
      BY <2>3 DEF Consistent
    <2>7. loop.limits \subseteq {"charge", "discharge"}
      BY <1>2 DEF Loop
    <2>8. Allowed => Allowed'
      BY <2>1, <2>2, <2>7 DEF Allowed, FromTo
    <2> QED
      BY <1>1, <2>1, <2>5, <2>6, <2>8
  <1>11. CASE Shutdown
    <2>1. CASE batteryMode \in Modified
      <3>1. \A b \in Batteries : SupportedBatteryMode(b, "normal") = "normal"
        BY SupportedMode DEF AllNormal, Modes
      <3>2. applied' = [b \in Batteries |-> "normal"]
        BY <1>11, <2>1, <3>1 DEF Shutdown
      <3>3. Consistent => \A b \in Batteries : device'[b] = "normal"
        BY <1>11, <2>1, <3>1 DEF Shutdown, Consistent
      <3>4. UNCHANGED <<batteryMode, loop>>
        BY <1>11 DEF Shutdown, siteVars
      <3>5. Consistent => (Consistent /\ Following)'
        BY <3>2, <3>3 DEF Consistent, Following
      <3>6. Allowed => Allowed'
        BY <3>4 DEF Allowed, FromTo
      <3> QED
        BY <1>1, <3>4, <3>5, <3>6
    <2>2. CASE batteryMode \notin Modified
      BY <1>3, <1>11, <2>2 DEF Shutdown, siteVars
    <2> QED
      BY <2>1, <2>2
  <1> QED
    BY <1>3, <1>4, <1>5, <1>6, <1>7, <1>8, <1>9, <1>10, <1>11
       DEF Next, Works, Cycle, Watchdog, Surroundings, SetBatteryModeExternal, SetExternal,
           WatchdogLate, WatchdogChecks, WatchdogExpires, Tick, ChangeDemand, Dim, Curtail, vars, siteVars

\* As long as no battery failed to do what it was asked for, a cycle leaves no
\* battery in a mode the grid operator's limits forbid, whatever number of
\* batteries there is, if all of them can be put into normal mode.
\* (updateBatteryMode.)
THEOREM LimitsHeld == ASSUME AllNormal PROVE Spec => []GridLimitsHeld
  <1>1. LimitInv => GridLimitsHeld
    <2> SUFFICES ASSUME LimitInv, loop.pc = "external", ~loop.failed, NEW b \in Batteries,
                        device[b] \in loop.limits
                 PROVE  FALSE
      BY DEF GridLimitsHeld
    <2>1. loop.limits \subseteq {"charge", "discharge"}
      BY DEF LimitInv, Inv, TypeOK, Loop
    <2>2. device[b] = batteryMode
      BY <2>1 DEF LimitInv, Places, Following, Target
    <2>3. ~FromTo("unknown", device[b])
      BY DEF LimitInv, Places, Allowed
    <2> QED
      BY <2>2, <2>3 DEF FromTo
  <1>2. LimitInv /\ [Next]_vars => LimitInv'
    BY NextLimits
  <1> QED
    BY <1>1, <1>2, InitLimits, PTL DEF Spec
=============================================================================
