-------------------------- MODULE ChargeControlProofs --------------------------
(***************************************************************************)
(* What ChargeControl guarantees for any currents, surplus, delays and     *)
(* settings, whichever calls to the charger fail.                          *)
(***************************************************************************)
EXTENDS ChargeControl, TLAPS

Situations ==
    [lp : Loadpoint, charger : Charger, err : {"none", "failed", "unavailable"}]

\* The loadpoint knows whether the charger is enabled.
Agrees(s) == ~s.charger.strayed => s.lp.enabled = s.charger.enabled

\* A charger that tells its current has not been switched up above the minimum.
Calm(s) == HasCurrentGetter => ~s.charger.surged

\* And when it is enabled it is set to the current that the loadpoint offers.
Offers(s) ==
    HasCurrentGetter /\ ~s.charger.strayed /\ s.lp.enabled => s.charger.current = s.lp.offered

Fit(s) == s \in Situations /\ Agrees(s) /\ Calm(s)

-----------------------------------------------------------------------------
(* Fields.                                                                 *)

LEMMA Delays ==
    /\ LongestDelay \in Nat \ {0} /\ EnableDelay <= LongestDelay
    /\ DisableDelay <= LongestDelay
    /\ Zero \in Timers /\ Elapsed \in Timers /\ 0 \in Timers /\ 0 \in Ages
    /\ SwitchDuration + 1 \in Ages
  BY ChargeControlAssumption DEF LongestDelay, Zero, Elapsed, Timers, Ages

\* A field of the loadpoint is changed.
LEMMA LpStored ==
    ASSUME NEW l \in Loadpoint
    PROVE  /\ \A x \in BOOLEAN : [l EXCEPT !.enabled = x] \in Loadpoint
           /\ \A x \in Currents : [l EXCEPT !.offered = x] \in Loadpoint
           /\ \A x \in {1, 3} : [l EXCEPT !.phases = x] \in Loadpoint
           /\ \A x \in Timers : [l EXCEPT !.pvTimer = x] \in Loadpoint
           /\ \A x \in Timers : [l EXCEPT !.phaseTimer = x] \in Loadpoint
           /\ \A x \in Ages : [l EXCEPT !.chargerSwitched = x] \in Loadpoint
           /\ \A x \in Ages : [l EXCEPT !.phasesSwitched = x] \in Loadpoint
  BY DEF Loadpoint

\* A field of the charger is changed.
LEMMA ChargerStored ==
    ASSUME NEW c \in Charger
    PROVE  /\ \A x \in {"A", "B", "C"} : [c EXCEPT !.status = x] \in Charger
           /\ \A x \in BOOLEAN : [c EXCEPT !.enabled = x] \in Charger
           /\ \A x \in Currents : [c EXCEPT !.current = x] \in Charger
           /\ \A x \in {1, 3} : [c EXCEPT !.phases = x] \in Charger
           /\ \A x \in BOOLEAN : [c EXCEPT !.strayed = x] \in Charger
           /\ \A x \in BOOLEAN : [c EXCEPT !.surged = x] \in Charger
  BY DEF Charger

\* The parts of a situation are replaced.
LEMMA Replaced ==
    ASSUME NEW s \in Situations, NEW l \in Loadpoint, NEW c \in Charger,
           NEW e \in {"none", "failed", "unavailable"}
    PROVE  /\ LET t == [s EXCEPT !.lp = l] IN
                 t \in Situations /\ t.lp = l /\ t.charger = s.charger /\ t.err = s.err
           /\ LET t == [s EXCEPT !.charger = c] IN
                 t \in Situations /\ t.lp = s.lp /\ t.charger = c /\ t.err = s.err
           /\ LET t == [s EXCEPT !.err = e] IN
                 t \in Situations /\ t.lp = s.lp /\ t.charger = s.charger /\ t.err = e
  BY DEF Situations

\* The loadpoint's timers and phases do not matter.
LEMMA Timed ==
    ASSUME NEW s, Fit(s), NEW l \in Loadpoint, l.enabled = s.lp.enabled
    PROVE  LET t == [s EXCEPT !.lp = l] IN
           /\ Fit(t) /\ t.lp = l /\ t.charger = s.charger /\ t.err = s.err
           /\ Offers(s) /\ l.offered = s.lp.offered => Offers(t)
  <1> DEFINE t == [s EXCEPT !.lp = l]
  <1>1. t \in Situations /\ t.lp = l /\ t.charger = s.charger /\ t.err = s.err
    BY DEF Fit, Situations
  <1> HIDE DEF t
  <1>2. Fit(t) /\ (Offers(s) /\ l.offered = s.lp.offered => Offers(t))
    BY <1>1 DEF Fit, Agrees, Calm, Offers
  <1> QED
    BY <1>1, <1>2 DEF t

-----------------------------------------------------------------------------
(* The charger's calls.                                                    *)

\* A call is obeyed, refused, or obeyed although it failed.
LEMMA CallFits ==
    ASSUME NEW s, Fit(s), NEW device \in Charger, HasCurrentGetter => ~device.surged,
           NEW ok \in Situations, Fit([ok EXCEPT !.charger = device]),
           NEW t \in Call(s, device, ok)
    PROVE  /\ Fit(t)
           /\ t.err = "failed" \/ t = [ok EXCEPT !.charger = device]
  <1> DEFINE strayed == [device EXCEPT !.strayed = TRUE]
             refused == [s EXCEPT !.err = "failed"]
             obeyed == [refused EXCEPT !.charger = strayed]
  <1>1. t \in {[ok EXCEPT !.charger = device], refused, obeyed}
    BY DEF Call
  <1>2. s \in Situations
    BY DEF Fit
  <1>3. refused \in Situations /\ refused.lp = s.lp /\ refused.charger = s.charger
        /\ refused.err = "failed"
    BY <1>2 DEF Situations
  <1>4. strayed \in Charger /\ strayed.strayed /\ strayed.surged = device.surged
    BY DEF Charger
  <1> HIDE DEF refused, strayed
  <1>5. obeyed \in Situations /\ obeyed.charger = strayed /\ obeyed.err = "failed"
    BY <1>3, <1>4 DEF Situations
  <1> HIDE DEF obeyed
  <1>6. Fit(refused)
    BY <1>3 DEF Fit, Agrees, Calm
  <1>7. Fit(obeyed)
    BY <1>4, <1>5 DEF Fit, Agrees, Calm
  <1> QED
    BY <1>1, <1>3, <1>5, <1>6, <1>7

\* The charger is told a current.
LEMMA SetCurrentFits ==
    ASSUME NEW s, Fit(s), s.err = "none", NEW current \in Currents, NEW t \in SetCurrent(s, current)
    PROVE  /\ Fit(t) /\ t.err \in {"none", "failed"}
           /\ t.err = "none" =>
                 /\ t.lp.enabled = s.lp.enabled /\ t.charger.enabled = s.charger.enabled
                 /\ t.charger.strayed = s.charger.strayed
                 /\ current >= MinCurrent => t.lp.offered = current
                 /\ Offers(s) => Offers(t)
  <1> USE ChargeControlAssumption
  <1>1. s \in Situations /\ s.lp \in Loadpoint /\ s.charger \in Charger
        /\ s.lp.offered \in Currents
    BY DEF Fit, Situations, Loadpoint
  <1>2. CASE current = s.lp.offered \/ current < MinCurrent
    <2>1. t = s
      BY <1>2 DEF SetCurrent
    <2>2. current >= MinCurrent => s.lp.offered = current
      BY <1>2 DEF Currents
    <2> QED
      BY <2>1, <2>2
  <1>3. CASE ~(current = s.lp.offered \/ current < MinCurrent)
    <2> DEFINE device == [s.charger EXCEPT !.current = current]
               l == [s.lp EXCEPT !.offered = current]
               ok == [s EXCEPT !.lp = l]
               done == [ok EXCEPT !.charger = device]
    <2>1. t \in Call(s, device, ok)
      BY <1>3 DEF SetCurrent
    <2>2. /\ device \in Charger /\ device.current = current
          /\ device.enabled = s.charger.enabled /\ device.strayed = s.charger.strayed
          /\ device.surged = s.charger.surged
      BY <1>1, ChargerStored DEF Charger
    <2>3. l \in Loadpoint /\ l.offered = current /\ l.enabled = s.lp.enabled
      BY <1>1, LpStored DEF Loadpoint
    <2> HIDE DEF device, l
    <2>4. ok \in Situations /\ ok.lp = l /\ ok.err = "none"
      BY <1>1, <2>3 DEF Situations
    <2> HIDE DEF ok
    <2>5. done \in Situations /\ done.lp = l /\ done.charger = device /\ done.err = "none"
      BY <2>2, <2>4 DEF Situations
    <2>6. Fit(done) /\ Offers(done)
      BY <2>2, <2>3, <2>5 DEF Fit, Agrees, Calm, Offers
    <2>7. Fit(t) /\ (t.err = "failed" \/ t = done)
      BY <2>1, <2>2, <2>4, <2>6, CallFits DEF Fit, Calm
    <2> HIDE DEF done
    <2> QED
      BY <2>2, <2>3, <2>5, <2>6, <2>7
  <1> QED
    BY <1>2, <1>3

\* The charger is enabled or disabled.
LEMMA SetEnabledFits ==
    ASSUME NEW s, Fit(s), s.err = "none", NEW current \in Currents, NEW t \in SetEnabled(s, current)
    PROVE  /\ Fit(t) /\ t.err \in {"none", "failed"}
           /\ s.lp.enabled /\ current >= MinCurrent => t = s
  <1>1. /\ s \in Situations /\ s.lp \in Loadpoint /\ s.charger \in Charger
        /\ s.lp.enabled \in BOOLEAN /\ s.lp.offered \in Currents
    BY DEF Fit, Situations, Loadpoint
  <1> DEFINE enabled == current >= MinCurrent
  <1>2. enabled \in BOOLEAN
    OBVIOUS
  <1>3. CASE enabled = s.lp.enabled
    <2>1. t = s
      BY <1>3 DEF SetEnabled
    <2> QED
      BY <2>1
  <1>4. CASE enabled # s.lp.enabled
    <2> DEFINE device == [s.charger EXCEPT !.enabled = enabled]
               offered == IF enabled THEN s.lp.offered ELSE 0
               l1 == [s.lp EXCEPT !.enabled = enabled]
               l2 == [l1 EXCEPT !.chargerSwitched = 0]
               l == [l2 EXCEPT !.offered = offered]
               ok == [s EXCEPT !.lp = l]
               done == [ok EXCEPT !.charger = device]
    <2>8. l1.offered = s.lp.offered /\ l2.offered = s.lp.offered
      BY <1>1 DEF Loadpoint
    <2>9. ok = [s EXCEPT !.lp.enabled = enabled, !.lp.chargerSwitched = 0,
                         !.lp.offered = IF enabled THEN @ ELSE 0]
      BY <1>1, <2>8 DEF Situations
    <2>1. t \in Call(s, device, ok)
      BY <1>4, <2>9 DEF SetEnabled
    <2>10. offered \in Currents
      BY <1>1 DEF Currents
    <2> HIDE DEF enabled, offered
    <2>2. /\ device \in Charger /\ device.enabled = enabled
          /\ device.strayed = s.charger.strayed /\ device.surged = s.charger.surged
      BY <1>1, <1>2, ChargerStored DEF Charger
    <2>3. l \in Loadpoint /\ l.enabled = enabled
      <3>1. l1 \in Loadpoint /\ l1.enabled = enabled
        BY <1>1, <1>2, LpStored DEF Loadpoint
      <3> HIDE DEF l1
      <3>2. l2 \in Loadpoint /\ l2.enabled = enabled
        BY <3>1, LpStored, Delays DEF Loadpoint
      <3> HIDE DEF l2
      <3> QED
        BY <2>10, <3>2, LpStored DEF Loadpoint
    <2> HIDE DEF device, l
    <2>4. ok \in Situations /\ ok.lp = l /\ ok.err = "none"
      BY <1>1, <2>3 DEF Situations
    <2> HIDE DEF ok
    <2>5. done \in Situations /\ done.lp = l /\ done.charger = device /\ done.err = "none"
      BY <2>2, <2>4 DEF Situations
    <2>6. Fit(done)
      BY <2>2, <2>3, <2>5 DEF Fit, Agrees, Calm
    <2>7. Fit(t) /\ (t.err = "failed" \/ t = done)
      BY <2>1, <2>2, <2>4, <2>6, CallFits DEF Fit, Calm
    <2>11. ~(s.lp.enabled /\ current >= MinCurrent)
      BY <1>1, <1>4 DEF enabled
    <2> HIDE DEF done
    <2> QED
      BY <2>5, <2>7, <2>11
  <1> QED
    BY <1>3, <1>4

LEMMA SetLimitFits ==
    ASSUME NEW s, Fit(s), s.err = "none", NEW current \in Currents, NEW t \in SetLimit(s, current)
    PROVE  /\ Fit(t) /\ t.err \in {"none", "failed"}
           /\ t.err = "none" /\ Offers(s) /\ s.lp.enabled /\ current >= MinCurrent =>
                 Offers(t) /\ t.lp.enabled /\ t.lp.offered = current
  <1>1. PICK u \in SetCurrent(s, current) :
            t \in IF u.err = "none" THEN SetEnabled(u, current) ELSE {u}
    BY DEF SetLimit
  <1>2. CASE u.err = "none"
    BY <1>1, <1>2, SetCurrentFits, SetEnabledFits
  <1>3. CASE u.err # "none"
    BY <1>1, <1>3, SetCurrentFits
  <1> QED
    BY <1>2, <1>3

-----------------------------------------------------------------------------
(* Phase switching.                                                        *)

\* Only a charger that is set to the minimum current is switched up.
LEMMA SwitchPhasesFits ==
    ASSUME NEW s, Fit(s), s.err = "none", NEW phases \in {1, 3},
           HasCurrentGetter /\ phases > 1 /\ ~s.charger.strayed /\ s.charger.enabled =>
               s.charger.current = MinCurrent,
           NEW t \in SwitchPhases(s, phases)
    PROVE  Fit(t)
  <1> USE ChargeControlAssumption
  <1> DEFINE surged == \/ s.charger.surged
                       \/ /\ phases > s.charger.phases /\ ~s.charger.strayed
                          /\ s.charger.enabled /\ s.charger.current > MinCurrent
             d1 == [s.charger EXCEPT !.phases = phases]
             device == [d1 EXCEPT !.surged = surged]
             l1 == [s.lp EXCEPT !.phases = phases]
             l2 == [l1 EXCEPT !.phaseTimer = Zero]
             l == [l2 EXCEPT !.phasesSwitched = 0]
             ok == [s EXCEPT !.lp = l]
             done == [ok EXCEPT !.charger = device]
             unable == [s EXCEPT !.err = "unavailable"]
  <1>1. /\ s \in Situations /\ s.lp \in Loadpoint /\ s.charger \in Charger
        /\ s.charger.phases \in {1, 3} /\ s.charger.surged \in BOOLEAN
        /\ s.charger.current \in Currents
    BY DEF Fit, Situations, Charger
  <1>2. surged \in BOOLEAN /\ (HasCurrentGetter => ~surged)
    BY <1>1 DEF Fit, Calm
  <1>3. device = [s.charger EXCEPT !.phases = phases,
                     !.surged = @ \/ /\ phases > s.charger.phases
                                     /\ ~s.charger.strayed
                                     /\ s.charger.enabled
                                     /\ s.charger.current > MinCurrent]
    BY <1>1 DEF Charger
  <1>4. t \in Call(s, device, ok) \cup {unable}
    <2>1. ok = [s EXCEPT !.lp.phases = phases, !.lp.phaseTimer = Zero, !.lp.phasesSwitched = 0]
      BY <1>1 DEF Situations
    <2> QED
      BY <1>3, <2>1 DEF SwitchPhases
  <1> HIDE DEF surged
  <1>5. /\ device \in Charger /\ device.enabled = s.charger.enabled
        /\ device.strayed = s.charger.strayed /\ device.surged = surged
    <2>1. d1 \in Charger /\ d1.enabled = s.charger.enabled /\ d1.strayed = s.charger.strayed
      BY <1>1, ChargerStored DEF Charger
    <2> HIDE DEF d1
    <2> QED
      BY <1>2, <2>1, ChargerStored DEF Charger
  <1>6. l \in Loadpoint /\ l.enabled = s.lp.enabled
    <2>1. l1 \in Loadpoint /\ l1.enabled = s.lp.enabled
      BY <1>1, LpStored DEF Loadpoint
    <2> HIDE DEF l1
    <2>2. l2 \in Loadpoint /\ l2.enabled = s.lp.enabled
      BY <2>1, LpStored, Delays DEF Loadpoint
    <2> HIDE DEF l2
    <2> QED
      BY <2>2, LpStored, Delays DEF Loadpoint
  <1> HIDE DEF device, l
  <1>7. ok \in Situations /\ ok.lp = l /\ ok.err = "none"
    BY <1>1, <1>6 DEF Situations
  <1> HIDE DEF ok
  <1>8. done \in Situations /\ done.lp = l /\ done.charger = device
    BY <1>5, <1>7 DEF Situations
  <1>9. Fit(done)
    BY <1>2, <1>5, <1>6, <1>8 DEF Fit, Agrees, Calm
  <1>10. Fit(unable)
    BY <1>1, Replaced DEF Fit, Agrees, Calm, Situations
  <1>11. CASE t \in Call(s, device, ok)
    BY <1>2, <1>5, <1>7, <1>9, <1>11, CallFits
  <1> QED
    BY <1>4, <1>10, <1>11

LEMMA ScalePhasesFits ==
    ASSUME NEW s, Fit(s), Offers(s), s.err = "none", NEW phases \in {1, 3},
           NEW t \in ScalePhases(s, phases)
    PROVE  Fit(t)
  <1> USE ChargeControlAssumption
  <1>1. CASE s.lp.phases = phases
    BY <1>1 DEF ScalePhases
  <1>2. CASE s.lp.phases # phases
    <2> DEFINE S == IF s.lp.enabled /\ phases > 1 THEN SetLimit(s, MinCurrent) ELSE {s}
    <2>1. PICK u \in S : t \in IF u.err = "none" THEN SwitchPhases(u, phases) ELSE {u}
      BY <1>2 DEF ScalePhases
    <2>2. MinCurrent \in Currents
      BY DEF Currents
    <2>3. /\ Fit(u)
          /\ u.err = "none" =>
                (HasCurrentGetter /\ phases > 1 /\ ~u.charger.strayed /\ u.charger.enabled
                    => u.charger.current = MinCurrent)
      <3>1. CASE s.lp.enabled /\ phases > 1
        <4>1. u \in SetLimit(s, MinCurrent)
          BY <2>1, <3>1
        <4>2. /\ Fit(u)
              /\ u.err = "none" => Offers(u) /\ u.lp.enabled /\ u.lp.offered = MinCurrent
          BY <2>2, <3>1, <4>1, SetLimitFits
        <4> QED
          BY <4>2 DEF Offers
      <3>2. CASE ~(s.lp.enabled /\ phases > 1)
        <4>1. u = s
          BY <2>1, <3>2
        <4> QED
          BY <3>2, <4>1 DEF Fit, Agrees
      <3> QED
        BY <3>1, <3>2
    <2>4. CASE u.err = "none"
      BY <2>1, <2>3, <2>4, SwitchPhasesFits
    <2>5. CASE u.err # "none"
      BY <2>1, <2>3, <2>5
    <2> QED
      BY <2>4, <2>5
  <1> QED
    BY <1>1, <1>2

\* An error that is set aside.
LEMMA ErrorCleared ==
    ASSUME NEW s, Fit(s), NEW e \in {"none", "failed", "unavailable"}
    PROVE  LET t == [s EXCEPT !.err = e] IN
           Fit(t) /\ t.err = e /\ t.lp = s.lp /\ t.charger = s.charger
  <1> DEFINE t == [s EXCEPT !.err = e]
  <1>1. t \in Situations /\ t.err = e /\ t.lp = s.lp /\ t.charger = s.charger
    BY DEF Fit, Situations
  <1> HIDE DEF t
  <1>2. Fit(t)
    BY <1>1 DEF Fit, Agrees, Calm
  <1> QED
    BY <1>1, <1>2 DEF t

LEMMA ScalePhasesIfAvailableFits ==
    ASSUME TypeOK, NEW s, Fit(s), Offers(s), s.err = "none", NEW phases \in {1, 3},
           NEW t \in ScalePhasesIfAvailable(s, phases)
    PROVE  Fit(t)
  <1> DEFINE wanted == IF phasesConfigured = 0 THEN phases ELSE phasesConfigured
  <1>1. wanted \in {1, 3}
    BY DEF TypeOK
  <1>2. CASE HasPhaseSwitching
    <2>1. PICK u \in ScalePhases(s, wanted) : t = Tolerated(u)
      BY <1>2 DEF ScalePhasesIfAvailable
    <2>2. Fit(u)
      BY <1>1, <2>1, ScalePhasesFits
    <2> DEFINE e == IF u.err = "unavailable" THEN "none" ELSE u.err
    <2>3. e \in {"none", "failed", "unavailable"}
      BY <2>2 DEF Fit, Situations
    <2>4. t = [u EXCEPT !.err = e]
      BY <2>1 DEF Tolerated
    <2> HIDE DEF e
    <2> QED
      BY <2>2, <2>3, <2>4, ErrorCleared
  <1>3. CASE ~HasPhaseSwitching
    BY <1>3 DEF ScalePhasesIfAvailable
  <1> QED
    BY <1>2, <1>3

\* A timer is set.
LEMMA TimerSet ==
    ASSUME NEW s, Fit(s), NEW x \in Timers
    PROVE  /\ LET t == [s EXCEPT !.lp.phaseTimer = x] IN
                 /\ Fit(t) /\ t.err = s.err /\ (Offers(s) => Offers(t))
                 /\ t.lp.phaseTimer = x
           /\ LET t == [s EXCEPT !.lp.pvTimer = x] IN
                 Fit(t) /\ t.err = s.err /\ (Offers(s) => Offers(t))
  <1> DEFINE l == [s.lp EXCEPT !.phaseTimer = x]
             k == [s.lp EXCEPT !.pvTimer = x]
  <1>1. s.lp \in Loadpoint
    BY DEF Fit, Situations
  <1>2. /\ l \in Loadpoint /\ l.enabled = s.lp.enabled /\ l.offered = s.lp.offered
        /\ l.phaseTimer = x
        /\ k \in Loadpoint /\ k.enabled = s.lp.enabled /\ k.offered = s.lp.offered
    BY <1>1, LpStored DEF Loadpoint
  <1> HIDE DEF l, k
  <1>3. /\ LET t == [s EXCEPT !.lp = l] IN
              /\ Fit(t) /\ t.err = s.err /\ (Offers(s) => Offers(t))
              /\ t.lp.phaseTimer = x
        /\ LET t == [s EXCEPT !.lp = k] IN
              Fit(t) /\ t.err = s.err /\ (Offers(s) => Offers(t))
    BY <1>2, Timed
  <1> QED
    BY <1>3 DEF l, k

LEMMA FastChargingFits ==
    ASSUME TypeOK, NEW s, Fit(s), Offers(s), s.err = "none", NEW t \in FastCharging(s)
    PROVE  Fit(t)
  <1> DEFINE S == IF Completed(s.lp.phasesSwitched) THEN ScalePhasesIfAvailable(s, 3) ELSE {s}
             Reset(r) == [r EXCEPT !.lp.phaseTimer = Zero]
  <1>1. PICK r \in S : t \in IF Reset(r).err = "none" THEN SetLimit(Reset(r), MaxCurrent)
                             ELSE {Reset(r)}
    BY DEF FastCharging
  <1>2. Fit(r)
    BY <1>1, ScalePhasesIfAvailableFits
  <1>3. Fit(Reset(r))
    BY <1>2, TimerSet, Delays
  <1>4. MaxCurrent \in Currents
    BY ChargeControlAssumption DEF Currents
  <1> HIDE DEF Reset
  <1> QED
    BY <1>1, <1>3, <1>4, SetLimitFits

LEMMA MinChargingFits ==
    ASSUME TypeOK, NEW s, Fit(s), Offers(s), s.err = "none", NEW t \in MinCharging(s)
    PROVE  Fit(t)
  <1>1. PICK r \in ScalePhasesIfAvailable(s, 1) :
            t \in IF r.err = "none" THEN SetLimit(r, MinCurrent) ELSE {r}
    BY DEF MinCharging
  <1>2. Fit(r)
    BY <1>1, ScalePhasesIfAvailableFits
  <1>3. MinCurrent \in Currents
    BY ChargeControlAssumption DEF Currents
  <1> QED
    BY <1>1, <1>2, <1>3, SetLimitFits

LEMMA ElapsedFits ==
    ASSUME NEW S, \A s \in S : Fit(s), NEW t \in ElapsePVTimer(S)
    PROVE  Fit(t)
  <1>1. PICK s \in S : t = [s EXCEPT !.lp.pvTimer = Elapsed]
    BY DEF ElapsePVTimer
  <1> QED
    BY <1>1, TimerSet, Delays

-----------------------------------------------------------------------------
(* Surplus charging.                                                       *)

LEMMA PvScalePhasesFits ==
    ASSUME TypeOK, NEW s, Fit(s), Offers(s), s.err = "none", NEW in, NEW t \in PvScalePhases(s, in)
    PROVE  Fit(t) /\ t.err = "none"
  <1>1. s.lp.phaseTimer \in Timers /\ Started(s.lp.phaseTimer) \in Timers
    BY Delays DEF Fit, Situations, Loadpoint, Started
  <1>2. ASSUME NEW phases \in {1, 3}, NEW delay, t \in TimedScale(s, phases, delay)
        PROVE  Fit(t) /\ t.err = "none"
    <2> DEFINE timer == IF status # "C" THEN Elapsed ELSE Started(s.lp.phaseTimer)
               u == [s EXCEPT !.lp.phaseTimer = timer]
    <2>1. timer \in Timers
      BY <1>1, Delays
    <2>2. t \in IF u.lp.phaseTimer >= delay
                THEN {[v EXCEPT !.err = "none"] : v \in ScalePhases(u, phases)}
                ELSE {u}
      BY <1>2 DEF TimedScale
    <2> HIDE DEF timer
    <2>3. Fit(u) /\ Offers(u) /\ u.err = "none"
      BY <2>1, TimerSet
    <2> HIDE DEF u
    <2>4. CASE t = u
      BY <2>3, <2>4
    <2>5. CASE \E v \in ScalePhases(u, phases) : t = [v EXCEPT !.err = "none"]
      BY <2>3, <2>5, ScalePhasesFits, ErrorCleared
    <2> QED
      BY <2>2, <2>4, <2>5
  <1>3. Fit([s EXCEPT !.lp.phaseTimer = Zero]) /\ [s EXCEPT !.lp.phaseTimer = Zero].err = "none"
    BY TimerSet, Delays
  <1>4. \/ t = s \/ t \in TimedScale(s, 1, DisableDelay) \/ t \in TimedScale(s, 3, EnableDelay)
        \/ t = [s EXCEPT !.lp.phaseTimer = Zero]
    BY DEF PvScalePhases
  <1> QED
    BY <1>2, <1>3, <1>4

\* The surplus gives a timer and a current the charger can be set to.
LEMMA PvTargets ==
    ASSUME TypeOK, NEW s, Fit(s), NEW in \in Inputs
    PROVE  PvTarget(s, in).timer \in Timers /\ PvTarget(s, in).current \in Currents
  <1> USE ChargeControlAssumption
  <1>1. /\ s.lp \in Loadpoint /\ s.lp.phases \in {1, 3} /\ s.lp.offered \in Currents
        /\ s.lp.pvTimer \in Timers
    BY DEF Fit, Situations, Loadpoint
  <1>8. Currents \subseteq Int
    BY DEF Currents
  <1>9. in.avail \in Int
    BY DEF Inputs
  <1>10. lp \in Loadpoint
    BY DEF TypeOK
  <1>11. lp.offered \in Currents /\ lp.phases \in {1, 3}
    BY <1>10 DEF Loadpoint
  <1>2. in.avail \in Int /\ lp.offered \in Int /\ lp.phases \in {1, 3} /\ s.lp.offered \in Int
    BY <1>1, <1>8, <1>9, <1>11
  <1>3. SitePower(in) \in Int
    BY <1>2 DEF SitePower, ChargePower
  <1>4. AvailableCurrent(s, in) \in Int
    <2>1. CASE s.lp.phases = 1
      BY <1>1, <1>2, <1>3, <2>1 DEF AvailableCurrent
    <2>2. CASE s.lp.phases = 3
      BY <1>1, <1>2, <1>3, <2>2 DEF AvailableCurrent
    <2> QED
      BY <1>1, <2>1, <2>2
  <1>5. MinCurrent \in Currents /\ MaxCurrent \in Currents /\ 0 \in Currents
    BY DEF Currents
  <1>6. AvailableCurrent(s, in) >= MinCurrent => Capped(AvailableCurrent(s, in)) \in Currents
    BY <1>4 DEF Capped, Currents
  <1>7. \A called, delay : \A held, next \in Currents :
          LET r == PvTimer(s, called, delay, held, next) IN
          r.timer \in Timers /\ r.current \in Currents
    BY <1>1, Delays DEF PvTimer, Started
  <1> QED
    BY <1>1, <1>5, <1>6, <1>7, Delays DEF PvTarget

LEMMA PvChargingFits ==
    ASSUME TypeOK, NEW s, Fit(s), Offers(s), s.err = "none", NEW in \in Inputs,
           NEW t \in PvCharging(s, in)
    PROVE  Fit(t)
  <1> USE ChargeControlAssumption
  <1> DEFINE b == BatterySupported(s, in)
             kept(r) == PvTarget(r, in).current = 0 /\ ~Climate(in) /\ welcome
             timer(r) == IF kept(r) THEN Zero ELSE PvTarget(r, in).timer
             current(r) == IF PvTarget(r, in).current = 0 /\ (Climate(in) \/ welcome)
                           THEN MinCurrent ELSE PvTarget(r, in).current
  <1>1. Fit(b) /\ Offers(b) /\ b.err = "none"
    BY TimerSet, Delays DEF BatterySupported
  <1>2. PICK r \in PvScalePhases(b, in) :
            t \in SetLimit([r EXCEPT !.lp.pvTimer = timer(r)], current(r))
    BY DEF PvCharging
  <1> HIDE DEF b
  <1>3. Fit(r) /\ r.err = "none"
    BY <1>1, <1>2, PvScalePhasesFits
  <1>4. PvTarget(r, in).timer \in Timers /\ PvTarget(r, in).current \in Currents
    BY <1>3, PvTargets
  <1>5. MinCurrent \in Currents
    BY DEF Currents
  <1>6. timer(r) \in Timers /\ current(r) \in Currents
    BY <1>4, <1>5, Delays
  <1> DEFINE u == [r EXCEPT !.lp.pvTimer = timer(r)]
  <1> HIDE DEF timer, current
  <1>7. Fit(u) /\ u.err = "none"
    BY <1>3, <1>6, TimerSet
  <1>8. t \in SetLimit(u, current(r))
    BY <1>2
  <1> HIDE DEF u
  <1> QED
    BY <1>6, <1>7, <1>8, SetLimitFits

LEMMA SmartChargingFits ==
    ASSUME TypeOK, NEW s, Fit(s), Offers(s), s.err = "none", NEW in \in Inputs,
           NEW t \in SmartCharging(s, in)
    PROVE  Fit(t)
  <1>1. CASE in.now = "cheap"
    <2>1. \A u \in FastCharging(s) : Fit(u)
      BY FastChargingFits
    <2>2. t \in ElapsePVTimer(FastCharging(s))
      BY <1>1 DEF SmartCharging
    <2> QED
      BY <2>1, <2>2, ElapsedFits
  <1>2. CASE in.now = "feedIn"
    <2> DEFINE T == IF alwaysCharge # "off" THEN MinCharging(s) ELSE SetLimit(s, 0)
               R == {[u EXCEPT !.lp.phaseTimer = Zero] : u \in T}
    <2>1. t \in ElapsePVTimer(R)
      BY <1>2 DEF SmartCharging
    <2>2. \A u \in T : Fit(u)
      BY MinChargingFits, SetLimitFits DEF Currents
    <2> HIDE DEF T
    <2>3. \A r \in R : Fit(r)
      BY <2>2, TimerSet, Delays
    <2> HIDE DEF R
    <2> QED
      BY <2>1, <2>3, ElapsedFits
  <1>3. CASE in.now \notin {"cheap", "feedIn"}
    BY <1>3, PvChargingFits DEF SmartCharging
  <1> QED
    BY <1>1, <1>2, <1>3

LEMMA ApplyPhasesFits ==
    ASSUME TypeOK, NEW s, Fit(s), Offers(s), s.err = "none", phasesConfigured # 0,
           NEW t \in ApplyPhases(s)
    PROVE  Fit(t)
  <1>1. phasesConfigured \in {1, 3}
    BY DEF TypeOK
  <1>2. PICK u \in ScalePhases(s, phasesConfigured) :
            t = IF u.err = "unavailable"
                THEN [u EXCEPT !.err = "none", !.lp.phases = phasesConfigured,
                               !.lp.phaseTimer = Zero]
                ELSE u
    BY DEF ApplyPhases
  <1>3. Fit(u)
    BY <1>1, <1>2, ScalePhasesFits
  <1> DEFINE v == [u EXCEPT !.err = "none"]
             l1 == [u.lp EXCEPT !.phases = phasesConfigured]
             l == [l1 EXCEPT !.phaseTimer = Zero]
  <1>4. [u EXCEPT !.err = "none", !.lp.phases = phasesConfigured, !.lp.phaseTimer = Zero]
            = [v EXCEPT !.lp = l]
    BY <1>3 DEF Fit, Situations
  <1>5. Fit(v) /\ v.lp = u.lp /\ u.lp \in Loadpoint
    BY <1>3, ErrorCleared DEF Fit, Situations
  <1>6. l1 \in Loadpoint /\ l1.enabled = u.lp.enabled
    BY <1>1, <1>5, LpStored DEF Loadpoint
  <1> HIDE DEF l1
  <1>7. l \in Loadpoint /\ l.enabled = u.lp.enabled
    BY <1>6, LpStored, Delays DEF Loadpoint
  <1> HIDE DEF l, v
  <1>8. Fit([v EXCEPT !.lp = l])
    BY <1>5, <1>7, Timed
  <1> QED
    BY <1>2, <1>3, <1>4, <1>8

\* Whatever the strategy does and wherever it fails.
LEMMA StrategiesFit ==
    ASSUME TypeOK, NEW s, Fit(s), Offers(s), s.err = "none", NEW in \in Inputs,
           NEW t \in Strategies(s, in)
    PROVE  Fit(t)
  <1>1. MinCurrent \in Currents /\ 0 \in Currents
    BY ChargeControlAssumption DEF Currents
  <1>2. \A u \in FastCharging(s) : Fit(u)
    BY FastChargingFits
  <1>3. \A u \in ElapsePVTimer(FastCharging(s)) : Fit(u)
    BY <1>2, ElapsedFits
  <1>4. \A u \in SetLimit(s, 0) \cup SetLimit(s, MinCurrent) : Fit(u)
    BY <1>1, SetLimitFits
  <1>5. \A u \in SmartCharging(s, in) : Fit(u)
    BY SmartChargingFits
  <1>6. phasesConfigured # 0 => \A u \in ApplyPhases(s) : Fit(u)
    BY ApplyPhasesFits
  <1>7. \/ t \in SetLimit(s, 0) \cup SetLimit(s, MinCurrent)
        \/ phasesConfigured # 0 /\ t \in ApplyPhases(s)
        \/ t \in FastCharging(s)
        \/ t \in ElapsePVTimer(FastCharging(s))
        \/ t \in SmartCharging(s, in)
    BY DEF Strategies
  <1> QED
    BY <1>2, <1>3, <1>4, <1>5, <1>6, <1>7

-----------------------------------------------------------------------------
(* Events and synchronization.                                             *)

\* An event changes what it may, not what the charger was told.
Same(k, l) == k \in Loadpoint /\ k.enabled = l.enabled /\ k.offered = l.offered

LEMMA ModeTimersSame ==
    ASSUME NEW l \in Loadpoint, NEW m
    PROVE  Same(ModeTimers(l, m), l)
  <1> DEFINE l1 == [l EXCEPT !.phaseTimer = Zero]
             l2 == [l1 EXCEPT !.pvTimer = Zero]
             l3 == [l EXCEPT !.pvTimer = Zero]
  <1>1. Same(l1, l) /\ Same(l3, l)
    BY LpStored, Delays DEF Same, Loadpoint
  <1>2. [l EXCEPT !.phaseTimer = Zero, !.pvTimer = Zero] = l2
    OBVIOUS
  <1> HIDE DEF l1, l3
  <1>3. Same(l2, l)
    BY <1>1, LpStored, Delays DEF Same, Loadpoint
  <1>4. Same(l, l)
    BY DEF Same
  <1> HIDE DEF l2
  <1>5. ModeTimers(l, m) \in {l2, l3, l}
    BY <1>2 DEF ModeTimers, l3
  <1> QED
    BY <1>1, <1>3, <1>4, <1>5

LEMMA SyncChargerPhasesSame ==
    ASSUME NEW l \in Loadpoint, charger \in Charger
    PROVE  Same(SyncChargerPhases(l), l)
  <1> DEFINE l1 == [l EXCEPT !.phases = charger.phases]
             l2 == [l1 EXCEPT !.phaseTimer = Zero]
  <1>1. charger.phases \in {1, 3}
    BY DEF Charger
  <1>2. Same(l1, l)
    BY <1>1, LpStored DEF Same, Loadpoint
  <1>3. SyncChargerPhases(l) \in {l2, l}
    BY DEF SyncChargerPhases
  <1> HIDE DEF l1
  <1>4. Same(l2, l)
    BY <1>2, LpStored, Delays DEF Same, Loadpoint
  <1>5. Same(l, l)
    BY DEF Same
  <1> HIDE DEF l2
  <1> QED
    BY <1>3, <1>4, <1>5

LEMMA HandledSame ==
    ASSUME TypeOK, NEW l \in Loadpoint, NEW prev, NEW new
    PROVE  Same(Handled(l, prev, new), l)
  <1>1. charger \in Charger
    BY DEF TypeOK
  <1> DEFINE c == IF Connects(prev, new) THEN EvVehicleConnect(l) ELSE l
             d == IF prev = "C" THEN EvChargeStop(c) ELSE c
  <1>2. Same(l, l)
    BY DEF Same
  <1>3. Same(EvVehicleConnect(l), l)
    <2> DEFINE k == SyncChargerPhases(l)
    <2>1. Same(k, l)
      BY <1>1, SyncChargerPhasesSame
    <2>2. EvVehicleConnect(l) = [k EXCEPT !.pvTimer = Elapsed]
      BY DEF EvVehicleConnect
    <2> HIDE DEF k
    <2>3. Same([k EXCEPT !.pvTimer = Elapsed], k)
      BY <2>1, LpStored, Delays DEF Same, Loadpoint
    <2> QED
      BY <2>1, <2>2, <2>3 DEF Same
  <1>4. Same(c, l)
    BY <1>2, <1>3
  <1> HIDE DEF c
  <1>5. Same([c EXCEPT !.pvTimer = Zero], c)
    BY <1>4, LpStored, Delays DEF Same, Loadpoint
  <1>6. Same(EvChargeStop(c), c) /\ Same(c, c)
    BY <1>4, <1>5 DEF EvChargeStop, Same
  <1>7. Same(d, l)
    BY <1>4, <1>6 DEF Same
  <1>8. Handled(l, prev, new) = IF new = "A" THEN EvVehicleDisconnect(d) ELSE d
    BY DEF Handled, c
  <1> HIDE DEF d
  <1>9. Same(EvVehicleDisconnect(d), d)
    BY <1>7, ModeTimersSame DEF EvVehicleDisconnect, Same
  <1> QED
    BY <1>7, <1>8, <1>9 DEF Same

\* A synchronization that succeeds knows the current an enabled charger is set to.
LEMMA SyncEnabledFits ==
    ASSUME TypeOK, Fit(Situation), lp.enabled,
           ShouldBeConsistent => charger.enabled,
           NEW t \in SyncEnabled(Situation)
    PROVE  Fit(t) /\ (t.err = "none" => Offers(t))
  <1> DEFINE k == [lp EXCEPT !.offered = SyncedCurrent]
             l == SyncChargerPhases(k)
             c == [charger EXCEPT !.strayed = FALSE]
             u == [Situation EXCEPT !.lp = k]
             v == [u EXCEPT !.lp = l]
             w == [v EXCEPT !.charger = c]
             f == [u EXCEPT !.err = "failed"]
  <1>1. /\ lp \in Loadpoint /\ charger \in Charger
        /\ lp.offered \in Currents /\ charger.current \in Currents
    BY DEF TypeOK, Loadpoint, Charger
  <1>2. SyncedCurrent \in Currents /\ (HasCurrentGetter => SyncedCurrent = charger.current)
    BY <1>1 DEF SyncedCurrent
  <1>3. k \in Loadpoint /\ k.enabled = lp.enabled /\ k.offered = SyncedCurrent
    BY <1>1, <1>2, LpStored DEF Loadpoint
  <1>4. t \in IF ShouldBeConsistent THEN {w, f} ELSE {u}
    <2>1. [Situation EXCEPT !.lp.offered = SyncedCurrent] = u
      BY DEF Situation
    <2>2. [u EXCEPT !.lp = SyncChargerPhases(@), !.charger.strayed = FALSE] = w
      BY DEF Situation
    <2> QED
      BY <2>1, <2>2 DEF SyncEnabled
  <1>5. Situation.lp = lp /\ Situation.charger = charger /\ Situation.err = "none"
    BY DEF Situation
  <1> HIDE DEF k
  <1>6. Same(l, k)
    BY <1>1, <1>3, SyncChargerPhasesSame
  <1>7. Fit(u) /\ u.lp = k /\ u.charger = charger /\ u.err = "none"
    BY <1>3, <1>5, Timed
  <1>8. Offers(u)
    BY <1>2, <1>3, <1>7 DEF Offers
  <1> HIDE DEF u, l
  <1>9. Fit(f) /\ f.err = "failed"
    BY <1>7, ErrorCleared
  <1>10. Fit(v) /\ v.lp = l /\ v.charger = charger /\ v.err = "none"
    BY <1>6, <1>7, Timed DEF Same
  <1> HIDE DEF v
  <1>11. /\ c \in Charger /\ ~c.strayed /\ c.enabled = charger.enabled
         /\ c.current = charger.current /\ c.surged = charger.surged
    <2>1. c \in Charger
      BY <1>1, ChargerStored
    <2> QED
      BY <1>1, <2>1 DEF Charger
  <1> HIDE DEF c
  <1>12. w \in Situations /\ w.lp = l /\ w.charger = c /\ w.err = "none"
    BY <1>10, <1>11 DEF Fit, Situations
  <1> HIDE DEF w
  <1>13. charger.enabled => Agrees(w)
    BY <1>3, <1>6, <1>11, <1>12 DEF Agrees, Same
  <1>14. Calm(w)
    BY <1>10, <1>11, <1>12 DEF Fit, Calm
  <1>15. Offers(w)
    BY <1>2, <1>3, <1>6, <1>11, <1>12 DEF Offers, Same
  <1> QED
    BY <1>4, <1>7, <1>8, <1>9, <1>12, <1>13, <1>14, <1>15 DEF Fit

LEMMA SyncDisabledFits ==
    ASSUME TypeOK, Fit(Situation), ~lp.enabled, ~charger.enabled,
           NEW t \in SyncDisabled(Situation)
    PROVE  Fit(t) /\ Offers(t)
  <1> DEFINE c == [charger EXCEPT !.strayed = FALSE]
             w == [Situation EXCEPT !.charger = c]
  <1>1. t \in {w, Situation}
    BY DEF SyncDisabled, Situation
  <1>2. Situation.lp = lp /\ Situation.charger = charger
    BY DEF Situation
  <1>3. charger \in Charger /\ lp.enabled \in BOOLEAN /\ charger.enabled \in BOOLEAN
    BY DEF TypeOK, Loadpoint, Charger
  <1>4. c \in Charger
    BY <1>3, ChargerStored
  <1>5. c.enabled = charger.enabled /\ c.surged = charger.surged
    BY <1>3, <1>4 DEF Charger
  <1> HIDE DEF c
  <1>6. Situation \in Situations
    BY DEF Fit
  <1>7. w \in Situations /\ w.lp = lp /\ w.charger = c
    BY <1>2, <1>4, <1>6 DEF Situations
  <1> HIDE DEF w
  <1>8. w.lp.enabled = w.charger.enabled
    BY <1>3, <1>5, <1>7
  <1>9. Fit(w) /\ Offers(w)
    BY <1>2, <1>5, <1>7, <1>8 DEF Fit, Agrees, Calm, Offers
  <1>10. Offers(Situation)
    BY <1>2 DEF Offers
  <1> QED
    BY <1>1, <1>9, <1>10

\* A charger that charges though disabled has strayed.
LEMMA CorrectChargerFits ==
    ASSUME TypeOK, Fit(Situation), NEW t \in CorrectCharger(Situation)
    PROVE  Fit(t) /\ (t.err = "none" => Offers(t))
  <1> DEFINE d1 == [charger EXCEPT !.enabled = TRUE]
             on == [d1 EXCEPT !.strayed = TRUE]
             c == [charger EXCEPT !.strayed = TRUE]
             k == [lp EXCEPT !.enabled = TRUE]
             l == [k EXCEPT !.pvTimer = Elapsed]
             r == [[Situation EXCEPT !.lp = k] EXCEPT !.charger = c]
             ok == [Situation EXCEPT !.lp = l]
             done == [ok EXCEPT !.charger = on]
  <1>1. lp \in Loadpoint /\ charger \in Charger
    BY DEF TypeOK
  <1>2. t \in Call(r, on, ok)
    <2>1. [Situation EXCEPT !.lp.enabled = TRUE, !.charger.strayed = TRUE] = r
      BY DEF Situation
    <2>2. [Situation EXCEPT !.lp.enabled = TRUE, !.lp.pvTimer = Elapsed] = ok
      BY DEF Situation
    <2>3. on = [charger EXCEPT !.enabled = TRUE, !.strayed = TRUE]
      OBVIOUS
    <2>4. Situation.charger = charger
      BY DEF Situation
    <2> QED
      BY <2>1, <2>2, <2>3, <2>4 DEF CorrectCharger
  <1>3. Situation \in Situations /\ Situation.lp = lp /\ Situation.charger = charger
    BY DEF Fit, Situation
  <1>4. d1 \in Charger /\ d1.surged = charger.surged
    <2>1. d1 \in Charger
      BY <1>1, ChargerStored
    <2> QED
      BY <1>1, <2>1 DEF Charger
  <1>5. c \in Charger /\ c.strayed /\ c.surged = charger.surged
    <2>1. c \in Charger
      BY <1>1, ChargerStored
    <2> QED
      BY <1>1, <2>1 DEF Charger
  <1> HIDE DEF d1, c
  <1>6. on \in Charger /\ on.strayed /\ on.surged = charger.surged
    <2>1. on \in Charger
      BY <1>4, ChargerStored
    <2> QED
      BY <1>4, <2>1 DEF Charger
  <1>7. k \in Loadpoint
    BY <1>1, LpStored
  <1> HIDE DEF on, k
  <1>8. l \in Loadpoint
    BY <1>7, LpStored, Delays
  <1> HIDE DEF l
  <1>9. r \in Situations /\ r.charger = c
    BY <1>3, <1>5, <1>7 DEF Situations
  <1>10. ok \in Situations
    BY <1>3, <1>8 DEF Situations
  <1> HIDE DEF r, ok
  <1>11. done \in Situations /\ done.charger = on
    BY <1>6, <1>10 DEF Situations
  <1> HIDE DEF done
  <1>12. HasCurrentGetter => ~charger.surged
    BY <1>3 DEF Fit, Calm
  <1>13. Fit(r) /\ Fit(done) /\ Offers(done)
    BY <1>5, <1>6, <1>9, <1>11, <1>12 DEF Fit, Agrees, Calm, Offers
  <1>14. Fit(t) /\ (t.err = "failed" \/ t = done)
    BY <1>2, <1>6, <1>10, <1>12, <1>13, CallFits DEF done
  <1> QED
    BY <1>13, <1>14

LEMMA SyncChargerFits ==
    ASSUME TypeOK, Fit(Situation), NEW t \in SyncCharger(Situation)
    PROVE  Fit(t) /\ (t.err = "none" => Offers(t))
  <1> DEFINE lost == ~charger.enabled /\ status = "C" /\ Completed(lp.phasesSwitched)
             enabled == charger.enabled \/ lost
             device == [charger EXCEPT !.enabled = TRUE]
             l == [lp EXCEPT !.enabled = enabled]
  <1>1. /\ Situation \in Situations /\ Situation.lp = lp /\ Situation.charger = charger
        /\ Situation.err = "none"
    BY DEF Fit, Situation
  <1>2. lp \in Loadpoint /\ charger \in Charger /\ lp.enabled \in BOOLEAN
        /\ charger.enabled \in BOOLEAN /\ charger.strayed \in BOOLEAN
    BY DEF TypeOK, Loadpoint, Charger
  <1>3. ~charger.strayed => lp.enabled = charger.enabled
    BY <1>1 DEF Fit, Agrees
  <1>4. enabled \in BOOLEAN
    BY <1>2
  <1>5. \/ t \in CorrectCharger(Situation)
        \/ ~(lost /\ ShouldBeConsistent) /\ enabled /\ lp.enabled /\ t \in SyncEnabled(Situation)
        \/ ~enabled /\ ~lp.enabled /\ t \in SyncDisabled(Situation)
        \/ ~enabled /\ enabled # lp.enabled /\ t \in Call(Situation, device, Situation)
        \/ ~(lost /\ ShouldBeConsistent) /\ enabled # lp.enabled
              /\ t = IF ShouldBeConsistent THEN [Situation EXCEPT !.lp = l] ELSE Situation
    BY <1>1, <1>2, <1>4 DEF SyncCharger, Situation
  <1>6. CASE t \in CorrectCharger(Situation)
    BY <1>6, CorrectChargerFits
  <1>7. CASE ~(lost /\ ShouldBeConsistent) /\ enabled /\ lp.enabled /\ t \in SyncEnabled(Situation)
    BY <1>7, SyncEnabledFits
  <1>8. CASE ~enabled /\ ~lp.enabled /\ t \in SyncDisabled(Situation)
    BY <1>8, SyncDisabledFits
  <1>9. CASE ~enabled /\ enabled # lp.enabled /\ t \in Call(Situation, device, Situation)
    <2> DEFINE done == [Situation EXCEPT !.charger = device]
    <2>1. charger.strayed
      BY <1>2, <1>3, <1>4, <1>9
    <2>2. device \in Charger /\ device.strayed = charger.strayed /\ device.surged = charger.surged
      <3>1. device \in Charger
        BY <1>2, ChargerStored
      <3> QED
        BY <1>2, <3>1 DEF Charger
    <2> HIDE DEF device
    <2>3. done \in Situations /\ done.charger = device
      BY <1>1, <2>2 DEF Situations
    <2>4. HasCurrentGetter => ~device.surged
      BY <1>1, <2>2 DEF Fit, Calm
    <2>5. Fit(done) /\ Offers(done)
      BY <2>1, <2>2, <2>3, <2>4 DEF Fit, Agrees, Calm, Offers
    <2> HIDE DEF enabled
    <2>6. Fit(t) /\ (t.err = "failed" \/ t = done)
      BY <1>1, <1>9, <2>2, <2>4, <2>5, CallFits
    <2> QED
      BY <2>5, <2>6
  <1>10. CASE ~(lost /\ ShouldBeConsistent) /\ enabled # lp.enabled
              /\ t = IF ShouldBeConsistent THEN [Situation EXCEPT !.lp = l] ELSE Situation
    <2>1. CASE ShouldBeConsistent
      <3>1. enabled = charger.enabled
        BY <1>2, <1>10, <2>1
      <3>2. charger.strayed
        BY <1>3, <1>10, <3>1
      <3>3. l \in Loadpoint
        BY <1>2, <1>4, LpStored
      <3> HIDE DEF l
      <3>4. t \in Situations /\ t.charger = charger
        BY <1>1, <1>10, <2>1, <3>3 DEF Situations
      <3> QED
        BY <1>1, <3>2, <3>4 DEF Fit, Agrees, Calm, Offers
    <2>2. CASE ~ShouldBeConsistent
      <3>1. t = Situation
        BY <1>10, <2>2
      <3>2. charger.strayed \/ ~lp.enabled
        BY <1>2, <1>3, <1>4, <1>10
      <3> QED
        BY <1>1, <3>1, <3>2 DEF Offers
    <2> QED
      BY <2>1, <2>2
  <1> QED
    BY <1>5, <1>6, <1>7, <1>8, <1>9, <1>10

-----------------------------------------------------------------------------
(***************************************************************************)
(* The invariant.  A switch up is preceded by setting the minimum current, *)
(* a call that is left out when the loadpoint already offers it: Offering  *)
(* says that the device then has it.  It holds from a synchronization that *)
(* succeeds until the end of the strategy.                                 *)
(***************************************************************************)
Offering ==
    HasCurrentGetter /\ ~charger.strayed /\ lp.enabled => charger.current = lp.offered

Inv ==
    /\ TypeOK
    /\ Agreement
    /\ HasCurrentGetter => NoSurge
    /\ pc = "strategy" => Offering

\* The invariant, said of the situation an operation starts from.
LEMMA InvFits ==
    ASSUME Inv
    PROVE  /\ Fit(Situation) /\ Situation.err = "none"
           /\ Situation.lp = lp /\ Situation.charger = charger
           /\ pc = "strategy" => Offers(Situation)
  <1>1. /\ Situation \in Situations /\ Situation.err = "none"
        /\ Situation.lp = lp /\ Situation.charger = charger
    BY DEF Inv, TypeOK, Situation, Situations
  <1> QED
    BY <1>1 DEF Inv, Fit, Agrees, Calm, Offers, Agreement, NoSurge, Offering

\* An operation ends in a situation that fits: the invariant's parts hold.
LEMMA Ended ==
    ASSUME NEW t, Fit(t), lp' = t.lp, charger' = t.charger
    PROVE  /\ lp' \in Loadpoint /\ charger' \in Charger /\ Agreement'
           /\ HasCurrentGetter => NoSurge'
           /\ Offers(t) => Offering'
  BY DEF Fit, Situations, Agrees, Calm, Offers, Agreement, NoSurge, Offering

\* The loadpoint changes in its timers and phases, the charger not at all.
LEMMA Kept ==
    ASSUME Inv, Same(lp', lp), UNCHANGED charger
    PROVE  /\ lp' \in Loadpoint /\ charger' \in Charger /\ Agreement'
           /\ HasCurrentGetter => NoSurge'
           /\ Offering => Offering'
  BY DEF Inv, TypeOK, Same, Agreement, NoSurge, Offering

LEMMA Initially == Init => Inv
  <1> SUFFICES ASSUME Init PROVE Inv
    OBVIOUS
  <1> USE ChargeControlAssumption
  <1>1. PICK on \in BOOLEAN, known \in BOOLEAN, current \in {MinCurrent, MaxCurrent},
             st \in {"A", "B", "C"} :
          LET device == [status |-> st, enabled |-> on, current |-> current, phases |-> 3,
                         strayed |-> TRUE, surged |-> FALSE]
              fresh  == [enabled |-> on /\ known, offered |-> 0, phases |-> 3,
                         pvTimer |-> Zero, phaseTimer |-> Zero,
                         chargerSwitched |-> SwitchDuration + 1,
                         phasesSwitched |-> SwitchDuration + 1]
              s      == [lp |-> fresh, charger |-> device, err |-> "none"]
          IN  \E t \in IF on /\ known THEN SetLimit(s, MinCurrent) ELSE {s} :
                 lp = t.lp /\ charger = t.charger
    BY DEF Init
  <1> DEFINE device == [status |-> st, enabled |-> on, current |-> current, phases |-> 3,
                        strayed |-> TRUE, surged |-> FALSE]
             believed == on /\ known
             fresh  == [enabled |-> believed, offered |-> 0, phases |-> 3,
                        pvTimer |-> Zero, phaseTimer |-> Zero,
                        chargerSwitched |-> SwitchDuration + 1,
                        phasesSwitched |-> SwitchDuration + 1]
             s == [lp |-> fresh, charger |-> device, err |-> "none"]
  <1>2. PICK t \in IF on /\ known THEN SetLimit(s, MinCurrent) ELSE {s} :
            lp = t.lp /\ charger = t.charger
    BY <1>1
  <1>3. MinCurrent \in Currents /\ MaxCurrent \in Currents /\ 0 \in Currents
    BY DEF Currents
  <1>4. device \in Charger /\ device.strayed /\ ~device.surged
    BY <1>3 DEF Charger
  <1>5. believed \in BOOLEAN
    OBVIOUS
  <1> HIDE DEF believed
  <1>6. fresh \in Loadpoint
    BY <1>3, <1>5, Delays DEF Loadpoint
  <1> HIDE DEF device, fresh
  <1>7. s \in Situations /\ s.lp = fresh /\ s.charger = device /\ s.err = "none"
    BY <1>4, <1>6 DEF Situations
  <1> HIDE DEF s
  <1>8. Fit(s)
    BY <1>4, <1>7 DEF Fit, Agrees, Calm
  <1>9. Fit(t)
    BY <1>2, <1>3, <1>7, <1>8, SetLimitFits
  <1>10. TypeOK
    <2>1. lp \in Loadpoint /\ charger \in Charger
      BY <1>2, <1>9 DEF Fit, Situations
    <2> QED
      BY <2>1 DEF Init, TypeOK, Statuses
  <1>11. Agreement /\ (HasCurrentGetter => NoSurge)
    BY <1>2, <1>9 DEF Fit, Agrees, Calm, Agreement, NoSurge
  <1>12. pc # "strategy"
    BY DEF Init
  <1> QED
    BY <1>10, <1>11, <1>12 DEF Inv

LEMMA LoopStep == ASSUME Inv, Loop PROVE Inv'
  <1> USE ChargeControlAssumption
  <1>1. TypeOK
    BY DEF Inv
  <1>2. CASE UpdateChargerStatus
    <2>1. PICK dropped \in BOOLEAN, wanted \in BOOLEAN :
          LET changes == StatusChanges(dropped)
              away    == changes # <<>> /\ changes[1] = "A"
          IN  /\ status' = IF changes = <<>> THEN status ELSE charger.status
              /\ lp' = CASE changes = <<>> -> lp
                         [] Len(changes) = 1 -> Handled(lp, status, changes[1])
                         [] OTHER -> Handled(Handled(lp, status, "A"), "A", changes[2])
              /\ mode' = IF away /\ DefaultMode # NoMode THEN DefaultMode ELSE mode
              /\ alwaysCharge' = IF away /\ alwaysCharge = "once" THEN "off" ELSE alwaysCharge
              /\ limited' = (limited /\ ~away)
              /\ welcome' = /\ wanted
                            /\ changes # <<>>
                            /\ changes[Len(changes)] # "A"
                            /\ status = "A" \/ Len(changes) = 2
      BY <1>2 DEF UpdateChargerStatus
    <2>2. lp \in Loadpoint /\ charger.status \in Statuses
      BY <1>1 DEF TypeOK, Charger, Statuses
    <2>3. Same(lp', lp)
      <3> DEFINE changes == StatusChanges(dropped)
      <3>1. \/ lp' = lp
            \/ lp' = Handled(lp, status, changes[1])
            \/ lp' = Handled(Handled(lp, status, "A"), "A", changes[2])
        BY <2>1
      <3>2. Same(lp, lp)
        BY <2>2 DEF Same
      <3>3. Same(Handled(lp, status, changes[1]), lp) /\ Same(Handled(lp, status, "A"), lp)
        BY <1>1, <2>2, HandledSame
      <3>4. Same(Handled(Handled(lp, status, "A"), "A", changes[2]), Handled(lp, status, "A"))
        BY <1>1, <3>3, HandledSame DEF Same
      <3> HIDE DEF changes
      <3> QED
        BY <3>1, <3>2, <3>3, <3>4 DEF Same
    <2>4. UNCHANGED <<charger, phasesConfigured, seenMode>> /\ pc' = "sync"
      BY <1>2 DEF UpdateChargerStatus
    <2>5. /\ lp' \in Loadpoint /\ charger' \in Charger /\ Agreement'
          /\ HasCurrentGetter => NoSurge'
      BY <2>3, <2>4, Kept
    <2>6. status' \in Statuses
      BY <1>1, <2>1, <2>2 DEF TypeOK
    <2>7. mode' \in {"off", "now", "smart"}
      BY <1>1, <2>1 DEF TypeOK
    <2>8. alwaysCharge' \in {"off", "on", "once"}
      BY <1>1, <2>1 DEF TypeOK
    <2>9. limited' \in BOOLEAN /\ welcome' \in BOOLEAN
      BY <2>1
    <2>10. TypeOK'
      BY <1>1, <2>4, <2>5, <2>6, <2>7, <2>8, <2>9 DEF TypeOK
    <2> QED
      BY <2>4, <2>5, <2>10 DEF Inv
  <1>3. CASE Sync
    <2>1. PICK s \in SyncCharger(Situation) :
            /\ lp' = s.lp /\ charger' = s.charger
            /\ pc' = IF s.err = "none" THEN "strategy" ELSE "status"
      BY <1>3 DEF Sync
    <2>2. Fit(s) /\ (s.err = "none" => Offers(s))
      BY <1>1, <2>1, InvFits, SyncChargerFits
    <2>3. /\ lp' \in Loadpoint /\ charger' \in Charger /\ Agreement'
          /\ HasCurrentGetter => NoSurge'
          /\ Offers(s) => Offering'
      BY <2>1, <2>2, Ended
    <2>4. TypeOK'
      BY <1>1, <1>3, <2>1, <2>3 DEF Sync, TypeOK, userVars
    <2> QED
      BY <2>1, <2>2, <2>3, <2>4 DEF Inv
  <1>4. CASE SyncFails
    BY <1>4 DEF SyncFails, Inv, TypeOK, Agreement, NoSurge, userVars
  <1>5. CASE Strategy
    <2>1. PICK err \in {"none", "failed", "unavailable"} : StrategyEnds(err)
      BY <1>5 DEF Strategy
    <2>7. PICK in \in Inputs : \E s \in Strategies(Situation, in) :
            lp' = s.lp /\ charger' = s.charger
      BY <2>1 DEF StrategyEnds
    <2>2. PICK s \in Strategies(Situation, in) : lp' = s.lp /\ charger' = s.charger
      BY <2>7
    <2>3. Fit(Situation) /\ Offers(Situation) /\ Situation.err = "none"
      BY <2>1, InvFits DEF StrategyEnds
    <2>4. Fit(s)
      BY <1>1, <2>2, <2>3, StrategiesFit
    <2>5. /\ lp' \in Loadpoint /\ charger' \in Charger /\ Agreement'
          /\ HasCurrentGetter => NoSurge'
      BY <2>2, <2>4, Ended
    <2>6. TypeOK' /\ pc' = "status"
      BY <1>1, <2>1, <2>5 DEF StrategyEnds, TypeOK, userVars
    <2> QED
      BY <2>5, <2>6 DEF Inv
  <1> QED
    BY <1>2, <1>3, <1>4, <1>5 DEF Loop

LEMMA TickStep == ASSUME Inv, Tick PROVE Inv'
  <1> USE ChargeControlAssumption
  <1>1. TypeOK /\ lp \in Loadpoint
    BY DEF Inv, TypeOK
  <1>2. \A x \in Timers : Older(x) \in Timers
    BY Delays DEF Older, Timers, Zero, Elapsed
  <1>3. \A x \in Ages : (IF Completed(x) THEN x ELSE x + 1) \in Ages
    BY DEF Ages, Completed
  <1> DEFINE l1 == [lp EXCEPT !.pvTimer = Older(lp.pvTimer)]
             l2 == [l1 EXCEPT !.phaseTimer = Older(lp.phaseTimer)]
             cs == IF Completed(lp.chargerSwitched) THEN lp.chargerSwitched
                   ELSE lp.chargerSwitched + 1
             ps == IF Completed(lp.phasesSwitched) THEN lp.phasesSwitched
                   ELSE lp.phasesSwitched + 1
             l3 == [l2 EXCEPT !.chargerSwitched = cs]
             l4 == [l3 EXCEPT !.phasesSwitched = ps]
  <1>4. lp' = l4
    BY <1>1 DEF Tick, Loadpoint
  <1>5. Older(lp.pvTimer) \in Timers /\ Older(lp.phaseTimer) \in Timers
    BY <1>1, <1>2 DEF Loadpoint
  <1>6. cs \in Ages /\ ps \in Ages
    BY <1>1, <1>3 DEF Loadpoint
  <1> HIDE DEF cs, ps
  <1>7. Same(l1, lp)
    BY <1>1, <1>5, LpStored DEF Same, Loadpoint
  <1> HIDE DEF l1
  <1>8. Same(l2, lp)
    BY <1>5, <1>7, LpStored DEF Same, Loadpoint
  <1> HIDE DEF l2
  <1>9. Same(l3, lp)
    BY <1>6, <1>8, LpStored DEF Same, Loadpoint
  <1> HIDE DEF l3
  <1>10. Same(l4, lp)
    BY <1>6, <1>9, LpStored DEF Same, Loadpoint
  <1> HIDE DEF l4
  <1>11. UNCHANGED <<status, charger, pc, seenMode, welcome, userVars>> /\ pc = "status"
    BY DEF Tick
  <1>12. /\ lp' \in Loadpoint /\ charger' \in Charger /\ Agreement'
         /\ HasCurrentGetter => NoSurge'
    BY <1>4, <1>10, <1>11, Kept
  <1> QED
    BY <1>1, <1>11, <1>12 DEF Inv, TypeOK, userVars

LEMMA UsersStep == ASSUME Inv, Users PROVE Inv'
  <1> USE ChargeControlAssumption
  <1>1. TypeOK /\ lp \in Loadpoint
    BY DEF Inv, TypeOK
  <1>2. Same(lp, lp)
    BY <1>1 DEF Same
  <1>3. Same(lp', lp) /\ UNCHANGED <<status, charger, pc, seenMode, welcome>>
    <2>1. CASE SetMode
      <3>1. PICK m \in Modes : lp' = ModeTimers(lp, m)
        BY <2>1 DEF SetMode
      <3> QED
        BY <1>1, <2>1, <3>1, ModeTimersSame DEF SetMode
    <2>2. CASE SetAlwaysCharge
      <3>1. lp' \in {[lp EXCEPT !.pvTimer = Zero], lp}
        BY <2>2 DEF SetAlwaysCharge
      <3>2. Same([lp EXCEPT !.pvTimer = Zero], lp)
        BY <1>1, LpStored, Delays DEF Same, Loadpoint
      <3> QED
        BY <1>2, <2>2, <3>1, <3>2 DEF SetAlwaysCharge
    <2>3. CASE SetPhasesConfigured
      BY <1>2, <2>3 DEF SetPhasesConfigured
    <2>4. CASE ChangeLimit
      BY <1>2, <2>4 DEF ChangeLimit
    <2> QED
      BY <2>1, <2>2, <2>3, <2>4 DEF Users
  <1>4. /\ mode' \in {"off", "now", "smart"} /\ alwaysCharge' \in {"off", "on", "once"}
        /\ phasesConfigured' \in {0, 1, 3} /\ limited' \in BOOLEAN
    BY <1>1 DEF Users, SetMode, SetAlwaysCharge, SetPhasesConfigured, ChangeLimit, TypeOK
  <1>5. /\ lp' \in Loadpoint /\ charger' \in Charger /\ Agreement'
        /\ HasCurrentGetter => NoSurge'
        /\ Offering => Offering'
    BY <1>3, Kept
  <1>6. TypeOK'
    BY <1>1, <1>3, <1>4, <1>5 DEF TypeOK
  <1> QED
    BY <1>3, <1>5, <1>6 DEF Inv

\* A device that acts on its own has strayed, one that is plugged has not changed
\* in what it was told.
LEMMA DeviceStep == ASSUME Inv, Device PROVE Inv'
  <1> USE ChargeControlAssumption
  <1>1. TypeOK /\ charger \in Charger
    BY DEF Inv, TypeOK
  <1>2. ChargerOnly
    BY DEF Device, Plug, Unplug, StartDrawing, StopDrawing, Stray
  <1>3. CASE Stray
    <2>1. PICK on \in BOOLEAN, current \in {MinCurrent, MaxCurrent} :
            charger' = [charger EXCEPT !.enabled = on, !.current = current, !.strayed = TRUE]
      BY <1>3 DEF Stray
    <2>2. current \in Currents
      BY DEF Currents
    <2>3. charger' \in Charger /\ charger'.strayed /\ charger'.surged = charger.surged
      BY <1>1, <2>1, <2>2 DEF Charger
    <2>4. TypeOK'
      BY <1>1, <1>2, <2>3 DEF ChargerOnly, TypeOK, userVars
    <2> QED
      BY <1>2, <2>3, <2>4 DEF Inv, Agreement, NoSurge, Offering
  <1>4. CASE ~Stray
    <2>1. PICK st \in {"A", "B", "C"} : charger' = [charger EXCEPT !.status = st]
      BY <1>4 DEF Device, Plug, Unplug, StartDrawing, StopDrawing
    <2>2. /\ charger' \in Charger /\ charger'.strayed = charger.strayed
          /\ charger'.surged = charger.surged /\ charger'.enabled = charger.enabled
          /\ charger'.current = charger.current
      BY <1>1, <2>1 DEF Charger
    <2>3. TypeOK'
      BY <1>1, <1>2, <2>2 DEF ChargerOnly, TypeOK, userVars
    <2>4. lp' = lp /\ pc' = pc
      BY <1>2 DEF ChargerOnly
    <2> QED
      BY <2>2, <2>3, <2>4 DEF Inv, Agreement, NoSurge, Offering
  <1> QED
    BY <1>3, <1>4

\* A loadpoint and its charger are always in the relation the invariant states,
\* whatever fails, whoever acts and in whichever order.
THEOREM ControlInvariant == Spec => []Inv
  <1>1. Inv /\ [Next]_vars => Inv'
    <2> SUFFICES ASSUME Inv, [Next]_vars PROVE Inv'
      OBVIOUS
    <2>1. CASE Next
      BY <2>1, LoopStep, TickStep, UsersStep, DeviceStep DEF Next
    <2>2. CASE UNCHANGED vars
      BY <2>2 DEF vars, Inv, TypeOK, Agreement, NoSurge, Offering
    <2> QED
      BY <2>1, <2>2
  <1> QED
    BY Initially, <1>1, PTL DEF Spec

\* What the loadpoint believes, its timers, and the current and phases the
\* charger is set to stay within their types, for every surplus a cycle may find.
THEOREM ControlTypeCorrect == Spec => []TypeOK
  <1>1. Inv => TypeOK
    BY DEF Inv
  <1> QED
    BY ControlInvariant, <1>1, PTL

\* The loadpoint knows whether a charger that did not act behind its back is
\* enabled, also when any call to it may fail, obeyed or not.
THEOREM LoadpointAgrees == Spec => []Agreement
  <1>1. Inv => Agreement
    BY DEF Inv
  <1> QED
    BY ControlInvariant, <1>1, PTL

\* A charger that tells the current it is set to is never switched to three
\* phases above the minimum current, as far as the loadpoint can know.
THEOREM NeverSurges == ASSUME HasCurrentGetter PROVE Spec => []NoSurge
  <1>1. Inv => NoSurge
    BY DEF Inv
  <1> QED
    BY ControlInvariant, <1>1, PTL
=============================================================================
