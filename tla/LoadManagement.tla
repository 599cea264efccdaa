---------------------------- MODULE LoadManagement ----------------------------
(***************************************************************************)
(* How the site keeps its circuits within their limits: one cycle of       *)
(* core/site.go reads the loadpoints' and the circuits' meters and then    *)
(* updates one loadpoint, which adopts what its charger does by itself     *)
(* (syncCharger) and asks its circuits for the current it wants            *)
(* (Loadpoint.setLimit).  In between and in the meantime vehicles draw     *)
(* more or less of what they are offered, chargers act on their own, other *)
(* consumers come and go, meters fail and the HEMS limits the site.  The   *)
(* site takes the loadpoints in turn, one per tick, and at any time one    *)
(* that asks for it.                                                       *)
(***************************************************************************)
EXTENDS Circuit

CONSTANTS
    ActiveLoadpoints,           \* activeLoadpoints: the order of the turns
    LpMinCurrent, LpMaxCurrent, \* a loadpoint's limits
    LpHasCurrents,  \* the loadpoint's charge meter is an api.PhaseCurrents
    ReportsCurrent, \* its charger is an api.CurrentGetter
    Unruly,         \* the loadpoints whose chargers act on their own, and may obey
                    \* calls that fail
    ChargerMaxCurrent,          \* what no charger exceeds
    OwnCurrents,    \* what a charger may be set to when the process starts, or later
                    \* by someone else
    BaseLoads,      \* what other consumers draw from a circuit, beside its meter
    HemsLimits,     \* what the HEMS may limit consumption to, zero for nothing
    Faults,         \* how a circuit's meter may fail
    NoLoadpoint

\* A site without loadpoints has nothing to limit (meter-only mode).
ASSUME LoadpointAssumption ==
    /\ LpMinCurrent \in Nat \ {0} /\ LpMaxCurrent \in Nat
    /\ LpMinCurrent <= LpMaxCurrent
    /\ LpHasCurrents \in [Loadpoints -> BOOLEAN]
    /\ ReportsCurrent \in [Loadpoints -> BOOLEAN] /\ Unruly \subseteq Loadpoints
    /\ ChargerMaxCurrent \in Nat /\ LpMaxCurrent <= ChargerMaxCurrent
    /\ \A lp \in Loadpoints : OwnCurrents[lp] \subseteq 0 .. ChargerMaxCurrent
    /\ IsFiniteSet(Loadpoints) /\ Loadpoints # {} /\ NoLoadpoint \notin Loadpoints
    /\ ActiveLoadpoints \in [1 .. Cardinality(Loadpoints) -> Loadpoints]
    /\ \A lp \in Loadpoints : \E i \in DOMAIN ActiveLoadpoints : ActiveLoadpoints[i] = lp
ASSUME LoadAssumption ==
    /\ \A c \in CircuitSet : BaseLoads[c] \subseteq Nat /\ 0 \in BaseLoads[c]
    /\ HemsLimits \subseteq Nat /\ 0 \in HemsLimits
ASSUME FaultAssumption ==
    \A c \in CircuitSet :
        /\ Faults[c] \subseteq MeterStates \ {"ok"}
        /\ Faults[c] # {} => HasMeter[c]
        /\ {"currents", "powers"} \cap Faults[c] # {} => HasCurrents[c]

\* What a loadpoint's strategy may ask for.
Targets == {0} \cup LpMinCurrent .. LpMaxCurrent

VARIABLES
    enabled,        \* Loadpoint.enabled
    offered,        \* Loadpoint.offeredCurrent
    charger,        \* what the charger does: on, and its own limit
    draw,           \* what the vehicle draws
    base,           \* what other consumers draw, per circuit
    meter,          \* the state of the circuits' meters
    hems,           \* the HEMS consumption limit, zero for none
    circ,           \* the circuits
    turn,           \* whose turn it is, in ActiveLoadpoints: loopLoadpoints waits to send it
    current,        \* the loadpoint of the cycle in progress, or NoLoadpoint
    chargePower     \* Loadpoint.chargePower, as read in the cycle in progress

vars == <<enabled, offered, charger, draw, base, meter, hems, circ, turn, current, chargePower>>

Chargers == [on : BOOLEAN, limit : 0 .. ChargerMaxCurrent]

\* A loadpoint with its charger, which setLimit and syncCharger work on.
Devices == [enabled : BOOLEAN, offered : 0 .. ChargerMaxCurrent,
            on : BOOLEAN, limit : 0 .. ChargerMaxCurrent]

NoPower == [lp \in Loadpoints |-> 0]

-----------------------------------------------------------------------------
(* setLimit.                                                               *)

\* What circuits, with the HEMS limit, leave of the target of a loadpoint that
\* has a current of old and draws power.
Limited(lp, circuits, limit, old, power, target) ==
    Smaller(ValidateCurrent(circuits, CircuitOf[lp], old, target),
            ValidatePower(circuits, CircuitOf[lp], limit, power, target))

\* Mutant: the charger is told the current that was asked for.
GrantedAll(lp, circuits, limit, old, power, target) == target

\* What the charger is told: nothing that is below the minimum.
Granted(lp, circuits, limit, old, power, target) ==
    LET limited == Limited(lp, circuits, limit, old, power, target)
    IN  IF limited < LpMinCurrent THEN 0 ELSE limited

\* First the charger is told a current it has not been told before ...
TellCurrent(s, granted) ==
    IF granted \in {0, s.offered} THEN s
    ELSE [s EXCEPT !.offered = granted, !.limit = granted]

\* ... then it is enabled or disabled.  Only disabling it forgets the current.
Switch(s, granted) ==
    IF s.enabled = (granted # 0) THEN s
    ELSE [s EXCEPT !.enabled = granted # 0, !.on = granted # 0,
                   !.offered = IF granted = 0 THEN 0 ELSE @]

SetTo(s, granted) == Switch(TellCurrent(s, granted), granted)

\* A call fails, and an unruly charger may have obeyed it all the same.
FailTo(lp, s, granted) ==
    LET told == TellCurrent(s, granted)
    IN  {s, told} \cup
        (IF lp \in Unruly
         THEN {[told EXCEPT !.offered = s.offered],
               [told EXCEPT !.on = Switch(told, granted).on]}
         ELSE {})

-----------------------------------------------------------------------------
(* The start.                                                              *)

\* The chargers as the process finds them.
Found(lp) == [enabled : {FALSE}, offered : {0}, on : BOOLEAN, limit : OwnCurrents[lp]]

\* Prepare adopts an enabled charger and sets it to the minimum current, as far as
\* the circuits allow, which have not been read.  What the charger does may not be
\* known.
Prepared(lp, limit) ==
    Found(lp) \cup
    UNION {LET s == [f EXCEPT !.enabled = TRUE]
               granted == Granted(lp, [c \in CircuitSet |-> Unread], limit, 0, 0, LpMinCurrent)
           IN  {SetTo(s, granted)} \cup FailTo(lp, s, granted)
           : f \in {f \in Found(lp) : f.on}}

Init ==
    /\ hems \in HemsLimits
    /\ \E start \in [Loadpoints -> Devices] :
           /\ \A lp \in Loadpoints : start[lp] \in Prepared(lp, hems)
           /\ enabled = [lp \in Loadpoints |-> start[lp].enabled]
           /\ offered = [lp \in Loadpoints |-> start[lp].offered]
           /\ charger = [lp \in Loadpoints |->
                            [on |-> start[lp].on, limit |-> start[lp].limit]]
    /\ draw = NoPower
    /\ base = [c \in CircuitSet |-> 0]
    /\ meter = [c \in CircuitSet |-> "ok"]
    /\ circ = [c \in CircuitSet |-> Unread]
    /\ turn = 1
    /\ current = NoLoadpoint
    /\ chargePower = NoPower

\* What flows through a circuit.
Load(c) == SumFunctionOnSet(draw, Below[c]) + SumFunctionOnSet(base, Within[c])

-----------------------------------------------------------------------------
(* The surroundings.                                                       *)

\* A vehicle draws at most what its charger offers.
Ramp(lp) ==
    /\ charger[lp].on
    /\ \E d \in 0 .. charger[lp].limit \ {draw[lp]} : draw' = [draw EXCEPT ![lp] = d]
    /\ UNCHANGED <<enabled, offered, charger, base, meter, hems, circ, turn, current, chargePower>>

\* What a vehicle goes on drawing from a charger.
Follow(lp, ch) ==
    draw' = [draw EXCEPT ![lp] = IF ch.on THEN Smaller(@, ch.limit) ELSE 0]

\* A charger is switched or set by someone else, or starts anew.
Stray(lp) ==
    /\ lp \in Unruly
    /\ \E on \in BOOLEAN, limit \in OwnCurrents[lp] :
           LET ch == [on |-> on, limit |-> limit]
           IN  /\ ch # charger[lp]
               /\ charger' = [charger EXCEPT ![lp] = ch]
               /\ Follow(lp, ch)
    /\ UNCHANGED <<enabled, offered, base, meter, hems, circ, turn, current, chargePower>>

\* What circuits measure is read only when a cycle begins: what changes in the
\* middle of one is as if it changed right after it.
OtherConsumers(c) ==
    /\ current = NoLoadpoint
    /\ \E b \in BaseLoads[c] \ {base[c]} : base' = [base EXCEPT ![c] = b]
    /\ UNCHANGED <<enabled, offered, charger, draw, meter, hems, circ, turn, current, chargePower>>

MeterFault(c) ==
    /\ current = NoLoadpoint
    /\ \E m \in Faults[c] \cup {"ok"} : m # meter[c] /\ meter' = [meter EXCEPT ![c] = m]
    /\ UNCHANGED <<enabled, offered, charger, draw, base, hems, circ, turn, current, chargePower>>

HemsLimit ==
    /\ hems' \in HemsLimits \ {hems}
    /\ UNCHANGED <<enabled, offered, charger, draw, base, meter, circ, turn, current, chargePower>>

-----------------------------------------------------------------------------
(* The site's cycle.                                                       *)

\* GetMaxPhaseCurrent: an unmeasured loadpoint counts with what it is offered.
MaxPhaseCurrent(lp) == IF LpHasCurrents[lp] THEN draw[lp] ELSE offered[lp]

\* Site.update for lp: updateLoadpoints, then updateCircuits.
ReadMeters(lp) ==
    /\ current = NoLoadpoint
    /\ current' = lp
    /\ chargePower' = draw
    /\ circ' = Update(circ, [c \in CircuitSet |-> Load(c)], meter, draw,
                      [l \in Loadpoints |-> MaxPhaseCurrent(l)])
    /\ UNCHANGED <<enabled, offered, charger, draw, base, meter, hems>>

\* Mutant: the turns do not begin anew after the last loadpoint.
NextTurnOver == turn + 1

\* loopLoadpoints: the one after the last is the first.
NextTurn == (turn % Len(ActiveLoadpoints)) + 1

\* Site.Run takes the next loadpoint at a tick ...
UpdateInTurn ==
    /\ turn' = NextTurn
    /\ ReadMeters(ActiveLoadpoints[turn])

\* Mutant: after a requested update the turns begin anew.
TurnAfterRequestFirst(lp) == 1

\* The turns go on where they were.
TurnAfterRequest(lp) == turn

\* ... and any that has asked for it (lpUpdateChan).  Setters ask for an update
\* at any time; a request that finds another one waiting is as if never made.
RequestedUpdate(lp) ==
    /\ turn' = TurnAfterRequest(lp)
    /\ ReadMeters(lp)

\* Circuits whose load every update adds up anew: no meter keeps it from them.
AddedUp == {c \in CircuitSet :
    /\ ~HasMeter[c]
    /\ \A d \in CircuitSet : Position[d] < Position[c] => Faults[d] = {}}

\* Between cycles the model forgets what the next one reads before it is used.
EndCycle ==
    /\ current' = NoLoadpoint
    /\ chargePower' = NoPower
    /\ circ' = [c \in CircuitSet |-> IF c \in AddedUp THEN Unread ELSE circ[c]]
    /\ UNCHANGED <<base, meter, hems, turn>>

\* syncCharger: the current that the charger reports, or else what has been
\* measured if that is too much.
Adopted(lp) ==
    LET measured == IF LpHasCurrents[lp] THEN chargePower[lp] ELSE offered[lp]
    IN  IF ReportsCurrent[lp] THEN charger[lp].limit
        ELSE IF measured > offered[lp] + 1 THEN measured ELSE offered[lp]

\* syncCharger: a loadpoint that has not switched its charger in the last minute
\* (shouldBeConsistent) also adopts whether it is enabled.
Synced(lp, consistent) ==
    [enabled |-> IF consistent THEN charger[lp].on ELSE enabled[lp],
     offered |-> IF charger[lp].on /\ enabled[lp] THEN Adopted(lp) ELSE offered[lp],
     on |-> charger[lp].on, limit |-> charger[lp].limit]

\* actualMaxChargeCurrent: the status is read by Loadpoint.Update, after the meters.
ActualMaxChargeCurrent(lp, s) ==
    IF LpHasCurrents[lp] THEN chargePower[lp]
    ELSE IF draw[lp] > 0 THEN s.offered ELSE 0

\* setLimit, for any target its strategy may have chosen.
Grants(lp, s) ==
    {Granted(lp, circ, hems, ActualMaxChargeCurrent(lp, s), chargePower[lp], target)
        : target \in Targets}

Become(lp, s) ==
    LET ch == [on |-> s.on, limit |-> s.limit]
    IN  /\ enabled' = [enabled EXCEPT ![lp] = s.enabled]
        /\ offered' = [offered EXCEPT ![lp] = s.offered]
        /\ charger' = [charger EXCEPT ![lp] = ch]
        /\ Follow(lp, ch)

\* Loadpoint.Update ...
SetLimit(lp, consistent) ==
    /\ current = lp
    /\ EndCycle
    /\ LET s == Synced(lp, consistent)
       IN  \E granted \in Grants(lp, s) : Become(lp, SetTo(s, granted))

\* ... that fails in one of setLimit's calls to the charger, or before them.
SetLimitFails(lp, consistent) ==
    /\ current = lp
    /\ EndCycle
    /\ LET s == Synced(lp, consistent)
       IN  \E granted \in Grants(lp, s) : \E f \in FailTo(lp, s, granted) : Become(lp, f)

\* The loadpoint is not updated: the site's meters, or the charger's status, state
\* or current, could not be read.
SkipUpdate ==
    /\ current # NoLoadpoint
    /\ UNCHANGED <<enabled, offered, charger, draw>>
    /\ EndCycle

Next ==
    \/ \E lp \in Loadpoints :
           \/ Ramp(lp)
           \/ Stray(lp)
           \/ RequestedUpdate(lp)
           \/ \E consistent \in BOOLEAN : SetLimit(lp, consistent) \/ SetLimitFails(lp, consistent)
    \/ UpdateInTurn
    \/ SkipUpdate
    \/ \E c \in CircuitSet : OtherConsumers(c) \/ MeterFault(c)
    \/ HemsLimit

Spec == Init /\ [][Next]_vars

(* Site.Run's select takes either channel that is ready, so that requests   *)
(* never keep out the ticks forever; a cycle ends; and updating a loadpoint *)
(* does not fail forever: strong fairness of SetLimit, which the loadpoint  *)
(* of the cycle can always take.  A charger that is not what the loadpoint  *)
(* takes it for does not become so again and again within a minute of every *)
(* time the loadpoint has switched it, so that it is adopted some time.     *)
Fairness ==
    /\ SF_vars(UpdateInTurn)
    /\ WF_vars(SkipUpdate)
    /\ \A lp \in Loadpoints :
           []<>(current = lp) =>
               []<><<\/ SetLimit(lp, TRUE)
                     \/ enabled[lp] = charger[lp].on /\ SetLimit(lp, FALSE)>>_vars

FairSpec == Spec /\ Fairness

-----------------------------------------------------------------------------
(* Properties.                                                             *)

\* Types of the variables, and the range of a load that is added up.
TypeOK ==
    /\ enabled \in [Loadpoints -> BOOLEAN]
    /\ offered \in [Loadpoints -> 0 .. ChargerMaxCurrent]
    /\ charger \in [Loadpoints -> Chargers]
    /\ draw \in [Loadpoints -> 0 .. ChargerMaxCurrent]
    /\ \A c \in CircuitSet : base[c] \in BaseLoads[c] /\ meter[c] \in Faults[c] \cup {"ok"}
    /\ hems \in HemsLimits
    /\ circ \in [CircuitSet -> [power : Nat, current : Nat,
                                powerAge : 0 .. Timeout + 1, currentAge : 0 .. Timeout + 1]]
    /\ \A c \in CircuitSet : (\A d \in Within[c] : ~HasMeter[d]) =>
           {circ[c].power, circ[c].current} \subseteq 0 .. ChargerMaxCurrent * Cardinality(Below[c])
    /\ turn \in DOMAIN ActiveLoadpoints
    /\ current \in Loadpoints \cup {NoLoadpoint}
    /\ chargePower \in [Loadpoints -> 0 .. ChargerMaxCurrent]

\* Circuits that add up what their loadpoints are offered, and that no failing
\* meter keeps from being updated.
Summed == {c \in AddedUp : \A d \in Within[c] :
    /\ ~HasMeter[d]
    /\ \A lp \in Loadpoints : CircuitOf[lp] = d => ~LpHasCurrents[lp]}

Offers(c) == SumFunctionOnSet(offered, Below[c])

\* What the loadpoint of the cycle, if it is below c, finds its charger has taken by
\* itself.
OwnIncrease(c) ==
    IF current \in Below[c] THEN Larger(0, Adopted(current) - offered[current]) ELSE 0

\* A circuit that adds up what its loadpoints are offered may be overcommitted when
\* the process starts (Prepare) or a charger acts on its own (syncCharger).  Apart
\* from that no step offers more than its current limit, or than was offered
\* before, in whatever order loadpoints are updated, start, stop and fail: each
\* update counts what the others have been offered, drawn or not.
NeverOvercommits ==
    [][\A c \in Summed : MaxCurrent[c] # 0 =>
           Offers(c)' <= Larger(MaxCurrent[c], Offers(c)) + OwnIncrease(c)]_vars

Overloaded(c) ==
    \/ EffectiveMaxPower(c, hems) # 0 /\ Load(c) > EffectiveMaxPower(c, hems)
    \/ MaxCurrent[c] # 0 /\ Load(c) > MaxCurrent[c]

AllOff(c) == \A lp \in Below[c] : ~charger[lp].on

(* From some time on nothing happens around the site, but that vehicles take *)
(* more of what they are offered, and chargers do what they are told.       *)
Quiet ==
    /\ UNCHANGED <<base, meter, hems>>
    /\ current' = current => UNCHANGED charger /\ \A lp \in Loadpoints : draw'[lp] >= draw[lp]
    /\ \A lp \in Loadpoints :
           /\ charger'[lp].limit # charger[lp].limit => charger'[lp].limit = offered'[lp]
           /\ charger'[lp].on # charger[lp].on => charger'[lp].on = enabled'[lp]
Settled == <>[][Quiet]_vars

\* Every loadpoint is updated again and again, whichever others request updates
\* however often (Site.Run's two channels).
EveryoneUpdated == \A lp \in Loadpoints : []<>(current = lp)

\* A circuit that is overcommitted after the start, or because chargers acted on
\* their own, takes back what it offers too much, if need be by switching off its
\* loadpoints (setLimit with a negative rest).
OvercommitmentEnds ==
    Settled => \A c \in Summed : MaxCurrent[c] # 0 =>
        []<>(Offers(c) <= MaxCurrent[c] \/ AllOff(c))

\* A circuit that is loaded beyond its limit, because vehicles draw more than
\* they did when the others were granted their share, because of other
\* consumers or because of a new HEMS limit, is relieved, if need be by
\* switching off all its loadpoints, unless a meter fails: once its surroundings
\* have settled, no circuit is overloaded forever.  Unruly chargers report their
\* current: one that does not may deliver more than it was told, unnoticed.
OverloadRelieved ==
    Settled => \A c \in CircuitSet :
        []<>(\/ ~Overloaded(c)
             \/ AllOff(c)
             \/ \E d \in CircuitSet : meter[d] # "ok")

\* When a circuit with a power limit has lost its meter, each of its loadpoints is
\* switched off (timeout in circuit.yaml), also one whose charger someone else
\* has switched on.
OfflineStops ==
    \A c \in CircuitSet : MaxPower[c] # 0 => \A lp \in Below[c] :
        (meter[c] = "power" ~>
             meter[c] # "power" \/ ~charger[lp].on \/ c \notin Reached(meter))
=============================================================================
