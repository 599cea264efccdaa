-------------------------------- MODULE Circuit --------------------------------
(***************************************************************************)
(* The circuits that limit a site's load: core/circuit/circuit.go.  The    *)
(* operators take and return the circuits' state and are used by           *)
(* LoadManagement.  A circuit has one phase, on which an ampere is a watt. *)
(***************************************************************************)
EXTENDS Integers, Sequences, FiniteSets, Functions

CONSTANTS
    Loadpoints,
    Circuits,       \* in depth-first order, children before their parent
    Parent,         \* the circuit's parent, NoCircuit for the root
    NoCircuit,
    CircuitOf,      \* the circuit a loadpoint belongs to
    HasMeter,       \* the circuit has a meter; otherwise its load is a sum
    HasCurrents,    \* and the meter is an api.PhaseCurrents
    MaxPower,       \* Circuit.maxPower, zero for none
    MaxCurrent,     \* Circuit.maxCurrent, zero for none
    Timeout         \* Circuit.timeout, in cycles

CircuitSet == {Circuits[i] : i \in DOMAIN Circuits}
Root == Circuits[Len(Circuits)]
Position == [c \in CircuitSet |-> CHOOSE i \in DOMAIN Circuits : Circuits[i] = c]

ASSUME TreeAssumption ==
    /\ Circuits \in Seq(CircuitSet) /\ Circuits # <<>>
    /\ Parent \in [CircuitSet -> CircuitSet \cup {NoCircuit}]
    /\ NoCircuit \notin CircuitSet
    /\ \A c \in CircuitSet : Parent[c] = NoCircuit <=> c = Root
    /\ \A c \in CircuitSet \ {Root} : Position[c] < Position[Parent[c]]
    /\ Cardinality(CircuitSet) = Len(Circuits)
ASSUME LimitAssumption ==
    /\ CircuitOf \in [Loadpoints -> CircuitSet]
    /\ HasMeter \in [CircuitSet -> BOOLEAN]
    /\ MaxPower \in [CircuitSet -> Nat]
    /\ MaxCurrent \in [CircuitSet -> Nat]
    /\ HasCurrents \in [CircuitSet -> BOOLEAN]
    /\ \A c \in CircuitSet : HasMeter[c] /\ MaxCurrent[c] # 0 => HasCurrents[c]
    /\ Timeout \in Nat \ {0}

Children == [c \in CircuitSet |-> {d \in CircuitSet : Parent[d] = c}]
Larger(a, b) == IF a > b THEN a ELSE b
Smaller(a, b) == IF a < b THEN a ELSE b

\* The circuit and its parents.
Above[c \in CircuitSet] ==
    {c} \cup (IF Parent[c] = NoCircuit THEN {} ELSE Above[Parent[c]])

\* The circuits below a circuit, itself included, and the loadpoints it limits.
Within == [c \in CircuitSet |-> {d \in CircuitSet : c \in Above[d]}]
Below == [c \in CircuitSet |-> {lp \in Loadpoints : CircuitOf[lp] \in Within[c]}]

\* math.MaxFloat64: the load of a circuit that must not be loaded any more.
Overload == 1000

Unread == [power |-> 0, current |-> 0, powerAge |-> Timeout + 1, currentAge |-> Timeout + 1]

-----------------------------------------------------------------------------
(* Update.  A meter can be ok, or fail when its power, its currents or its  *)
(* phase powers are read; load gives what it measures.                      *)

MeterStates == {"ok", "power", "currents", "powers"}

\* Time passes between two updates.
Older(circ) ==
    [c \in CircuitSet |-> [circ[c] EXCEPT
        !.powerAge = Smaller(@ + 1, Timeout + 1),
        !.currentAge = Smaller(@ + 1, Timeout + 1)]]

\* overloadOnError.
OverloadOnError(value, age) == IF age > Timeout THEN Overload ELSE value

\* Mutant: a meter that cannot be read leaves its last value.
UpdateMetersKept(state, c, load, meter) ==
    IF meter = "power" THEN state
    ELSE LET read == [state EXCEPT !.power = load, !.powerAge = 0]
         IN  IF ~HasCurrents[c] THEN read
             ELSE CASE meter = "currents" ->
                           [read EXCEPT !.current = OverloadOnError(@, state.currentAge)]
                    [] meter = "powers" -> read
                    [] meter = "ok" -> [read EXCEPT !.current = load, !.currentAge = 0]

\* updateMeters: the power first, and the currents only if that succeeded; then
\* the phase powers, which give the currents their signs.
UpdateMeters(state, c, load, meter) ==
    IF meter = "power" THEN [state EXCEPT !.power = OverloadOnError(@, state.powerAge)]
    ELSE LET read == [state EXCEPT !.power = load, !.powerAge = 0]
         IN  IF ~HasCurrents[c] THEN read
             ELSE CASE meter = "currents" ->
                           [read EXCEPT !.current = OverloadOnError(@, state.currentAge)]
                    [] meter = "powers" -> read
                    [] meter = "ok" -> [read EXCEPT !.current = load, !.currentAge = 0]

\* updateLoadpoints, and the loads of the children.
SumLoads(state, c, children, lpPower, lpCurrent) ==
    LET lps == {lp \in Loadpoints : CircuitOf[lp] = c}
    IN  [state EXCEPT
            !.power = SumFunctionOnSet(lpPower, lps)
                      + SumFunction([d \in Children[c] |-> children[d].power]),
            !.current = SumFunctionOnSet(lpCurrent, lps)
                        + SumFunction([d \in Children[c] |-> children[d].current])]

\* The circuits that an update reaches: a child that fails ends the update of its
\* parents and of the circuits that come after it.
Reached(meter) ==
    {c \in CircuitSet : \A d \in CircuitSet : Position[d] < Position[c] => meter[d] = "ok"}

\* Update of the root: depth first.
Update(circ, load, meter, lpPower, lpCurrent) ==
    LET older == Older(circ)
        newer[c \in CircuitSet] ==
            IF c \notin Reached(meter) THEN older[c]
            ELSE IF HasMeter[c] THEN UpdateMeters(older[c], c, load[c], meter[c])
            ELSE SumLoads(older[c], c, [d \in Children[c] |-> newer[d]], lpPower, lpCurrent)
    IN  newer

-----------------------------------------------------------------------------
(* Validation.                                                             *)

\* effectiveMaxPower: the HEMS limit clamps the root circuit.
EffectiveMaxPower(c, hems) ==
    IF c # Root \/ hems = 0 THEN MaxPower[c]
    ELSE IF MaxPower[c] = 0 THEN hems
    ELSE Smaller(hems, MaxPower[c])

\* Mutant: the request is compared with the limit, not with what it adds.
CapAbsolute(limit, load, old, new) ==
    IF limit = 0 \/ new <= limit THEN new ELSE limit

\* Mutant: what a loadpoint has is never taken back.
CapKeeps(limit, load, old, new) ==
    IF limit = 0 \/ Larger(0, new - old) <= limit - load THEN new
    ELSE Smaller(new, old + Larger(0, limit - load))

\* What is left of a request for new by a loadpoint that has old.
Cap(limit, load, old, new) ==
    IF limit = 0 \/ Larger(0, new - old) <= limit - load THEN new
    ELSE Smaller(new, Larger(0, old + limit - load))

\* Up to the root: what a circuit leaves of the request is what its parent is
\* asked for.
Validate(limit, load, c, old, new) ==
    LET left[d \in CircuitSet] ==
            [n \in Int |->
                LET capped == Cap(limit[d], load[d], old, n)
                IN  IF Parent[d] = NoCircuit THEN capped ELSE left[Parent[d]][capped]]
    IN  left[c][new]

ValidatePower(circ, c, hems, old, new) ==
    Validate([d \in CircuitSet |-> EffectiveMaxPower(d, hems)],
             [d \in CircuitSet |-> circ[d].power], c, old, new)

ValidateCurrent(circ, c, old, new) ==
    Validate(MaxCurrent, [d \in CircuitSet |-> circ[d].current], c, old, new)
=============================================================================
