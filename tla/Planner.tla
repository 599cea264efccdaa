-------------------------------- MODULE Planner --------------------------------
(***************************************************************************)
(* When to charge for the least cost: core/planner.  Time and durations    *)
(* are in ticks.  A slot is a period with a price; rates and plans are     *)
(* sets of slots that do not overlap, so that no plan is the empty set and *)
(* Plan.Sort has nothing to do.                                            *)
(***************************************************************************)
EXTENDS Integers, FiniteSetsExt

CONSTANT SlotDuration    \* tariff.SlotDuration, in ticks

ASSUME SlotAssumption == SlotDuration \in Nat \ {0}

Slot(start, end, value) == [start |-> start, end |-> end, value |-> value]

Earlier(a, b) == IF a < b THEN a ELSE b
Later(a, b) == IF a > b THEN a ELSE b

Slots == [start : Int, end : Int, value : Int]

\* Slots that are some time long and do not overlap.
Proper(slots) ==
    /\ slots \subseteq Slots /\ IsFiniteSet(slots)
    /\ \A s \in slots : s.start < s.end
    /\ \A r, s \in slots : r # s => r.end <= s.start \/ s.end <= r.start

Length(slot) == slot.end - slot.start
Duration(slots) == SumFunction([s \in slots |-> Length(s)])
Start(slots) == Min({s.start : s \in slots})
End(slots) == Max({s.end : s \in slots})

SlotAt(t, slots) == {s \in slots : s.start <= t /\ t < s.end}

SlotHasLaterSuccessor(slot, slots) ==
    /\ \A s \in slots : s.start # slot.end
    /\ \E s \in slots : s.start > slot.end

\* clampRates.
Clamp(rates, start, end) ==
    {Slot(Later(r.start, start), Earlier(r.end, end), r.value) :
        r \in {r \in rates : start < r.end /\ r.start < end}}

-----------------------------------------------------------------------------
(* The cheapest slots.                                                     *)

\* sortByCost: the cheaper slot first, of equally cheap ones the later.
Cheaper(r, s) == r.value < s.value \/ (r.value = s.value /\ r.start > s.start)

\* IsFirst.
IsFirst(slot, slots) == \A s \in slots : slot.start <= s.start

\* Mutant: the last slot taken is used entirely.
ShortenNever(r, excess, taken) == r

\* A slot that is longer than what is still needed ends earlier, or, as the first
\* of several, starts later.
Shorten(r, excess, taken) ==
    IF excess <= 0 THEN r
    ELSE IF taken # {} /\ IsFirst(r, taken) THEN [r EXCEPT !.start = @ + excess]
    ELSE [r EXCEPT !.end = @ - excess]

\* Mutant: slots are taken in the order of time.
OptimalPlanInOrder(rates, required) ==
    LET Before(r) == {s \in rates : s.start < r.start}
    IN  {Shorten(r, Duration(Before(r)) + Length(r) - required, Before(r)) :
            r \in {r \in rates : Duration(Before(r)) < required}}

\* optimalPlan: slots are taken in the order of cost, until there are enough.
OptimalPlan(rates, required) ==
    LET Before(r) == {s \in rates : Cheaper(s, r)}
    IN  {Shorten(r, Duration(Before(r)) + Length(r) - required, Before(r)) :
            r \in {r \in rates : Duration(Before(r)) < required}}

-----------------------------------------------------------------------------
(* The cheapest window.                                                    *)

WindowCost(rates, start, end) ==
    SumFunction([r \in Clamp(rates, start, end) |-> r.value * Length(r)])

\* findContinuousWindow: it starts with a slot; of equally cheap ones the latest.
FindContinuousWindow(rates, required, target) ==
    LET starts == {s \in {r.start : r \in rates} : s + required <= target}
        Cost(s) == WindowCost(rates, s, s + required)
        best == {s \in starts : \A other \in starts : Cost(s) <= Cost(other)}
    IN  IF starts = {} THEN {} ELSE Clamp(rates, Max(best), Max(best) + required)

-----------------------------------------------------------------------------
(* The plan.                                                               *)

\* continuousPlan: from start to end, at whatever price there is.
ContinuousPlan(rates, start, end) ==
    LET priced == Clamp(rates, start, end)
    IN  IF priced = {} THEN {Slot(start, end, 0)}
        ELSE priced \cup (IF Start(priced) > start THEN {Slot(start, Start(priced), 0)} ELSE {})
                    \cup (IF End(priced) < end THEN {Slot(End(priced), end, 0)} ELSE {})

\* The rates suffice for what is planned with them.
Covered(rates, required) == rates # {} /\ required <= Duration(rates)

\* The cheapest slots before the time that is kept for preconditioning, and that.
PlanCovered(rates, required, precondition, target, continuous) ==
    LET last == Earlier(precondition, required)
        until == target - last
        precond == IF last > 0 THEN Clamp(rates, until, target) ELSE {}
        before == IF last > 0 THEN Clamp(rates, Start(rates), until) ELSE rates
        rest == required - last
    IN  precond \cup
        (IF rest = 0 THEN {}
         ELSE IF continuous THEN FindContinuousWindow(before, rest, until)
         ELSE OptimalPlan(before, rest))

\* Plan, without a tariff if rates is empty.
Plan(rates, now, required, precondition, target, continuous) ==
    LET latest == target - required
        beyond == IF rates = {} THEN 0 ELSE Later(0, target - End(rates))
        clamped == Clamp(rates, now, target)
    IN  IF required <= 0 THEN {}
        ELSE IF rates = {} THEN {Slot(Later(latest, now), Later(latest, now) + required, 0)}
        ELSE IF latest <= now THEN ContinuousPlan(rates, now, now + required)
        ELSE IF beyond >= required THEN {}
        ELSE IF ~Covered(clamped, required - beyond) THEN {Slot(latest, target, 0)}
        ELSE PlanCovered(clamped, required - beyond, Later(precondition - beyond, 0),
                         target - beyond, continuous)
=============================================================================
