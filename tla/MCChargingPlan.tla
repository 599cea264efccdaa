---------------------------- MODULE MCChargingPlan ----------------------------
(* Values for checking ChargingPlan.                                       *)
EXTENDS ChargingPlan, Sequences

\* A tariff with one price per slot, from the start.
Priced(prices) ==
    {Slot((i - 1) * SlotDuration, i * SlotDuration, prices[i]) : i \in DOMAIN prices}

\* Known to the end, or less; late slots cheap, early slots cheap, or all equal.
FewTariffs ==
    {{}, Priced(<<1, 2>>), Priced(<<1, 3, 2>>), Priced(<<1, 2, 1, 2>>),
     Priced(<<2, 1, 1, 1>>), Priced(<<3, 1, 2, 1>>), Priced(<<2, 2, 2, 2>>)}

Strategy(continuous, precondition) ==
    [continuous |-> continuous, precondition |-> precondition]
AllStrategies == {Strategy(c, p) : c \in BOOLEAN, p \in {0, 1, SlotDuration}}

Goal(id, time, goal) == [id |-> id, time |-> time, goal |-> goal]
ThreeGoals == {Goal(1, 5, 2), Goal(1, 8, 4), Goal(1, 10, 3)}
Evening == Goal(2, 7, 2)
=============================================================================
