---------------------------- MODULE MCChargeControl ----------------------------
(* Values for checking ChargeControl.                                      *)
EXTENDS ChargeControl

AllModes    == {"off", "now", "smart"}
NowAndSmart == {"now", "smart"}
OffAndSmart == {"off", "smart"}

NeverAlways == {"off"}
JustOnce    == {"off", "once"}

AutoOnly == {0}
AutoOr1  == {0, 1}
AutoOr3  == {0, 3}

\* Too little for one phase, enough for one, enough for three.
Surplus == {0, 1, 6}

\* Too little or enough, for a charger without phase switching.
FewSurplus == {0, 12}
=============================================================================
