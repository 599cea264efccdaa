--------------------------- MODULE MCLoadManagement ---------------------------
(* Values for checking LoadManagement.                                     *)
EXTENDS LoadManagement, TLC

CONSTANTS lp1, lp2, house, yard

(* A house with a meter and a power limit; the yard below it adds up the     *)
(* currents that its two loadpoints are offered.                            *)
YardFirst == <<yard, house>>
YardParent == yard :> house @@ house :> NoCircuit
TwoLoadpoints == {lp1, lp2}
FirstThenSecond == <<lp1, lp2>>
BothInYard == lp1 :> yard @@ lp2 :> yard
HouseHasMeter == yard :> FALSE @@ house :> TRUE
NoCurrents == yard :> FALSE @@ house :> FALSE
HouseMaxPower == yard :> 0 @@ house :> 3
YardMaxCurrent == yard :> 1 @@ house :> 0
FirstReports == lp1 :> TRUE @@ lp2 :> FALSE
FirstUnruly == {lp1}
FoundAt == lp1 :> {1} @@ lp2 :> {1}
Unmeasured == lp1 :> FALSE @@ lp2 :> FALSE
HouseBaseLoads == yard :> {0} @@ house :> {0, 2}
HouseFaults == yard :> {} @@ house :> {"power"}
HouseHemsLimits == {0, 2}
=============================================================================
