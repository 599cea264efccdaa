SPECIFICATION Spec
CONSTANTS
    SlotDuration = 3
    Full = 5
    MaxTime = 11
    Day = 20
    NoTime = NoTime
    Tariffs <- FewTariffs
    Strategies <- AllStrategies
    StaticPlans <- ThreeGoals
    RepeatingPlan <- Evening
INVARIANTS TypeOK PlanFits PlanIsCheapest
PROPERTIES DeadlineKept GoalKept NoShortPause
CHECK_DEADLOCK FALSE
