SPECIFICATION Spec
CONSTANTS
    Plans = {}
    PlanLimit <- MCPlanLimit
    FreeVideoLimit = 2
    FreeSecondsLimit = 180
    OperatorDailyLimit = 1
    DayLength = 2
    DayOffset = 1
    Keys = {1, 2, 3, 4}
    Purchases = {1}
    Duration <- MCDuration
    Times <- MCTimes
INVARIANTS
    TypeOK
    FreeTrialWithinLimit
    OneVideoPerPurchase
    OperatorDayWithinLimit
PROPERTIES
    SpentStaysSpent
