SPECIFICATION Spec
CONSTANTS
    Workers = {w1, w2}
    Duration <- SmallDuration
    PlanLimit <- SmallLimits
    Plans = {}
    FreeVideoLimit = 2
    FreeSecondsLimit = 180
    OperatorDailyLimit = 1
    DayLength = 2
    DayOffset = 1
    Keys = {1, 2}
    Purchases = {}
    Lifetime = 1
    LeaseTTL = 1
    IntentTTL = 3
    MaxIntents = 2
    MaxAttempts = 1
    PeriodLength = 2
    OperatorModes = {TRUE, FALSE}
    ResumeModes = {TRUE}
    Kinds = {"reserve", "renew"}
    MaxTime = 3
SYMMETRY Alike
INVARIANTS
    FreeSecondsQuota
    OperatorQuota
