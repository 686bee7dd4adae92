SPECIFICATION Spec
CONSTANTS
    Workers = {w1, w2}
    Duration <- SmallDuration
    PlanLimit <- SmallLimits
    Plans = {}
    FreeVideoLimit = 0
    FreeSecondsLimit = 180
    OperatorDailyLimit = 1
    DayLength = 2
    DayOffset = 1
    Keys = {1}
    Purchases = {1}
    Lifetime = 1
    LeaseTTL = 1
    IntentTTL = 3
    MaxIntents = 2
    MaxAttempts = 2
    PeriodLength = 2
    OperatorModes = {FALSE}
    ResumeModes = {FALSE}
    Kinds = {"reserve", "renew", "release"}
    MaxTime = 4
SYMMETRY Alike
INVARIANTS
    ReleasedKeyStaysReleased
