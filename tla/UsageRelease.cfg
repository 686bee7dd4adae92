SPECIFICATION Spec
CONSTANTS
    Workers = {w1, w2}
    Duration <- SmallDuration
    PlanLimit <- SmallLimits
    Plans = {}
    FreeVideoLimit = 1
    FreeSecondsLimit = 180
    OperatorDailyLimit = 1
    DayLength = 2
    DayOffset = 1
    Keys = {1}
    Purchases = {}
    Lifetime = 2
    LeaseTTL = 2
    IntentTTL = 3
    MaxIntents = 2
    MaxAttempts = 2
    PeriodLength = 2
    OperatorModes = {FALSE}
    ResumeModes = {TRUE}
    Kinds = {"reserve", "renew", "release", "ai"}
    MaxTime = 4
SYMMETRY Alike
INVARIANTS
    TypeOK
    ReleasedKeyStaysReleased
    LeaseExclusive
PROPERTIES
    CompletedIsTerminal
    LeaseProtectsFunding
    LeaseDefersRelease
