SPECIFICATION Spec
CONSTANTS
    Workers = {w1}
    Duration <- SmallDuration
    PlanLimit <- SmallLimits
    Plans = {"starter", "standard"}
    FreeVideoLimit = 1
    FreeSecondsLimit = 180
    OperatorDailyLimit = 1
    DayLength = 2
    DayOffset = 1
    Keys = {1, 2}
    Purchases = {}
    Lifetime = 1
    LeaseTTL = 1
    IntentTTL = 3
    MaxIntents = 2
    MaxAttempts = 1
    PeriodLength = 1
    OperatorModes = {FALSE}
    ResumeModes = {TRUE, FALSE}
    Kinds = {"reserve", "renew", "refund"}
    MaxTime = 2
INVARIANTS
    RefundStopsReservations
PROPERTIES
    SubscriptionQuotaOnGrant
