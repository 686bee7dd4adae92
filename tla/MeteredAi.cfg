SPECIFICATION Spec
CONSTANTS
    Reservations = {r1, r2}
    ActionIds = {a1, a2}
    Workers = {w1, w2}
    Phases = {"chunk", "script", "speech", "adjust", "single"}
    ChunkSeconds = {2}
    Ceiling = 3
    SuccessLimit = 2
    EntitlementLimit = 1
    MaxRequests = 3
    AttemptLimit <- AttemptLimits
    OperationLimit <- OperationLimits
    LeaseTTL = 1
    PendingTTL = 2
    Lifetime = 2
    MaxTime = 2
INVARIANTS TypeOK EntitlementWithinLimit AnswersAreCounted TranscribedWithinSource
SYMMETRY Symmetry
CHECK_DEADLOCK FALSE
