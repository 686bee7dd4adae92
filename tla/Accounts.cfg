SPECIFICATION AccountsSpec
CONSTANTS
    Terminals = {t1, t2, t3}
    DeviceLimit = 2
    MaxAttempts = 2
    MaxEnrolls = 6
    Users = {u1, u2}
    Executors = {x1, x2}
    BatchLimit = 2
    AbortIsRepeatable = TRUE
    MaxMoves = 3
    MaxFailures = 1
    Devices = {d1, d2}
    Members = {m1}
    Videos = {v1, v2}
    Length <- MCLength
    FreeVideos = 2
    FreeSeconds = 2
    IssuanceLimit = 1
    MaxVisits = 4
    Accounts = {a1}
    Passkeys = {k1, k2}
    Subjects = {s1}
    Browsers = {b1, b2}
    MaxPasskeys = 2
    MaxSessions = 3
    Attempts = {1, 2}
INVARIANTS AccountsTypeOK NothingLeftBehind WaysIn BlockedByItsAttempt
PROPERTIES NothingOnStaleGrounds NothingHangs
CHECK_DEADLOCK FALSE
