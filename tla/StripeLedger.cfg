SPECIFICATION Spec
CONSTANTS
    Workers = {w1, w2}
    Tokens = {1, 2}
    Periods = {1, 2}
    MaxEvents = 3
    MaxFaults = 1
INVARIANTS TypeOK OneMonthlyContract AnnouncedOnce
PROPERTIES BooksNeverGoBack FollowsStripe
CHECK_DEADLOCK FALSE
