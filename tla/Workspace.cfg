SPECIFICATION WorkspaceSpec
CONSTANTS
    n1 = n1
    n2 = n2
    a1 = a1
    a2 = a2
    s1 = s1
    Parts = {1, 2}
    Workers = {n1, n2}
    MaxRequests = 4
    MaxDeaths = 1
    Attempts = {1, 2}
    Posts = {n1, n2}
    People = {a1, a2}
    Subjects = {s1}
    MaxLogins = 3
    MaxPosts = 2
    Outputs = {"o1"}
    Tabs = {n1, n2}
    MaxCrashes = 1
    Accounts = {a1, a2}
    MaxSwitches = 1
    SettingsBounds <- MCSettingsBounds
    PagesBounds <- MCPagesBounds
    EditingBounds <- MCEditingBounds
    MixBounds <- MCMixBounds
    Runs = {n1, n2}
    MaxReleases = 3
    MaxReleaseFailures = 1
    RunSlots = {1, 2}
    MinPhotos = 1
    MaxPhotos = 2
    MaxKeys = 2
    MaxFiles = 2
    MaxExports = 2
    MaxTunes = 1
    MaxLost = 1
SYMMETRY Alike
INVARIANTS StoredWholeAndOnce ReleasesAreSafe ReservationsAreAccountedFor PlayedAndWrittenWhole PlansAreSound
PROPERTIES ConcludedAsBegun
CHECK_DEADLOCK FALSE
