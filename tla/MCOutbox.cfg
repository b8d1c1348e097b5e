\* Requests never cease: every entry settles.
SPECIFICATION BusySpec
CONSTANTS
    NoSub = NoSub
    s1 = s1
    h1 = h1
    Threads = {t1}
    Subs <- One
    HostOf <- OneHost
    MaxAttempts = 2
    PushAttempts = {0, 2}
    Threshold = 2
    MaxEntries = 2
    MaxEvents = 1
    MaxCrashes = 1
INVARIANTS
    AttemptBudget
    BreakerJustified
PROPERTIES
    SettledStays
    Settles
