CONSTANTS
    a = a
    b = b
    c = c
    d = d
    Items = {a, b, c, d}
    Date <- MCDate
    Runs = {r1, r2}
    Unwatchable = {a, b, c}
    MaxTimeout = 2
    MaxTime = 6
SPECIFICATION FairSpec
INVARIANTS TypeOK HeldOnce TimerInTime
PROPERTIES AllDuePopped NoBusyLoop PopsAsAssumed WatchedIsPopped
