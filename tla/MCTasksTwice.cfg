\* Two reports of one task at once, and no users.
SPECIFICATION WorkersOnly
CONSTANTS
    NoWorker = NoWorker
    w1 = w1
    w2 = w2
    a = a
    c = c
    Threads = {t1, t2}
    Workers = {w1, w2}
    Pull <- JustA
    Push <- Nothing
    After <- Single
    Batch = 1
    MaxTasks = 1
    MaxTokens = 0
    MaxCrashes = 0
    RetryMax = 1
    Asked = {}
INVARIANT
    AdvancedOnce
