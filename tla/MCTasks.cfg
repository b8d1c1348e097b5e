\* A pull step and a push step behind it, polls of two tasks (of the first, whose
\* step a user may have completed, and of the second), one request at a time, two
\* crashes between any two store accesses, more retries asked for than configured.
SPECIFICATION Spec
CONSTANTS
    NoWorker = NoWorker
    w1 = w1
    w2 = w2
    a = a
    c = c
    Threads = {t1}
    Workers = {w1, w2}
    Pull <- JustA
    Push <- JustC
    After <- Chain
    Batch = 2
    MaxTasks = 3
    MaxTokens = 3
    MaxCrashes = 2
    RetryMax = 1
    Asked = {0, 2}
SYMMETRY Alike
INVARIANTS
    TypeOK
    OneOpenTask
    AdvancedOnce
    ExclusiveClaim
    ClosedMeansDone
