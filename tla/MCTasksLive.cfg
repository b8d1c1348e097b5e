\* Every automatic step is served.
SPECIFICATION FairSpec
CONSTANTS
    NoWorker = NoWorker
    w1 = w1
    w2 = w2
    a = a
    c = c
    Threads = {t1}
    Workers = {w1, w2}
    Pull <- JustA
    Push <- Nothing
    After <- Single
    Batch = 1
    MaxTasks = 1
    MaxTokens = 0
    MaxCrashes = 1
    RetryMax = 2
    Asked = {0, 3}
PROPERTY
    Served
