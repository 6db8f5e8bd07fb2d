\* No spurious wakeups, so that a lost one shows as a deadlock.
CONSTANTS
    NumThreads = 2
    QueueSize = 1
    Clients = {c1, c2, c3}
    Owner = c1
    Tasks = {t1, t2, t3}
    NoTask = NoTask
    MaxWaits = 1
    SpuriousWakeups = FALSE
    QuietDestroy = TRUE
SPECIFICATION FairSpec
INVARIANTS NoUseAfterRelease
PROPERTIES CallsReturn ImplementsTaskPool
