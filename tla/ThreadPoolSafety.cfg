\* Calls may overlap pool_destroy, and condition waits may wake spuriously.
CONSTANTS
    NumThreads = 2
    QueueSize = 2
    Clients = {c1, c2, c3}
    Owner = c1
    Tasks = {t1, t2, t3, t4, t5}
    NoTask = NoTask
    MaxWaits = 2
    SpuriousWakeups = TRUE
    QuietDestroy = FALSE
SPECIFICATION Spec
SYMMETRY Symmetry
INVARIANTS NoLostWakeup RingConsistent DrainedBeforeRelease NothingLeaked
PROPERTIES WaitCovers
