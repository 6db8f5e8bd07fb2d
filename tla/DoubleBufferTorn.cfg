CONSTANTS
    Parts = {"double"}
    Words = {x1, x2}
    MaxFrames = 5
    Tasks = {t1, t2, t3}
    None = None
    InitCap = 1
    Threads = {u1, u2}
    Fds = {0, 1, 2}
    Free = Free
    OtherCode = OtherCode
    Addresses = 2
    Peers = {A, B}
    PeerA = A
    PeerB = B
    Plans <- MCPlans
    Room = 2
    MaxSignals = 2
SPECIFICATION MCSpec
INVARIANT ReadsCompleteFrame
