\* Nobody is killed and nothing fails.
CONSTANTS
    Parts = {"cache"}
    Procs = {p1, p2, p3}
    Files = {f1, f2}
    Stamp = Stamp
    MaxCrashes = 0
    MaxFaults = 0
    Argvs <- MCArgvs
    MaxArgs = 4
SPECIFICATION MCSpec
INVARIANT StampTellsTruthAtRest
