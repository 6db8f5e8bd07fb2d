CONSTANTS
    Parts = {"cache", "args"}
    Procs = {p1, p2, p3, p4}
    Files = {f1, f2}
    Stamp = Stamp
    MaxCrashes = 3
    MaxFaults = 2
    Argvs <- MCArgvs
    MaxArgs = 4
SPECIFICATION MCSpec
SYMMETRY Symmetry
INVARIANTS MarkedMeansComplete FailsOnlyOnFault NeverHalfWritten NoTempLeft WarmStays ArgsFit ArgumentsKeepMeaning OneLibc
PROPERTIES ReturnsComplete
