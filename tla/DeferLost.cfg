CONSTANTS
    Parts = {"defer"}
    Templates = {f, g}
    T = T
    Types <- MCTypes
    MaxDecls = 4
    MaxCalls = 2
    Recursion = FALSE
    MaxBlockDepth = 3
    MaxBodies = 3
    MaxBlocks = 3
    MaxExpandDepth = 2
    MaxTries = 3
    Sources <- MCSources
    Expansions <- MCExpansions
SPECIFICATION MCSpec
INVARIANT ReachedMeansRun
\* A translation unit and a function end.
CHECK_DEADLOCK FALSE
