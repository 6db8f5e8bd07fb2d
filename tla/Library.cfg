CONSTANTS
    Parts = {"arena", "hashmap", "str", "slice"}
    Width = 8
    Base = 64
    MaxAlign = 4
    Caps <- RoundCaps
    Sizes <- FewSizes
    Counts <- FewCounts
    Aligns <- FewAligns
    MaxBlocks = 4
    Keys = {k1, k2, k3}
    Vals = {v1, v2}
    NoVal = NoVal
    NoKey = NoKey
    InitCap = 2
    MaxCap = 8
    HashValues <- SomeHashes
    StrWord = 32
    StrCap = 2
    MaxMem = 8
    Texts <- SomeTexts
    Extras <- AllExtras
    Nul = Nul
    Junk = Junk
    SliceWord = 8
    Lent = 5
SPECIFICATION MCSpec
SYMMETRY Symmetry
INVARIANTS BlocksInside TextAndRoom ViewInside
PROPERTIES RequestsServed ImplementsDictionary
