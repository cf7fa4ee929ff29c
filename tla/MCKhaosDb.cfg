SPECIFICATION KhaosSpec
CONSTANTS
    None = None
    g0 = g0
    a1 = a1
    a2 = a2
    a3 = a3
    b1 = b1
    z2 = z2
    Blocks <- MCBlocks
    Parent <- MCParent
    Num <- MCNum
    MaxCapacity = 2
INVARIANTS
    KhaosTypeOK
    HeadIsLinked
    PointersSound
    OrphansIndexed
    BranchExact
