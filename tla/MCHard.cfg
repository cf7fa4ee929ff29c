SPECIFICATION DriverSpec
CONSTANTS
    None = None
    g0 = g0
    a1 = a1
    a2 = a2
    a3 = a3
    b1 = b1
    b2 = b2
    b3 = b3
    b4 = b4
    c2 = c2
    w1 = w1
    w2 = w2
    Witnesses = {w1, w2}
    Genesis = g0
    Tip = b3
    Blocks <- Small
    Parent <- SmallParent
    Num <- SmallNum
    Anc <- SmallAnc
    Witness <- SmallWitness
    Ref <- SmallRef
    MaxCapacity = 3
    WalkHorizon = 4
    SeedWindow = 2
    MaxRefeed = 1
    Deferrals = {FALSE}
    Barrier = 3
    Faults = {"store", "index", "reindex", "exec", "undo", "rollback", "torn"}
    MaxFaults = 2
    MaxCrashes = 1
    PbftBlocks = {}
    Fleet = FALSE
INVARIANTS
    LinkedPersisted
    NoStrandedOrphan
PROPERTIES
    KhaosSpec
