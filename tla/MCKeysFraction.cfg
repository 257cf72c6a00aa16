\* Violated: three quarters of ten cores are not whole pairs.
SPECIFICATION MCSpec
CONSTANTS
    p1 = p1
    p2 = p2
    p3 = p3
    s1 = s1
    s2 = s2
    None = None
    Pages = {p1, p2, p3}
    Sweepers = {s1, s2}
    Chunk = 2
    MaxEpoch = 2
    Slots = 2
    Dimms <- SomeDimms
    Empty <- NoDimm
    Carved = {1024, 2048}
    Images <- TwoImages
    MaxCuts = 1
    m1 = m1
    w = w
    g1 = g1
    g2 = g2
    NoPid = NoPid
    Total = 10
    Sibling <- Pairs
    Managers = {m1}
    Watchdog = w
    Games = {g1, g2}
INVARIANTS
    FractionHolds
\* The loader and the console halt, and all games may be dead.
CHECK_DEADLOCK FALSE
