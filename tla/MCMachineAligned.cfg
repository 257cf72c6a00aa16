\* Violated: the first switch to a new thread.
SPECIFICATION MCSpec
CONSTANTS
    Cpus = {0, 1}
    Isolatable = {1}
    Threads = {"r", "g", "i", "b"}
    Class <- MCClass
    PidOf <- MCPidOf
    Game = "game"
    NoPid = "nobody"
    NoThread = "none"
    Deadlines <- MCDeadlines
    Capacity = 2
    BgCapacity = 1
    Slice = 1
    MaxDebt = 1
    Called = {"i"}
    Contexts = {"t1", "t2", "t3"}
    First = "t1"
    Space <- MCSpace
    Values = {"x", "y"}
    MaxDepth = 3
    Vectors = {3, 8, 9, 13, 32}
    HandlerOf <- MCHandlerOf
    Word = 2
    Stacks = {1}
    Direct = 12
    PointersPerBlock = 2
    UberblockSlots = 4
    b1 = b1
    b2 = b2
    b3 = b3
    Blocks = {b1, b2, b3}
    NoBlock = NoBlock
    MaxTxg = 5
    Blake3 <- StandIn
    Zero = Zero
    Tears = FALSE
    FlushLies = FALSE
    Classes <- MCClasses
    Limit <- MCLimit
    Manual = "manual"
    DoomedMax = 1
INVARIANTS
    EntryStackAligned
