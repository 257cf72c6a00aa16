\* Tables of two, a ring of three, seven tenths of a processor; eight frames and one
\* address space.
SPECIFICATION MCSpec
CONSTANTS
    Procs = {p1, p2}
    Objects = {o1, o2}
    Rights <- TwoRights
    Handles <- FewHandles
    Slots = 2
    Revocations <- RevokeFromOne
    NoHandle = NoHandle
    p1 = p1
    p2 = p2
    o1 = o1
    o2 = o2
    t1 = t1
    t2 = t2
    t3 = t3
    Producers = {p1}
    RingSlots = 3
    Width = 6
    MaxPosts = 8
    NoNote = NoNote
    RtThreads = {t1, t2, t3}
    RtRequests <- SmallRequests
    Million = 10
    Ceiling = 7
    Width32 = 16
    Width64 = 128
    Base = 1
    Count = 8
    WordBits = 2
    PageSize = 4
    Usable <- UsableRegions
    Reserved <- ReservedRegions
    MaxRuns = 1
    RunLengths = {2}
    Alignments = {1, 2}
    None = None
    Levels = 4
    Fanout = 2
    Requests <- Asked
INVARIANTS
    LenIsExact
    NoAmplification
    HeldIsFound
    FramesAccounted
    ReservedWithheld
    SearchesComplete
    TablesLinked
PROPERTIES
    DeliversOrCounts
    
    ImplementsAdmissionControl
    ImplementsAddressSpace
\* Handles run out, the producer stops after MaxPosts, no frame is left.
CHECK_DEADLOCK FALSE
