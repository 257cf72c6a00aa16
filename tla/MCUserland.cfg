\* Two windows and one hitch; 64 samples; five observations; two files; two sections; one pointer.
SPECIFICATION MCSpec
CONSTANTS
    w1 = w1
    w2 = w2
    Windows = {w1, w2}
    Targets = {"Normal", "Dragging", "Minimising", "Minimised", "Restoring", "Closing", "Gone"}
    Cheap = 30
    Hitch = 400
    RecoveryFrames = 20
    CooldownFrames = 16
    MaxRequests = 3
    Repertoires <- Shapes
    HalfMinute = 1
    Gaps = {0, 3, 10}
    Ring = 4
    MaxScore = 150
    MaxObserved = 5
    Paths <- TwoPaths
    Contents = {"c1", "c2", "c3"}
    Absent = "absent"
    Size <- Sizes
    Ends <- Matches
    MaxFiles = 2
    MaxScanBytes = 3
    MaxChanges = 3
    Width = 4
    PageSize = 2
    Alignments = {1, 2, 3}
    Images = {4, 12}
    Files = {8}
    Fields = {0, 3, 8, 15}
    MaxSections = 2
    Window = 64
    MaxSlow = 20
    ScreenWidth = 256
    ScreenHeight = 192
    Moves <- Deltas
    Pointers = 1
INVARIANTS
    OneHitchOneTier
    RegressionSeen
    ReportsHold
    PagesMappedOnce
    ScreenIsCurrent
PROPERTIES
    WindowsSettle
    BonusesAreRight
\* The guard's command may fail, an image is accepted or refused.
CHECK_DEADLOCK FALSE
