SPECIFICATION MCSpec
CONSTANTS
    Parts = {"flow", "worker", "sidecar", "mirror"}
    positions = positions
    trades = trades
    tab1 = tab1
    tab2 = tab2
    whole = whole
    slice = slice
    blotter = blotter
    k1 = k1
    k2 = k2
    Feeds <- MCFeeds
    Limit = 6
    ConflateMs = 1
    StuckMs = 2
    MaxAcked = 4
    MaxResets = 1
    Sessions <- MCSessions
    Keys <- MCKeys
    Prewarm <- MCPrewarm
    BareOf <- MCBareOf
    Bytes <- MCBytes
    Ceiling = 2
    Repeats = FALSE
    Unasked <- MCUnasked
    MaxTables = 2
    MaxRefs = 2
    MaxTimers = 2
    MaxReloads = 1
    MirrorKeys <- MCRowKeys
    MaxImages = 2
INVARIANTS
    ProgressTypesOK
    LagStaysBelowLimit
    RefsCoverHolders
    TablesAreAccounted
PROPERTIES
    DropIsEarned
    ConflationIsPaced
    WedgedTabIsShed
    LastLeaveCloses
    ReloadKeepsSubscribers
    IdleTableCloses
    GridIsLaggingCopy
    GridCatchesUp
CHECK_DEADLOCK FALSE
