SPECIFICATION MCSpec
CONSTANTS
    Parts = {"views", "control", "plane", "overlay", "viewport", "distinct", "queries", "rules", "config", "selection", "rows", "calls", "watchers", "answers", "reload", "blocks", "schema"}
    q1 = q1
    q2 = q2
    scan = scan
    sub = sub
    k1 = k1
    k2 = k2
    s1 = s1
    r1 = r1
    f1 = f1
    f2 = f2
    e1 = e1
    govies = govies
    apac = apac
    bond = bond
    BOND = BOND
    i1 = i1
    i2 = i2
    g1 = g1
    rule1 = rule1
    sig1 = sig1
    sig2 = sig2
    w1 = w1
    w2 = w2
    p1 = p1
    p2 = p2
    Loads = {l1, l2}
    Signatures <- MCSignatures
    CacheMax = 1
    MaxViews = 2
    MaxUpsets = 1
    Requests <- MCRequests
    Scans <- MCScans
    Batches = 2
    MaxPorts = 3
    PlaneSessions <- MCSessions
    Specs = {a, b}
    WatchIds = {pred}
    BlockCap = 1
    PollCap = 1
    MaxCalls = 1
    MaxOpened = 3
    MaxPushes = 2
    RowKeys <- MCKeys
    FeedValues <- MCFeedValues
    EditValues = {e1}
    NoCell = NoCell
    MaxOverlays = 1
    MaxSaid = 3
    FilterColumns = {a, b}
    Contexts = {x}
    SearchSelect = {b}
    Ttl = 2
    MaxTime = 4
    MaxFilters = 1
    Texts <- MCTexts
    Needles <- MCNeedles
    Searches <- MCSearches
    WordsOf <- MCWordsOf
    Numbers = {1, 2}
    Null = Null
    Names <- MCNames
    FoldOf <- MCFoldOf
    Amounts = {1, 2}
    Yes = Yes
    No = No
    Missing = Missing
    MaxTerms = 3
    Stores = {s1, s2}
    Collections <- MCCollections
    Items = {item}
    NoItem = NoItem
    NoSum = NoSum
    ImportCalls <- MCImportCalls
    MaxEdits = 1
    MaxImports = 2
    MaxBundles = 2
    RowIds = {a, b, c}
    NoRow = NoRow
    Paths <- MCPaths
    ArrayPaths <- MCArrayPaths
    Strategies = {"index-pin", "aggregate", "json-string", "explode"}
    Coerced <- MCCoerced
    MaxDepth = 2
    Scalars = {v, Blank}
    Blank = Blank
    BookIds <- MCBookIds
    MaxMessages = 3
    GroupKeys <- MCGroupKeys
    RuleIds <- MCRuleIds
    Sigs <- MCSigs
    CallIds <- MCCallIds
    Top = 2
    Line = 1
    Epsilon = 1
    MaxWatches = 2
    MaxMoves = 3
    BookKeys <- MCBookKeys
    Marks = {0, 1}
    Empty = 0
    BatchRows = 2
    DistinctLimit = 2
    SearchLimit = 1
    MaxBookMoves = 1
    Fields <- MCFields
    Annotations <- MCAnnotations
    Required <- MCRequired
    LiveFields <- MCLiveFields
    HubFields <- MCHubFields
    EntryFields <- MCEntryFields
    ConfigValues = {1, 2}
    Unset = Unset
    Pushes <- MCPushes
    MaxJoins = 1
    SamplePaths <- MCSamplePaths
    MaxNesting = 2
    SampleValues <- MCSampleValues
    JsType <- MCJsType
    Fractions = {"1.5"}
    IsoLike = {"2024-01-02"}
    NumericLooking = {"007"}
    BooleanTokens = {"yes"}
    MinNonNull = 2
    CardinalityCap = 3
    SetFilterMax = 2
    Evidence = 4
    IsoPercent = 60
    MaxSamples = 4
    MaxGroups = 2
    Ranges <- MCRanges
    MaxTicks = 1
    MaxCallsOut = 2
    MaxToggles = 1
    Leaves <- MCLeaves
    Routes <- MCRoutes
    Levels = 2
    BlockRows = 1
    MaxBlocks = 2
    MaxLeafMoves = 1
    MaxReads = 1
INVARIANTS
    PartsTypesOK
    ViewsAreAccounted
    ReadersKeepTheirView
    ResolvedScanIsWhole
    RequestsAreAccounted
    EngineViewsAreHeld
    PushesComeInOrder
    EditsYieldToNews
    SettledGridIsCurrent
    ServedValuesAreRecent
    ComputationsAgree
    DivergenceIsSignalled
    RangeFollowsItsRows
    WatchesAreAccounted
    WatchersReportTransitions
    TableFollowsUpstream
    EditsTakeEffect
CHECK_DEADLOCK FALSE
