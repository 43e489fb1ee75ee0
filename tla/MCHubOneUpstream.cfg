SPECIFICATION HubSpec
CONSTANTS
    tab1 = tab1
    tab2 = tab2
    book = book
    trades = trades
    Sessions <- MCSessions
    Keys <- MCOneKey
    Prewarm <- MCNone
    BareOf <- MCOneKeyBareOf
    Bytes <- MCOneKeyBytes
    Ceiling = 1
    Repeats = FALSE
    Unasked <- MCNone
    MaxTables = 2
    MaxRefs = 2
    MaxTimers = 1
    MaxReloads = 0
INVARIANT OneUpstreamPerKey
CHECK_DEADLOCK FALSE
