SPECIFICATION MCSpec
CONSTANTS
    Parts = {"pipeline", "feeds", "frames"}
    r1 = r1
    r2 = r2
    Rows <- MCRows
    MaxVersion = 2
    QueueLimit = 3
    MaxRows = 2
    MaxAttempts = 1
    Urls = 2
    Policy = "buffer"
    Truncates = TRUE
    MaxOutages = 1
    FeedRows <- MCRows
    Shapes = {"subscribe-only", "sentinel", "stream-end", "rest", "socket.io"}
    RetryMax = 1
    MaxChanges <- MCMaxChanges
    MaxDrops = 1
    MaxSockets = 3
    Messages <- MCMessages
    Garbled <- MCGarbled
    MaxFrames = 2
    MaxConnections = 2
INVARIANTS
    AcceptedIsHeld
    RecoveryIsArmed
    LiveFeedIsCurrent
    FramesArriveWhole
PROPERTIES
    FirstLiveIsQueryable
    AnnouncedSnapshotEnds
    RecoveryEnds
CHECK_DEADLOCK FALSE
