SPECIFICATION DeliverySpec
CONSTANTS
    positions = positions
    r1 = r1
    r2 = r2
    Feeds <- MCFeeds
    Rows <- MCRows
    Limit = 6
    ConflateMs = 0
    StuckMs = 2
    MaxAcked = 8
    MaxResets = 0
    MaxVersion = 1
INVARIANT CaughtUpIsCurrent
