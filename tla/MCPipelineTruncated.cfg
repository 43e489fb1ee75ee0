SPECIFICATION PipelineSpec
CONSTANTS
    r1 = r1
    r2 = r2
    Rows <- MCRows
    MaxVersion = 2
    QueueLimit = 3
    MaxRows = 2
    MaxAttempts = 1
    Urls = 1
    Policy = "buffer"
    Truncates = TRUE
    MaxOutages = 0
INVARIANT LiveIsWhole
CHECK_DEADLOCK FALSE
