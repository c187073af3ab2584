SPECIFICATION Spec
CONSTANTS
    r1 = r1
    r2 = r2
    None = None
    Requests <- TwoRequests
    WRITE_BUFFER_CAPACITY = 1
    WRITE_BATCH_MAX = 1
    WRITE_THROUGH_MAX_CONCURRENT = 1
    ENQUEUE_TASK_MAX_CONCURRENT = 1
    WRITE_THROUGH_MAX_PER_SEC = 1
    MaxStarts = 1
    MaxCrashes = 1
INVARIANTS
    TypeOK
    EndIsAccountedFor
    RowShowsLastReport
    PendingRowHasAnOwner
    NoStaleActiveEntry
PROPERTIES
    EndIsRecorded
CHECK_DEADLOCK FALSE
