SPECIFICATION SumSpec
CONSTANTS
    NULL = NULL
    Key = {"TraceID", "w", "x", "a", "b"}
    HashOf <- Hashes
    Watched = "w"
    Trace = "t"
    Logs <- SomeLogs
    MaxLogs = 5
    CallKey <- ClusteredKeys
    CallHash <- Clustered
    MaxSets = 6
    MaxRemoves = 1
INVARIANTS Placeable GetsLast RefsExact HoldsLatest ToldExactly
\* A disposed of plugin does nothing more; no more than MaxSets values are set.
CHECK_DEADLOCK FALSE
