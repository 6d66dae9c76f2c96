SPECIFICATION Spec
CONSTANTS
    Refcs = {1, 2}
    Interval = 2
    UsecPerSec = 8
    MsecPerSec = 2
    Word = 64
    MaxNow = 10
    MaxLogs = 5
INVARIANTS NoLeak FreshShown StaleBound
PROPERTIES AssertHolds
\* No logs come after MaxLogs, and the clock stops at MaxNow.
CHECK_DEADLOCK FALSE
