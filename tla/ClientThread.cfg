SPECIFICATION FairSpec
CONSTANTS
    Log = {a, b}
    MaxLogs = 3
INVARIANTS InOrder ReaderCloses
PROPERTIES CloseEnds
\* A closed connection is used no more.
CHECK_DEADLOCK FALSE
