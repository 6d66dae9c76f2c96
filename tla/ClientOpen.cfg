SPECIFICATION FairSpec
CONSTANTS
    Log = {a, b}
    MaxLogs = 1
PROPERTIES OpenEnds
\* A closed connection is used no more.
CHECK_DEADLOCK FALSE
