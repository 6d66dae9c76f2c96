SPECIFICATION FairSpec
CONSTANTS
    Log = {a, b, large, unknown}
    Large = {large}
    Unknown = {unknown}
    QUIT = QUIT
    MaxLogs = 3
INVARIANTS IoOutlivesThread AllLogged
PROPERTIES CallsEnd ImplementsChannel
\* A closed connection is used no more.
CHECK_DEADLOCK FALSE
