SPECIFICATION WireSpec
CONSTANTS
    NULL = NULL
    Chars <- SomeChars
    Half = 128
    Half32 = 32
    Logs <- SomeLogs
    Wanted <- SomeKeys
INVARIANTS Denotes GetsFirst LineWhole
\* A log is flushed once and read once.
CHECK_DEADLOCK FALSE
