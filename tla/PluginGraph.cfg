SPECIFICATION Spec
CONSTANTS
    NULL = NULL
    Nop = Nop
    Plugins = {0, 1, 2, 3, 4, 5, 6, 7}
    Scripts <- SomeScripts
    Logs <- SomeLogs
    Data = {0, 1, 3}
    Unpassed = {0, 2}
    MaxLogs = 2
    MaxWindow = 2
INVARIANTS CreatedOnce Bracketed Disposed
PROPERTY CallsReturn
\* A procedure that is disposed of does nothing more.
CHECK_DEADLOCK FALSE
