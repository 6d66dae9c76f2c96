SPECIFICATION FrontSpec
CONSTANTS
    Trees <- AllTrees
    Texts <- SomeTexts
    Logs <- SomeLogs
    MaxNodes = 5
    Capacity = 3
    MaxRecords = 2
INVARIANTS TypedIffSound Delivered ClosedOnce
\* A closed or aborted log does nothing more.
CHECK_DEADLOCK FALSE
