SPECIFICATION FairSpec
CONSTANTS
    HeaderSize = 2
    PairSize = 1
    BufferSize = 6
    Word = 4
    Shapes <- SomeShapes
    MaxMessages = 3
INVARIANTS Window Reception CallbackDrains
PROPERTIES AllDelivered NullOnlyIfIncomplete ImplementsChannel
\* The peer stops writing after MaxMessages: the server's event loop waits for
\* ever.
CHECK_DEADLOCK FALSE
