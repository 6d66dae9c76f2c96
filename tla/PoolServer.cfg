SPECIFICATION FairSpec
CONSTANTS
    all = all
    some = some
    l1 = l1
    NULL = NULL
    Conn = {c1, c2, c3}
    Bev = {a1, a2}
    Procedure = {all, some}
    Loadable = {all}
    Log = {l1}
    Accepts <- AcceptsOf
    InitialCapacity = 2
    MaxSends = 4
INVARIANTS SlotsLive ListBounds
PROPERTIES ImplementsPubSub Released
\* Every connection comes to its end.
CHECK_DEADLOCK FALSE
