SPECIFICATION Spec
CONSTANTS
    NULL = NULL
    Logpool = Logpool
    ConfNode = {a, b}
    Kinds = {"KeyFilter"}
    Outputs = {"Child1", "Child2"}
    Texts <- SomeTexts
    Places = {0, 1}
    Origin = 0
    MaxActs = 4
SYMMETRY NodeSymmetry
INVARIANTS CrashOnly LinesFollow TextsOwn Generated
CHECK_DEADLOCK FALSE
