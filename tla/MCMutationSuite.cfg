\* One falsifier of each kind, two builds, one kill.
SPECIFICATION Spec
CONSTANTS
    Last = 4
    Controlled <- MCControlled
    Elaborated <- MCElaborated
    ControlElaborated <- MCControlElaborated
    Diagnosed <- MCDiagnosed
    InScratch <- MCInScratch
    InTree <- MCInTree
    MaxBuilds = 2
    MaxKills = 1
INVARIANTS
    TypeOK
    DiagnosedRowsAreEarned
    UndisturbedPassIsEarned
    NothingIsLeft
CHECK_DEADLOCK FALSE
