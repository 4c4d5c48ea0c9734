\* Two axiom audits at once.
SPECIFICATION Spec
CONSTANTS
    proved = proved
    listed = listed
    c1 = c1
    c2 = c2
    Procs = {c1, c2}
    Tools <- MCTools
    KindOf <- MCKindOf
    PathOf <- MCPathOf
    AsksOf <- MCAsksOf
    Decls = {proved, listed}
    MaxCrashes = 0
INVARIANT
    CleanAuditSawEveryClaim
