\* Two lines, two names that share a re-export, up to two bindings.
SPECIFICATION Spec
CONSTANTS
    f = f
    g = g
    s = s
    leaf = leaf
    N = 2
    Names <- MCNames
    LeafOf <- MCLeafOf
    Witnesses = {f}
    Reflected = {f}
    Fenced = {g}
    Forms <- MCForms
    MaxBindings = 2
INVARIANTS
    TypeOK
    Accounting
    CreditIsEarned
    SignatureBacksLedger
CHECK_DEADLOCK FALSE
