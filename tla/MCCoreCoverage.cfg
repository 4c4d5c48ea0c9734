\* Two kinds with an item each, three places for markers, two edits.
SPECIFICATION Spec
CONSTANTS
    blockRule = blockRule
    brOpcode = brOpcode
    arm = arm
    armPair = armPair
    p1 = p1
    p2 = p2
    p3 = p3
    NoDecl = NoDecl
    NoMark = NoMark
    LastKind = 2
    Items <- MCItems
    KindOf <- MCKindOf
    Places = {p1, p2, p3}
    Names <- MCNames
    Within <- MCWithin
    MaxEdits = 2
SYMMETRY MCSymmetry
INVARIANTS
    TypeOK
    QuietPassIsSound
    SettledFailsOnEnvironmentOnly
    EveryAbsentNameIsReported
