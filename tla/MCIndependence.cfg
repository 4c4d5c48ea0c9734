\* Two entries that share a declarative relation; one name contains another.
SPECIFICATION AuditSpec
CONSTANTS
    decode_sound = decode_sound
    decode_complete = decode_complete
    BinaryRelation = BinaryRelation
    encode = encode
    sub_decode_complete_aux = sub_decode_complete_aux
    decode_complete_aux = decode_complete_aux
    EnvNames <- MCNames
    Entries <- MCEntries
    Bodies <- MCBodies
    Containing <- MCContaining
    CutAt <- MCCutAt
INVARIANTS
    AuditTypeOK
    SeparatedOutputIsJudgedRight
    NoDependentEscapes
CHECK_DEADLOCK FALSE
