\* All sources of up to seven characters.
SPECIFICATION Spec
CONSTANTS
    letter = letter
    Other = {letter}
    MaxLength = 7
INVARIANTS
    TypeOK
    KeepsTheCode
    NewlinesSurviveUnlessEscaped
PROPERTY
    Terminates
CHECK_DEADLOCK FALSE
