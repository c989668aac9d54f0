\* Names of up to 3 letters, 2 of which are copied into a field of 4.
SPECIFICATION Spec
CONSTANTS
    WIDTH = 2
    FIELD = 4
    Letters = {a, b}
    NUL = NUL
    Names <- MCNames
INVARIANTS
    TypeOK
    ShortNameIsExact
PROPERTIES
    NothingToReset
