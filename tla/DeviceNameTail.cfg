\* main.c:115 against pokey.c:27: a name of exactly WIDTH letters.
SPECIFICATION Spec
CONSTANTS
    WIDTH = 2
    FIELD = 4
    Letters = {a, b}
    NUL = NUL
    Names <- MCNames
INVARIANTS
    NameIsUpdated
