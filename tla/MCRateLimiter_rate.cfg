CONSTANTS
    Keys = {k1, k2}
    Max = 2
    Window = 2
    MaxTime = 5
SPECIFICATION Spec
INVARIANTS
    TypeOK AtMostTwiceInAWindow RefusedForCause
PROPERTIES
    LetInAgain
