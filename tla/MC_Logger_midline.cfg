CONSTANTS
    Debug = 0
    Info = 1
    Critical = 2
    LevelsChangeBetweenLines = FALSE
    MaxOut = 8
SPECIFICATION Spec
INVARIANT LineFraming
