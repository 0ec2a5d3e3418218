CONSTANTS
    Debug = 0
    Info = 1
    Critical = 2
    LevelsChangeBetweenLines = TRUE
    MaxOut = 8
SPECIFICATION Spec
INVARIANT LineFraming
