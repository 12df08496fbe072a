SPECIFICATION Spec
CONSTANTS
    Bodies = {b1}
    Media = {m1}
    Shots = 1
    MaxRuns = 4
    MaxCrashes = 2
    MaxFaults = 1
INVARIANTS
    BodiesSurvive
    PapersAreTrue
PROPERTY EventuallySealed
CHECK_DEADLOCK FALSE
