SPECIFICATION Spec
CONSTANTS
    Devices = {d1, d2}
    Secrets = {s1, s2, s3, s4}
    None = None
    Lost = Lost
    MaxFailures = 3
    MaxSlips = 2
    MaxAdmin = 2
INVARIANT CodesAreSound
PROPERTIES
    SessionsAreCurrent
    PersonGetsIn
CHECK_DEADLOCK FALSE
