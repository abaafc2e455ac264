SPECIFICATION Spec
CONSTANTS
    r1 = r1
    r2 = r2
    a1 = a1
    a2 = a2
    b1 = b1
    NoStream = NoStream
    Run <- TwoRuns
    Stream <- TwoAndOne
    RunOf <- StreamsOfTwo
    MaxTries = 1
    Faults = {"cut"}
PROPERTIES RelockAllowed
CHECK_DEADLOCK FALSE
