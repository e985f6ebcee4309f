\* A replay job fails until it is a dead letter.
SPECIFICATION SafeSpec
CONSTANTS
    Keys = {k1}
    Runs = {r1}
    Workers = {w1, w2}
    NoRun = NoRun
    NoJob = NoJob
    DeadLetterReads = 2
    MaxFaults = 2
CHECK_DEADLOCK FALSE
SYMMETRY Alike
INVARIANTS
    FailureIsRecorded
