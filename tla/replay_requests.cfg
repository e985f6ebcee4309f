\* Two idempotency keys for one run, a worker, two faults, with fairness.
SPECIFICATION Spec
CONSTANTS
    Keys = {k1, k2}
    Runs = {r1}
    Workers = {w1}
    NoRun = NoRun
    NoJob = NoJob
    DeadLetterReads = 2
    MaxFaults = 2
CHECK_DEADLOCK FALSE
INVARIANTS
    TypeOK
    ReplayedOnce
    ApprovedHasJob
    OneOpenReplayPerRun
PROPERTIES
    DecisionIsFinal
    ApprovedIsServed
    ImplementsTurns
