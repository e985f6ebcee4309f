\* Two overlapping workers, one event and its duplicate delivery, one fault,
\* with fairness: the invariants, and the abstract specification.
SPECIFICATION PipelineSpec
CONSTANTS
    s1 = s1
    w1 = w1
    w2 = w2
    f1 = f1
    Raw = {e1}
    Runs = {r1}
    Sources = {s1}
    Calls <- TwoWorkers
    Workers <- TwoWorkers
    Direct = {}
    Deliveries = {d1, d2}
    NoCall = NoCall
    NoJob = NoJob
    Malformed = Malformed
    SourceOf <- OneSource
    Payloads <- Conflicting
    MaxAttempts = 2
    MaxApplications = 3
    DeadLetterReads = 2
    BatchSize = 1
    MaxFaults = 1
INVARIANTS
    PipelineTypeOK
    AcceptedIsNotLost
    DeadLettersEarned
    OneDeliveryQueues
PROPERTIES
    ImplementsIntake
