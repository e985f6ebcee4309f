\* One worker and a batch of two events, with fairness.
SPECIFICATION PipelineSpec
CONSTANTS
    s1 = s1
    w1 = w1
    w2 = w2
    f1 = f1
    Raw = {e1, e2}
    Runs = {r1}
    Sources = {s1}
    Calls = {w1}
    Workers = {w1}
    Direct = {}
    Deliveries = {d1, d2}
    NoCall = NoCall
    NoJob = NoJob
    Malformed = Malformed
    SourceOf <- OneSource
    Payloads <- Finished
    MaxAttempts = 2
    MaxApplications = 3
    DeadLetterReads = 2
    BatchSize = 2
    MaxFaults = 1
PROPERTIES
    ImplementsIntake
