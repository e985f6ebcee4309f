\* A failed call is overtaken by another call on the same event.
SPECIFICATION PipelineSafeSpec
CONSTANTS
    s1 = s1
    w1 = w1
    w2 = w2
    f1 = f1
    Raw = {e1}
    Runs = {r1}
    Sources = {s1}
    Calls <- TwoWorkers
    Workers <- TwoWorkers
    Direct = {}
    Deliveries = {d1}
    NoCall = NoCall
    NoJob = NoJob
    Malformed = Malformed
    SourceOf <- OneSource
    Payloads <- Conflicting
    MaxAttempts = 2
    MaxApplications = 2
    DeadLetterReads = 2
    BatchSize = 1
    MaxFaults = 2
SYMMETRY PipelineAlike
INVARIANTS
    AppliedAtMostOnce
