\* The queue cannot be reached after the event is stored.
SPECIFICATION PipelineSafeSpec
CONSTANTS
    s1 = s1
    w1 = w1
    w2 = w2
    f1 = f1
    Raw = {e1}
    Runs = {r1}
    Sources = {s1}
    Calls <- TwoWorkers
    Workers <- TwoWorkers
    Direct = {}
    Deliveries = {d1, d2}
    NoCall = NoCall
    NoJob = NoJob
    Malformed = Malformed
    SourceOf <- OneSource
    Payloads <- Conflicting
    MaxAttempts = 2
    MaxApplications = 2
    DeadLetterReads = 2
    BatchSize = 1
    MaxFaults = 1
SYMMETRY PipelineAlike
INVARIANTS
    AcknowledgedIsQueued
