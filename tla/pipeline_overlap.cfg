\* Calls on one raw event overlap: one event, two workers and
\* FastAPI's direct call.
SPECIFICATION PipelineSafeSpec
CONSTANTS
    s1 = s1
    w1 = w1
    w2 = w2
    f1 = f1
    Raw = {e1}
    Runs = {r1}
    Sources = {s1}
    Calls <- WorkersAndApi
    Workers <- TwoWorkers
    Direct = {f1}
    Deliveries = {d1}
    NoCall = NoCall
    NoJob = NoJob
    Malformed = Malformed
    SourceOf <- OneSource
    Payloads <- Conflicting
    MaxAttempts = 2
    MaxApplications = 2
    DeadLetterReads = 2
    BatchSize = 1
    MaxFaults = 1
SYMMETRY PipelineAlike
INVARIANTS
    ArchivedIsProcessed
    RawRowConsistent
    AppliedOncePerUndoing
PROPERTIES
    SettledForever
