\* Every payload that differs from the usual ones in one field; one step in
\* all its forms, and lists of two.
SPECIFICATION MCSpec
CONSTANTS
    Null = Null
    Reject = Reject
    Instants <- MCInstants
    NoJob = NoJob
    MaxInteger = 9
    Events <- MCEvents
    Payload <- MCPayload
    Steps <- MCSteps
INVARIANTS
    AdaptersAgree
    RepeatIsHarmless
    OrderlyStepsAreStored
