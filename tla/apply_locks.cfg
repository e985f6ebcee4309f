\* Two calls on two raw events, statement by statement.
SPECIFICATION TxSpec
CONSTANTS
    s1 = s1
    Raw = {e1, e2}
    Runs = {r1}
    Sources = {s1}
    Calls = {k1, k2}
    NoCall = NoCall
    Nothing = Nothing
    SourceOf <- OneSource
    Payloads <- RacingPayloads
    MaxAttempts = 1
    MaxApplications = 1
SYMMETRY Alike
INVARIANTS
    CallTypeOK
    SeenIsCurrent
    CommitAlone
PROPERTIES
    ImplementsCanonicalEvents
