\* Two callers race on two raw events of one source, each applied once; a
\* failed call may be overtaken by another call before its handler runs.
SPECIFICATION Spec
CONSTANTS
    s1 = s1
    r1 = r1
    r2 = r2
    Raw = {e1, e2}
    Runs = {r1, r2}
    Sources = {s1}
    Calls = {k1, k2}
    NoCall = NoCall
    SourceOf <- OneSource
    Payloads <- MainPayloads
    MaxAttempts = 1
    MaxApplications = 1
SYMMETRY Alike
INVARIANTS
    TypeOK
    FailureHasIncident
    OnlyNewestIncidentActive
    SourceClockCoversRuns
    OrderAgrees
    IncidentAgrees
PROPERTIES
    TerminalRunFrozen
