-------------------------- MODULE CanonicalEvents --------------------------
(***************************************************************************)
(* apply_canonical_event: what a normalized provider event does to the     *)
(* database.  The rows are those of raw_execution_events, workflow_runs,   *)
(* incidents, notifications, audit_events and integration_sources.         *)
(*                                                                         *)
(* The body of the function runs in the subtransaction of its EXCEPTION    *)
(* block.  Its locks (the raw event FOR UPDATE first) make a call that     *)
(* returns normally one step.  A call that fails is two steps: the         *)
(* rollback of the block undoes every write and gives up the lock on the   *)
(* raw event, and the handler then updates that row whatever it holds by   *)
(* then.  Another call on the same event may run in between.               *)
(***************************************************************************)
EXTENDS Integers, Sequences, RunStates

CONSTANTS
    Raw,              \* the rows raw_execution_events may come to hold
    Runs,             \* the runs: (integration source, external run id)
    Sources,          \* integration sources
    SourceOf,         \* the source of each raw event and of each run
    Payloads,         \* what a raw event may be normalized to
    Calls,            \* the callers of apply_canonical_event
    NoCall,           \* no failed call is waiting for its handler
    MaxAttempts,      \* attempts that make a raw event a dead letter; 5
    MaxApplications   \* bound: how often one raw event may be applied

\* A call that was rolled back, and the sqlstate ("other": any but these).
Failure == [event : Raw, code : {"55000", "22023", "other"}]

ASSUME ConstantsAssumption ==
    /\ MaxAttempts \in Nat \ {0}
    /\ MaxApplications \in Nat \ {0}
    /\ SourceOf \in [Raw \cup Runs -> Sources]
    /\ Payloads \subseteq [run : Runs, status : RunStatuses, at : Nat]
    /\ NoCall \notin Failure

VARIABLES
    raw,        \* per raw event: processing_status, attempts, error code
    run,        \* per run: status ("none": no row) and last_event_at
    incidents,  \* per run: its incidents, oldest first
    notices,    \* per run: the incident_created notifications sent for it
    audit,      \* per raw event: its workflow_run.event_applied audit rows
    undone,     \* history, per raw event: handlers that found it processed
    source,     \* per source: status and last_event_at (0: null)
    aborted     \* per caller: the failure its handler has yet to record

vars == <<raw, run, incidents, notices, audit, undone, source, aborted>>

RawStates == {"absent", "pending", "failed", "dead_letter", "processed"}
ErrorCodes == {"none", "out_of_order_ignored", "55000", "22023", "other"}
SourceStatuses == {"active", "disabled", "revoked"}
Severities == {"medium", "high"}
Incident == [status : IncidentStatuses, severity : Severities]

TypeOK ==
    /\ raw \in [Raw -> [state : RawStates, attempts : 0..MaxAttempts,
                        code : ErrorCodes]]
    /\ run \in [Runs -> [status : RunStatuses \cup {"none"}, at : Nat]]
    /\ incidents \in [Runs -> Seq(Incident)]
    /\ notices \in [Runs -> Nat]
    /\ audit \in [Raw -> 0..MaxApplications]
    /\ undone \in [Raw -> 0..MaxApplications]
    /\ source \in [Sources -> [status : SourceStatuses, at : Nat]]
    /\ aborted \in [Calls -> Failure \cup {NoCall}]

Init ==
    /\ raw = [e \in Raw |-> [state |-> "absent", attempts |-> 0,
                             code |-> "none"]]
    /\ run = [r \in Runs |-> [status |-> "none", at |-> 0]]
    /\ incidents = [r \in Runs |-> <<>>]
    /\ notices = [r \in Runs |-> 0]
    /\ audit = [e \in Raw |-> 0]
    /\ undone = [e \in Raw |-> 0]
    /\ source = [s \in Sources |-> [status |-> "active", at |-> 0]]
    /\ aborted = [k \in Calls |-> NoCall]

-----------------------------------------------------------------------------
(* Guards of apply_canonical_event, in the order of its body.              *)

Exists(e) == raw[e].state # "absent"

SourceActive(e) == source[SourceOf[e]].status = "active"

\* Mutant of OutOfOrder: older events are treated like any other.
NeverOutOfOrder(c) == FALSE

\* An event older than what a terminal run has seen is kept, not applied.
OutOfOrder(c) ==
    /\ run[c.run].status \in TerminalStatuses
    /\ c.at < run[c.run].at

\* Mutant of Illegal: transitions are not checked.
NeverIllegal(c) == FALSE

Illegal(c) ==
    /\ run[c.run].status # "none"
    /\ ~ IsLegalRunTransition(run[c.run].status, c.status)

\* The caller has no call; that of another may be unfinished.
MayCall(k, e) == aborted[k] = NoCall /\ Exists(e)

\* Attempts are counted up to the threshold: the code compares with nothing
\* beyond it.
NextAttempt(n) == IF n < MaxAttempts THEN n + 1 ELSE n

-----------------------------------------------------------------------------
(* Helpers: the writes of one application.                                 *)

Active(incident) == incident.status \in ActiveStatuses

\* Mutant of SeverityFor: a severity the rules do not know.
SeverityCritical(status) == IF status = "timed_out" THEN "high" ELSE "critical"

SeverityFor(status) == IF status = "timed_out" THEN "high" ELSE "medium"

Refreshed(incident, status) ==
    [incident EXCEPT !.severity = IF status = "timed_out" THEN "high" ELSE @]

\* Mutant of Detected: only an incident nobody has looked at is reused.
DetectedIfOpen(list, status) ==
    IF \E i \in DOMAIN list : list[i].status = "open"
    THEN [i \in DOMAIN list |-> Refreshed(list[i], status)]
    ELSE Append(list, [status |-> "open", severity |-> SeverityFor(status)])

\* insert into incidents ... on conflict on the one active incident.
Detected(list, status) ==
    IF \E i \in DOMAIN list : Active(list[i])
    THEN [i \in DOMAIN list |-> IF Active(list[i])
                                THEN Refreshed(list[i], status)
                                ELSE list[i]]
    ELSE Append(list, [status |-> "open", severity |-> SeverityFor(status)])

\* Mutant of Later: greatest() is forgotten.
Latest(s, t) == t

Later(s, t) == IF s < t THEN t ELSE s

\* return 'out_of_order_ignored': nothing but the raw event is written.
WriteIgnored(e) ==
    /\ raw' = [raw EXCEPT ![e] = [state |-> "processed",
                                  attempts |-> NextAttempt(@.attempts),
                                  code |-> "out_of_order_ignored"]]
    /\ UNCHANGED <<run, incidents, notices, audit, undone, source>>

\* The run, its incident and notification, the source, the raw event and the
\* audit row, in the order of the body.
WriteApplied(e, c) ==
    /\ run' = [run EXCEPT ![c.run] = [status |-> c.status, at |-> c.at]]
    /\ IF c.status \in FailureStatuses
       THEN /\ incidents' = [incidents EXCEPT ![c.run] = Detected(@, c.status)]
            /\ notices' = [notices EXCEPT ![c.run] = @ + 1]
       ELSE UNCHANGED <<incidents, notices>>
    /\ source' = [source EXCEPT ![SourceOf[e]].at = Later(@, c.at)]
    /\ raw' = [raw EXCEPT ![e] = [state |-> "processed",
                                  attempts |-> NextAttempt(@.attempts),
                                  code |-> "none"]]
    /\ audit' = [audit EXCEPT ![e] = @ + 1]
    /\ UNCHANGED undone

\* The handler's update looks at nothing: it may turn back a processed event.
Undo(e) ==
    undone' = IF raw[e].state = "processed" /\ undone[e] < MaxApplications
              THEN [undone EXCEPT ![e] = @ + 1] ELSE undone

-----------------------------------------------------------------------------
(* Actions.                                                                *)

\* The webhook stores a signed event it has not seen.
ReceiveRaw(e) ==
    /\ raw[e].state = "absent"
    /\ raw' = [raw EXCEPT ![e].state = "pending"]
    /\ UNCHANGED <<run, incidents, notices, audit, undone, source, aborted>>

\* A processed event is reported and left alone.
AlreadyProcessed(k, e) ==
    /\ MayCall(k, e)
    /\ raw[e].state = "processed"
    /\ UNCHANGED vars

\* Mutant of IgnoreOutOfOrder: a processed event is not recognized.
IgnoreAgain(k, e, c) ==
    /\ MayCall(k, e)
    /\ SourceActive(e)
    /\ OutOfOrder(c)
    /\ WriteIgnored(e)
    /\ UNCHANGED aborted

\* The older event is marked processed; the run is not touched.
IgnoreOutOfOrder(k, e, c) ==
    /\ MayCall(k, e)
    /\ raw[e].state # "processed"
    /\ SourceActive(e)
    /\ OutOfOrder(c)
    /\ WriteIgnored(e)
    /\ UNCHANGED aborted

\* Mutant of ApplyEvent: a processed event is not recognized.
ApplyAgain(k, e, c) ==
    /\ MayCall(k, e)
    /\ SourceActive(e)
    /\ ~ OutOfOrder(c)
    /\ ~ Illegal(c)
    /\ audit[e] < MaxApplications
    /\ WriteApplied(e, c)
    /\ UNCHANGED aborted

\* The event is applied: run, incident, notification, source and audit row.
ApplyEvent(k, e, c) ==
    /\ MayCall(k, e)
    /\ raw[e].state # "processed"
    /\ SourceActive(e)
    /\ ~ OutOfOrder(c)
    /\ ~ Illegal(c)
    /\ audit[e] < MaxApplications
    /\ WriteApplied(e, c)
    /\ UNCHANGED aborted

\* Something in the body raises.  The block is rolled back; the handler has
\* not run.  "other" stands for a deadlock, a violated constraint, a cast.
Abort(k, e, c, code) ==
    /\ MayCall(k, e)
    /\ raw[e].state # "processed"
    /\ code = "55000" => ~ SourceActive(e)
    /\ code = "22023" => SourceActive(e) /\ ~ OutOfOrder(c) /\ Illegal(c)
    /\ aborted' = [aborted EXCEPT ![k] = [event |-> e, code |-> code]]
    /\ UNCHANGED <<raw, run, incidents, notices, audit, undone, source>>

\* Mutant of RecordFailure: the attempt that reaches the limit is not counted.
RecordFailureLate(k) ==
    /\ aborted[k] # NoCall
    /\ raw' = [raw EXCEPT ![aborted[k].event] =
                 [state |-> IF @.attempts + 1 > MaxAttempts
                            THEN "dead_letter" ELSE "failed",
                  attempts |-> NextAttempt(@.attempts),
                  code |-> aborted[k].code]]
    /\ Undo(aborted[k].event)
    /\ aborted' = [aborted EXCEPT ![k] = NoCall]
    /\ UNCHANGED <<run, incidents, notices, audit, source>>

\* exception when others: the attempt is recorded on the raw event.
RecordFailure(k) ==
    /\ aborted[k] # NoCall
    /\ raw' = [raw EXCEPT ![aborted[k].event] =
                 [state |-> IF @.attempts + 1 >= MaxAttempts
                            THEN "dead_letter" ELSE "failed",
                  attempts |-> NextAttempt(@.attempts),
                  code |-> aborted[k].code]]
    /\ Undo(aborted[k].event)
    /\ aborted' = [aborted EXCEPT ![k] = NoCall]
    /\ UNCHANGED <<run, incidents, notices, audit, source>>

\* transition_incident, called by an operator.
TransitionIncident(r, i, target) ==
    /\ i \in DOMAIN incidents[r]
    /\ target \in IncidentTargets(incidents[r][i].status)
    /\ incidents' = [incidents EXCEPT ![r][i].status = target]
    /\ UNCHANGED <<raw, run, notices, audit, undone, source, aborted>>

\* A manager edits the status of an integration source.
SetSourceStatus(s, status) ==
    /\ status # source[s].status
    /\ source' = [source EXCEPT ![s].status = status]
    /\ UNCHANGED <<raw, run, incidents, notices, audit, undone, aborted>>

\* The calls that return normally, and the outcome they report.
Succeed(k, e, c) ==
    \/ AlreadyProcessed(k, e)
    \/ IgnoreOutOfOrder(k, e, c)
    \/ ApplyEvent(k, e, c)

\* A raw event names a run of its own source.
PayloadsFor(e) == {c \in Payloads : SourceOf[c.run] = SourceOf[e]}

Next ==
    \/ \E e \in Raw : ReceiveRaw(e)
    \/ \E k \in Calls, e \in Raw : \E c \in PayloadsFor(e) :
          \/ Succeed(k, e, c)
          \/ \E code \in {"55000", "22023", "other"} : Abort(k, e, c, code)
    \/ \E k \in Calls : RecordFailure(k)
    \/ \E r \in Runs : \E i \in DOMAIN incidents[r] :
          \E target \in IncidentStatuses : TransitionIncident(r, i, target)
    \/ \E s \in Sources, status \in SourceStatuses : SetSourceStatus(s, status)

Spec == Init /\ [][Next]_vars

-----------------------------------------------------------------------------
(* What the function promises.                                             *)

\* An event changes a run at most once, however often it is delivered:
\* apply_canonical_event returns already_processed for a processed row.
AppliedAtMostOnce == \A e \in Raw : audit[e] <= 1

\* What of that the function does keep: an event is applied again only after
\* a handler, overtaken by the call that applied it, has turned it back.
AppliedOncePerUndoing == \A e \in Raw : audit[e] <= undone[e] + 1

\* The event is processed and no failed call on it is unfinished.
Settled(e) ==
    /\ raw[e].state = "processed"
    /\ \A k \in Calls : aborted[k] # NoCall => aborted[k].event # e

\* Then no call, of however many, writes its row or its audit again, and none
\* can begin that would do so later.
SettledForever ==
    [][\A e \in Raw : Settled(e) =>
          Settled(e)' /\ raw'[e] = raw[e] /\ audit'[e] = audit[e]]_vars

\* Once terminal, a run keeps its status and its clock does not go back: the
\* out-of-order branch and the transition check together allow no more.
TerminalRunFrozen ==
    [][\A r \in Runs : run[r].status \in TerminalStatuses =>
          /\ run'[r].status = run[r].status
          /\ run'[r].at >= run[r].at]_vars

\* A run has an incident, of the severity of its status, exactly when it
\* failed or timed out; each incident was announced.
FailureHasIncident ==
    \A r \in Runs :
        /\ run[r].status \in FailureStatuses <=> incidents[r] # <<>>
        /\ \A i \in DOMAIN incidents[r] :
              incidents[r][i].severity = SeverityFor(run[r].status)
        /\ Len(incidents[r]) <= notices[r]

\* The upsert and transition_incident leave at most one incident of a run
\* active, and it is the newest: the unique index is never violated.
OnlyNewestIncidentActive ==
    \A r \in Runs : \A i \in DOMAIN incidents[r] :
        Active(incidents[r][i]) => i = Len(incidents[r])

\* The last_event_at of a source is at least that of each of its runs, even
\* when a run's own clock is moved back by an older event.
SourceClockCoversRuns ==
    \A r \in Runs : run[r].at <= source[SourceOf[r]].at

\* The raw row tells the truth about its history: untouched while pending,
\* dead exactly when the attempts are used up, and processed without an
\* error only with its audit row.
RawRowConsistent ==
    \A e \in Raw :
        /\ raw[e].state \in {"absent", "pending"} =>
              raw[e].attempts = 0 /\ audit[e] = 0
        /\ raw[e].state = "failed" => raw[e].attempts \in 1..(MaxAttempts - 1)
        /\ raw[e].state = "dead_letter" => raw[e].attempts = MaxAttempts
        /\ raw[e].state = "processed" /\ raw[e].code = "none" => audit[e] >= 1
=============================================================================
