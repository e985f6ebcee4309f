----------------------- MODULE CanonicalEventsProofs -----------------------
(***************************************************************************)
(* What CanonicalEvents promises, for every set of events, runs, sources   *)
(* and callers, every threshold and every set of payloads.                 *)
(***************************************************************************)
EXTENDS CanonicalEvents, TLAPS

-----------------------------------------------------------------------------
(* Facts about the helpers.                                                *)

\* An attempt counted stays within the threshold, and reaches it only from
\* the last value before it or from itself.
LEMMA NextAttemptBounds ==
    ASSUME NEW n \in 0..MaxAttempts
    PROVE  /\ NextAttempt(n) \in 1..MaxAttempts
           /\ n + 1 >= MaxAttempts => NextAttempt(n) = MaxAttempts
           /\ ~ (n + 1 >= MaxAttempts) => NextAttempt(n) = n + 1
BY ConstantsAssumption DEF NextAttempt

\* With an active incident, detection refreshes it: no incident changes its
\* status, and a severity only ever becomes "high", after a timeout.
LEMMA DetectedRefreshes ==
    ASSUME NEW list \in Seq(Incident), NEW status \in FailureStatuses,
           \E i \in DOMAIN list : Active(list[i]),
           NEW D, D = Detected(list, status)
    PROVE  /\ D \in Seq(Incident)
           /\ Len(D) = Len(list)
           /\ DOMAIN D = DOMAIN list
           /\ \A i \in DOMAIN list :
                 /\ D[i].status = list[i].status
                 /\ \/ D[i].severity = list[i].severity
                    \/ D[i].severity = "high" /\ status = "timed_out"
<1>1. D = [i \in DOMAIN list |-> IF Active(list[i])
                                 THEN Refreshed(list[i], status)
                                 ELSE list[i]]
  BY DEF Detected
<1>2. \A i \in DOMAIN list : list[i] \in Incident
  OBVIOUS
<1>3. DOMAIN D = 1..Len(list) /\ DOMAIN list = 1..Len(list)
  BY <1>1
<1>4. \A i \in DOMAIN list :
         /\ D[i] \in Incident
         /\ D[i].status = list[i].status
         /\ \/ D[i].severity = list[i].severity
            \/ D[i].severity = "high" /\ status = "timed_out"
  BY <1>1, <1>2 DEF Refreshed, Incident, Severities
<1>5. D \in Seq(Incident) /\ Len(D) = Len(list)
  <2>1. D \in [1..Len(list) -> Incident]
    BY <1>1, <1>3, <1>4
  <2>2. Len(list) \in Nat
    OBVIOUS
  <2>. QED
    BY <2>1, <2>2
<1>. QED
  BY <1>3, <1>4, <1>5

\* Without one, detection opens a new incident after the old ones.
LEMMA DetectedOpens ==
    ASSUME NEW list \in Seq(Incident), NEW status \in FailureStatuses,
           \A i \in DOMAIN list : ~ Active(list[i]),
           NEW D, D = Detected(list, status)
    PROVE  /\ D \in Seq(Incident)
           /\ Len(D) = Len(list) + 1
           /\ \A i \in DOMAIN list : D[i] = list[i]
           /\ D[Len(list) + 1].severity = SeverityFor(status)
<1>. DEFINE new == [status |-> "open", severity |-> SeverityFor(status)]
<1>1. D = Append(list, new)
  BY DEF Detected
<1>2. new \in Incident
  BY DEF Incident, IncidentStatuses, Severities, SeverityFor
<1>. HIDE DEF new
<1>3. new.severity = SeverityFor(status)
  BY DEF new
<1>. QED
  BY <1>1, <1>2, <1>3

\* What a payload carries, and that it names a run of the event's source.
LEMMA PayloadFields ==
    ASSUME NEW e \in Raw, NEW c \in PayloadsFor(e)
    PROVE  /\ c.run \in Runs
           /\ c.status \in RunStatuses
           /\ c.at \in Nat
           /\ SourceOf[e] \in Sources
           /\ SourceOf[c.run] = SourceOf[e]
<1>1. c \in [run : Runs, status : RunStatuses, at : Nat]
  BY ConstantsAssumption DEF PayloadsFor
<1>. QED
  BY <1>1, ConstantsAssumption DEF PayloadsFor

-----------------------------------------------------------------------------
(* Type correctness.                                                       *)

LEMMA TypeInit == Init => TypeOK
<1>. SUFFICES ASSUME Init PROVE TypeOK
  OBVIOUS
<1>1. 0 \in 0..MaxAttempts /\ 0 \in 0..MaxApplications
  BY ConstantsAssumption
<1>2. <<>> \in Seq(Incident)
  OBVIOUS
<1>. QED
  BY <1>1, <1>2 DEF Init, TypeOK, RawStates, ErrorCodes, SourceStatuses

LEMMA TypeStep == TypeOK /\ [Next]_vars => TypeOK'
<1>. SUFFICES ASSUME TypeOK, [Next]_vars PROVE TypeOK'
  OBVIOUS
<1>. USE DEF TypeOK
<1>1. ASSUME NEW e \in Raw, ReceiveRaw(e) PROVE TypeOK'
  BY <1>1 DEF ReceiveRaw, RawStates
<1>2. ASSUME NEW k \in Calls, NEW e \in Raw, NEW c \in PayloadsFor(e),
             Succeed(k, e, c)
      PROVE  TypeOK'
  <2>1. CASE AlreadyProcessed(k, e)
    BY <2>1 DEF AlreadyProcessed, vars
  <2>2. CASE IgnoreOutOfOrder(k, e, c)
    <3>1. NextAttempt(raw[e].attempts) \in 0..MaxAttempts
      BY NextAttemptBounds
    <3>. QED
      BY <2>2, <3>1 DEF IgnoreOutOfOrder, WriteIgnored, RawStates, ErrorCodes
  <2>3. CASE ApplyEvent(k, e, c)
    <3>1. NextAttempt(raw[e].attempts) \in 0..MaxAttempts
      BY NextAttemptBounds
    <3>2. raw' \in [Raw -> [state : RawStates, attempts : 0..MaxAttempts,
                            code : ErrorCodes]]
      BY <2>3, <3>1 DEF ApplyEvent, WriteApplied, RawStates, ErrorCodes
    <3>3. /\ c.run \in Runs
          /\ c.status \in RunStatuses
          /\ c.at \in Nat
          /\ SourceOf[e] \in Sources
      BY PayloadFields
    <3>4. run' \in [Runs -> [status : RunStatuses \cup {"none"}, at : Nat]]
      BY <2>3, <3>3 DEF ApplyEvent, WriteApplied
    <3>5. audit' \in [Raw -> 0..MaxApplications]
      <4>1. audit[e] + 1 \in 0..MaxApplications
        <5>1. audit[e] \in 0..MaxApplications /\ MaxApplications \in Nat
          BY ConstantsAssumption
        <5>2. audit[e] < MaxApplications
          BY <2>3 DEF ApplyEvent, WriteApplied
        <5>. HIDE DEF TypeOK
        <5>. QED
          BY <5>1, <5>2
      <4>. QED
        BY <2>3, <4>1 DEF ApplyEvent, WriteApplied
    <3>6. source' \in [Sources -> [status : SourceStatuses, at : Nat]]
      <4>1. Later(source[SourceOf[e]].at, c.at) \in Nat
        BY <3>3 DEF Later
      <4>. QED
        BY <2>3, <3>3, <4>1 DEF ApplyEvent, WriteApplied
    <3>7. incidents' \in [Runs -> Seq(Incident)]
      <4>1. CASE c.status \in FailureStatuses
        <5>1. Detected(incidents[c.run], c.status) \in Seq(Incident)
          BY <3>3, <4>1, DetectedRefreshes, DetectedOpens
        <5>. QED
          BY <2>3, <3>3, <4>1, <5>1 DEF ApplyEvent, WriteApplied
      <4>2. CASE c.status \notin FailureStatuses
        BY <2>3, <4>2 DEF ApplyEvent, WriteApplied
      <4>. QED
        BY <4>1, <4>2
    <3>8. notices' \in [Runs -> Nat]
      <4>1. notices[c.run] + 1 \in Nat
        BY <3>3
      <4>. QED
        BY <2>3, <3>3, <4>1 DEF ApplyEvent, WriteApplied
    <3>. QED
      BY <2>3, <3>2, <3>4, <3>5, <3>6, <3>7, <3>8 DEF ApplyEvent, WriteApplied
  <2>. QED
    BY <1>2, <2>1, <2>2, <2>3 DEF Succeed
<1>3. ASSUME NEW k \in Calls, NEW e \in Raw, NEW c \in PayloadsFor(e),
             NEW code \in {"55000", "22023", "other"}, Abort(k, e, c, code)
      PROVE  TypeOK'
  <2>1. [event |-> e, code |-> code] \in Failure
    BY DEF Failure
  <2>. QED
    BY <1>3, <2>1 DEF Abort
<1>4. ASSUME NEW k \in Calls, RecordFailure(k) PROVE TypeOK'
  <2>1. aborted[k] \in Failure
    BY <1>4 DEF RecordFailure
  <2>2. PICK e \in Raw : e = aborted[k].event
    BY <2>1 DEF Failure
  <2>3. NextAttempt(raw[e].attempts) \in 0..MaxAttempts
    BY NextAttemptBounds
  <2>4. aborted[k].code \in ErrorCodes
    BY <2>1 DEF Failure, ErrorCodes
  <2>5. raw' \in [Raw -> [state : RawStates, attempts : 0..MaxAttempts,
                          code : ErrorCodes]]
    BY <1>4, <2>2, <2>3, <2>4 DEF RecordFailure, RawStates
  <2>6. undone' \in [Raw -> 0..MaxApplications]
    <3>1. undone[e] < MaxApplications => undone[e] + 1 \in 0..MaxApplications
      BY ConstantsAssumption
    <3>. QED
      BY <1>4, <2>2, <3>1 DEF RecordFailure, Undo
  <2>. QED
    BY <1>4, <2>5, <2>6 DEF RecordFailure
<1>5. ASSUME NEW r \in Runs, NEW i \in DOMAIN incidents[r],
             NEW target \in IncidentStatuses,
             TransitionIncident(r, i, target)
      PROVE  TypeOK'
  <2>1. incidents[r] \in Seq(Incident)
    OBVIOUS
  <2>2. incidents[r][i] \in Incident
    BY <2>1
  <2>3. [incidents[r][i] EXCEPT !.status = target] \in Incident
    BY <2>2 DEF Incident
  <2>4. [incidents[r] EXCEPT ![i].status = target] \in Seq(Incident)
    BY <2>1, <2>3
  <2>. QED
    BY <1>5, <2>4 DEF TransitionIncident
<1>6. ASSUME NEW s \in Sources, NEW status \in SourceStatuses,
             SetSourceStatus(s, status)
      PROVE  TypeOK'
  BY <1>6 DEF SetSourceStatus
<1>7. CASE UNCHANGED vars
  BY <1>7 DEF vars
<1>. QED
  BY <1>1, <1>2, <1>3, <1>4, <1>5, <1>6, <1>7 DEF Next

\* Every row keeps a legal value, and no counter leaves its bound.
THEOREM TypeCorrect == Spec => []TypeOK
<1>. QED
  BY TypeInit, TypeStep, PTL DEF Spec

-----------------------------------------------------------------------------
(* A terminal run is frozen: an action property.                           *)

\* What one application does to the runs.
LEMMA RunsAfterApply ==
    ASSUME TypeOK, NEW k \in Calls, NEW e \in Raw, NEW c \in PayloadsFor(e),
           ApplyEvent(k, e, c), NEW r \in Runs
    PROVE  /\ r # c.run => run'[r] = run[r]
           /\ r = c.run =>
                 /\ run'[r].status = c.status
                 /\ run'[r].at = c.at
                 /\ run[r].status \in TerminalStatuses =>
                       c.status = run[r].status /\ c.at >= run[r].at
                 /\ \/ run[r].status = "none"
                    \/ IsLegalRunTransition(run[r].status, c.status)
<1>1. c.run \in Runs /\ c.at \in Nat
  BY PayloadFields
<1>2. run' = [run EXCEPT ![c.run] = [status |-> c.status, at |-> c.at]]
  BY DEF ApplyEvent, WriteApplied
<1>3. /\ run[c.run].at \in Nat
      /\ run \in [Runs -> [status : RunStatuses \cup {"none"}, at : Nat]]
  BY <1>1 DEF TypeOK
<1>4. ~ OutOfOrder(c) /\ ~ Illegal(c)
  BY DEF ApplyEvent, WriteApplied
<1>5. run[c.run].status \in TerminalStatuses => c.at >= run[c.run].at
  BY <1>1, <1>3, <1>4 DEF OutOfOrder
<1>6. \/ run[c.run].status = "none"
      \/ IsLegalRunTransition(run[c.run].status, c.status)
  BY <1>4 DEF Illegal
<1>7. run[c.run].status \in TerminalStatuses => c.status = run[c.run].status
  BY <1>6 DEF IsLegalRunTransition, TerminalStatuses
<1>. QED
  BY <1>1, <1>2, <1>3, <1>5, <1>6, <1>7

\* Runs change by nothing but an application.
LEMMA OnlyApplicationsChangeRuns ==
    ASSUME [Next]_vars, run' # run
    PROVE  \E k \in Calls, e \in Raw : \E c \in PayloadsFor(e) :
              ApplyEvent(k, e, c)
BY DEF Next, vars, ReceiveRaw, Succeed, AlreadyProcessed, IgnoreOutOfOrder,
       WriteIgnored, Abort, RecordFailure, TransitionIncident, SetSourceStatus

\* Once terminal, a run keeps its status and its clock does not go back,
\* whether or not calls on one raw event overlap.
THEOREM TerminalRunsFrozen == Spec => TerminalRunFrozen
<1>. DEFINE Frozen == \A r \in Runs : run[r].status \in TerminalStatuses =>
                         /\ run'[r].status = run[r].status
                         /\ run'[r].at >= run[r].at
<1>1. ASSUME TypeOK, [Next]_vars PROVE Frozen
  <2>1. CASE run' = run
    <3>1. \A r \in Runs : run[r].at \in Nat
      BY <1>1 DEF TypeOK
    <3>. QED
      BY <2>1, <3>1
  <2>2. CASE run' # run
    <3>1. PICK k \in Calls, e \in Raw : \E c \in PayloadsFor(e) :
                  ApplyEvent(k, e, c)
      BY <1>1, <2>2, OnlyApplicationsChangeRuns
    <3>2. PICK c \in PayloadsFor(e) : ApplyEvent(k, e, c)
      BY <3>1
    <3>3. TAKE r \in Runs
    <3>4. HAVE run[r].status \in TerminalStatuses
    <3>5. run[r].at \in Nat
      BY <1>1 DEF TypeOK
    <3>. QED
      BY <1>1, <3>2, <3>4, <3>5, RunsAfterApply
  <2>. QED
    BY <2>1, <2>2
<1>2. TypeOK /\ [Next]_vars => [Frozen]_vars
  BY <1>1
<1>. QED
  BY <1>2, TypeCorrect, PTL DEF Spec, TerminalRunFrozen

-----------------------------------------------------------------------------
(* The clock of a source covers its runs.                                  *)

LEMMA SourceClockStep ==
    TypeOK /\ SourceClockCoversRuns /\ [Next]_vars => SourceClockCoversRuns'
<1>. SUFFICES ASSUME TypeOK, SourceClockCoversRuns, [Next]_vars
              PROVE  SourceClockCoversRuns'
  OBVIOUS
<1>1. \A r \in Runs : SourceOf[r] \in Sources
  BY ConstantsAssumption
<1>2. ASSUME NEW k \in Calls, NEW e \in Raw, NEW c \in PayloadsFor(e),
             ApplyEvent(k, e, c)
      PROVE  SourceClockCoversRuns'
  <2>. DEFINE s == SourceOf[e]
  <2>1. /\ c.run \in Runs /\ c.at \in Nat
        /\ s \in Sources /\ SourceOf[c.run] = s
    BY PayloadFields
  <2>2. /\ source'[s].at = Later(source[s].at, c.at)
        /\ \A t \in Sources : t # s => source'[t] = source[t]
    BY <1>2, <2>1 DEF ApplyEvent, WriteApplied, TypeOK
  <2>3. \A t \in Sources : source[t].at \in Nat
    BY DEF TypeOK
  <2>4. source'[s].at >= c.at /\ source'[s].at >= source[s].at
    BY <2>1, <2>2, <2>3 DEF Later
  <2>5. SUFFICES ASSUME NEW r \in Runs
                 PROVE  run'[r].at <= source'[SourceOf[r]].at
    BY DEF SourceClockCoversRuns
  <2>6. run[r].at \in Nat /\ run[r].at <= source[SourceOf[r]].at
    BY DEF TypeOK, SourceClockCoversRuns
  <2>7. source'[SourceOf[r]].at \in Nat
    BY <1>1, <2>1, <2>2, <2>3 DEF Later
  <2>8. CASE r = c.run
    BY <1>2, <2>1, <2>4, <2>8, RunsAfterApply
  <2>9. CASE r # c.run
    <3>1. run'[r].at = run[r].at
      BY <1>2, <2>9, RunsAfterApply
    <3>2. source'[SourceOf[r]].at >= source[SourceOf[r]].at
      BY <1>1, <2>2, <2>3, <2>4
    <3>. HIDE DEF s
    <3>. QED
      BY <1>1, <2>3, <2>6, <2>7, <3>1, <3>2
  <2>. QED
    BY <2>8, <2>9
<1>3. CASE run' = run /\ \A t \in Sources : source'[t].at = source[t].at
  BY <1>1, <1>3 DEF SourceClockCoversRuns
<1>4. ASSUME NEW s \in Sources, NEW status \in SourceStatuses,
             SetSourceStatus(s, status)
      PROVE  run' = run /\ \A t \in Sources : source'[t].at = source[t].at
  BY <1>4 DEF SetSourceStatus, TypeOK
<1>5. \/ \E k \in Calls, e \in Raw : \E c \in PayloadsFor(e) :
            ApplyEvent(k, e, c)
      \/ \E s \in Sources, status \in SourceStatuses :
            SetSourceStatus(s, status)
      \/ UNCHANGED <<run, source>>
  BY DEF Next, vars, ReceiveRaw, Succeed, AlreadyProcessed, IgnoreOutOfOrder,
         WriteIgnored,
         Abort, RecordFailure, TransitionIncident
<1>. QED
  BY <1>2, <1>3, <1>4, <1>5

\* A source was last heard of no earlier than any of its runs.
THEOREM SourceClock == Spec => []SourceClockCoversRuns
<1>1. Init => SourceClockCoversRuns
  BY ConstantsAssumption DEF Init, SourceClockCoversRuns
<1>. QED
  BY <1>1, SourceClockStep, TypeCorrect, PTL DEF Spec

-----------------------------------------------------------------------------
(* Incidents.                                                              *)

\* The two invariants about incidents, proved together.
IncidentInv == FailureHasIncident /\ OnlyNewestIncidentActive

\* What an application does to the incidents of its run.
LEMMA IncidentsAfterApply ==
    ASSUME TypeOK, IncidentInv,
           NEW k \in Calls, NEW e \in Raw, NEW c \in PayloadsFor(e),
           ApplyEvent(k, e, c)
    PROVE  IncidentInv'
<1>. DEFINE r0 == c.run
            old == incidents[r0]
            new == incidents'[r0]
<1>1. r0 \in Runs
  BY PayloadFields
<1>2. /\ run'[r0].status = c.status
      /\ run[r0].status \in TerminalStatuses => c.status = run[r0].status
      /\ \/ run[r0].status = "none"
         \/ IsLegalRunTransition(run[r0].status, c.status)
      /\ \A r \in Runs : r # r0 => run'[r] = run[r]
  BY <1>1, RunsAfterApply
<1>3. \A r \in Runs : r # r0 =>
         incidents'[r] = incidents[r] /\ notices'[r] = notices[r]
  BY <1>1 DEF ApplyEvent, WriteApplied, TypeOK
<1>4. /\ old \in Seq(Incident)
      /\ notices[r0] \in Nat
      /\ run[r0].status \in FailureStatuses <=> old # <<>>
      /\ \A i \in DOMAIN old : old[i].severity = SeverityFor(run[r0].status)
      /\ Len(old) <= notices[r0]
      /\ \A i \in DOMAIN old : Active(old[i]) => i = Len(old)
  BY <1>1 DEF TypeOK, IncidentInv, FailureHasIncident, OnlyNewestIncidentActive
<1>5. run[r0].status \in FailureStatuses => c.status = run[r0].status
  BY <1>2 DEF TerminalStatuses, FailureStatuses
<1>6. /\ c.status \in FailureStatuses <=> new # <<>>
      /\ \A i \in DOMAIN new : new[i].severity = SeverityFor(c.status)
      /\ Len(new) <= notices'[r0]
      /\ \A i \in DOMAIN new : Active(new[i]) => i = Len(new)
  <2>1. CASE c.status \notin FailureStatuses
    <3>1. new = old /\ notices'[r0] = notices[r0]
      BY <2>1 DEF ApplyEvent, WriteApplied
    <3>2. old = <<>>
      BY <1>4, <1>5, <2>1
    <3>. HIDE DEF new, old, r0
    <3>. QED
      BY <1>4, <2>1, <3>1, <3>2
  <2>2. CASE c.status \in FailureStatuses
    <3>1. new = Detected(old, c.status) /\ notices'[r0] = notices[r0] + 1
      BY <1>1, <2>2 DEF ApplyEvent, WriteApplied, TypeOK
    <3>. HIDE DEF new, old, r0
    <3>2. CASE \E i \in DOMAIN old : Active(old[i])
      <4>1. /\ new \in Seq(Incident)
            /\ Len(new) = Len(old)
            /\ DOMAIN new = DOMAIN old
            /\ \A i \in DOMAIN old :
                  /\ new[i].status = old[i].status
                  /\ \/ new[i].severity = old[i].severity
                     \/ new[i].severity = "high" /\ c.status = "timed_out"
        BY <1>4, <2>2, <3>1, <3>2, DetectedRefreshes
      <4>2. old # <<>> /\ new # <<>>
        BY <1>4, <3>2, <4>1
      <4>3. c.status = run[r0].status
        BY <1>4, <1>5, <4>2
      <4>4. \A i \in DOMAIN new : new[i].severity = SeverityFor(c.status)
        BY <1>4, <4>1, <4>3 DEF SeverityFor
      <4>5. \A i \in DOMAIN new : Active(new[i]) => i = Len(new)
        BY <1>4, <4>1 DEF Active
      <4>6. Len(new) <= notices'[r0]
        BY <1>4, <3>1, <4>1
      <4>. QED
        BY <2>2, <4>2, <4>4, <4>5, <4>6
    <3>3. CASE \A i \in DOMAIN old : ~ Active(old[i])
      <4>1. /\ new \in Seq(Incident)
            /\ Len(new) = Len(old) + 1
            /\ \A i \in DOMAIN old : new[i] = old[i]
            /\ new[Len(old) + 1].severity = SeverityFor(c.status)
        BY <1>4, <2>2, <3>1, <3>3, DetectedOpens
      <4>2. /\ Len(old) \in Nat
            /\ DOMAIN old = 1..Len(old)
            /\ DOMAIN new = 1..(Len(old) + 1)
        BY <1>4, <4>1
      <4>3. new # <<>>
        BY <4>1, <4>2
      <4>4. \A i \in DOMAIN old : c.status = run[r0].status
        BY <1>4, <1>5, <4>2
      <4>5. \A i \in DOMAIN new : i \in DOMAIN old \/ i = Len(old) + 1
        BY <4>2
      <4>6. \A i \in DOMAIN new : new[i].severity = SeverityFor(c.status)
        BY <1>4, <4>1, <4>4, <4>5
      <4>7. \A i \in DOMAIN new : Active(new[i]) => i = Len(new)
        BY <3>3, <4>1, <4>5
      <4>8. Len(new) <= notices'[r0]
        BY <1>4, <3>1, <4>1, <4>2
      <4>. QED
        BY <2>2, <4>3, <4>6, <4>7, <4>8
    <3>. QED
      BY <3>2, <3>3
  <2>. QED
    BY <2>1, <2>2
<1>7. SUFFICES ASSUME NEW r \in Runs
      PROVE  /\ run'[r].status \in FailureStatuses <=> incidents'[r] # <<>>
             /\ \A i \in DOMAIN incidents'[r] :
                   /\ incidents'[r][i].severity = SeverityFor(run'[r].status)
                   /\ Active(incidents'[r][i]) => i = Len(incidents'[r])
             /\ Len(incidents'[r]) <= notices'[r]
  BY DEF IncidentInv, FailureHasIncident, OnlyNewestIncidentActive, Active
<1>8. CASE r = r0
  BY <1>2, <1>6, <1>8
<1>9. CASE r # r0
  BY <1>2, <1>3, <1>9
     DEF IncidentInv, FailureHasIncident, OnlyNewestIncidentActive
<1>. QED
  BY <1>8, <1>9

\* An operator's step keeps the severities, and activates no closed incident.
LEMMA IncidentsAfterTransition ==
    ASSUME TypeOK, IncidentInv,
           NEW r0 \in Runs, NEW i0 \in DOMAIN incidents[r0],
           NEW target \in IncidentStatuses,
           TransitionIncident(r0, i0, target)
    PROVE  IncidentInv'
<1>. DEFINE old == incidents[r0]
            new == incidents'[r0]
<1>1. /\ old \in Seq(Incident)
      /\ old[i0] \in Incident
  BY DEF TypeOK
<1>2. incidents' = [incidents EXCEPT ![r0][i0].status = target]
  BY DEF TransitionIncident
<1>3. new = [old EXCEPT ![i0].status = target]
  BY <1>2 DEF TypeOK
<1>4. \A r \in Runs : r # r0 => incidents'[r] = incidents[r]
  BY <1>2 DEF TypeOK
<1>5. run' = run /\ notices' = notices
  BY DEF TransitionIncident
<1>6. target \in ActiveStatuses => Active(old[i0])
  <2>1. target \in IncidentTargets(old[i0].status)
    BY DEF TransitionIncident
  <2>. QED
    BY <2>1 DEF IncidentTargets, ActiveStatuses, Active
<1>7. /\ DOMAIN new = DOMAIN old
      /\ Len(new) = Len(old)
      /\ new[i0].status = target
      /\ new[i0].severity = old[i0].severity
      /\ \A i \in DOMAIN old : i # i0 => new[i] = old[i]
  <2>. HIDE DEF new, old
  <2>1. i0 \in DOMAIN old
    BY DEF old
  <2>. QED
    BY <1>1, <1>3, <2>1 DEF Incident
<1>8. /\ new # <<>> /\ old # <<>>
      /\ \A i \in DOMAIN new : /\ new[i].severity = old[i].severity
                               /\ Active(new[i]) => Active(old[i])
  <2>. HIDE DEF new, old
  <2>1. i0 \in DOMAIN old
    BY DEF old
  <2>. QED
    BY <1>1, <1>6, <1>7, <2>1 DEF Active
<1>9. SUFFICES ASSUME NEW r \in Runs
      PROVE  /\ run'[r].status \in FailureStatuses <=> incidents'[r] # <<>>
             /\ \A i \in DOMAIN incidents'[r] :
                   /\ incidents'[r][i].severity = SeverityFor(run'[r].status)
                   /\ Active(incidents'[r][i]) => i = Len(incidents'[r])
             /\ Len(incidents'[r]) <= notices'[r]
  BY DEF IncidentInv, FailureHasIncident, OnlyNewestIncidentActive, Active
<1>10. CASE r = r0
  BY <1>5, <1>7, <1>8, <1>10
     DEF IncidentInv, FailureHasIncident, OnlyNewestIncidentActive
<1>11. CASE r # r0
  BY <1>4, <1>5, <1>11
     DEF IncidentInv, FailureHasIncident, OnlyNewestIncidentActive
<1>. QED
  BY <1>10, <1>11

LEMMA IncidentStep == TypeOK /\ IncidentInv /\ [Next]_vars => IncidentInv'
<1>. SUFFICES ASSUME TypeOK, IncidentInv, [Next]_vars PROVE IncidentInv'
  OBVIOUS
<1>1. ASSUME NEW k \in Calls, NEW e \in Raw, NEW c \in PayloadsFor(e),
             ApplyEvent(k, e, c)
      PROVE  IncidentInv'
  BY <1>1, IncidentsAfterApply
<1>2. ASSUME NEW r \in Runs, NEW i \in DOMAIN incidents[r],
             NEW target \in IncidentStatuses,
             TransitionIncident(r, i, target)
      PROVE  IncidentInv'
  BY <1>2, IncidentsAfterTransition
<1>3. CASE UNCHANGED <<run, incidents, notices>>
  BY <1>3 DEF IncidentInv, FailureHasIncident, OnlyNewestIncidentActive, Active
<1>4. \/ \E k \in Calls, e \in Raw : \E c \in PayloadsFor(e) :
            ApplyEvent(k, e, c)
      \/ \E r \in Runs : \E i \in DOMAIN incidents[r] :
            \E target \in IncidentStatuses : TransitionIncident(r, i, target)
      \/ UNCHANGED <<run, incidents, notices>>
  BY DEF Next, vars, ReceiveRaw, Succeed, AlreadyProcessed, IgnoreOutOfOrder,
         WriteIgnored,
         Abort, RecordFailure, SetSourceStatus
<1>. QED
  BY <1>1, <1>2, <1>3, <1>4

LEMMA IncidentInit == Init => IncidentInv
BY DEF Init, IncidentInv, FailureHasIncident, OnlyNewestIncidentActive,
       FailureStatuses

\* A run failed or timed out exactly when it has an incident, of the right
\* severity and announced.
THEOREM FailuresHaveIncidents == Spec => []FailureHasIncident
<1>1. IncidentInv => FailureHasIncident
  BY DEF IncidentInv
<1>. QED
  BY <1>1, IncidentInit, IncidentStep, TypeCorrect, PTL DEF Spec

\* No run ever has two active incidents: the unique index cannot be violated.
THEOREM OneActiveIncident == Spec => []OnlyNewestIncidentActive
<1>1. IncidentInv => OnlyNewestIncidentActive
  BY DEF IncidentInv
<1>. QED
  BY <1>1, IncidentInit, IncidentStep, TypeCorrect, PTL DEF Spec

-----------------------------------------------------------------------------
(* The raw row.                                                            *)

\* The same statement for one row.
RowConsistent(row, applied) ==
    /\ row.state \in {"absent", "pending"} => row.attempts = 0 /\ applied = 0
    /\ row.state = "failed" => row.attempts \in 1..(MaxAttempts - 1)
    /\ row.state = "dead_letter" => row.attempts = MaxAttempts
    /\ row.state = "processed" /\ row.code = "none" => applied >= 1

\* What a step does to one raw event, its audit rows and its history.
LEMMA RowSteps ==
    ASSUME TypeOK, [Next]_vars, NEW e0 \in Raw
    PROVE  \/ /\ raw'[e0] = raw[e0] /\ audit'[e0] = audit[e0]
              /\ undone'[e0] = undone[e0]
           \/ ReceiveRaw(e0)
           \/ \E k \in Calls : \E c \in PayloadsFor(e0) :
                 IgnoreOutOfOrder(k, e0, c) \/ ApplyEvent(k, e0, c)
           \/ \E k \in Calls : RecordFailure(k) /\ aborted[k].event = e0
<1>1. ASSUME NEW e \in Raw, ReceiveRaw(e), e # e0
      PROVE  /\ raw'[e0] = raw[e0] /\ audit'[e0] = audit[e0]
             /\ undone'[e0] = undone[e0]
  BY <1>1 DEF ReceiveRaw, TypeOK
<1>2. ASSUME NEW k \in Calls, NEW e \in Raw, NEW c \in PayloadsFor(e),
             IgnoreOutOfOrder(k, e, c) \/ ApplyEvent(k, e, c), e # e0
      PROVE  /\ raw'[e0] = raw[e0] /\ audit'[e0] = audit[e0]
             /\ undone'[e0] = undone[e0]
  BY <1>2
     DEF IgnoreOutOfOrder, WriteIgnored, ApplyEvent, WriteApplied, TypeOK
<1>3. ASSUME NEW k \in Calls, RecordFailure(k), aborted[k].event # e0
      PROVE  /\ raw'[e0] = raw[e0] /\ audit'[e0] = audit[e0]
             /\ undone'[e0] = undone[e0]
  BY <1>3 DEF RecordFailure, Undo, TypeOK
<1>. QED
  BY <1>1, <1>2, <1>3
     DEF Next, vars, Succeed, AlreadyProcessed, Abort, TransitionIncident,
         SetSourceStatus

LEMMA RawRowStep ==
    TypeOK /\ RawRowConsistent /\ [Next]_vars => RawRowConsistent'
<1>. SUFFICES ASSUME TypeOK, RawRowConsistent, [Next]_vars,
                     NEW e0 \in Raw
              PROVE  RowConsistent(raw'[e0], audit'[e0])
  BY DEF RawRowConsistent, RowConsistent
<1>1. RowConsistent(raw[e0], audit[e0])
  BY DEF RawRowConsistent, RowConsistent
<1>2. /\ raw[e0].attempts \in 0..MaxAttempts
      /\ audit[e0] \in Nat
      /\ MaxAttempts \in Nat
  BY ConstantsAssumption DEF TypeOK
<1>3. CASE raw'[e0] = raw[e0] /\ audit'[e0] = audit[e0]
  BY <1>1, <1>3
<1>4. ASSUME ReceiveRaw(e0) PROVE RowConsistent(raw'[e0], audit'[e0])
  <2>1. /\ raw'[e0].state = "pending"
        /\ raw'[e0].attempts = raw[e0].attempts
        /\ audit'[e0] = audit[e0]
        /\ raw[e0].state = "absent"
    BY <1>4 DEF ReceiveRaw, TypeOK
  <2>. QED
    BY <1>1, <2>1 DEF RowConsistent
<1>5. ASSUME NEW k \in Calls, NEW c \in PayloadsFor(e0),
             IgnoreOutOfOrder(k, e0, c)
      PROVE  RowConsistent(raw'[e0], audit'[e0])
  <2>1. /\ raw'[e0].state = "processed"
        /\ raw'[e0].code = "out_of_order_ignored"
    BY <1>5 DEF IgnoreOutOfOrder, WriteIgnored, TypeOK
  <2>. QED
    BY <2>1 DEF RowConsistent
<1>6. ASSUME NEW k \in Calls, NEW c \in PayloadsFor(e0), ApplyEvent(k, e0, c)
      PROVE  RowConsistent(raw'[e0], audit'[e0])
  <2>1. raw'[e0].state = "processed" /\ audit'[e0] = audit[e0] + 1
    BY <1>6 DEF ApplyEvent, WriteApplied, TypeOK
  <2>. QED
    BY <1>2, <2>1 DEF RowConsistent
<1>7. ASSUME NEW k \in Calls, RecordFailure(k), aborted[k].event = e0
      PROVE  RowConsistent(raw'[e0], audit'[e0])
  <2>1. raw'[e0] = [state |-> IF raw[e0].attempts + 1 >= MaxAttempts
                              THEN "dead_letter" ELSE "failed",
                    attempts |-> NextAttempt(raw[e0].attempts),
                    code |-> aborted[k].code]
    BY <1>7 DEF RecordFailure, TypeOK
  <2>2. CASE raw[e0].attempts + 1 >= MaxAttempts
    <3>1. raw'[e0].state = "dead_letter" /\ raw'[e0].attempts = MaxAttempts
      BY <1>2, <2>1, <2>2, NextAttemptBounds
    <3>. QED
      BY <3>1 DEF RowConsistent
  <2>3. CASE ~ (raw[e0].attempts + 1 >= MaxAttempts)
    <3>1. /\ raw'[e0].state = "failed"
          /\ raw'[e0].attempts = raw[e0].attempts + 1
      BY <1>2, <2>1, <2>3, NextAttemptBounds
    <3>. QED
      BY <1>2, <2>3, <3>1 DEF RowConsistent
  <2>. QED
    BY <2>2, <2>3
<1>. QED
  BY <1>3, <1>4, <1>5, <1>6, <1>7, RowSteps

\* The raw row tells the truth about its history.
THEOREM RawRowsConsistent == Spec => []RawRowConsistent
<1>1. Init => RawRowConsistent
  BY DEF Init, RawRowConsistent
<1>. QED
  BY <1>1, RawRowStep, TypeCorrect, PTL DEF Spec

-----------------------------------------------------------------------------
(* Idempotency, however calls on one raw event overlap.                    *)

\* AppliedOncePerUndoing is not inductive: an event that is not processed, and
\* may be applied, must have been turned back once per application.
UndoingInv ==
    \A e \in Raw :
        /\ audit[e] <= undone[e] + 1
        /\ raw[e].state # "processed" => audit[e] <= undone[e]

LEMMA UndoingStep == TypeOK /\ UndoingInv /\ [Next]_vars => UndoingInv'
<1>. SUFFICES ASSUME TypeOK, UndoingInv, [Next]_vars, NEW e \in Raw
              PROVE  /\ audit'[e] <= undone'[e] + 1
                     /\ raw'[e].state # "processed" => audit'[e] <= undone'[e]
  BY DEF UndoingInv
<1>1. /\ audit[e] <= undone[e] + 1
      /\ raw[e].state # "processed" => audit[e] <= undone[e]
      /\ audit[e] \in Nat /\ undone[e] \in Nat
      /\ audit[e] <= MaxApplications /\ MaxApplications \in Nat
  BY ConstantsAssumption DEF UndoingInv, TypeOK
<1>2. CASE /\ raw'[e] = raw[e] /\ audit'[e] = audit[e]
           /\ undone'[e] = undone[e]
  BY <1>1, <1>2
<1>3. CASE ReceiveRaw(e)
  <2>1. audit'[e] = audit[e] /\ undone'[e] = undone[e]
        /\ raw[e].state # "processed"
    BY <1>3 DEF ReceiveRaw
  <2>. QED
    BY <1>1, <2>1
<1>4. ASSUME NEW k \in Calls, NEW c \in PayloadsFor(e),
             IgnoreOutOfOrder(k, e, c) \/ ApplyEvent(k, e, c)
      PROVE  /\ audit'[e] <= undone'[e] + 1
             /\ raw'[e].state # "processed" => audit'[e] <= undone'[e]
  <2>1. /\ raw[e].state # "processed" /\ raw'[e].state = "processed"
        /\ audit'[e] \in {audit[e], audit[e] + 1} /\ undone'[e] = undone[e]
    BY <1>4
       DEF IgnoreOutOfOrder, WriteIgnored, ApplyEvent, WriteApplied, TypeOK
  <2>. QED
    BY <1>1, <2>1
<1>5. ASSUME NEW k \in Calls, RecordFailure(k), aborted[k].event = e
      PROVE  /\ audit'[e] <= undone'[e] + 1
             /\ raw'[e].state # "processed" => audit'[e] <= undone'[e]
  <2>1. audit'[e] = audit[e]
    BY <1>5 DEF RecordFailure
  <2>2. undone'[e] = IF raw[e].state = "processed" /\ undone[e] < MaxApplications
                     THEN undone[e] + 1 ELSE undone[e]
    BY <1>5 DEF RecordFailure, Undo, TypeOK
  <2>. QED
    BY <1>1, <2>1, <2>2
<1>. QED
  BY <1>2, <1>3, <1>4, <1>5, RowSteps

LEMMA UndoingInit == Init => UndoingInv
BY DEF Init, UndoingInv

\* Delivered and called any number of times, by callers that overlap in any
\* way, an event is applied once, and once more for each time the handler of a
\* failed call found it processed and turned it back.
THEOREM AppliedOnceUnlessUndone == Spec => []AppliedOncePerUndoing
<1>1. UndoingInv => AppliedOncePerUndoing
  BY DEF UndoingInv, AppliedOncePerUndoing
<1>. QED
  BY <1>1, UndoingInit, UndoingStep, TypeCorrect, PTL DEF Spec

\* A settled row is not written, and no failure of it can be pending again.
LEMMA SettledKept ==
    ASSUME TypeOK, [Next]_vars, NEW e \in Raw, Settled(e)
    PROVE  Settled(e)' /\ raw'[e] = raw[e] /\ audit'[e] = audit[e]
<1>1. /\ raw[e].state = "processed"
      /\ \A k \in Calls : aborted[k] # NoCall => aborted[k].event # e
  BY DEF Settled
<1>2. raw'[e] = raw[e] /\ audit'[e] = audit[e]
  <2>1. ~ ReceiveRaw(e)
    BY <1>1 DEF ReceiveRaw
  <2>2. \A k \in Calls : \A c \in PayloadsFor(e) :
           ~ (IgnoreOutOfOrder(k, e, c) \/ ApplyEvent(k, e, c))
    BY <1>1 DEF IgnoreOutOfOrder, ApplyEvent
  <2>3. \A k \in Calls : ~ (RecordFailure(k) /\ aborted[k].event = e)
    BY <1>1 DEF RecordFailure
  <2>. QED
    BY <2>1, <2>2, <2>3, RowSteps
<1>3. \A k \in Calls : aborted'[k] # NoCall => aborted'[k].event # e
  <2>1. CASE aborted' = aborted
    BY <1>1, <2>1
  <2>2. ASSUME NEW k \in Calls, NEW e1 \in Raw, NEW c \in PayloadsFor(e1),
               NEW code \in {"55000", "22023", "other"}, Abort(k, e1, c, code)
        PROVE  \A o \in Calls : aborted'[o] # NoCall => aborted'[o].event # e
    BY <1>1, <2>2 DEF Abort, TypeOK
  <2>3. ASSUME NEW k \in Calls, RecordFailure(k)
        PROVE  \A o \in Calls : aborted'[o] # NoCall => aborted'[o].event # e
    BY <1>1, <2>3 DEF RecordFailure, TypeOK
  <2>. QED
    BY <2>1, <2>2, <2>3
       DEF Next, vars, ReceiveRaw, Succeed, AlreadyProcessed, IgnoreOutOfOrder,
           WriteIgnored, ApplyEvent, TransitionIncident, SetSourceStatus
<1>. QED
  BY <1>1, <1>2, <1>3 DEF Settled

\* Processed, with no failed call on it unfinished, is final for every event,
\* whoever calls for it and whenever.
THEOREM SettledIsFinal == Spec => SettledForever
<1>. DEFINE Kept == \A e \in Raw : Settled(e) =>
                       Settled(e)' /\ raw'[e] = raw[e] /\ audit'[e] = audit[e]
<1>1. TypeOK /\ [Next]_vars => [Kept]_vars
  BY SettledKept
<1>. QED
  BY <1>1, TypeCorrect, PTL DEF Spec, SettledForever
=============================================================================
