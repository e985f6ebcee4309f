---------------------------- MODULE RuleAgreement ---------------------------
(***************************************************************************)
(* The rules of FastAPI's reference service, written a second time in      *)
(* Python: decide_event_order (ordering.py) and detect_incident            *)
(* (incidents.py), next to the state that apply_canonical_event, written   *)
(* in SQL, produces.                                                       *)
(***************************************************************************)
EXTENDS CanonicalEvents

\* LEGAL_TRANSITIONS
LegalTransitions ==
    [s \in RunStatuses |->
       CASE s = "queued"  -> TerminalStatuses \cup {"running"}
         [] s = "running" -> TerminalStatuses
         [] OTHER         -> {}]

\* OrderingDecision
Decision(apply, reason) == [apply |-> apply, reason |-> reason]

\* Mutant of DecideEventOrder: a repeated status is not looked for.
DecideWithoutRefresh(current, seenAt, incoming, at) ==
    IF at < seenAt /\ current \notin {"queued", "running"}
    THEN Decision(FALSE, "out_of_order_terminal_state")
    ELSE IF incoming \in LegalTransitions[current]
    THEN Decision(TRUE, "legal_transition")
    ELSE Decision(FALSE, "illegal_state_transition")

DecideEventOrder(current, seenAt, incoming, at) ==
    IF at < seenAt /\ current \notin {"queued", "running"}
    THEN Decision(FALSE, "out_of_order_terminal_state")
    ELSE IF incoming = current
    THEN Decision(TRUE, "same_state_refresh")
    ELSE IF incoming \in LegalTransitions[current]
    THEN Decision(TRUE, "legal_transition")
    ELSE Decision(FALSE, "illegal_state_transition")

\* Mutant of DetectIncident: every incident is of the middle severity.
DetectMedium(status, security, slow) ==
    [create   |-> status \in FailureStatuses \/ (status = "succeeded" /\ slow),
     severity |-> "medium"]

\* detect_incident.  security: the error code starts with SECURITY_; slow:
\* the run took longer than the workflow's expected_sla_seconds.
DetectIncident(status, security, slow) ==
    [create   |-> status \in FailureStatuses \/ (status = "succeeded" /\ slow),
     severity |-> CASE status = "timed_out" -> "high"
                    [] status = "failed" ->
                          IF security THEN "high" ELSE "medium"
                    [] OTHER -> "low"]

-----------------------------------------------------------------------------

\* Whatever state a run has reached, and whichever event comes next, the
\* Python rule gives the verdict the SQL function acts upon, and its reason.
OrderAgrees ==
    \A c \in Payloads :
        run[c.run].status # "none" =>
            LET verdict == DecideEventOrder(run[c.run].status, run[c.run].at,
                                            c.status, c.at) IN
            /\ verdict.reason = "out_of_order_terminal_state"
                  <=> OutOfOrder(c)
            /\ verdict.reason = "illegal_state_transition"
                  <=> ~ OutOfOrder(c) /\ Illegal(c)
            /\ verdict.apply <=> ~ OutOfOrder(c) /\ ~ Illegal(c)

\* For an error that is no security error, and a run within its SLA, the
\* Python rule asks for an incident exactly where the database has one, and
\* of the severity it has there.  (The database knows neither exception.)
IncidentAgrees ==
    \A r \in Runs :
        run[r].status # "none" =>
            LET verdict == DetectIncident(run[r].status, FALSE, FALSE) IN
            /\ verdict.create <=> incidents[r] # <<>>
            /\ \A i \in DOMAIN incidents[r] :
                  incidents[r][i].severity = verdict.severity
=============================================================================
