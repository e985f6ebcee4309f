----------------------------- MODULE RunStates -----------------------------
(***************************************************************************)
(* The state machines of a workflow run and of an incident, as the SQL     *)
(* functions is_legal_run_transition and transition_incident fix them.     *)
(* They are constant-level: every other module takes them from here.       *)
(***************************************************************************)

\* The status column of workflow_runs.
RunStatuses ==
    {"queued", "running", "succeeded", "failed", "cancelled", "timed_out"}

\* The statuses that apply_canonical_event protects from older events.
TerminalStatuses == {"succeeded", "failed", "cancelled", "timed_out"}

\* The statuses that raise an incident.
FailureStatuses == {"failed", "timed_out"}

\* is_legal_run_transition: a status may be repeated, or move forward.
IsLegalRunTransition(current, target) ==
    \/ current = target
    \/ current = "queued"  /\ target \in TerminalStatuses \cup {"running"}
    \/ current = "running" /\ target \in TerminalStatuses

-----------------------------------------------------------------------------

IncidentStatuses ==
    {"open", "acknowledged", "investigating", "resolved", "closed"}

\* The statuses the partial unique index one_active_incident_per_run covers.
ActiveStatuses == {"open", "acknowledged", "investigating"}

\* The targets transition_incident allows from each status.
IncidentTargets(status) ==
    CASE status = "open"          -> {"acknowledged", "investigating"}
      [] status = "acknowledged"  -> {"investigating", "resolved"}
      [] status = "investigating" -> {"resolved"}
      [] status = "resolved"      -> {"closed"}
      [] OTHER                    -> {}
=============================================================================
