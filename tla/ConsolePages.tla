---------------------------- MODULE ConsolePages ----------------------------
(***************************************************************************)
(* What the pages of the console show and offer.  A page shows what it     *)
(* read of some tables, one request per table, all sent at once; it offers *)
(* changes.  A change writes several tables in one transaction and sends   *)
(* messages on the private topics of its organization: the console only    *)
(* learns from a message that something changed, never what.               *)
(***************************************************************************)
EXTENDS FiniteSets

-----------------------------------------------------------------------------
(* Changes.                                                                *)

Change(tables, topics) == [tables |-> tables, topics |-> topics]

\* apply_canonical_event, for an event without and with a failure.
EventApplied ==
    Change({"workflow_runs", "run_steps", "workflow_definitions",
            "integration_sources", "audit_events"}, {"runs"})
FailureApplied ==
    Change(EventApplied.tables \cup {"incidents", "incident_events"},
           {"runs", "incidents"})

\* transition_incident
IncidentMoved ==
    Change({"incidents", "incident_events", "audit_events"}, {"incidents"})

\* request_replay and decide_replay_request; process_replay_job
ReplayRequested == Change({"replay_requests", "audit_events"}, {"approvals"})
ReplayDecided == ReplayRequested
ReplayProcessed ==
    Change({"replay_requests", "workflow_runs", "run_steps", "audit_events"},
           {"runs"})

\* decide_approval
ApprovalDecided == Change({"approval_requests", "audit_events"}, {"approvals"})

\* store_integration_credential, and the writes pages make to tables
\* themselves: nothing is sent.
CredentialStored == Change({"integration_sources", "audit_events"}, {})
SourceCreated == Change({"integration_sources"}, {})
EnvironmentAdded == Change({"environments"}, {})
RuleChanged == Change({"notification_rules"}, {})
ProfileSaved == Change({"profiles"}, {})
RoleChanged == Change({"organization_members"}, {})

\* Updates of a table itself.
DirectUpdates == {RuleChanged, ProfileSaved, RoleChanged}

Changes ==
    {EventApplied, FailureApplied, IncidentMoved, ReplayRequested,
     ReplayProcessed, ApprovalDecided, CredentialStored, SourceCreated,
     EnvironmentAdded, RuleChanged, ProfileSaved, RoleChanged}

-----------------------------------------------------------------------------
(* Pages: their requests, each the tables it joins, the changes they      *)
(* offer to a member with a role, and those whose dialog stays open when   *)
(* another organization is selected, because the row they are for is kept  *)
(* in the page's state.                                                    *)

Touches(request, change) == request \cap change.tables # {}

Page(requests, offers, dialogs) ==
    [requests |-> requests, offers |-> offers \cup dialogs,
     dialogs |-> dialogs]

ReadOnlyPage(requests) == Page(requests, {}, {})

\* canManage, canApproveReplay; canReplay, canMutate.
Managers == {"owner", "admin"}
Operators == Managers \cup {"operator"}

For(roles, role, changes) == IF role \in roles THEN changes ELSE {}

Runs == {"workflow_runs", "workflow_definitions"}
Incidents == {"incidents", "workflow_definitions"}

DashboardPage == ReadOnlyPage({Runs, Incidents, {"workflow_definitions"}})

WorkflowsPage == ReadOnlyPage({{"workflow_definitions", "workflow_runs"}})

WorkflowDetailPage ==
    ReadOnlyPage({{"workflow_definitions"}, {"workflow_runs"}, {"incidents"}})

RunsPage == ReadOnlyPage({Runs})

IncidentsPage == ReadOnlyPage({Incidents})

AuditPage == ReadOnlyPage({{"audit_events"}})

RunDetailPage(role) ==
    Page({Runs, {"run_steps"}, {"run_artifacts"}},
         For(Operators, role, {ReplayRequested}), {})

IncidentDetailPage(role) ==
    Page({Incidents, {"incident_events"}},
         For(Operators, role, {IncidentMoved}), {})

\* The buttons of both lists open one dialog; every member is offered to
\* decide a workflow approval.
DecisionDialog(role) ==
    {ApprovalDecided} \cup For(Managers, role, {ReplayDecided})

ApprovalsPage(role) ==
    Page({{"approval_requests"}, {"replay_requests"}}, {},
         DecisionDialog(role))

SourceDialog(role) == For(Managers, role, {SourceCreated})
RotationDialog(role) == For(Managers, role, {CredentialStored})

IntegrationsPage(role) ==
    Page({{"integration_sources"}, {"environments"}}, SourceDialog(role),
         RotationDialog(role))

SettingsForms(role) ==
    {ProfileSaved}
        \cup For(Managers, role, {RoleChanged, EnvironmentAdded, RuleChanged})

SettingsPage(role) ==
    Page({{"organization_members"}, {"environments"}, {"notification_rules"},
          {"profiles"}},
         SettingsForms(role), {})
=============================================================================
