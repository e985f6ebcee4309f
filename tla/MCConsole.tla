----------------------------- MODULE MCConsole -----------------------------
(* TLC instance of Console, for two pages, and of Team and Session, each   *)
(* for a time when the console is elsewhere: they share no state with it   *)
(* or each other, so nothing is lost by not interleaving them.             *)
EXTENDS Console, Team, Session

\* Pages that show nothing: only the team changes, or only the session.
Closed == ReadOnlyPage({})
Away == ReadOnlyPage({{}})

FewPages == {ApprovalsPage("admin"), SettingsPage("owner"), Closed, Away}

TwoOwners == {[u \in Users |-> "owner"]}

\* One person is a member of an organization, the others of none.
OneMember ==
    {[p \in Persons |-> IF p = CHOOSE q \in Persons : TRUE
                        THEN {CHOOSE o \in Orgs : TRUE} ELSE {}]}

MCInit ==
    /\ Init
    /\ TeamInit
    /\ SessionInit
    /\ page # Away => account = NoPerson /\ saved = NoOrg

MCNext ==
    \/ /\ page \notin {Closed, Away}
       /\ Next
       /\ UNCHANGED <<teamVars, tabVars>>
    \/ page = Closed /\ TeamNext /\ UNCHANGED <<vars, tabVars>>
    \/ page = Away /\ SessionNext /\ UNCHANGED <<vars, teamVars>>

MCSpec == MCInit /\ [][MCNext]_<<vars, teamVars, tabVars>> /\ Fairness
=============================================================================
