------------------------- MODULE RuleAgreementProofs ------------------------
(***************************************************************************)
(* The Python rules and the SQL function agree in every reachable state.   *)
(***************************************************************************)
EXTENDS RuleAgreement, CanonicalEventsProofs

\* The two tables of legal transitions are one relation, but for the
\* repeated status, which Python treats first.
LEMMA SameTransitions ==
    ASSUME NEW s \in RunStatuses, NEW t \in RunStatuses
    PROVE  IsLegalRunTransition(s, t) <=> s = t \/ t \in LegalTransitions[s]
BY DEF IsLegalRunTransition, LegalTransitions, RunStatuses, TerminalStatuses

\* A run past queued and running is a terminal one.
LEMMA TerminalOrOpen ==
    ASSUME NEW s \in RunStatuses
    PROVE  s \notin {"queued", "running"} <=> s \in TerminalStatuses
BY DEF RunStatuses, TerminalStatuses

\* Python's verdict on the order of an event is the one SQL acts upon.
THEOREM OrderRulesAgree == Spec => []OrderAgrees
<1>1. TypeOK => OrderAgrees
  <2>. SUFFICES ASSUME TypeOK, NEW c \in Payloads, run[c.run].status # "none"
                PROVE  LET verdict == DecideEventOrder(run[c.run].status,
                                        run[c.run].at, c.status, c.at) IN
                       /\ verdict.reason = "out_of_order_terminal_state"
                             <=> OutOfOrder(c)
                       /\ verdict.reason = "illegal_state_transition"
                             <=> ~ OutOfOrder(c) /\ Illegal(c)
                       /\ verdict.apply <=> ~ OutOfOrder(c) /\ ~ Illegal(c)
    BY DEF OrderAgrees
  <2>1. c.run \in Runs /\ c.status \in RunStatuses
    BY ConstantsAssumption
  <2>2. run[c.run].status \in RunStatuses
    BY <2>1 DEF TypeOK
  <2>3. Illegal(c) <=> ~ (\/ c.status = run[c.run].status
                          \/ c.status \in LegalTransitions[run[c.run].status])
    BY <2>1, <2>2, SameTransitions DEF Illegal
  <2>4. OutOfOrder(c) <=> /\ c.at < run[c.run].at
                          /\ run[c.run].status \notin {"queued", "running"}
    BY <2>2, TerminalOrOpen DEF OutOfOrder
  <2>. QED
    BY <2>3, <2>4 DEF DecideEventOrder, Decision
<1>. QED
  BY <1>1, TypeCorrect, PTL

\* Where SQL raised an incident Python would have, and of that severity.
THEOREM IncidentRulesAgree == Spec => []IncidentAgrees
<1>1. TypeOK /\ FailureHasIncident => IncidentAgrees
  <2>. SUFFICES ASSUME TypeOK, FailureHasIncident, NEW r \in Runs,
                       run[r].status # "none"
                PROVE  LET verdict == DetectIncident(run[r].status, FALSE,
                                                     FALSE) IN
                       /\ verdict.create <=> incidents[r] # <<>>
                       /\ \A i \in DOMAIN incidents[r] :
                             incidents[r][i].severity = verdict.severity
    BY DEF IncidentAgrees
  <2>1. DetectIncident(run[r].status, FALSE, FALSE).create
           <=> run[r].status \in FailureStatuses
    BY DEF DetectIncident
  <2>2. run[r].status \in FailureStatuses <=> incidents[r] # <<>>
    BY DEF FailureHasIncident
  <2>3. ASSUME NEW i \in DOMAIN incidents[r]
        PROVE  incidents[r][i].severity
                  = DetectIncident(run[r].status, FALSE, FALSE).severity
    <3>1. incidents[r] # <<>>
      BY <2>3
    <3>2. incidents[r][i].severity = SeverityFor(run[r].status)
      BY <2>3 DEF FailureHasIncident
    <3>. QED
      BY <2>2, <3>1, <3>2 DEF DetectIncident, SeverityFor, FailureStatuses
  <2>. QED
    BY <2>1, <2>2, <2>3
<1>. QED
  BY <1>1, TypeCorrect, FailuresHaveIncidents, PTL
=============================================================================
