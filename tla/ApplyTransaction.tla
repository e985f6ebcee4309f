-------------------------- MODULE ApplyTransaction -------------------------
(***************************************************************************)
(* apply_canonical_event statement by statement, under READ COMMITTED:     *)
(* a statement sees what was committed when it started, and waits for the  *)
(* row locks of other transactions.  A transaction takes, in this order,   *)
(*                                                                         *)
(*    its raw event          FOR UPDATE                                    *)
(*    its source             FOR SHARE, which other readers may hold too   *)
(*    its run                FOR UPDATE, if a committed row is found       *)
(*    its run                by insert ... on conflict do update           *)
(*    its source             by update, which no other reader may hold     *)
(*                                                                         *)
(* and keeps them until it commits or its block is rolled back.  The       *)
(* decisions (older than a terminal run?  legal?) use the row that the     *)
(* third statement saw; the fourth overwrites whatever is there by then.   *)
(* Writes are shown when they are committed.  The lock on the workflow     *)
(* definition is left out: it only adds waiting, and only between events   *)
(* that name one workflow.                                                 *)
(***************************************************************************)
EXTENDS CanonicalEvents

CONSTANT Nothing   \* an argument not given, a run not looked at yet

VARIABLE call       \* per caller: the next statement, arguments, row seen

txVars == <<vars, call>>

\* A call is named by the statement it is about to execute.
CallSteps == {"idle", "share", "find", "upsert", "touch", "commit"}

CallTypeOK ==
    call \in [Calls ->
        [at : {"idle"}, event : {Nothing}, content : {Nothing},
         seen : {Nothing}]
          \cup
        [at : CallSteps \ {"idle"}, event : Raw, content : Payloads,
         seen : [status : RunStatuses \cup {"none"}, at : Nat]
                   \cup {Nothing}]]

IdleCall == [at |-> "idle", event |-> Nothing, content |-> Nothing,
             seen |-> Nothing]

TxInit == Init /\ call = [k \in Calls |-> IdleCall]

-----------------------------------------------------------------------------
(* The locks a call holds follow from how far it has come.                 *)

HoldsRaw(k, e) == call[k].at # "idle" /\ call[k].event = e

HoldsSourceShared(k, s) ==
    /\ call[k].at \in {"find", "upsert", "touch", "commit"}
    /\ SourceOf[call[k].event] = s

HoldsSource(k, s) ==
    call[k].at = "commit" /\ SourceOf[call[k].event] = s

\* The run is locked when it was found, and in any case once upserted.
HoldsRun(k, r) ==
    /\ \/ call[k].at = "upsert" /\ call[k].seen.status # "none"
       \/ call[k].at \in {"touch", "commit"}
    /\ call[k].content.run = r

Others(k) == Calls \ {k}

Goto(k, step) == call' = [call EXCEPT ![k].at = step]

Return(k) == call' = [call EXCEPT ![k] = IdleCall]

-----------------------------------------------------------------------------
(* The statements.                                                         *)

\* select ... from raw_execution_events ... for update
LockRaw(k, e, c) ==
    /\ call[k].at = "idle"
    /\ aborted[k] = NoCall
    /\ Exists(e)
    /\ \A o \in Others(k) : ~ HoldsRaw(o, e)
    /\ IF raw[e].state = "processed"
       THEN UNCHANGED call
       ELSE call' = [call EXCEPT ![k] = [at |-> "share", event |-> e,
                                         content |-> c, seen |-> Nothing]]
    /\ UNCHANGED vars

\* Mutant of RollBack: the call forgets where it was, not what it was about.
RollBackHalf(k, code) ==
    /\ aborted' = [aborted EXCEPT ![k] = [event |-> call[k].event,
                                          code |-> code]]
    /\ Goto(k, "idle")
    /\ UNCHANGED <<raw, run, incidents, notices, audit, undone, source>>

\* The block is rolled back: every lock is given up, the handler is to run.
RollBack(k, code) ==
    /\ aborted' = [aborted EXCEPT ![k] = [event |-> call[k].event,
                                          code |-> code]]
    /\ Return(k)
    /\ UNCHANGED <<raw, run, incidents, notices, audit, undone, source>>

\* Mutant of ShareSource: the source is read without a lock on it.
ReadSource(k) ==
    /\ call[k].at = "share"
    /\ IF SourceActive(call[k].event)
       THEN Goto(k, "find") /\ UNCHANGED vars
       ELSE RollBack(k, "55000")

\* select ... from integration_sources ... for share
ShareSource(k) ==
    /\ call[k].at = "share"
    /\ \A o \in Others(k) : ~ HoldsSource(o, SourceOf[call[k].event])
    /\ IF SourceActive(call[k].event)
       THEN Goto(k, "find") /\ UNCHANGED vars
       ELSE RollBack(k, "55000")

\* select ... from workflow_runs ... for update, and the two decisions.  An
\* older event for a terminal run is marked processed, and the call returns.
FindRun(k) ==
    LET c == call[k].content
        e == call[k].event IN
    /\ call[k].at = "find"
    /\ run[c.run].status # "none" =>
          \A o \in Others(k) : ~ HoldsRun(o, c.run)
    /\ \/ OutOfOrder(c) /\ WriteIgnored(e) /\ Return(k) /\ UNCHANGED aborted
       \/ ~ OutOfOrder(c) /\ Illegal(c) /\ RollBack(k, "22023")
       \/ /\ ~ OutOfOrder(c) /\ ~ Illegal(c)
          /\ call' = [call EXCEPT ![k].at = "upsert",
                                  ![k].seen = run[c.run]]
          /\ UNCHANGED vars

\* insert into workflow_runs ... on conflict do update: waits for whoever is
\* inserting or updating that run; steps and incidents follow.
UpsertRun(k) ==
    /\ call[k].at = "upsert"
    /\ \A o \in Others(k) : ~ HoldsRun(o, call[k].content.run)
    /\ Goto(k, "touch")
    /\ UNCHANGED vars

\* Mutant of TouchSource: the update does not wait for the other readers.
TouchSharedSource(k) ==
    /\ call[k].at = "touch"
    /\ Goto(k, "commit")
    /\ UNCHANGED vars

\* update integration_sources set last_event_at
TouchSource(k) ==
    /\ call[k].at = "touch"
    /\ \A o \in Others(k) :
          ~ HoldsSourceShared(o, SourceOf[call[k].event])
    /\ Goto(k, "commit")
    /\ UNCHANGED vars

\* All that was written becomes visible.
Commit(k) ==
    LET c == call[k].content
        e == call[k].event IN
    /\ call[k].at = "commit"
    /\ audit[e] < MaxApplications
    /\ WriteApplied(e, c)
    /\ Return(k)
    /\ UNCHANGED aborted

\* A statement raises, or waits in a circle and is chosen as the victim.
StatementFails(k) ==
    /\ call[k].at # "idle"
    /\ RollBack(k, "other")

\* exception when others: the update waits for the raw event like any other.
RunHandler(k) ==
    /\ aborted[k] # NoCall
    /\ \A o \in Others(k) : ~ HoldsRaw(o, aborted[k].event)
    /\ RecordFailure(k)
    /\ UNCHANGED call

\* Mutant of UpdateSourceStatus: nobody who shares the source is waited for.
UpdateSourceAtOnce(s, status) == SetSourceStatus(s, status) /\ UNCHANGED call

\* A manager's update waits for the calls that share the source.
UpdateSourceStatus(s, status) ==
    /\ \A k \in Calls : ~ HoldsSourceShared(k, s)
    /\ SetSourceStatus(s, status)
    /\ UNCHANGED call

Statement(k) ==
    \/ ShareSource(k) \/ FindRun(k) \/ UpsertRun(k) \/ TouchSource(k)
    \/ Commit(k) \/ StatementFails(k) \/ RunHandler(k)

TxNext ==
    \/ \E e \in Raw : ReceiveRaw(e) /\ UNCHANGED call
    \/ \E k \in Calls : Statement(k)
    \/ \E k \in Calls, e \in Raw : \E c \in PayloadsFor(e) : LockRaw(k, e, c)
    \/ \E r \in Runs : \E i \in DOMAIN incidents[r] :
          \E target \in IncidentStatuses :
             TransitionIncident(r, i, target) /\ UNCHANGED call
    \/ \E s \in Sources, status \in SourceStatuses :
          UpdateSourceStatus(s, status)

TxSpec == TxInit /\ [][TxNext]_txVars

-----------------------------------------------------------------------------
(* What the locks promise.                                                 *)

\* A call that has looked at its run finds it unchanged, and its source
\* active, until it commits: even a call that saw no run, and therefore
\* locked none, is not overtaken by another call that inserts it.
SeenIsCurrent ==
    \A k \in Calls :
        call[k].at \in {"upsert", "touch", "commit"} =>
            /\ call[k].seen = run[call[k].content.run]
            /\ SourceActive(call[k].event)

\* One call at most is between the update of a source and its commit, and no
\* other call has read that source since.
CommitAlone ==
    \A k, o \in Calls :
        /\ call[k].at = "commit"
        /\ HoldsSourceShared(o, SourceOf[call[k].event])
        => k = o

\* Statement by statement, the function does what CanonicalEvents says it
\* does in one step.
ImplementsCanonicalEvents == Spec
=============================================================================
