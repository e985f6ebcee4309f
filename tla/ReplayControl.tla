--------------------------- MODULE ReplayControl ---------------------------
(***************************************************************************)
(* Controlled replay: an operator requests the replay of a failed run      *)
(* (request_replay), an administrator decides (decide_replay_request), and *)
(* a consumer of the replay queue creates the linked run                   *)
(* (process_replay_job, called by process-queues).  A job is queued when   *)
(* the replay is requested and another one when it is approved; the first  *)
(* is archived without effect unless it is read after the approval.        *)
(*                                                                         *)
(* A request is found by its idempotency key, so keys stand for the rows   *)
(* of replay_requests.  A failing process_replay_job is one step: the      *)
(* request's status "processing" is never committed, so the handler finds  *)
(* no row to update, whatever runs between the rollback and the handler.   *)
(***************************************************************************)
EXTENDS Integers, FiniteSets, RunStates

CONSTANTS
    Keys,             \* idempotency keys clients use
    Runs,             \* runs that may be replayed
    Workers,          \* concurrent runs of process-queues
    NoRun, NoJob,     \* no run; no current job
    DeadLetterReads,  \* reads that make a failing job a dead letter; 5
    MaxFaults         \* bound: calls that fail and functions that are killed

ASSUME ReplayAssumption ==
    /\ DeadLetterReads \in Nat \ {0}
    /\ MaxFaults \in Nat
    /\ NoRun \notin Runs

VARIABLES
    status,     \* per run: its status
    request,    \* per key: status and run of the request, and its effect
    succeeded,  \* per key: its replay.succeeded audit rows
    msg,        \* per job: where it is, and read_ct
    dead,       \* per job: entries in the dead-letter queue
    worker,     \* per worker: its batch of jobs, the current one, its step
    faults      \* failures so far

queueVars == <<msg, dead>>
vars == <<status, request, succeeded, queueVars, worker, faults>>

\* The job of the request and the job of the approval.
JobNames == Keys \X {"requested", "approved"}

RequestStatuses ==
    {"none", "pending", "approved", "processing", "succeeded", "failed",
     "rejected"}
OpenStatuses == {"pending", "approved", "processing"}
ClosedStatuses == {"succeeded", "failed", "rejected"}
Replayable == {"failed", "timed_out", "cancelled"}
Job == [name : JobNames, reads : 1..DeadLetterReads]

TypeOK ==
    /\ status \in [Runs -> RunStatuses]
    /\ request \in [Keys -> [status : RequestStatuses, run : Runs \cup {NoRun},
                             replayed : BOOLEAN]]
    /\ succeeded \in [Keys -> Nat]
    /\ msg \in [JobNames -> [place : {"none", "visible", "hidden", "archived",
                                      "deleted"},
                             reads : 0..DeadLetterReads]]
    /\ dead \in [JobNames -> Nat]
    /\ worker \in [Workers -> [at : {"idle", "call", "archive", "dead_letter"},
                               batch : SUBSET Job, job : Job \cup {NoJob}]]
    /\ faults \in 0..MaxFaults

IdleWorker == [at |-> "idle", batch |-> {}, job |-> NoJob]

Init ==
    /\ status \in [Runs -> {"running", "failed"}]
    /\ request = [k \in Keys |-> [status |-> "none", run |-> NoRun,
                                  replayed |-> FALSE]]
    /\ succeeded = [k \in Keys |-> 0]
    /\ msg = [m \in JobNames |-> [place |-> "none", reads |-> 0]]
    /\ dead = [m \in JobNames |-> 0]
    /\ worker = [w \in Workers |-> IdleWorker]
    /\ faults = 0

InQueue(m) == msg[m].place \in {"visible", "hidden"}

Fault == faults < MaxFaults /\ faults' = faults + 1

Send(m) == msg' = [msg EXCEPT ![m] = [place |-> "visible", reads |-> 0]]

-----------------------------------------------------------------------------
(* The console.                                                            *)

\* apply_canonical_event ends a run; a terminal run stays as it is.
EndRun(r) ==
    /\ \E s \in TerminalStatuses :
          /\ IsLegalRunTransition(status[r], s)
          /\ status[r] # s
          /\ status' = [status EXCEPT ![r] = s]
    /\ UNCHANGED <<request, succeeded, queueVars, worker, faults>>

\* Mutant of ActiveReplay: only an undecided request counts.
PendingReplay(r) ==
    \E k \in Keys : request[k].run = r /\ request[k].status = "pending"

\* one_active_replay_per_run
ActiveReplay(r) ==
    \E k \in Keys : request[k].run = r /\ request[k].status \in OpenStatuses

\* Mutant of RequestReplay: a key may be used again once its request closed.
RequestKeyAgain(k, r) ==
    /\ status[r] \in Replayable
    /\ request[k].status \notin OpenStatuses
    /\ ~ ActiveReplay(r)
    /\ request' = [request EXCEPT ![k].status = "pending", ![k].run = r]
    /\ Send(<<k, "requested">>)
    /\ UNCHANGED <<status, succeeded, dead, worker, faults>>

\* request_replay with a key that is not in use: the row and its job.
RequestReplay(k, r) ==
    /\ status[r] \in Replayable
    /\ request[k].status = "none"
    /\ ~ ActiveReplay(r)
    /\ request' = [request EXCEPT ![k].status = "pending", ![k].run = r]
    /\ Send(<<k, "requested">>)
    /\ UNCHANGED <<status, succeeded, dead, worker, faults>>

\* request_replay with a key in use returns the row of that key, whichever
\* run it is for, and changes nothing.
RequestAgain(k, r) ==
    /\ status[r] \in Replayable
    /\ request[k].status # "none"
    /\ UNCHANGED vars

\* Mutants of Decide: a decision may be taken again; nothing is queued.
DecideAgain(k, decision) ==
    /\ request[k].status # "none"
    /\ request' = [request EXCEPT ![k].status = decision]
    /\ IF decision = "approved" THEN Send(<<k, "approved">>)
                                ELSE UNCHANGED msg
    /\ UNCHANGED <<status, succeeded, dead, worker, faults>>

DecideSilently(k, decision) ==
    /\ request[k].status = "pending"
    /\ request' = [request EXCEPT ![k].status = decision]
    /\ UNCHANGED <<status, succeeded, queueVars, worker, faults>>

\* decide_replay_request
Decide(k, decision) ==
    /\ request[k].status = "pending"
    /\ request' = [request EXCEPT ![k].status = decision]
    /\ IF decision = "approved" THEN Send(<<k, "approved">>)
                                ELSE UNCHANGED msg
    /\ UNCHANGED <<status, succeeded, dead, worker, faults>>

-----------------------------------------------------------------------------
(* process_replay_job: the effect on request k, and the outcome.           *)

\* Mutant of Replay: a request that succeeded is replayed by the second job.
ReplayAgain(k) ==
    /\ request[k].status \in {"approved", "succeeded"}
    /\ request' = [request EXCEPT ![k].status = "succeeded",
                                  ![k].replayed = TRUE]
    /\ succeeded' = [succeeded EXCEPT ![k] = @ + 1]

Replay(k) ==
    /\ request[k].status = "approved"
    /\ request' = [request EXCEPT ![k].status = "succeeded",
                                  ![k].replayed = TRUE]
    /\ succeeded' = [succeeded EXCEPT ![k] = @ + 1]

\* already_terminal or awaiting_approval: the consumer archives the job.
NothingToReplay(k) ==
    /\ request[k].status # "approved"
    /\ UNCHANGED <<request, succeeded>>

\* The block is rolled back, and the handler looks for a request that is
\* still being processed.
ReplayFails(k) ==
    /\ request[k].status = "approved"
    /\ request' = [request EXCEPT
                     ![k].status = IF @ = "processing" THEN "failed" ELSE @]
    /\ UNCHANGED succeeded

-----------------------------------------------------------------------------
(* The replay queue and its consumers.                                     *)

Visible == {m \in JobNames : msg[m].place = "visible"}

\* pgmq counts a read; the model counts no further than the threshold.
NextRead(n) == IF n < DeadLetterReads THEN n + 1 ELSE n

\* Mutant of JobRead: read_ct as it was before this read.
JobBeforeRead(m) == [name |-> m, reads |-> msg[m].reads]

\* The row of a job, as pgmq.read returns it: read_ct counts this read.
JobRead(m) == [name |-> m, reads |-> NextRead(msg[m].reads)]

\* read_platform_jobs; fewer jobs are ever open than the ten a read takes.
ReadJobs(w) ==
    /\ worker[w] = IdleWorker
    /\ Visible # {}
    /\ msg' = [m \in JobNames |->
                 IF m \in Visible
                 THEN [place |-> "hidden", reads |-> NextRead(msg[m].reads)]
                 ELSE msg[m]]
    /\ worker' = [worker EXCEPT ![w].batch = {JobRead(m) : m \in Visible}]
    /\ UNCHANGED <<status, request, succeeded, dead, faults>>

VisibilityTimeout(m) ==
    /\ msg[m].place = "hidden"
    /\ msg' = [msg EXCEPT ![m].place = "visible"]
    /\ UNCHANGED <<status, request, succeeded, dead, worker, faults>>

Remove(m, place) ==
    msg' = IF InQueue(m) THEN [msg EXCEPT ![m].place = place] ELSE msg

EndJob(w) == worker' = [worker EXCEPT ![w].at = "idle", ![w].job = NoJob]

\* catch: dead-letter the job if it was read too often, else leave it hidden.
FailJob(w) ==
    worker' = [worker EXCEPT
                 ![w] = IF @.job.reads >= DeadLetterReads
                        THEN [@ EXCEPT !.at = "dead_letter"]
                        ELSE [@ EXCEPT !.at = "idle", !.job = NoJob]]

StartJob(w) ==
    /\ worker[w].at = "idle"
    /\ \E j \in worker[w].batch :
          worker' = [worker EXCEPT ![w].batch = @ \ {j}, ![w].at = "call",
                                   ![w].job = j]
    /\ UNCHANGED <<status, request, succeeded, queueVars, faults>>

\* process_replay_job returns any outcome but "failed".
ProcessReplay(w) ==
    /\ worker[w].at = "call"
    /\ LET k == worker[w].job.name[1] IN Replay(k) \/ NothingToReplay(k)
    /\ worker' = [worker EXCEPT ![w].at = "archive"]
    /\ UNCHANGED <<status, queueVars, faults>>

\* process_replay_job fails, or its answer is lost, or it is never reached.
ReplayCallFails(w) ==
    /\ worker[w].at = "call"
    /\ LET k == worker[w].job.name[1] IN
          \/ ReplayFails(k)
          \/ Replay(k)
          \/ UNCHANGED <<request, succeeded>>
    /\ FailJob(w)
    /\ Fault
    /\ UNCHANGED <<status, queueVars>>

ArchiveJob(w) ==
    /\ worker[w].at = "archive"
    /\ Remove(worker[w].job.name, "archived")
    /\ EndJob(w)
    /\ UNCHANGED <<status, request, succeeded, dead, faults>>

\* archive_platform_job fails, before or after its work.
ArchiveFails(w) ==
    /\ worker[w].at = "archive"
    /\ Remove(worker[w].job.name, "archived") \/ UNCHANGED msg
    /\ FailJob(w)
    /\ Fault
    /\ UNCHANGED <<status, request, succeeded, dead>>

BuryJob(m) ==
    /\ dead' = [dead EXCEPT ![m] = @ + 1]
    /\ Remove(m, "deleted")

DeadLetterJob(w) ==
    /\ worker[w].at = "dead_letter"
    /\ BuryJob(worker[w].job.name)
    /\ EndJob(w)
    /\ UNCHANGED <<status, request, succeeded, faults>>

\* deadLetter throws, with or without effect: the batch is abandoned.  It
\* follows a failure that was counted, so this one needs no bound.
DeadLetterThrows(w) ==
    /\ worker[w].at = "dead_letter"
    /\ BuryJob(worker[w].job.name) \/ UNCHANGED queueVars
    /\ worker' = [worker EXCEPT ![w] = IdleWorker]
    /\ UNCHANGED <<status, request, succeeded, faults>>

Crash(w) ==
    /\ worker[w] # IdleWorker
    /\ worker' = [worker EXCEPT ![w] = IdleWorker]
    /\ Fault
    /\ UNCHANGED <<status, request, succeeded, queueVars>>

WorkerStep(w) ==
    StartJob(w) \/ ProcessReplay(w) \/ ArchiveJob(w) \/ DeadLetterJob(w)

Next ==
    \/ \E r \in Runs : EndRun(r)
    \/ \E k \in Keys, r \in Runs : RequestReplay(k, r) \/ RequestAgain(k, r)
    \/ \E k \in Keys, d \in {"approved", "rejected"} : Decide(k, d)
    \/ \E w \in Workers :
          \/ ReadJobs(w) \/ WorkerStep(w)
          \/ ReplayCallFails(w) \/ ArchiveFails(w)
          \/ DeadLetterThrows(w) \/ Crash(w)
    \/ \E m \in JobNames : VisibilityTimeout(m)

\* As for the event queue: Cron, workers that are not killed, timeouts.
Fairness ==
    /\ \A w \in Workers : WF_vars(ReadJobs(w)) /\ WF_vars(WorkerStep(w))
    /\ \A m \in JobNames : WF_vars(VisibilityTimeout(m))

SafeSpec == Init /\ [][Next]_vars
Spec == SafeSpec /\ Fairness

-----------------------------------------------------------------------------
(* What controlled replay promises.                                        *)

\* A request creates at most one run, and only a request that was approved
\* and stays succeeded does, although two jobs and any number of workers and
\* retries may process it.
ReplayedOnce ==
    \A k \in Keys :
        /\ succeeded[k] <= 1
        /\ succeeded[k] = 1 <=> request[k].status = "succeeded"
        /\ request[k].replayed <=> request[k].status = "succeeded"

\* Only a run that failed is replayed, and at most one request of a run is
\* open: the row lock and the two unique indices leave no gap.
OneOpenReplayPerRun ==
    /\ \A k \in Keys : request[k].status # "none" =>
          status[request[k].run] \in Replayable
    /\ \A k1, k2 \in Keys :
          /\ request[k1].status \in OpenStatuses
          /\ request[k2].status \in OpenStatuses
          /\ request[k1].run = request[k2].run
          => k1 = k2

\* A decision is final: no step leaves a closed request, none takes an
\* approval back, and a request succeeds only out of an approval.
DecisionIsFinal ==
    [][\A k \in Keys :
          LET old == request[k].status
              new == request'[k].status IN
          /\ old \in ClosedStatuses => new = old
          /\ old = "approved" => new \in {"approved", "succeeded", "failed"}
          /\ new = "succeeded" => old \in {"approved", "succeeded"}]_vars

\* An approved request has not been forgotten by the queue: a job for it is
\* still there, or was moved to the dead letters.
ApprovedHasJob ==
    \A k \in Keys : request[k].status = "approved" =>
        InQueue(<<k, "approved">>) \/ dead[<<k, "approved">>] > 0

\* An approved request is replayed, unless its job becomes a dead letter.
ApprovedIsServed ==
    \A k \in Keys :
        request[k].status = "approved" ~>
            \/ request[k].status = "succeeded"
            \/ dead[<<k, "approved">>] > 0

\* ARCHITECTURE.md draws a transition processing --> failed: when both jobs
\* of an approved request have gone and no worker has one, it has failed.
FailureIsRecorded ==
    \A k \in Keys :
        request[k].status = "approved" =>
            \/ \E kind \in {"requested", "approved"} : InQueue(<<k, kind>>)
            \/ \E w \in Workers : worker[w] # IdleWorker
-----------------------------------------------------------------------------
(* The abstract specification it implements.                               *)

OpenFor(r) ==
    {k \in Keys : request[k].run = r /\ request[k].status \in OpenStatuses}

\* The open requests of a run.
TurnOf(r) ==
    {[key |-> k, granted |-> request[k].status # "pending"] : k \in OpenFor(r)}

Turns == INSTANCE ReplayTurns WITH
    turn  <- [r \in Runs |-> TurnOf(r)],
    spent <- {k \in Keys : request[k].status # "none"},
    made  <- succeeded

\* Whatever fails, is killed, is read twice or late: each run has one replay
\* open at a time, and each request makes a run once, out of its own approval.
ImplementsTurns == Turns!Spec
=============================================================================
