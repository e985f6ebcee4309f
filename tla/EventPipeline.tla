--------------------------- MODULE EventPipeline ---------------------------
(***************************************************************************)
(* The way of a provider event from the webhook to the database:           *)
(* ingest-execution-event stores it and queues a job for it; the queue     *)
(* hands the job to the consumers (process-queues, started by Cron every   *)
(* two minutes, so that several may run at once) and hides it for a        *)
(* visibility timeout; a consumer normalizes the event, applies it with    *)
(* apply_canonical_event and archives the job, or dead-letters it after    *)
(* too many reads.  FastAPI's /internal/process-event calls                *)
(* apply_canonical_event without the queue.                                *)
(*                                                                         *)
(* Every call of an Edge Function is a request of its own: it may fail     *)
(* before or after the database has done its work, and the function may be *)
(* killed between two calls.  MaxFaults bounds these failures.             *)
(***************************************************************************)
EXTENDS CanonicalEvents, FiniteSets

CONSTANTS
    Deliveries,       \* the webhook requests a provider may send
    Workers,          \* concurrent runs of process-queues
    Direct,           \* concurrent requests to FastAPI's process-event
    Malformed,        \* a payload that no adapter can normalize
    NoJob,            \* a worker between two jobs
    BatchSize,        \* jobs one read may take; 10
    DeadLetterReads,  \* reads that make a failing job a dead letter; 5
    MaxFaults         \* bound: calls that fail or functions that are killed

ASSUME PipelineAssumption ==
    /\ Calls = Workers \cup Direct
    /\ IsFiniteSet(Workers)
    /\ BatchSize \in Nat \ {0}
    /\ DeadLetterReads \in Nat \ {0}
    /\ MaxFaults \in Nat
    /\ Malformed \notin Payloads

VARIABLES
    payload,    \* per raw event: what its stored payload normalizes to
    delivery,   \* per request: how far it is, and the event it carries
    msg,        \* per raw event: its job in the queue, and read_ct
    dead,       \* per raw event: entries in the dead-letter queue
    worker,     \* per worker: the jobs of its batch, the current one, its step
    faults      \* failures so far

intakeVars == <<payload, delivery>>
queueVars == <<msg, dead>>
pipelineVars == <<vars, intakeVars, queueVars, worker, faults>>

DeliverySteps ==
    {"idle", "checked", "inserted", "queued", "accepted", "duplicate", "error"}
JobPlaces == {"none", "visible", "hidden", "archived", "deleted"}
WorkerSteps == {"idle", "apply", "handler", "archive", "dead_letter"}
Job == [event : Raw, reads : 1..DeadLetterReads]

PipelineTypeOK ==
    /\ TypeOK
    /\ payload \in [Raw -> Payloads \cup {Malformed}]
    /\ delivery \in [Deliveries -> [at : DeliverySteps, event : Raw]]
    /\ msg \in [Raw -> [place : JobPlaces, reads : 0..DeadLetterReads]]
    /\ dead \in [Raw -> Nat]
    /\ worker \in [Workers -> [at : WorkerSteps, batch : SUBSET Job,
                               job : Job \cup {NoJob}]]
    /\ faults \in 0..MaxFaults

IdleWorker == [at |-> "idle", batch |-> {}, job |-> NoJob]

\* protect_raw_original_payload keeps a stored payload as it arrived, so what
\* it normalizes to is fixed from the start.
PipelineInit ==
    /\ Init
    /\ payload \in {p \in [Raw -> Payloads \cup {Malformed}] :
                      \A e \in Raw : p[e] \in PayloadsFor(e) \cup {Malformed}}
    /\ delivery \in {[d \in Deliveries |-> [at |-> "idle", event |-> f[d]]] :
                       f \in [Deliveries -> Raw]}
    /\ msg = [e \in Raw |-> [place |-> "none", reads |-> 0]]
    /\ dead = [e \in Raw |-> 0]
    /\ worker = [w \in Workers |-> IdleWorker]
    /\ faults = 0

InQueue(e) == msg[e].place \in {"visible", "hidden"}

Fault == faults < MaxFaults /\ faults' = faults + 1

-----------------------------------------------------------------------------
(* ingest-execution-event: one request, call by call.                      *)

Advance(d, from, to) ==
    /\ delivery[d].at = from
    /\ delivery' = [delivery EXCEPT ![d].at = to]
    /\ UNCHANGED payload

\* The source is read and is active; key, signature and body are good.
CheckRequest(d) ==
    /\ Advance(d, "idle", "checked")
    /\ SourceActive(delivery[d].event)
    /\ UNCHANGED <<vars, queueVars, worker, faults>>

\* The row is inserted; the source is not looked at again.
InsertRaw(d) ==
    /\ Advance(d, "checked", "inserted")
    /\ ReceiveRaw(delivery[d].event)
    /\ UNCHANGED <<queueVars, worker, faults>>

\* Mutant of AnswerDuplicate: the duplicate is queued too.
QueueDuplicate(d) ==
    /\ Advance(d, "checked", "inserted")
    /\ Exists(delivery[d].event)
    /\ UNCHANGED <<vars, queueVars, worker, faults>>

\* The unique index knows the event: 200, and nothing else is done.
AnswerDuplicate(d) ==
    /\ Advance(d, "checked", "duplicate")
    /\ Exists(delivery[d].event)
    /\ UNCHANGED <<vars, queueVars, worker, faults>>

EnqueueJob(d) ==
    /\ Advance(d, "inserted", "queued")
    /\ msg' = [msg EXCEPT ![delivery[d].event] = [place |-> "visible",
                                                   reads |-> 0]]
    /\ UNCHANGED <<vars, dead, worker, faults>>

\* 202, after last_used_at of the active credential is set.
AnswerAccepted(d) ==
    /\ Advance(d, "queued", "accepted")
    /\ UNCHANGED <<vars, queueVars, worker, faults>>

\* A call fails (500) or the function is killed: what was done stays done.
IngestFails(d) ==
    /\ \E step \in {"checked", "inserted", "queued"} :
          Advance(d, step, "error")
    /\ Fault
    /\ UNCHANGED <<vars, queueVars, worker>>

-----------------------------------------------------------------------------
(* The queue.                                                              *)

Visible == {e \in Raw : msg[e].place = "visible"}

\* pgmq counts a read; the model counts no further than the threshold.
NextRead(n) == IF n < DeadLetterReads THEN n + 1 ELSE n

\* Mutant of JobRead: read_ct as it was before this read.
JobBeforeRead(e) == [event |-> e, reads |-> msg[e].reads]

\* The row of a job, as pgmq.read returns it: read_ct counts this read.
JobRead(e) == [event |-> e, reads |-> NextRead(msg[e].reads)]

\* read_platform_jobs: up to BatchSize visible jobs are hidden and counted;
\* the worker keeps the read_ct it was given.
ReadJobs(w) ==
    /\ worker[w] = IdleWorker
    /\ \E B \in SUBSET Visible :
          /\ B # {}
          /\ B = Visible \/ Cardinality(B) = BatchSize
          /\ Cardinality(B) <= BatchSize
          /\ msg' = [e \in Raw |->
                       IF e \in B
                       THEN [place |-> "hidden",
                             reads |-> NextRead(msg[e].reads)]
                       ELSE msg[e]]
          /\ worker' = [worker EXCEPT ![w].batch = {JobRead(e) : e \in B}]
    /\ UNCHANGED <<vars, intakeVars, dead, faults>>

\* The timeout of a job that was neither archived nor deleted runs out,
\* whether or not the worker that read it is still at work.
VisibilityTimeout(e) ==
    /\ msg[e].place = "hidden"
    /\ msg' = [msg EXCEPT ![e].place = "visible"]
    /\ UNCHANGED <<vars, intakeVars, dead, worker, faults>>

\* Mutant of Remove: a job that has left the queue is moved all the same.
RemoveAny(e, place) == msg' = [msg EXCEPT ![e].place = place]

\* pgmq.archive and pgmq.delete work on a job that is still in the queue.
Remove(e, place) ==
    msg' = IF InQueue(e) THEN [msg EXCEPT ![e].place = place] ELSE msg

-----------------------------------------------------------------------------
(* process-queues: one worker, call by call.                               *)

\* The current job is done with, one way or the other.
EndJob(w) == worker' = [worker EXCEPT ![w].at = "idle", ![w].job = NoJob]

\* Mutants of AfterFailure: one read too early, and never.
AfterFailureEarly(u, j) ==
    IF j.reads >= DeadLetterReads - 1
    THEN [u EXCEPT !.at = "dead_letter", !.job = j]
    ELSE [u EXCEPT !.at = "idle", !.job = NoJob]

AfterFailureForever(u, j) == [u EXCEPT !.at = "idle", !.job = NoJob]

\* catch: dead-letter the job if it was read too often, else leave it hidden.
AfterFailure(u, j) ==
    IF j.reads >= DeadLetterReads
    THEN [u EXCEPT !.at = "dead_letter", !.job = j]
    ELSE [u EXCEPT !.at = "idle", !.job = NoJob]

FailJob(w, j) == worker' = [worker EXCEPT ![w] = AfterFailure(@, j)]

\* The next job of the batch is taken: its raw event is loaded and
\* normalized.  The adapter throws on a malformed payload; a load may fail.
\* (The jobs of a batch come in no particular order.)
StartJob(w) ==
    /\ worker[w].at = "idle"
    /\ \E j \in worker[w].batch :
          LET rest == [worker[w] EXCEPT !.batch = @ \ {j}] IN
          \/ /\ payload[j.event] # Malformed
             /\ worker' = [worker EXCEPT ![w] = [rest EXCEPT !.at = "apply",
                                                              !.job = j]]
             /\ UNCHANGED faults
          \/ /\ \/ payload[j.event] = Malformed /\ UNCHANGED faults
                \/ Fault
             /\ worker' = [worker EXCEPT ![w] = AfterFailure(rest, j)]
    /\ UNCHANGED <<vars, intakeVars, queueVars>>

\* apply_canonical_event returns normally, and its answer arrives.
ApplyJob(w) ==
    /\ worker[w].at = "apply"
    /\ LET e == worker[w].job.event IN Succeed(w, e, payload[e])
    /\ worker' = [worker EXCEPT ![w].at = "archive"]
    /\ UNCHANGED <<intakeVars, queueVars, faults>>

\* apply_canonical_event is rolled back; an unforeseen error is a fault.
ApplyAborts(w) ==
    /\ worker[w].at = "apply"
    /\ \E code \in {"55000", "22023", "other"} :
          /\ LET e == worker[w].job.event IN Abort(w, e, payload[e], code)
          /\ IF code = "other" THEN Fault ELSE UNCHANGED faults
    /\ worker' = [worker EXCEPT ![w].at = "handler"]
    /\ UNCHANGED <<intakeVars, queueVars>>

\* Mutant of ApplyFails: the worker archives whatever it was told.
ArchiveFailed(w) ==
    /\ worker[w].at = "handler"
    /\ RecordFailure(w)
    /\ worker' = [worker EXCEPT ![w].at = "archive"]
    /\ UNCHANGED <<intakeVars, queueVars, faults>>

\* The handler records the failure, and the worker is told.
ApplyFails(w) ==
    /\ worker[w].at = "handler"
    /\ RecordFailure(w)
    /\ FailJob(w, worker[w].job)
    /\ UNCHANGED <<intakeVars, queueVars, faults>>

\* The handler runs although the worker no longer waits for its answer.
HandlerRuns(w) ==
    /\ worker[w].at # "handler"
    /\ RecordFailure(w)
    /\ UNCHANGED <<intakeVars, queueVars, worker, faults>>

ArchiveJob(w) ==
    /\ worker[w].at = "archive"
    /\ Remove(worker[w].job.event, "archived")
    /\ EndJob(w)
    /\ UNCHANGED <<vars, intakeVars, dead, faults>>

\* Mutant of BuryJob: the job is deleted and not sent.
DropJob(e) == UNCHANGED dead /\ Remove(e, "deleted")

\* dead_letter_platform_job sends first and deletes what it may find.
BuryJob(e) ==
    /\ dead' = [dead EXCEPT ![e] = @ + 1]
    /\ Remove(e, "deleted")

DeadLetterJob(w) ==
    /\ worker[w].at = "dead_letter"
    /\ BuryJob(worker[w].job.event)
    /\ EndJob(w)
    /\ UNCHANGED <<vars, intakeVars, faults>>

\* A request is lost on its way: the worker sees an error, nothing was done
\* (or, in the handler, is not done yet).
CallFails(w) ==
    /\ worker[w].at \in {"apply", "handler", "archive"}
    /\ FailJob(w, worker[w].job)
    /\ Fault
    /\ UNCHANGED <<vars, intakeVars, queueVars>>

\* The answer is lost: the database has done its work, the worker sees an
\* error all the same.
AnswerLost(w) ==
    /\ \/ /\ worker[w].at = "apply"
          /\ LET e == worker[w].job.event IN Succeed(w, e, payload[e])
          /\ UNCHANGED queueVars
       \/ /\ worker[w].at = "archive"
          /\ Remove(worker[w].job.event, "archived")
          /\ UNCHANGED <<vars, dead>>
    /\ FailJob(w, worker[w].job)
    /\ Fault
    /\ UNCHANGED intakeVars

\* deadLetter throws inside the catch block: the rest of the batch is
\* abandoned.  The job may have been moved.
DeadLetterThrows(w) ==
    /\ worker[w].at = "dead_letter"
    /\ BuryJob(worker[w].job.event) \/ UNCHANGED queueVars
    /\ worker' = [worker EXCEPT ![w] = IdleWorker]
    /\ Fault
    /\ UNCHANGED <<vars, intakeVars>>

\* The Edge Function is killed.
Crash(w) ==
    /\ worker[w] # IdleWorker
    /\ worker' = [worker EXCEPT ![w] = IdleWorker]
    /\ Fault
    /\ UNCHANGED <<vars, intakeVars, queueVars>>

WorkerStep(w) ==
    \/ StartJob(w) \/ ApplyJob(w) \/ ApplyAborts(w) \/ ApplyFails(w)
    \/ HandlerRuns(w) \/ ArchiveJob(w) \/ DeadLetterJob(w)

-----------------------------------------------------------------------------
(* The rest of the system.                                                 *)

\* POST /internal/process-event: the caller sends the event it wants applied.
ProcessEvent(k) ==
    /\ \/ \E e \in Raw : \E c \in PayloadsFor(e) :
             \/ Succeed(k, e, c)
             \/ \E code \in {"55000", "22023", "other"} : Abort(k, e, c, code)
       \/ RecordFailure(k)
    /\ UNCHANGED <<intakeVars, queueVars, worker, faults>>

\* Operators and managers, who know nothing of the queue.
Operate ==
    /\ \/ \E r \in Runs : \E i \in DOMAIN incidents[r] :
             \E target \in IncidentStatuses : TransitionIncident(r, i, target)
       \/ \E s \in Sources, status \in SourceStatuses :
             SetSourceStatus(s, status)
    /\ UNCHANGED <<intakeVars, queueVars, worker, faults>>

Ingest(d) ==
    \/ CheckRequest(d) \/ InsertRaw(d) \/ AnswerDuplicate(d)
    \/ EnqueueJob(d) \/ AnswerAccepted(d) \/ IngestFails(d)

WorkerFault(w) ==
    CallFails(w) \/ AnswerLost(w) \/ DeadLetterThrows(w) \/ Crash(w)

PipelineNext ==
    \/ \E d \in Deliveries : Ingest(d)
    \/ \E w \in Workers : ReadJobs(w) \/ WorkerStep(w) \/ WorkerFault(w)
    \/ \E e \in Raw : VisibilityTimeout(e)
    \/ \E k \in Direct : ProcessEvent(k)
    \/ Operate

\* Cron keeps starting workers, a worker that is not killed goes on to the
\* end of its batch, and a visibility timeout runs out.
PipelineFairness ==
    /\ \A w \in Workers :
          /\ WF_pipelineVars(ReadJobs(w))
          /\ WF_pipelineVars(WorkerStep(w))
    /\ \A e \in Raw : WF_pipelineVars(VisibilityTimeout(e))

PipelineSafeSpec == PipelineInit /\ [][PipelineNext]_pipelineVars
PipelineSpec == PipelineSafeSpec /\ PipelineFairness

-----------------------------------------------------------------------------
(* What the pipeline promises.                                             *)

\* Consumers archive only after successful processing: an archived job's
\* event is processed, unless the handler of an overtaken call has turned it
\* into a failure that no job will retry.
ArchivedIsProcessed ==
    \A e \in Raw : msg[e].place = "archived" =>
        raw[e].state = "processed" \/ undone[e] > 0

\* An event answered with 202 is never lost: its job is in the queue, was
\* archived, or left an entry in the dead-letter queue.
AcceptedIsNotLost ==
    \A d \in Deliveries : delivery[d].at = "accepted" =>
        LET e == delivery[d].event IN
        InQueue(e) \/ msg[e].place = "archived" \/ dead[e] > 0

\* A dead letter was read DeadLetterReads times, and no worker makes more
\* than one entry of it: whoever deletes the job ends its redelivery.
DeadLettersEarned ==
    \A e \in Raw :
        /\ dead[e] > 0 => msg[e].reads = DeadLetterReads
        /\ dead[e] <= Cardinality(Workers)
        /\ msg[e].place = "deleted" => dead[e] > 0

\* At most one delivery of an event gets past the insert: the job is queued
\* once, so that a job can stand for its event.
OneDeliveryQueues ==
    \A d1, d2 \in Deliveries :
        /\ delivery[d1].event = delivery[d2].event
        /\ {delivery[d1].at, delivery[d2].at}
              \subseteq {"inserted", "queued", "accepted"}
        => d1 = d2

\* README: a signed event is accepted, preserved, and queued.  When the
\* webhook has answered 2xx for an event and is busy with none of its
\* deliveries, there is a job for it.
AcknowledgedIsQueued ==
    \A d \in Deliveries :
        delivery[d].at \in {"accepted", "duplicate"} =>
            \/ msg[delivery[d].event].place # "none"
            \/ \E d2 \in Deliveries :
                  /\ delivery[d2].event = delivery[d].event
                  /\ delivery[d2].at \in {"checked", "inserted"}

\* The abstract intake, seen through this mapping.
Fate(e) ==
    IF ~ Exists(e) THEN "unseen"
    ELSE IF InQueue(e) THEN "queued"
    ELSE IF msg[e].place = "archived" THEN "finished"
    ELSE IF msg[e].place = "deleted" THEN "buried"
    ELSE "stored"

Intake == INSTANCE DurableIntake WITH fate <- [e \in Raw |-> Fate(e)]

\* The pipeline implements the abstract intake: a job is queued once, leaves
\* the queue once, and does leave it.
ImplementsIntake == Intake!Spec
=============================================================================
