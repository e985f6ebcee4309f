------------------------ MODULE EventPipelineProofs ------------------------
(***************************************************************************)
(* What EventPipeline promises, for any number of deliveries, events,      *)
(* consumers and direct callers, any batch size, any threshold and any     *)
(* number of faults.                                                       *)
(***************************************************************************)
EXTENDS EventPipeline, CanonicalEventsProofs, FiniteSetTheorems

-----------------------------------------------------------------------------
(* Workers.                                                                *)

WorkerState == [at : WorkerSteps, batch : SUBSET Job, job : Job \cup {NoJob}]

\* A worker between two calls knows its job, and applies only what could be
\* normalized.
WorkerOK(u) ==
    /\ u \in WorkerState
    /\ u.at # "idle" => u.job \in Job
    /\ u.at = "apply" => payload[u.job.event] # Malformed

\* PipelineTypeOK is not inductive: to apply a payload of the right type, a
\* worker must have a job, the job's payload must be that of its event, and
\* a call whose handler has yet to run must concern a stored event.
PipelineInv ==
    /\ \A e \in Raw : payload[e] \in PayloadsFor(e) \cup {Malformed}
    /\ \A w \in Workers : WorkerOK(worker[w])
    /\ \A k \in Calls : aborted[k] # NoCall => Exists(aborted[k].event)

\* One worker moves, and no other part of the intake does.
WorkerMoves(w) ==
    /\ payload' = payload
    /\ \E u : WorkerOK(u) /\ worker' = [worker EXCEPT ![w] = u]

LEMMA AfterFailureOK ==
    ASSUME NEW u \in WorkerState, NEW j \in Job
    PROVE  /\ WorkerOK(AfterFailure(u, j))
           /\ AfterFailure(u, j).at \in {"idle", "dead_letter"}
BY DEF AfterFailure, WorkerOK, WorkerState, WorkerSteps

LEMMA EndJobOK ==
    ASSUME NEW u \in WorkerState
    PROVE  WorkerOK([[u EXCEPT !.at = "idle"] EXCEPT !.job = NoJob])
BY DEF WorkerOK, WorkerState, WorkerSteps

LEMMA IdleWorkerOK == WorkerOK(IdleWorker)
BY DEF WorkerOK, WorkerState, WorkerSteps, IdleWorker

LEMMA NextReadBounds ==
    ASSUME NEW n \in 0..DeadLetterReads
    PROVE  NextRead(n) \in 1..DeadLetterReads
BY PipelineAssumption DEF NextRead

LEMMA WorkerActionsOK ==
    ASSUME PipelineTypeOK, PipelineInv, NEW w \in Workers,
           ReadJobs(w) \/ WorkerStep(w) \/ WorkerFault(w)
    PROVE  WorkerMoves(w)
<1>. DEFINE u0 == worker[w]
<1>1. /\ u0 \in WorkerState
      /\ u0.at # "idle" => u0.job \in Job
      /\ u0.batch \subseteq Job
      /\ worker \in [Workers -> WorkerState]
  BY DEF PipelineInv, WorkerOK, PipelineTypeOK, WorkerState
<1>2. CASE ReadJobs(w)
  <2>1. PICK B \in SUBSET Visible :
          worker' = [worker EXCEPT ![w].batch = {JobRead(e) : e \in B}]
    BY <1>2 DEF ReadJobs
  <2>. DEFINE b == {JobRead(e) : e \in B}
  <2>2. b \in SUBSET Job
    <3>1. ASSUME NEW e \in B PROVE JobRead(e) \in Job
      BY NextReadBounds DEF JobRead, Job, PipelineTypeOK, Visible
    <3>. QED
      BY <3>1
  <2>3. worker' = [worker EXCEPT ![w] = [u0 EXCEPT !.batch = b]]
    BY <2>1
  <2>4. WorkerOK([u0 EXCEPT !.batch = b])
    <3>. HIDE DEF b
    <3>. QED
      BY <1>1, <1>2, <2>2 DEF WorkerOK, WorkerState, ReadJobs, IdleWorker
  <2>. QED
    BY <1>2, <2>3, <2>4 DEF ReadJobs, WorkerMoves, intakeVars
<1>3. CASE StartJob(w)
  <2>1. payload' = payload
    BY <1>3 DEF StartJob, intakeVars
  <2>2. PICK j \in u0.batch :
          LET rest == [u0 EXCEPT !.batch = @ \ {j}] IN
          \/ /\ payload[j.event] # Malformed
             /\ worker' = [worker EXCEPT ![w] = [rest EXCEPT !.at = "apply",
                                                              !.job = j]]
          \/ worker' = [worker EXCEPT ![w] = AfterFailure(rest, j)]
    BY <1>3 DEF StartJob
  <2>. DEFINE rest == [u0 EXCEPT !.batch = @ \ {j}]
  <2>3. j \in Job /\ rest \in WorkerState
    BY <1>1 DEF WorkerState
  <2>4. WorkerOK(AfterFailure(rest, j))
    BY <2>3, AfterFailureOK
  <2>5. payload[j.event] # Malformed =>
           WorkerOK([rest EXCEPT !.at = "apply", !.job = j])
    <3>. HIDE DEF rest
    <3>. QED
      BY <2>3 DEF WorkerOK, WorkerState, WorkerSteps
  <2>. QED
    BY <2>1, <2>2, <2>4, <2>5 DEF WorkerMoves
<1>4. ASSUME payload' = payload, worker' = worker PROVE WorkerMoves(w)
  <2>1. worker' = [worker EXCEPT ![w] = u0]
    BY <1>1, <1>4
  <2>. QED
    BY <1>4, <2>1 DEF WorkerMoves, PipelineInv
<1>5. ASSUME payload' = payload, u0.at # "idle", FailJob(w, u0.job)
      PROVE  WorkerMoves(w)
  BY <1>1, <1>5, AfterFailureOK DEF FailJob, WorkerMoves
<1>6. ASSUME payload' = payload, EndJob(w) PROVE WorkerMoves(w)
  <2>1. worker' = [worker EXCEPT
                     ![w] = [[u0 EXCEPT !.at = "idle"] EXCEPT !.job = NoJob]]
    BY <1>1, <1>6 DEF EndJob
  <2>. QED
    BY <1>1, <1>6, <2>1, EndJobOK DEF WorkerMoves
<1>7. ASSUME payload' = payload, u0.at # "idle",
             NEW step \in {"archive", "handler"},
             worker' = [worker EXCEPT ![w].at = step]
      PROVE  WorkerMoves(w)
  <2>1. worker' = [worker EXCEPT ![w] = [u0 EXCEPT !.at = step]]
    BY <1>7
  <2>2. WorkerOK([u0 EXCEPT !.at = step])
    BY <1>1, <1>7 DEF WorkerOK, WorkerState, WorkerSteps
  <2>. QED
    BY <1>7, <2>1, <2>2 DEF WorkerMoves
<1>8. ASSUME payload' = payload, worker' = [worker EXCEPT ![w] = IdleWorker]
      PROVE  WorkerMoves(w)
  BY <1>8, IdleWorkerOK DEF WorkerMoves
<1>9. CASE ApplyJob(w) \/ ApplyAborts(w)
  BY <1>7, <1>9 DEF ApplyJob, ApplyAborts, intakeVars
<1>10. CASE ApplyFails(w)
  BY <1>5, <1>10 DEF ApplyFails, intakeVars
<1>11. CASE HandlerRuns(w)
  BY <1>4, <1>11 DEF HandlerRuns, intakeVars
<1>12. CASE ArchiveJob(w) \/ DeadLetterJob(w)
  BY <1>6, <1>12 DEF ArchiveJob, DeadLetterJob, intakeVars
<1>13. CASE CallFails(w) \/ AnswerLost(w)
  BY <1>5, <1>13 DEF CallFails, AnswerLost, intakeVars
<1>14. CASE DeadLetterThrows(w) \/ Crash(w)
  BY <1>8, <1>14 DEF DeadLetterThrows, Crash, intakeVars
<1>. QED
  BY <1>2, <1>3, <1>9, <1>10, <1>11, <1>12, <1>13, <1>14
     DEF WorkerStep, WorkerFault

-----------------------------------------------------------------------------
(* The database.                                                           *)

\* A step of CanonicalEvents, or none, that stores no event.
CoreQuiet ==
    /\ [Next]_vars
    /\ \A e \in Raw : Exists(e)' <=> Exists(e)

LEMMA UnchangedQuiet == UNCHANGED vars => CoreQuiet
BY DEF CoreQuiet, Exists, vars

LEMMA SucceedQuiet ==
    ASSUME TypeOK, NEW k \in Calls, NEW e \in Raw, NEW c \in PayloadsFor(e),
           Succeed(k, e, c)
    PROVE  CoreQuiet
<1>1. Next
  BY DEF Next
<1>2. CASE AlreadyProcessed(k, e)
  BY <1>2, UnchangedQuiet DEF AlreadyProcessed
<1>3. CASE IgnoreOutOfOrder(k, e, c) \/ ApplyEvent(k, e, c)
  <2>1. /\ Exists(e)
        /\ raw'[e].state = "processed"
        /\ \A x \in Raw : x # e => raw'[x] = raw[x]
    BY <1>3
       DEF IgnoreOutOfOrder, WriteIgnored, ApplyEvent, WriteApplied, MayCall,
           TypeOK
  <2>. QED
    BY <1>1, <2>1 DEF CoreQuiet, Exists
<1>. QED
  BY <1>2, <1>3 DEF Succeed

LEMMA AbortQuiet ==
    ASSUME TypeOK, NEW k \in Calls, NEW e \in Raw, NEW c \in PayloadsFor(e),
           NEW code \in {"55000", "22023", "other"}, Abort(k, e, c, code)
    PROVE  CoreQuiet
<1>1. Next
  BY DEF Next
<1>. QED
  BY <1>1 DEF CoreQuiet, Abort, Exists

LEMMA RecordFailureQuiet ==
    ASSUME TypeOK, PipelineInv, NEW k \in Calls, RecordFailure(k)
    PROVE  CoreQuiet
<1>1. Next
  BY DEF Next
<1>2. /\ aborted[k].event \in Raw
      /\ Exists(aborted[k].event)
  BY DEF RecordFailure, PipelineInv, TypeOK, Failure
<1>3. \A e \in Raw : Exists(e)' <=> Exists(e)
  BY <1>2 DEF RecordFailure, Exists, TypeOK
<1>. QED
  BY <1>1, <1>3 DEF CoreQuiet

\* Whatever a consumer does, the database sees a call of
\* apply_canonical_event with the payload of a stored event, or nothing.
LEMMA WorkerCore ==
    ASSUME PipelineTypeOK, PipelineInv, NEW w \in Workers,
           ReadJobs(w) \/ WorkerStep(w) \/ WorkerFault(w)
    PROVE  CoreQuiet
<1>1. w \in Calls /\ TypeOK
  BY PipelineAssumption DEF PipelineTypeOK
<1>2. ASSUME worker[w].at = "apply"
      PROVE  /\ worker[w].job.event \in Raw
             /\ payload[worker[w].job.event]
                   \in PayloadsFor(worker[w].job.event)
  BY <1>2 DEF PipelineInv, WorkerOK, Job
<1>3. CASE UNCHANGED vars
  BY <1>3, UnchangedQuiet
<1>4. CASE ApplyJob(w)
  BY <1>1, <1>2, <1>4, SucceedQuiet DEF ApplyJob
<1>5. CASE ApplyAborts(w)
  BY <1>1, <1>2, <1>5, AbortQuiet DEF ApplyAborts
<1>6. CASE ApplyFails(w) \/ HandlerRuns(w)
  BY <1>1, <1>6, RecordFailureQuiet DEF ApplyFails, HandlerRuns
<1>7. CASE AnswerLost(w)
  <2>1. CASE UNCHANGED vars
    BY <2>1, UnchangedQuiet
  <2>2. CASE /\ worker[w].at = "apply"
             /\ Succeed(w, worker[w].job.event, payload[worker[w].job.event])
    BY <1>1, <1>2, <2>2, SucceedQuiet
  <2>. QED
    BY <1>7, <2>1, <2>2 DEF AnswerLost
<1>. QED
  BY <1>3, <1>4, <1>5, <1>6, <1>7
     DEF ReadJobs, WorkerStep, StartJob, ArchiveJob, DeadLetterJob,
         WorkerFault, CallFails, DeadLetterThrows, Crash

LEMMA DirectCore ==
    ASSUME PipelineTypeOK, PipelineInv, NEW k \in Direct, ProcessEvent(k)
    PROVE  CoreQuiet
<1>1. k \in Calls /\ TypeOK
  BY PipelineAssumption DEF PipelineTypeOK
<1>. QED
  BY <1>1, SucceedQuiet, AbortQuiet, RecordFailureQuiet DEF ProcessEvent

LEMMA OperateCore == Operate => CoreQuiet
<1>. SUFFICES ASSUME Operate PROVE CoreQuiet
  OBVIOUS
<1>1. Next /\ raw' = raw
  BY DEF Operate, Next, TransitionIncident, SetSourceStatus
<1>. QED
  BY <1>1 DEF CoreQuiet, Exists

\* Every step of the pipeline either stores one event or stores none.
LEMMA PipelineCore ==
    ASSUME PipelineTypeOK, PipelineInv, PipelineNext
    PROVE  \/ CoreQuiet /\ \A d \in Deliveries : ~ InsertRaw(d)
           \/ \E d \in Deliveries : InsertRaw(d)
<1>1. ASSUME NEW d \in Deliveries, Ingest(d)
      PROVE  InsertRaw(d) \/ CoreQuiet
  BY <1>1, UnchangedQuiet
     DEF Ingest, CheckRequest, AnswerDuplicate, EnqueueJob, AnswerAccepted,
         IngestFails
<1>2. ASSUME NEW e \in Raw, VisibilityTimeout(e) PROVE CoreQuiet
  BY <1>2, UnchangedQuiet DEF VisibilityTimeout
<1>. QED
  BY <1>1, <1>2, WorkerCore, DirectCore, OperateCore DEF PipelineNext

LEMMA PipelineRefines ==
    PipelineTypeOK /\ PipelineInv /\ [PipelineNext]_pipelineVars
        => [Next]_vars
<1>1. ASSUME NEW d \in Deliveries, InsertRaw(d), PipelineTypeOK PROVE Next
  BY <1>1 DEF InsertRaw, Next, PipelineTypeOK
<1>. QED
  BY <1>1, PipelineCore DEF CoreQuiet, pipelineVars

\* A failed call concerns a stored event.
LEMMA AbortedExistStep ==
    ASSUME TypeOK, [Next]_vars,
           \A k \in Calls : aborted[k] # NoCall => Exists(aborted[k].event)
    PROVE  \A k \in Calls :
              aborted'[k] # NoCall => Exists(aborted[k].event)'
<1>1. \A k \in Calls : aborted[k] # NoCall => aborted[k].event \in Raw
  BY DEF TypeOK, Failure
<1>2. ASSUME NEW x \in Raw, Exists(x) PROVE Exists(x)'
  <2>1. ASSUME NEW e \in Raw, ReceiveRaw(e) PROVE Exists(x)'
    BY <1>2, <2>1 DEF ReceiveRaw, Exists, TypeOK
  <2>2. ASSUME NEW k \in Calls, NEW e \in Raw, NEW c \in PayloadsFor(e),
               Succeed(k, e, c)
        PROVE  Exists(x)'
    BY <1>2, <2>2, SucceedQuiet DEF CoreQuiet
  <2>3. ASSUME NEW k \in Calls, RecordFailure(k) PROVE Exists(x)'
    BY <1>2, <2>3 DEF RecordFailure, Exists, TypeOK
  <2>4. CASE raw' = raw
    BY <1>2, <2>4 DEF Exists
  <2>. QED
    BY <2>1, <2>2, <2>3, <2>4
       DEF Next, vars, Abort, TransitionIncident, SetSourceStatus
<1>3. ASSUME NEW k \in Calls, aborted'[k] # NoCall
      PROVE  /\ aborted'[k].event \in Raw
             /\ Exists(aborted'[k].event)
  <2>1. CASE aborted' = aborted
    BY <1>1, <1>3, <2>1
  <2>2. ASSUME NEW o \in Calls, NEW e \in Raw, NEW c \in PayloadsFor(e),
               NEW code \in {"55000", "22023", "other"}, Abort(o, e, c, code)
        PROVE  aborted'[k].event \in Raw /\ Exists(aborted'[k].event)
    BY <1>1, <1>3, <2>2 DEF Abort, MayCall, TypeOK
  <2>3. ASSUME NEW o \in Calls, RecordFailure(o)
        PROVE  aborted'[k].event \in Raw /\ Exists(aborted'[k].event)
    BY <1>1, <1>3, <2>3 DEF RecordFailure, TypeOK
  <2>. QED
    BY <2>1, <2>2, <2>3
       DEF Next, vars, ReceiveRaw, Succeed, AlreadyProcessed,
           IgnoreOutOfOrder, ApplyEvent, TransitionIncident, SetSourceStatus
<1>4. ASSUME NEW k \in Calls, aborted'[k] # NoCall
      PROVE  Exists(aborted[k].event)'
  BY <1>2, <1>3, <1>4 DEF Exists
<1>. QED
  BY <1>4

-----------------------------------------------------------------------------
(* The queue.                                                              *)

\* What a consumer does to the queue: nothing, read, archive its job, or
\* move a job to the dead letters.
WorkerQueueStep(w) ==
    \/ UNCHANGED queueVars
    \/ ReadJobs(w)
    \/ /\ worker[w].at = "archive"
       /\ Remove(worker[w].job.event, "archived")
       /\ dead' = dead
    \/ \E e \in Raw : BuryJob(e)

LEMMA WorkerQueue ==
    ASSUME PipelineTypeOK, PipelineInv, NEW w \in Workers,
           ReadJobs(w) \/ WorkerStep(w) \/ WorkerFault(w)
    PROVE  /\ WorkerQueueStep(w)
           /\ delivery' = delivery
           /\ faults' \in {faults, faults + 1}
           /\ faults' # faults => faults < MaxFaults
<1>1. worker[w].at # "idle" => worker[w].job.event \in Raw
  BY DEF PipelineInv, WorkerOK, Job
<1>2. CASE ReadJobs(w) \/ StartJob(w)
  BY <1>2 DEF WorkerQueueStep, ReadJobs, StartJob, intakeVars, Fault
<1>3. CASE ApplyJob(w) \/ ApplyAborts(w) \/ ApplyFails(w) \/ HandlerRuns(w)
  BY <1>3
     DEF WorkerQueueStep, ApplyJob, ApplyAborts, ApplyFails, HandlerRuns,
         intakeVars, Fault
<1>4. CASE ArchiveJob(w)
  BY <1>4 DEF WorkerQueueStep, ArchiveJob, intakeVars
<1>5. CASE DeadLetterJob(w)
  BY <1>1, <1>5 DEF WorkerQueueStep, DeadLetterJob, intakeVars
<1>6. CASE CallFails(w) \/ Crash(w)
  BY <1>6 DEF WorkerQueueStep, CallFails, Crash, intakeVars, Fault
<1>7. CASE AnswerLost(w)
  BY <1>7 DEF WorkerQueueStep, AnswerLost, intakeVars, Fault
<1>8. CASE DeadLetterThrows(w)
  BY <1>1, <1>8 DEF WorkerQueueStep, DeadLetterThrows, intakeVars, Fault
<1>. QED
  BY <1>2, <1>3, <1>4, <1>5, <1>6, <1>7, <1>8 DEF WorkerStep, WorkerFault

\* Reading hides a job; it moves no job out of the queue nor into it.
LEMMA ReadMovesWithinQueue ==
    ASSUME PipelineTypeOK, NEW w \in Workers, ReadJobs(w), NEW e \in Raw
    PROVE  /\ msg'[e] \in [place : JobPlaces, reads : 0..DeadLetterReads]
           /\ \/ msg'[e] = msg[e]
              \/ msg[e].place = "visible" /\ msg'[e].place = "hidden"
<1>1. PICK B \in SUBSET Visible :
        msg' = [x \in Raw |-> IF x \in B
                              THEN [place |-> "hidden",
                                    reads |-> NextRead(msg[x].reads)]
                              ELSE msg[x]]
  BY DEF ReadJobs
<1>2. NextRead(msg[e].reads) \in 0..DeadLetterReads
  BY NextReadBounds DEF PipelineTypeOK
<1>. QED
  BY <1>1, <1>2 DEF PipelineTypeOK, JobPlaces, Visible

LEMMA PipelineTypeStep ==
    PipelineTypeOK /\ PipelineInv /\ [PipelineNext]_pipelineVars
        => PipelineTypeOK' /\ PipelineInv'
<1>. SUFFICES ASSUME PipelineTypeOK, PipelineInv, [PipelineNext]_pipelineVars
              PROVE  PipelineTypeOK' /\ PipelineInv'
  OBVIOUS
<1>1. [Next]_vars /\ TypeOK /\ TypeOK'
  BY PipelineRefines, TypeStep DEF PipelineTypeOK
<1>2. \A k \in Calls : aborted'[k] # NoCall => Exists(aborted[k].event)'
  BY <1>1, AbortedExistStep DEF PipelineInv
<1>. DEFINE MsgOK == msg \in [Raw -> [place : JobPlaces,
                                      reads : 0..DeadLetterReads]]
            DeadOK == dead \in [Raw -> Nat]
            DeliveryOK == delivery \in [Deliveries -> [at : DeliverySteps,
                                                       event : Raw]]
<1>3. MsgOK /\ DeadOK /\ DeliveryOK /\ faults \in 0..MaxFaults
      /\ MaxFaults \in Nat
  BY PipelineAssumption DEF PipelineTypeOK
<1>4. ASSUME NEW e \in Raw, NEW place \in {"archived", "deleted"},
             Remove(e, place)
      PROVE  MsgOK'
  BY <1>3, <1>4 DEF Remove, JobPlaces
<1>5. CASE UNCHANGED pipelineVars
  <2>1. /\ payload' = payload /\ worker' = worker /\ delivery' = delivery
        /\ msg' = msg /\ dead' = dead /\ faults' = faults
    BY <1>5 DEF pipelineVars, intakeVars, queueVars
  <2>. QED
    BY <1>1, <1>2, <2>1 DEF PipelineTypeOK, PipelineInv, WorkerOK
<1>6. ASSUME payload' = payload, worker' = worker, MsgOK', dead' = dead,
             DeliveryOK', faults' \in 0..MaxFaults
      PROVE  PipelineTypeOK' /\ PipelineInv'
  BY <1>1, <1>2, <1>6 DEF PipelineTypeOK, PipelineInv, WorkerOK
<1>7. ASSUME NEW d \in Deliveries, Ingest(d)
      PROVE  PipelineTypeOK' /\ PipelineInv'
  <2>1. payload' = payload /\ worker' = worker /\ dead' = dead
    BY <1>7 DEF Ingest, CheckRequest, InsertRaw, AnswerDuplicate, EnqueueJob,
                AnswerAccepted, IngestFails, Advance, queueVars
  <2>2. DeliveryOK'
    <3>1. \E step \in DeliverySteps :
             delivery' = [delivery EXCEPT ![d].at = step]
      BY <1>7
         DEF Ingest, CheckRequest, InsertRaw, AnswerDuplicate, EnqueueJob,
             AnswerAccepted, IngestFails, Advance, DeliverySteps
    <3>. QED
      BY <1>3, <3>1
  <2>3. MsgOK'
    <3>1. CASE EnqueueJob(d)
      <4>1. 0 \in 0..DeadLetterReads
        BY PipelineAssumption
      <4>. QED
        BY <1>3, <3>1, <4>1 DEF EnqueueJob, JobPlaces
    <3>. QED
      BY <1>3, <1>7, <3>1
         DEF Ingest, CheckRequest, InsertRaw, AnswerDuplicate,
             AnswerAccepted, IngestFails, queueVars
  <2>4. faults' \in 0..MaxFaults
    BY <1>3, <1>7
       DEF Ingest, CheckRequest, InsertRaw, AnswerDuplicate, EnqueueJob,
           AnswerAccepted, IngestFails, Fault
  <2>. QED
    BY <1>6, <2>1, <2>2, <2>3, <2>4
<1>8. ASSUME NEW w \in Workers, ReadJobs(w) \/ WorkerStep(w) \/ WorkerFault(w)
      PROVE  PipelineTypeOK' /\ PipelineInv'
  <2>1. PICK u : /\ WorkerOK(u)
                 /\ worker' = [worker EXCEPT ![w] = u]
                 /\ payload' = payload
    BY <1>8, WorkerActionsOK DEF WorkerMoves
  <2>2. /\ worker' \in [Workers -> WorkerState]
        /\ \A x \in Workers : WorkerOK(worker[x])'
    BY <2>1 DEF WorkerOK, PipelineInv, PipelineTypeOK, WorkerState
  <2>3. /\ WorkerQueueStep(w)
        /\ DeliveryOK'
        /\ faults' \in 0..MaxFaults
    BY <1>3, <1>8, WorkerQueue
  <2>4. MsgOK' /\ DeadOK'
    <3>1. CASE UNCHANGED queueVars
      BY <1>3, <3>1 DEF queueVars
    <3>2. CASE ReadJobs(w)
      <4>1. msg' = [e \in Raw |-> msg'[e]] /\ dead' = dead
        BY <3>2 DEF ReadJobs
      <4>2. \A e \in Raw :
               msg'[e] \in [place : JobPlaces, reads : 0..DeadLetterReads]
        BY <3>2, ReadMovesWithinQueue
      <4>. QED
        BY <1>3, <4>1, <4>2
    <3>3. CASE /\ worker[w].at = "archive"
               /\ Remove(worker[w].job.event, "archived")
               /\ dead' = dead
      <4>1. worker[w].job.event \in Raw
        BY <3>3 DEF PipelineInv, WorkerOK, Job
      <4>. QED
        BY <1>3, <1>4, <3>3, <4>1
    <3>4. ASSUME NEW e \in Raw, BuryJob(e) PROVE MsgOK' /\ DeadOK'
      BY <1>3, <1>4, <3>4 DEF BuryJob
    <3>. QED
      BY <2>3, <3>1, <3>2, <3>3, <3>4 DEF WorkerQueueStep
  <2>. QED
    BY <1>1, <1>2, <2>1, <2>2, <2>3, <2>4
       DEF PipelineTypeOK, PipelineInv, WorkerState
<1>9. ASSUME NEW e \in Raw, VisibilityTimeout(e)
      PROVE  PipelineTypeOK' /\ PipelineInv'
  <2>1. MsgOK'
    BY <1>3, <1>9 DEF VisibilityTimeout, JobPlaces
  <2>. QED
    BY <1>3, <1>6, <1>9, <2>1 DEF VisibilityTimeout, intakeVars
<1>10. CASE Operate \/ \E k \in Direct : ProcessEvent(k)
  BY <1>3, <1>6, <1>10 DEF Operate, ProcessEvent, intakeVars, queueVars
<1>. QED
  BY <1>5, <1>7, <1>8, <1>9, <1>10 DEF PipelineNext

LEMMA PipelineTypeInit == PipelineInit => PipelineTypeOK /\ PipelineInv
<1>. SUFFICES ASSUME PipelineInit PROVE PipelineTypeOK /\ PipelineInv
  OBVIOUS
<1>1. TypeOK /\ \A k \in Calls : aborted[k] = NoCall
  BY TypeInit DEF PipelineInit, Init
<1>2. /\ 0 \in 0..DeadLetterReads
      /\ 0 \in 0..MaxFaults
  BY PipelineAssumption
<1>3. \A w \in Workers : worker[w] = IdleWorker
  BY DEF PipelineInit
<1>4. worker \in [Workers -> WorkerState]
  BY IdleWorkerOK DEF PipelineInit, WorkerOK
<1>5. delivery \in [Deliveries -> [at : DeliverySteps, event : Raw]]
  BY DEF PipelineInit, DeliverySteps
<1>6. PipelineTypeOK
  BY <1>1, <1>2, <1>4, <1>5
     DEF PipelineInit, PipelineTypeOK, WorkerState, JobPlaces
<1>. QED
  BY <1>1, <1>3, <1>6, IdleWorkerOK DEF PipelineInit, PipelineInv

\* The pipeline is well typed.
THEOREM PipelineTypeCorrect == PipelineSafeSpec => []PipelineTypeOK
BY PipelineTypeInit, PipelineTypeStep, PTL DEF PipelineSafeSpec

\* However requests, consumers, timeouts, faults and operators interleave,
\* the database only ever makes the steps of CanonicalEvents: what is proved
\* of apply_canonical_event holds of the pipeline.
THEOREM PipelineImplementsCore == PipelineSafeSpec => Spec
<1>1. PipelineInit => Init
  BY DEF PipelineInit
<1>. QED
  BY <1>1, PipelineTypeInit, PipelineTypeStep, PipelineRefines, PTL
     DEF PipelineSafeSpec, Spec

\* So retries, timeouts and killed consumers leave the rows consistent: the
\* attempts, audit rows and status of a raw event, the incidents of a run and
\* the clocks of runs and sources.
THEOREM PipelineKeepsRows ==
    PipelineSafeSpec => /\ []RawRowConsistent
                        /\ []FailureHasIncident
                        /\ []OnlyNewestIncidentActive
                        /\ []SourceClockCoversRuns
                        /\ TerminalRunFrozen
BY PipelineImplementsCore, RawRowsConsistent, FailuresHaveIncidents,
   OneActiveIncident, SourceClock, TerminalRunsFrozen, PTL

\* However deliveries, workers and direct calls overlap, an event is applied
\* once per time an overtaken handler turned it back, and once it is processed
\* with no failed call unfinished, no redelivery touches it.
THEOREM PipelineAppliesOnce ==
    PipelineSafeSpec => []AppliedOncePerUndoing /\ SettledForever
BY PipelineImplementsCore, AppliedOnceUnlessUndone, SettledIsFinal, PTL

-----------------------------------------------------------------------------
(* The fate of a job.                                                      *)

\* A job stays where it is, or moves within the queue.
SamePlace(e) ==
    \/ msg'[e].place = msg[e].place
    \/ InQueue(e) /\ msg'[e].place \in {"visible", "hidden"}

QueueKept == \A e \in Raw : SamePlace(e) /\ dead'[e] >= dead[e]

\* One job leaves the queue; if it is deleted, the dead letters have it.
LeavesQueue(e) ==
    /\ \A x \in Raw \ {e} : SamePlace(x) /\ dead'[x] >= dead[x]
    /\ InQueue(e)
    /\ msg'[e].place \in {"archived", "deleted"}
    /\ msg'[e].place = "deleted" => dead'[e] > 0

LEMMA WorkerSettles ==
    ASSUME PipelineTypeOK, PipelineInv, NEW w \in Workers, WorkerQueueStep(w)
    PROVE  QueueKept \/ \E e \in Raw : LeavesQueue(e)
<1>1. /\ \A e \in Raw : dead[e] \in Nat
      /\ dead \in [Raw -> Nat]
      /\ msg \in [Raw -> [place : JobPlaces, reads : 0..DeadLetterReads]]
  BY DEF PipelineTypeOK
<1>2. ASSUME NEW e \in Raw, NEW place \in {"archived", "deleted"},
             Remove(e, place)
      PROVE  /\ \A x \in Raw \ {e} : SamePlace(x)
             /\ \/ ~ InQueue(e) /\ SamePlace(e)
                \/ InQueue(e) /\ msg'[e].place = place
  BY <1>1, <1>2 DEF Remove, SamePlace
<1>3. CASE UNCHANGED queueVars
  BY <1>1, <1>3 DEF queueVars, QueueKept, SamePlace
<1>4. CASE ReadJobs(w)
  <2>1. dead' = dead
    BY <1>4 DEF ReadJobs
  <2>2. \A e \in Raw : SamePlace(e)
    BY <1>4, ReadMovesWithinQueue DEF SamePlace, InQueue
  <2>. QED
    BY <1>1, <2>1, <2>2 DEF QueueKept
<1>5. CASE /\ worker[w].at = "archive"
           /\ Remove(worker[w].job.event, "archived")
           /\ dead' = dead
  <2>1. worker[w].job.event \in Raw
    BY <1>5 DEF PipelineInv, WorkerOK, Job
  <2>. QED
    BY <1>1, <1>2, <1>5, <2>1 DEF QueueKept, LeavesQueue
<1>6. ASSUME NEW e \in Raw, BuryJob(e)
      PROVE  QueueKept \/ LeavesQueue(e)
  <2>1. dead'[e] > 0 /\ \A x \in Raw : dead'[x] >= dead[x]
    BY <1>1, <1>6 DEF BuryJob
  <2>. QED
    BY <1>2, <1>6, <2>1 DEF BuryJob, QueueKept, LeavesQueue
<1>. QED
  BY <1>3, <1>4, <1>5, <1>6 DEF WorkerQueueStep

\* Requests at an answer or an error, which promise nothing more to come.
DeliveryKept ==
    \A d \in Deliveries :
        /\ delivery'[d].event = delivery[d].event
        /\ \/ delivery'[d].at = delivery[d].at
           \/ delivery'[d].at \in {"checked", "duplicate", "error"}
           \/ delivery[d].at = "queued" /\ delivery'[d].at = "accepted"

\* Every step stores an event, queues a job, settles a job, or leaves every
\* job where it is.
LEMMA PipelineShape ==
    ASSUME PipelineTypeOK, PipelineInv, PipelineNext
    PROVE  \/ \E d \in Deliveries : InsertRaw(d) \/ EnqueueJob(d)
           \/ /\ \A e \in Raw : Exists(e)' <=> Exists(e)
              /\ DeliveryKept
              /\ QueueKept \/ \E e \in Raw : LeavesQueue(e)
<1>. SUFFICES ASSUME \A d \in Deliveries : ~ InsertRaw(d) /\ ~ EnqueueJob(d)
              PROVE  /\ CoreQuiet
                     /\ DeliveryKept
                     /\ QueueKept \/ \E e \in Raw : LeavesQueue(e)
  BY DEF CoreQuiet
<1>1. CoreQuiet
  BY PipelineCore
<1>2. UNCHANGED queueVars => QueueKept
  BY DEF queueVars, QueueKept, SamePlace, PipelineTypeOK
<1>3. delivery' = delivery => DeliveryKept
  BY DEF DeliveryKept
<1>4. ASSUME NEW d \in Deliveries, Ingest(d)
      PROVE  DeliveryKept /\ QueueKept
  <2>1. /\ UNCHANGED queueVars
        /\ \/ \E step \in {"checked", "duplicate", "error"} :
                 delivery' = [delivery EXCEPT ![d].at = step]
           \/ /\ delivery[d].at = "queued"
              /\ delivery' = [delivery EXCEPT ![d].at = "accepted"]
    BY <1>4 DEF Ingest, CheckRequest, AnswerDuplicate, AnswerAccepted,
                IngestFails, Advance
  <2>. QED
    BY <1>2, <2>1 DEF DeliveryKept, PipelineTypeOK
<1>5. ASSUME NEW w \in Workers, ReadJobs(w) \/ WorkerStep(w) \/ WorkerFault(w)
      PROVE  DeliveryKept /\ (QueueKept \/ \E e \in Raw : LeavesQueue(e))
  BY <1>3, <1>5, WorkerQueue, WorkerSettles
<1>6. ASSUME NEW e \in Raw, VisibilityTimeout(e)
      PROVE  DeliveryKept /\ QueueKept
  BY <1>3, <1>6 DEF VisibilityTimeout, QueueKept, SamePlace, InQueue,
                    intakeVars, PipelineTypeOK
<1>7. CASE Operate \/ \E k \in Direct : ProcessEvent(k)
  <2>1. delivery' = delivery /\ UNCHANGED queueVars
    BY <1>7 DEF Operate, ProcessEvent, intakeVars
  <2>. QED
    BY <1>1, <1>2, <1>3, <2>1
<1>. QED
  BY <1>1, <1>4, <1>5, <1>6, <1>7 DEF PipelineNext

\* A job exists only for a stored event, and from the moment the delivery
\* that stored the event has queued it; what was deleted is a dead letter.
QueueInv ==
    /\ \A e \in Raw : msg[e].place # "none" => Exists(e)
    /\ \A e \in Raw : msg[e].place = "deleted" => dead[e] > 0
    /\ \A d \in Deliveries :
          /\ delivery[d].at = "inserted" =>
                /\ Exists(delivery[d].event)
                /\ msg[delivery[d].event].place = "none"
          /\ delivery[d].at \in {"queued", "accepted"} =>
                msg[delivery[d].event].place # "none"
    /\ OneDeliveryQueues

LEMMA QueueStep ==
    PipelineTypeOK /\ PipelineInv /\ QueueInv /\ [PipelineNext]_pipelineVars
        => QueueInv'
<1>. SUFFICES ASSUME PipelineTypeOK, PipelineInv, QueueInv,
                     [PipelineNext]_pipelineVars
              PROVE  QueueInv'
  OBVIOUS
<1>1. /\ \A d \in Deliveries : delivery[d].event \in Raw
      /\ delivery \in [Deliveries -> [at : DeliverySteps, event : Raw]]
      /\ msg \in [Raw -> [place : JobPlaces, reads : 0..DeadLetterReads]]
      /\ \A e \in Raw : dead[e] \in Nat /\ dead'[e] \in Nat
  BY PipelineTypeStep DEF PipelineTypeOK
<1>2. CASE UNCHANGED pipelineVars
  BY <1>2 DEF QueueInv, OneDeliveryQueues, Exists, pipelineVars, vars,
              intakeVars, queueVars
<1>3. ASSUME NEW d \in Deliveries, InsertRaw(d),
             NEW e \in Raw, e = delivery[d].event
      PROVE  QueueInv'
  <2>1. /\ ~ Exists(e) /\ Exists(e)'
        /\ \A x \in Raw : x # e => (Exists(x)' <=> Exists(x))
        /\ msg' = msg /\ dead' = dead
        /\ delivery' = [delivery EXCEPT ![d].at = "inserted"]
    BY <1>1, <1>3 DEF InsertRaw, ReceiveRaw, Exists, Advance, queueVars,
                      PipelineTypeOK, TypeOK
  <2>2. /\ delivery'[d].at = "inserted" /\ delivery'[d].event = e
        /\ \A d2 \in Deliveries : d2 # d => delivery'[d2] = delivery[d2]
    BY <1>1, <1>3, <2>1
  <2>3. msg[e].place = "none"
    BY <2>1 DEF QueueInv
  <2>4. \A d2 \in Deliveries :
           delivery[d2].at \in {"inserted", "queued", "accepted"} =>
              delivery[d2].event # e
    BY <1>1, <2>1, <2>3 DEF QueueInv
  <2>5. OneDeliveryQueues'
    BY <2>2, <2>4 DEF QueueInv, OneDeliveryQueues
  <2>. QED
    BY <1>1, <2>1, <2>2, <2>3, <2>5 DEF QueueInv
<1>4. ASSUME NEW d \in Deliveries, EnqueueJob(d),
             NEW e \in Raw, e = delivery[d].event
      PROVE  QueueInv'
  <2>1. /\ Exists(e) /\ delivery[d].at = "inserted"
        /\ \A x \in Raw : Exists(x)' <=> Exists(x)
        /\ msg'[e].place = "visible"
        /\ \A x \in Raw : x # e => msg'[x] = msg[x]
        /\ dead' = dead
        /\ delivery' = [delivery EXCEPT ![d].at = "queued"]
    BY <1>1, <1>4 DEF EnqueueJob, Advance, QueueInv, Exists, vars
  <2>2. /\ delivery'[d].at = "queued" /\ delivery'[d].event = e
        /\ \A d2 \in Deliveries : d2 # d => delivery'[d2] = delivery[d2]
    BY <1>1, <1>4, <2>1
  <2>3. \A d2 \in Deliveries : d2 # d =>
           (delivery[d2].at = "inserted" => delivery[d2].event # e)
    BY <1>4, <2>1 DEF QueueInv, OneDeliveryQueues
  <2>4. OneDeliveryQueues'
    BY <2>1, <2>2 DEF QueueInv, OneDeliveryQueues
  <2>5. ASSUME NEW x \in Raw
        PROVE  /\ msg'[x].place # "none" => Exists(x)'
               /\ msg'[x].place = "deleted" => dead'[x] > 0
    BY <2>1, <2>5 DEF QueueInv
  <2>6. ASSUME NEW d2 \in Deliveries
        PROVE  LET f == delivery'[d2].event IN
               /\ delivery'[d2].at = "inserted" =>
                     raw'[f].state # "absent" /\ msg'[f].place = "none"
               /\ delivery'[d2].at \in {"queued", "accepted"} =>
                     msg'[f].place # "none"
    <3>1. raw' = raw /\ delivery[d2].event \in Raw
      BY <1>1, <1>4 DEF EnqueueJob, vars
    <3>2. CASE d2 = d
      BY <2>1, <2>2, <3>2
    <3>3. CASE d2 # d
      BY <2>1, <2>2, <2>3, <3>1, <3>3 DEF QueueInv, Exists
    <3>. QED
      BY <3>2, <3>3
  <2>. QED
    BY <2>4, <2>5, <2>6 DEF QueueInv, Exists
<1>5. ASSUME \A e \in Raw : Exists(e)' <=> Exists(e), DeliveryKept,
             QueueKept \/ \E e \in Raw : LeavesQueue(e)
      PROVE  QueueInv'
  <2>1. ASSUME NEW e \in Raw
        PROVE  /\ msg'[e].place = "none" <=> msg[e].place = "none"
               /\ msg'[e].place = "deleted" =>
                     msg[e].place = "deleted" \/ dead'[e] > 0
               /\ msg[e].place = "deleted" => dead'[e] >= dead[e]
    BY <1>1, <1>5, <2>1 DEF QueueKept, LeavesQueue, SamePlace, InQueue
  <2>2. ASSUME NEW d \in Deliveries
        PROVE  /\ delivery'[d].event = delivery[d].event
               /\ delivery'[d].at = "inserted" => delivery[d].at = "inserted"
               /\ delivery'[d].at \in {"queued", "accepted"} =>
                     delivery[d].at \in {"queued", "accepted"}
    BY <1>5, <2>2 DEF DeliveryKept
  <2>3. OneDeliveryQueues'
    BY <2>2 DEF QueueInv, OneDeliveryQueues
  <2>4. \A e \in Raw : msg'[e].place = "deleted" => dead'[e] > 0
    BY <1>1, <2>1 DEF QueueInv
  <2>. QED
    BY <1>1, <1>5, <2>1, <2>2, <2>3, <2>4 DEF QueueInv
<1>. QED
  BY <1>1, <1>2, <1>3, <1>4, <1>5, PipelineShape

LEMMA QueueInit == PipelineInit => QueueInv
BY DEF PipelineInit, QueueInv, OneDeliveryQueues

\* An event answered with 202 keeps its job until the job is archived or
\* has become a dead letter.
THEOREM AcceptedIsKept == PipelineSafeSpec => []AcceptedIsNotLost
<1>1. PipelineTypeOK /\ QueueInv => AcceptedIsNotLost
  BY DEF PipelineTypeOK, JobPlaces, QueueInv, AcceptedIsNotLost, InQueue
<1>. QED
  BY <1>1, PipelineTypeInit, PipelineTypeStep, QueueInit, QueueStep, PTL
     DEF PipelineSafeSpec

\* Of all deliveries of one event, at most one stores and queues it.
THEOREM OneDeliveryOfEach == PipelineSafeSpec => []OneDeliveryQueues
<1>1. QueueInv => OneDeliveryQueues
  BY DEF QueueInv
<1>. QED
  BY <1>1, PipelineTypeInit, PipelineTypeStep, QueueInit, QueueStep, PTL
     DEF PipelineSafeSpec

-----------------------------------------------------------------------------
(* An event that is acknowledged and not queued.                           *)

\* A webhook for e ended with an error.
Abandoned(e) ==
    \E d \in Deliveries : delivery[d].event = e /\ delivery[d].at = "error"

\* A webhook has stored e and has yet to queue its job.
BeingQueued(e) ==
    \E d \in Deliveries : delivery[d].event = e /\ delivery[d].at = "inserted"

\* Every answer of 2xx is for an event that has a job, or is about to, or
\* whose own webhook failed.
QueuedOrAbandoned ==
    \A d \in Deliveries :
        delivery[d].at \in {"accepted", "duplicate"} =>
            LET e == delivery[d].event
            IN  msg[e].place # "none" \/ BeingQueued(e) \/ Abandoned(e)

StrandInv ==
    /\ \A e \in Raw : Exists(e) /\ msg[e].place = "none" =>
                         BeingQueued(e) \/ Abandoned(e)
    /\ \A d \in Deliveries :
          /\ delivery[d].at = "duplicate" => Exists(delivery[d].event)
          /\ delivery[d].at = "error" => faults > 0

\* A request that has failed, or stored its event, is left at that by every
\* step but its own.
LEMMA RequestsStay ==
    ASSUME PipelineTypeOK, PipelineInv, PipelineNext,
           \A d \in Deliveries :
              ~ InsertRaw(d) /\ ~ EnqueueJob(d) /\ ~ IngestFails(d)
    PROVE  /\ faults' >= faults
           /\ \A d \in Deliveries :
                 /\ delivery'[d].event = delivery[d].event
                 /\ delivery'[d].at = "error" <=> delivery[d].at = "error"
                 /\ delivery[d].at = "inserted" => delivery'[d].at = "inserted"
                 /\ delivery'[d].at = "duplicate" =>
                       delivery[d].at = "duplicate" \/ Exists(delivery[d].event)
<1>1. /\ delivery \in [Deliveries -> [at : DeliverySteps, event : Raw]]
      /\ faults \in Nat
  BY DEF PipelineTypeOK, PipelineAssumption
<1>2. UNCHANGED faults \/ Fault => faults' >= faults
  BY <1>1 DEF Fault
<1>3. ASSUME NEW d \in Deliveries, Ingest(d)
      PROVE  /\ UNCHANGED faults
             /\ \A d2 \in Deliveries :
                   /\ delivery'[d2].event = delivery[d2].event
                   /\ delivery'[d2].at = "error" <=> delivery[d2].at = "error"
                   /\ delivery[d2].at = "inserted" => delivery'[d2].at = "inserted"
                   /\ delivery'[d2].at = "duplicate" =>
                        delivery[d2].at = "duplicate" \/ Exists(delivery[d2].event)
  <2>1. CheckRequest(d) \/ AnswerDuplicate(d) \/ AnswerAccepted(d)
    BY <1>3 DEF Ingest
  <2>2. UNCHANGED faults
    BY <2>1 DEF CheckRequest, AnswerDuplicate, AnswerAccepted
  <2>3. CASE CheckRequest(d)
    <3>1. /\ delivery[d].at = "idle"
          /\ delivery' = [delivery EXCEPT ![d].at = "checked"]
      BY <2>3 DEF CheckRequest, Advance
    <3>. QED
      BY <1>1, <2>2, <3>1
  <2>4. CASE AnswerDuplicate(d)
    <3>1. /\ delivery[d].at = "checked" /\ Exists(delivery[d].event)
          /\ delivery' = [delivery EXCEPT ![d].at = "duplicate"]
      BY <2>4 DEF AnswerDuplicate, Advance
    <3>. QED
      BY <1>1, <2>2, <3>1
  <2>5. CASE AnswerAccepted(d)
    <3>1. /\ delivery[d].at = "queued"
          /\ delivery' = [delivery EXCEPT ![d].at = "accepted"]
      BY <2>5 DEF AnswerAccepted, Advance
    <3>. QED
      BY <1>1, <2>2, <3>1
  <2>. QED
    BY <2>1, <2>3, <2>4, <2>5
<1>4. ASSUME NEW w \in Workers, ReadJobs(w) \/ WorkerStep(w) \/ WorkerFault(w)
      PROVE  delivery' = delivery /\ (UNCHANGED faults \/ Fault)
  BY <1>4 DEF ReadJobs, WorkerStep, WorkerFault, StartJob, ApplyJob,
              ApplyAborts, ApplyFails, HandlerRuns, ArchiveJob, DeadLetterJob,
              CallFails, AnswerLost, DeadLetterThrows, Crash, intakeVars
<1>5. CASE \/ \E e \in Raw : VisibilityTimeout(e)
           \/ \E k \in Direct : ProcessEvent(k)
           \/ Operate
  <2>1. delivery' = delivery /\ UNCHANGED faults
    BY <1>5 DEF VisibilityTimeout, ProcessEvent, Operate, intakeVars
  <2>. QED
    BY <1>2, <2>1
<1>. QED
  BY <1>2, <1>3, <1>4, <1>5 DEF PipelineNext

LEMMA StrandStep ==
    PipelineTypeOK /\ PipelineInv /\ StrandInv /\ [PipelineNext]_pipelineVars
        => StrandInv'
<1>. SUFFICES ASSUME PipelineTypeOK, PipelineInv, StrandInv,
                     [PipelineNext]_pipelineVars
              PROVE  StrandInv'
  OBVIOUS
<1>1. /\ \A d \in Deliveries : delivery[d].event \in Raw
      /\ delivery \in [Deliveries -> [at : DeliverySteps, event : Raw]]
      /\ msg \in [Raw -> [place : JobPlaces, reads : 0..DeadLetterReads]]
      /\ faults \in Nat /\ faults' \in Nat
  BY PipelineTypeStep DEF PipelineTypeOK, PipelineAssumption
<1>2. CASE UNCHANGED pipelineVars
  BY <1>2 DEF StrandInv, BeingQueued, Abandoned, Exists, pipelineVars, vars,
              intakeVars, queueVars
<1>3. ASSUME NEW d \in Deliveries, InsertRaw(d)
      PROVE  StrandInv'
  <2>1. /\ \A x \in Raw : x # delivery[d].event => (Exists(x)' <=> Exists(x))
        /\ Exists(delivery[d].event)'
        /\ msg' = msg /\ faults' = faults
        /\ delivery[d].at = "checked"
        /\ delivery' = [delivery EXCEPT ![d].at = "inserted"]
    BY <1>1, <1>3 DEF InsertRaw, ReceiveRaw, Exists, Advance, queueVars,
                      PipelineTypeOK, TypeOK
  <2>2. /\ delivery'[d].at = "inserted"
        /\ delivery'[d].event = delivery[d].event
        /\ \A d2 \in Deliveries : d2 # d => delivery'[d2] = delivery[d2]
    BY <1>1, <2>1
  <2>. QED
    BY <1>1, <2>1, <2>2 DEF StrandInv, BeingQueued, Abandoned
<1>4. ASSUME NEW d \in Deliveries, EnqueueJob(d)
      PROVE  StrandInv'
  <2>1. /\ \A x \in Raw : Exists(x)' <=> Exists(x)
        /\ msg'[delivery[d].event].place = "visible"
        /\ \A x \in Raw : x # delivery[d].event => msg'[x] = msg[x]
        /\ faults' = faults
        /\ delivery' = [delivery EXCEPT ![d].at = "queued"]
    BY <1>1, <1>4 DEF EnqueueJob, Advance, Exists, vars
  <2>2. /\ delivery'[d].at = "queued"
        /\ delivery'[d].event = delivery[d].event
        /\ \A d2 \in Deliveries : d2 # d => delivery'[d2] = delivery[d2]
    BY <1>1, <2>1
  <2>. QED
    BY <1>1, <2>1, <2>2 DEF StrandInv, BeingQueued, Abandoned
<1>5. ASSUME NEW d \in Deliveries, IngestFails(d)
      PROVE  StrandInv'
  <2>1. /\ \A x \in Raw : Exists(x)' <=> Exists(x)
        /\ msg' = msg /\ faults' > 0
        /\ delivery' = [delivery EXCEPT ![d].at = "error"]
    BY <1>1, <1>5 DEF IngestFails, Fault, Advance, Exists, vars, queueVars
  <2>2. /\ delivery'[d].at = "error"
        /\ delivery'[d].event = delivery[d].event
        /\ \A d2 \in Deliveries : d2 # d => delivery'[d2] = delivery[d2]
    BY <1>1, <2>1
  <2>. QED
    BY <1>1, <2>1, <2>2 DEF StrandInv, BeingQueued, Abandoned
<1>6. CASE /\ PipelineNext
           /\ \A d \in Deliveries :
                 ~ InsertRaw(d) /\ ~ EnqueueJob(d) /\ ~ IngestFails(d)
  <2>1. /\ \A e \in Raw : Exists(e)' <=> Exists(e)
        /\ \A e \in Raw : msg'[e].place = "none" => msg[e].place = "none"
    BY <1>1, <1>6, PipelineShape DEF QueueKept, LeavesQueue, SamePlace, InQueue
  <2>2. ASSUME NEW e \in Raw
        PROVE  /\ BeingQueued(e) => BeingQueued(e)'
               /\ Abandoned(e) => Abandoned(e)'
    BY <1>6, RequestsStay DEF BeingQueued, Abandoned
  <2>3. ASSUME NEW d \in Deliveries
        PROVE  /\ delivery'[d].at = "duplicate" => Exists(delivery[d].event)'
               /\ delivery'[d].at = "error" => faults' > 0
    <3>1. /\ faults' >= faults
          /\ delivery'[d].event = delivery[d].event
          /\ delivery'[d].at = "error" <=> delivery[d].at = "error"
          /\ delivery'[d].at = "duplicate" =>
                delivery[d].at = "duplicate" \/ Exists(delivery[d].event)
      BY <1>6, RequestsStay
    <3>. QED
      BY <1>1, <2>1, <3>1 DEF StrandInv, Exists
  <2>. QED
    BY <2>1, <2>2, <2>3 DEF StrandInv, Exists
<1>. QED
  BY <1>2, <1>3, <1>4, <1>5, <1>6

\* The README's promise, that an acknowledged event is queued, is broken by
\* one thing only: the webhook that stored the event failed before it queued
\* the job.  In particular it holds as long as nothing has failed.
THEOREM OnlyFailuresStrand ==
    PipelineSafeSpec => /\ []QueuedOrAbandoned
                        /\ [](faults = 0 => AcknowledgedIsQueued)
<1>1. PipelineTypeOK /\ QueueInv /\ StrandInv =>
         QueuedOrAbandoned /\ (faults = 0 => AcknowledgedIsQueued)
  <2>. SUFFICES ASSUME PipelineTypeOK, QueueInv, StrandInv
                PROVE  QueuedOrAbandoned /\ (faults = 0 => AcknowledgedIsQueued)
    OBVIOUS
  <2>1. QueuedOrAbandoned
    BY DEF PipelineTypeOK, QueueInv, StrandInv, QueuedOrAbandoned
  <2>2. ASSUME faults = 0, NEW e \in Raw
        PROVE  ~ Abandoned(e)
    BY <2>2 DEF StrandInv, Abandoned
  <2>. QED
    BY <2>1, <2>2 DEF PipelineTypeOK, QueuedOrAbandoned, BeingQueued,
                      AcknowledgedIsQueued
<1>2. PipelineInit => StrandInv
  BY DEF PipelineInit, Init, StrandInv, Exists
<1>. QED
  BY <1>1, <1>2, PipelineTypeInit, PipelineTypeStep, QueueInit, QueueStep,
     StrandStep, PTL DEF PipelineSafeSpec

-----------------------------------------------------------------------------
(* The abstract intake.                                                    *)

LEMMA IntakeInit == PipelineInit => Intake!Init
BY DEF PipelineInit, Init, Intake!Init, Fate, Exists

\* Storing and queueing are steps of the abstract intake; a job that leaves
\* the queue settles its event, and all else is a stutter.
LEMMA IntakeStep ==
    ASSUME PipelineTypeOK, PipelineTypeOK', PipelineInv, QueueInv,
           [PipelineNext]_pipelineVars,
           NEW fate, fate = [e \in Raw |-> Fate(e)],
           NEW new, new = [e \in Raw |-> Fate(e)']
    PROVE  \/ new = fate
           \/ \E e \in Raw, from, to \in Intake!Fates :
                 /\ <<from, to>> \in {<<"unseen", "stored">>,
                                      <<"stored", "queued">>,
                                      <<"queued", "finished">>,
                                      <<"queued", "buried">>}
                 /\ fate[e] = from
                 /\ new = [fate EXCEPT ![e] = to]
<1>1. /\ \A d \in Deliveries : delivery[d].event \in Raw
      /\ msg \in [Raw -> [place : JobPlaces, reads : 0..DeadLetterReads]]
      /\ msg' \in [Raw -> [place : JobPlaces, reads : 0..DeadLetterReads]]
  BY DEF PipelineTypeOK
<1>2. ASSUME NEW e \in Raw
      PROVE  /\ ~ Exists(e) => fate[e] = "unseen"
             /\ Exists(e) /\ msg[e].place = "none" => fate[e] = "stored"
             /\ Exists(e) /\ InQueue(e) => fate[e] = "queued"
             /\ Exists(e) /\ msg[e].place = "archived" => fate[e] = "finished"
             /\ Exists(e) /\ msg[e].place = "deleted" => fate[e] = "buried"
  BY <1>1, <1>2 DEF Fate, Exists, InQueue
<1>3. ASSUME NEW e \in Raw
      PROVE  /\ ~ Exists(e)' => new[e] = "unseen"
             /\ Exists(e)' /\ msg'[e].place = "none" => new[e] = "stored"
             /\ Exists(e)' /\ InQueue(e)' => new[e] = "queued"
             /\ Exists(e)' /\ msg'[e].place = "archived" =>
                   new[e] = "finished"
             /\ Exists(e)' /\ msg'[e].place = "deleted" => new[e] = "buried"
  BY <1>1, <1>3 DEF Fate, Exists, InQueue
<1>4. ASSUME NEW e \in Raw, SamePlace(e), Exists(e)' <=> Exists(e)
      PROVE  new[e] = fate[e]
  <2>1. \/ InQueue(e) /\ InQueue(e)'
        \/ msg'[e].place = msg[e].place /\ ~ InQueue(e)
    BY <1>4 DEF SamePlace, InQueue
  <2>2. msg[e].place \in {"none", "archived", "deleted"} \/ InQueue(e)
    BY <1>1 DEF JobPlaces, InQueue
  <2>. QED
    BY <1>2, <1>3, <1>4, <2>1, <2>2
<1>5. ASSUME NEW e \in Raw, \A x \in Raw \ {e} : new[x] = fate[x]
      PROVE  new = [fate EXCEPT ![e] = new[e]]
  BY <1>5
<1>6. CASE UNCHANGED pipelineVars
  <2>1. \A e \in Raw : SamePlace(e) /\ (Exists(e)' <=> Exists(e))
    BY <1>6 DEF pipelineVars, queueVars, vars, SamePlace, Exists
  <2>. QED
    BY <1>4, <2>1
<1>7. ASSUME NEW d \in Deliveries, InsertRaw(d),
             NEW e \in Raw, e = delivery[d].event
      PROVE  /\ fate[e] = "unseen"
             /\ new = [fate EXCEPT ![e] = "stored"]
  <2>1. /\ ~ Exists(e) /\ Exists(e)' /\ msg' = msg
        /\ \A x \in Raw \ {e} : Exists(x)' <=> Exists(x)
    BY <1>1, <1>7 DEF InsertRaw, ReceiveRaw, Exists, queueVars,
                      PipelineTypeOK, TypeOK
  <2>2. fate[e] = "unseen" /\ new[e] = "stored"
    BY <1>2, <1>3, <2>1 DEF QueueInv
  <2>3. \A x \in Raw \ {e} : new[x] = fate[x]
    BY <1>4, <2>1 DEF SamePlace
  <2>. QED
    BY <1>5, <2>1, <2>2, <2>3
<1>8. ASSUME NEW d \in Deliveries, EnqueueJob(d),
             NEW e \in Raw, e = delivery[d].event
      PROVE  /\ fate[e] = "stored"
             /\ new = [fate EXCEPT ![e] = "queued"]
  <2>1. /\ Exists(e) /\ msg[e].place = "none"
        /\ msg'[e].place = "visible"
        /\ \A x \in Raw : Exists(x)' <=> Exists(x)
        /\ \A x \in Raw \ {e} : msg'[x] = msg[x]
    BY <1>1, <1>8 DEF EnqueueJob, Advance, QueueInv, Exists, vars
  <2>2. fate[e] = "stored" /\ new[e] = "queued"
    BY <1>2, <1>3, <2>1 DEF InQueue
  <2>3. \A x \in Raw \ {e} : new[x] = fate[x]
    BY <1>4, <2>1 DEF SamePlace
  <2>. QED
    BY <1>5, <2>1, <2>2, <2>3
<1>9. ASSUME \A e \in Raw : Exists(e)' <=> Exists(e),
             NEW e \in Raw, LeavesQueue(e)
      PROVE  /\ fate[e] = "queued"
             /\ \/ new = [fate EXCEPT ![e] = "finished"]
                \/ new = [fate EXCEPT ![e] = "buried"]
  <2>1. Exists(e) /\ Exists(e)' /\ InQueue(e)
    BY <1>9 DEF LeavesQueue, QueueInv, InQueue
  <2>2. /\ fate[e] = "queued"
        /\ new[e] \in {"finished", "buried"}
    BY <1>2, <1>3, <1>9, <2>1 DEF LeavesQueue
  <2>3. \A x \in Raw \ {e} : new[x] = fate[x]
    BY <1>4, <1>9 DEF LeavesQueue
  <2>. QED
    BY <1>5, <2>2, <2>3
<1>10. ASSUME \A e \in Raw : Exists(e)' <=> Exists(e), QueueKept
       PROVE  new = fate
  BY <1>4, <1>10 DEF QueueKept
<1>. QED
  BY <1>1, <1>6, <1>7, <1>8, <1>9, <1>10, PipelineShape DEF Intake!Fates

\* In every prefix of its behaviour the pipeline does only what the abstract
\* intake may do: a job is queued once and leaves the queue once.
THEOREM IntakeImplemented == PipelineSafeSpec => Intake!SafeSpec
<1>. DEFINE fates == [e \in Raw |-> Fate(e)]
<1>1. PipelineTypeOK /\ PipelineInv /\ QueueInv /\ [PipelineNext]_pipelineVars
         => [Intake!Next]_fates
  <2>. SUFFICES ASSUME PipelineTypeOK, PipelineInv, QueueInv,
                       [PipelineNext]_pipelineVars
                PROVE  [Intake!Next]_fates
    OBVIOUS
  <2>1. PipelineTypeOK'
    BY PipelineTypeStep
  <2>2. \/ fates' = fates
        \/ \E e \in Raw, from, to \in Intake!Fates :
              /\ <<from, to>> \in {<<"unseen", "stored">>,
                                   <<"stored", "queued">>,
                                   <<"queued", "finished">>,
                                   <<"queued", "buried">>}
              /\ fates[e] = from
              /\ fates' = [fates EXCEPT ![e] = to]
    BY <2>1, IntakeStep
  <2>. HIDE DEF fates
  <2>. QED
    BY <2>2 DEF Intake!Next, Intake!Store, Intake!Queue, Intake!Settle,
                Intake!Move, fates
<1>. QED
  BY <1>1, IntakeInit, PipelineTypeInit, PipelineTypeStep, QueueInit,
     QueueStep, PTL DEF PipelineSafeSpec, Intake!SafeSpec

-----------------------------------------------------------------------------
(* Archiving.                                                              *)

\* The event was processed, if a handler has not found it so and undone it.
Done(e) == raw[e].state = "processed" \/ undone[e] > 0

\* ArchivedIsProcessed is not inductive: a consumer about to archive must
\* have been told that its event is processed.
ArchiveInv ==
    /\ ArchivedIsProcessed
    /\ \A w \in Workers : worker[w].at = "archive" =>
          Done(worker[w].job.event)

\* The only step that turns a processed event back is counted.
LEMMA DoneKept ==
    ASSUME TypeOK, [Next]_vars, NEW e \in Raw, Done(e)
    PROVE  raw'[e].state = "processed" \/ undone'[e] > 0
<1>1. undone[e] \in Nat /\ MaxApplications \in Nat /\ MaxApplications > 0
  BY ConstantsAssumption DEF TypeOK
<1>2. CASE raw'[e] = raw[e] /\ undone'[e] = undone[e]
  BY <1>2 DEF Done
<1>3. CASE ReceiveRaw(e)
  BY <1>3 DEF ReceiveRaw, Done
<1>4. ASSUME NEW k \in Calls, NEW c \in PayloadsFor(e),
             IgnoreOutOfOrder(k, e, c) \/ ApplyEvent(k, e, c)
      PROVE  raw'[e].state = "processed"
  BY <1>4 DEF IgnoreOutOfOrder, WriteIgnored, ApplyEvent, WriteApplied, TypeOK
<1>5. ASSUME NEW k \in Calls, RecordFailure(k), aborted[k].event = e
      PROVE  undone'[e] > 0
  <2>1. undone'[e] = IF raw[e].state = "processed"
                          /\ undone[e] < MaxApplications
                     THEN undone[e] + 1 ELSE undone[e]
    BY <1>5 DEF RecordFailure, Undo, TypeOK
  <2>. QED
    BY <1>1, <2>1 DEF Done
<1>. QED
  BY <1>2, <1>3, <1>4, <1>5, RowSteps

\* Only a call that returned normally sends a consumer to archive.
LEMMA OnlyApplicationArchives ==
    ASSUME PipelineTypeOK, PipelineInv, NEW w \in Workers,
           ReadJobs(w) \/ WorkerStep(w) \/ WorkerFault(w),
           worker'[w].at = "archive"
    PROVE  worker'[w] = worker[w] \/ ApplyJob(w)
<1>. DEFINE u0 == worker[w]
<1>1. /\ u0 \in WorkerState
      /\ u0.at # "idle" => u0.job \in Job
      /\ u0.batch \subseteq Job
      /\ worker \in [Workers -> WorkerState]
  BY DEF PipelineInv, WorkerOK, PipelineTypeOK, WorkerState
<1>2. ASSUME ReadJobs(w) \/ EndJob(w) PROVE FALSE
  BY <1>1, <1>2 DEF ReadJobs, IdleWorker, EndJob, WorkerState
<1>3. ASSUME u0.at # "idle", FailJob(w, u0.job) PROVE FALSE
  BY <1>1, <1>3, AfterFailureOK DEF FailJob
<1>4. ASSUME StartJob(w) PROVE FALSE
  <2>1. PICK j \in u0.batch :
          LET rest == [u0 EXCEPT !.batch = @ \ {j}] IN
          \/ worker' = [worker EXCEPT ![w] = [rest EXCEPT !.at = "apply",
                                                           !.job = j]]
          \/ worker' = [worker EXCEPT ![w] = AfterFailure(rest, j)]
    BY <1>4 DEF StartJob
  <2>. DEFINE rest == [u0 EXCEPT !.batch = @ \ {j}]
  <2>2. j \in Job /\ rest \in WorkerState
    BY <1>1 DEF WorkerState
  <2>3. AfterFailure(rest, j).at \in {"idle", "dead_letter"}
    BY <2>2, AfterFailureOK
  <2>4. [rest EXCEPT !.at = "apply", !.job = j].at = "apply"
    BY <2>2 DEF WorkerState
  <2>. HIDE DEF rest
  <2>5. \/ worker' = [worker EXCEPT ![w] = [rest EXCEPT !.at = "apply",
                                                         !.job = j]]
        \/ worker' = [worker EXCEPT ![w] = AfterFailure(rest, j)]
    BY <2>1 DEF rest
  <2>. QED
    BY <1>1, <2>3, <2>4, <2>5
<1>5. ASSUME ApplyAborts(w) PROVE FALSE
  BY <1>1, <1>5 DEF ApplyAborts, WorkerState
<1>6. ASSUME DeadLetterThrows(w) \/ Crash(w) PROVE FALSE
  BY <1>1, <1>6 DEF DeadLetterThrows, Crash, IdleWorker
<1>. QED
  BY <1>2, <1>3, <1>4, <1>5, <1>6
     DEF WorkerStep, WorkerFault, ApplyFails, HandlerRuns, ArchiveJob,
         DeadLetterJob, CallFails, AnswerLost

LEMMA AppliedIsProcessed ==
    ASSUME PipelineTypeOK, PipelineInv, NEW w \in Workers, ApplyJob(w)
    PROVE  /\ worker'[w].job = worker[w].job
           /\ raw'[worker[w].job.event].state = "processed"
<1>1. /\ worker[w] \in WorkerState
      /\ worker[w].job.event \in Raw
  BY DEF ApplyJob, PipelineInv, WorkerOK, Job
<1>2. worker'[w].job = worker[w].job
  BY <1>1 DEF ApplyJob, PipelineTypeOK, WorkerState
<1>3. ASSUME NEW e \in Raw, NEW c, Succeed(w, e, c)
      PROVE  raw'[e].state = "processed"
  <2>1. raw \in [Raw -> [state : RawStates, attempts : 0..MaxAttempts,
                         code : ErrorCodes]]
    BY DEF PipelineTypeOK, TypeOK
  <2>2. CASE AlreadyProcessed(w, e)
    BY <2>2 DEF AlreadyProcessed, vars
  <2>3. CASE IgnoreOutOfOrder(w, e, c) \/ ApplyEvent(w, e, c)
    BY <2>1, <2>3
       DEF IgnoreOutOfOrder, WriteIgnored, ApplyEvent, WriteApplied
  <2>. QED
    BY <1>3, <2>2, <2>3 DEF Succeed
<1>4. Succeed(w, worker[w].job.event, payload[worker[w].job.event])
  BY DEF ApplyJob
<1>. QED
  BY <1>1, <1>2, <1>3, <1>4

LEMMA ArchiveStep ==
    PipelineTypeOK /\ PipelineInv /\ ArchiveInv
        /\ [PipelineNext]_pipelineVars => ArchiveInv'
<1>. SUFFICES ASSUME PipelineTypeOK, PipelineInv, ArchiveInv,
                     [PipelineNext]_pipelineVars
              PROVE  ArchiveInv'
  OBVIOUS
<1>1. \A e \in Raw : Done(e) => Done(e)'
  BY PipelineRefines, DoneKept DEF PipelineTypeOK, Done
<1>2. \A w \in Workers : worker[w].at # "idle" => worker[w].job.event \in Raw
  BY DEF PipelineInv, WorkerOK, Job
<1>3. ASSUME NEW w \in Workers, NEW x \in Workers,
             ReadJobs(w) \/ WorkerStep(w) \/ WorkerFault(w),
             worker'[x].at = "archive"
      PROVE  Done(worker[x].job.event)'
  <2>1. worker'[x] = worker[x] \/ (x = w /\ ApplyJob(w))
    <3>1. CASE x = w
      BY <1>3, <3>1, OnlyApplicationArchives
    <3>2. CASE x # w
      BY <1>3, <3>2, WorkerActionsOK DEF WorkerMoves, PipelineTypeOK
    <3>. QED
      BY <3>1, <3>2
  <2>2. CASE worker'[x] = worker[x]
    <3>1. worker[x].at = "archive" /\ worker[x].job.event \in Raw
      BY <1>2, <1>3, <2>2
    <3>2. Done(worker[x].job.event)
      BY <3>1 DEF ArchiveInv
    <3>. QED
      BY <1>1, <2>2, <3>1, <3>2 DEF Done
  <2>3. CASE x = w /\ ApplyJob(w)
    BY <2>3, AppliedIsProcessed DEF Done
  <2>. QED
    BY <2>1, <2>2, <2>3
<1>4. ASSUME worker' = worker
      PROVE  \A x \in Workers : worker'[x].at = "archive" =>
                Done(worker[x].job.event)'
  <2>. SUFFICES ASSUME NEW x \in Workers, worker[x].at = "archive"
                PROVE  Done(worker[x].job.event)'
    BY <1>4
  <2>1. worker[x].job.event \in Raw /\ Done(worker[x].job.event)
    BY <1>2 DEF ArchiveInv
  <2>. QED
    BY <1>1, <1>4, <2>1 DEF Done
<1>5. ASSUME NEW e \in Raw, msg'[e].place = "archived",
             msg[e].place = "archived"
      PROVE  Done(e)'
  BY <1>1, <1>5 DEF ArchiveInv, ArchivedIsProcessed, Done
<1>6. ASSUME NEW w \in Workers, NEW e \in Raw,
             ReadJobs(w) \/ WorkerStep(w) \/ WorkerFault(w),
             msg'[e].place = "archived"
      PROVE  Done(e)'
  <2>1. msg \in [Raw -> [place : JobPlaces, reads : 0..DeadLetterReads]]
    BY DEF PipelineTypeOK
  <2>2. CASE UNCHANGED queueVars
    BY <1>5, <1>6, <2>2 DEF queueVars
  <2>3. CASE ReadJobs(w)
    BY <1>5, <1>6, <2>3, ReadMovesWithinQueue
  <2>4. CASE /\ worker[w].at = "archive"
             /\ Remove(worker[w].job.event, "archived")
    <3>1. worker[w].job.event \in Raw
      BY <1>2, <2>4
    <3>2. msg[e].place = "archived" \/ e = worker[w].job.event
      BY <1>6, <2>1, <2>4, <3>1 DEF Remove
    <3>3. Done(worker[w].job.event)
      BY <2>4 DEF ArchiveInv
    <3>. QED
      BY <1>1, <1>5, <1>6, <3>1, <3>2, <3>3
  <2>5. ASSUME NEW b \in Raw, BuryJob(b) PROVE msg[e].place = "archived"
    BY <1>6, <2>1, <2>5 DEF BuryJob, Remove
  <2>. QED
    BY <1>5, <1>6, <2>2, <2>3, <2>4, <2>5, WorkerQueue DEF WorkerQueueStep
<1>7. ASSUME NEW w \in Workers, ReadJobs(w) \/ WorkerStep(w) \/ WorkerFault(w)
      PROVE  ArchiveInv'
  BY <1>3, <1>6, <1>7 DEF ArchiveInv, ArchivedIsProcessed, Done
<1>8. ASSUME worker' = worker,
             \A e \in Raw : msg'[e].place = "archived" =>
                               msg[e].place = "archived"
      PROVE  ArchiveInv'
  BY <1>4, <1>5, <1>8 DEF ArchiveInv, ArchivedIsProcessed, Done
<1>9. ASSUME NEW d \in Deliveries, Ingest(d) PROVE ArchiveInv'
  <2>1. worker' = worker
    BY <1>9 DEF Ingest, CheckRequest, InsertRaw, AnswerDuplicate, EnqueueJob,
                AnswerAccepted, IngestFails
  <2>2. ASSUME NEW e \in Raw, msg'[e].place = "archived"
        PROVE  msg[e].place = "archived"
    BY <1>9, <2>2
       DEF Ingest, CheckRequest, InsertRaw, AnswerDuplicate, EnqueueJob,
           AnswerAccepted, IngestFails, queueVars, PipelineTypeOK
  <2>. QED
    BY <1>8, <2>1, <2>2
<1>10. ASSUME NEW e \in Raw, VisibilityTimeout(e) PROVE ArchiveInv'
  <2>1. worker' = worker
    BY <1>10 DEF VisibilityTimeout
  <2>2. \A x \in Raw : msg'[x].place = "archived" =>
                          msg[x].place = "archived"
    BY <1>10 DEF VisibilityTimeout, PipelineTypeOK
  <2>. QED
    BY <1>8, <2>1, <2>2
<1>11. CASE Operate \/ \E k \in Direct : ProcessEvent(k)
  <2>1. worker' = worker /\ msg' = msg
    BY <1>11 DEF Operate, ProcessEvent, queueVars
  <2>. QED
    BY <1>8, <2>1
<1>12. CASE UNCHANGED pipelineVars
  <2>1. worker' = worker /\ msg' = msg
    BY <1>12 DEF pipelineVars, queueVars
  <2>. QED
    BY <1>8, <2>1
<1>. QED
  BY <1>7, <1>9, <1>10, <1>11, <1>12 DEF PipelineNext

LEMMA ArchiveInit == PipelineInit => ArchiveInv
BY DEF PipelineInit, ArchiveInv, ArchivedIsProcessed, IdleWorker

\* However calls on one raw event overlap, the job of an event is archived
\* only when the event was processed, and the only thing that can undo that is
\* the handler of a failed call that finds it processed.
THEOREM ArchivedMeansProcessed == PipelineSafeSpec => []ArchivedIsProcessed
<1>1. ArchiveInv => ArchivedIsProcessed
  BY DEF ArchiveInv
<1>. QED
  BY <1>1, ArchiveInit, ArchiveStep, PipelineTypeInit, PipelineTypeStep, PTL
     DEF PipelineSafeSpec

-----------------------------------------------------------------------------
(* Dead letters.                                                           *)

JobsOf(u) == u.batch \cup (IF u.at = "idle" THEN {} ELSE {u.job})

\* A worker has at most one job of an event, and dead-letters it for having
\* been read too often.
Tidy(u) ==
    /\ \A i, j \in JobsOf(u) : i.event = j.event => i = j
    /\ u.at # "idle" => u.job \notin u.batch
    /\ u.at = "dead_letter" => u.job.reads >= DeadLetterReads

Holders(e) == {w \in Workers : \E j \in JobsOf(worker[w]) : j.event = e}

\* Workers know no more reads of a job than there were; a dead letter's job
\* is out of the queue, and only who has it already can bury it once more.
DeadInv ==
    /\ \A w \in Workers :
          /\ Tidy(worker[w])
          /\ \A j \in JobsOf(worker[w]) :
                j.reads <= msg[j.event].reads /\ msg[j.event].place # "none"
    /\ \A e \in Raw : dead[e] > 0 =>
          /\ msg[e].place \in {"archived", "deleted"}
          /\ msg[e].reads = DeadLetterReads
          /\ dead[e] + Cardinality(Holders(e)) <= Cardinality(Workers)

LEMMA JobsAreJobs ==
    ASSUME PipelineInv, NEW w \in Workers
    PROVE  /\ JobsOf(worker[w]) \subseteq Job
           /\ \A j \in JobsOf(worker[w]) :
                 j.event \in Raw /\ j.reads \in 1..DeadLetterReads
BY DEF PipelineInv, WorkerOK, WorkerState, JobsOf, Job

LEMMA HoldersBound ==
    ASSUME NEW e
    PROVE  /\ IsFiniteSet(Holders(e))
           /\ Cardinality(Holders(e)) \in Nat
           /\ Cardinality(Workers) \in Nat
           /\ Cardinality(Holders(e)) <= Cardinality(Workers)
<1>1. IsFiniteSet(Workers) /\ Holders(e) \in SUBSET Workers
  BY PipelineAssumption DEF Holders
<1>2. IsFiniteSet(Holders(e)) /\ Cardinality(Holders(e)) <= Cardinality(Workers)
  BY <1>1, FS_Subset
<1>. QED
  BY <1>1, <1>2, FS_CardinalityType

\* A step of a worker that reads no jobs: it keeps some of those it has.
WorkerKeeps(w, u) ==
    /\ worker' = [worker EXCEPT ![w] = u]
    /\ JobsOf(u) \subseteq JobsOf(worker[w])
    /\ Tidy(u)

LEMMA TidyParts ==
    ASSUME NEW u, NEW v, Tidy(u), JobsOf(v) \subseteq JobsOf(u),
           v.at # "idle" => v.job \notin v.batch,
           v.at = "dead_letter" => v.job.reads >= DeadLetterReads
    PROVE  Tidy(v)
BY DEF Tidy

LEMMA AfterFailureKeeps ==
    ASSUME NEW u \in WorkerState, NEW j \in Job, Tidy(u),
           NEW b, b \subseteq u.batch, j \in JobsOf(u), j \notin b
    PROVE  LET rest == [u EXCEPT !.batch = b]
               v == AfterFailure(rest, j) IN
           JobsOf(v) \subseteq JobsOf(u) /\ Tidy(v)
<1>. DEFINE rest == [u EXCEPT !.batch = b]
            v == AfterFailure(rest, j)
<1>1. CASE j.reads >= DeadLetterReads
  <2>1. v.at = "dead_letter" /\ v.job = j /\ v.batch = b
    BY <1>1 DEF AfterFailure, WorkerState
  <2>. HIDE DEF v
  <2>2. JobsOf(v) \subseteq JobsOf(u)
    BY <2>1 DEF JobsOf
  <2>. QED
    BY <1>1, <2>1, <2>2, TidyParts DEF v
<1>2. CASE ~ (j.reads >= DeadLetterReads)
  <2>1. v.at = "idle" /\ v.batch = b
    BY <1>2 DEF AfterFailure, WorkerState
  <2>. HIDE DEF v
  <2>2. JobsOf(v) \subseteq JobsOf(u)
    BY <2>1 DEF JobsOf
  <2>. QED
    BY <2>1, <2>2, TidyParts DEF v
<1>. QED
  BY <1>1, <1>2

LEMMA NonReadKeeps ==
    ASSUME PipelineTypeOK, PipelineInv, NEW w \in Workers, Tidy(worker[w]),
           WorkerStep(w) \/ WorkerFault(w)
    PROVE  \E u : WorkerKeeps(w, u)
<1>. DEFINE u0 == worker[w]
<1>1. /\ u0 \in WorkerState
      /\ u0.at # "idle" => u0.job \in Job
      /\ u0.batch \subseteq Job
      /\ worker \in [Workers -> WorkerState]
  BY DEF PipelineInv, WorkerOK, PipelineTypeOK, WorkerState
<1>2. CASE StartJob(w)
  <2>1. PICK j \in u0.batch :
          LET rest == [u0 EXCEPT !.batch = @ \ {j}] IN
          \/ worker' = [worker EXCEPT ![w] = [rest EXCEPT !.at = "apply",
                                                          !.job = j]]
          \/ worker' = [worker EXCEPT ![w] = AfterFailure(rest, j)]
    BY <1>2 DEF StartJob
  <2>. DEFINE rest == [u0 EXCEPT !.batch = @ \ {j}]
              v == [rest EXCEPT !.at = "apply", !.job = j]
  <2>2. rest = [u0 EXCEPT !.batch = u0.batch \ {j}] /\ j \in JobsOf(u0)
    BY <1>1 DEF JobsOf
  <2>3. JobsOf(AfterFailure(rest, j)) \subseteq JobsOf(u0)
        /\ Tidy(AfterFailure(rest, j))
    BY <1>1, <2>2, AfterFailureKeeps
  <2>4. v.at = "apply" /\ v.job = j /\ v.batch = u0.batch \ {j}
    BY <1>1 DEF WorkerState
  <2>5. JobsOf(v) \subseteq JobsOf(u0) /\ Tidy(v)
    <3>. HIDE DEF v
    <3>1. JobsOf(v) \subseteq JobsOf(u0)
      BY <2>4 DEF JobsOf
    <3>. QED
      BY <2>4, <3>1, TidyParts
  <2>. HIDE DEF v, rest
  <2>. QED
    BY <2>1, <2>3, <2>5 DEF WorkerKeeps, v, rest
<1>3. ASSUME worker' = worker PROVE \E u : WorkerKeeps(w, u)
  <2>1. worker' = [worker EXCEPT ![w] = u0]
    BY <1>1, <1>3
  <2>. QED
    BY <2>1 DEF WorkerKeeps
<1>4. ASSUME u0.at # "idle", FailJob(w, u0.job)
      PROVE  \E u : WorkerKeeps(w, u)
  <2>1. u0 = [u0 EXCEPT !.batch = u0.batch]
    BY <1>1 DEF WorkerState
  <2>2. /\ JobsOf(AfterFailure(u0, u0.job)) \subseteq JobsOf(u0)
        /\ Tidy(AfterFailure(u0, u0.job))
    <3>1. u0.job \in JobsOf(u0) /\ u0.job \notin u0.batch
      BY <1>4 DEF JobsOf, Tidy
    <3>. QED
      BY <1>1, <1>4, <2>1, <3>1, AfterFailureKeeps
  <2>. QED
    BY <1>4, <2>2 DEF FailJob, WorkerKeeps
<1>5. ASSUME EndJob(w) PROVE \E u : WorkerKeeps(w, u)
  <2>. DEFINE v == [[u0 EXCEPT !.at = "idle"] EXCEPT !.job = NoJob]
  <2>1. worker' = [worker EXCEPT ![w] = v]
    BY <1>1, <1>5 DEF EndJob
  <2>2. v.at = "idle" /\ v.batch = u0.batch
    BY <1>1 DEF WorkerState
  <2>. HIDE DEF v
  <2>3. JobsOf(v) \subseteq JobsOf(u0)
    BY <2>2 DEF JobsOf
  <2>. QED
    BY <2>1, <2>2, <2>3, TidyParts DEF WorkerKeeps
<1>6. ASSUME u0.at # "idle", NEW step \in {"archive", "handler"},
             worker' = [worker EXCEPT ![w].at = step]
      PROVE  \E u : WorkerKeeps(w, u)
  <2>. DEFINE v == [u0 EXCEPT !.at = step]
  <2>1. worker' = [worker EXCEPT ![w] = v]
    BY <1>6
  <2>2. v.at = step /\ v.batch = u0.batch /\ v.job = u0.job
    BY <1>1 DEF WorkerState
  <2>. HIDE DEF v
  <2>3. JobsOf(v) \subseteq JobsOf(u0) /\ v.job \notin v.batch
    BY <1>6, <2>2 DEF JobsOf, Tidy
  <2>. QED
    BY <2>1, <2>2, <2>3, TidyParts DEF WorkerKeeps
<1>7. ASSUME worker' = [worker EXCEPT ![w] = IdleWorker]
      PROVE  \E u : WorkerKeeps(w, u)
  <2>1. JobsOf(IdleWorker) = {} /\ Tidy(IdleWorker)
    BY DEF JobsOf, Tidy, IdleWorker
  <2>. QED
    BY <1>7, <2>1 DEF WorkerKeeps
<1>8. CASE ApplyJob(w) \/ ApplyAborts(w)
  BY <1>6, <1>8 DEF ApplyJob, ApplyAborts
<1>9. CASE ApplyFails(w) \/ CallFails(w) \/ AnswerLost(w)
  BY <1>4, <1>9 DEF ApplyFails, CallFails, AnswerLost
<1>10. CASE HandlerRuns(w)
  BY <1>3, <1>10 DEF HandlerRuns
<1>11. CASE ArchiveJob(w) \/ DeadLetterJob(w)
  BY <1>5, <1>11 DEF ArchiveJob, DeadLetterJob
<1>12. CASE DeadLetterThrows(w) \/ Crash(w)
  BY <1>7, <1>12 DEF DeadLetterThrows, Crash
<1>. QED
  BY <1>2, <1>8, <1>9, <1>10, <1>11, <1>12 DEF WorkerStep, WorkerFault

\* The queue, where nothing becomes a dead letter: jobs that left it stay
\* where they are, and reads are not forgotten.
QueueQuiet ==
    /\ dead' = dead
    /\ \A e \in Raw :
          /\ msg[e].place # "none" =>
                msg'[e].place # "none" /\ msg'[e].reads >= msg[e].reads
          /\ msg[e].place \in {"archived", "deleted"} => msg'[e] = msg[e]

LEMMA FewerHolders ==
    ASSUME NEW e, Holders(e)' \in SUBSET Holders(e)
    PROVE  Cardinality(Holders(e)') <= Cardinality(Holders(e))
BY HoldersBound, FS_Subset

LEMMA QuietKeepsDead ==
    ASSUME PipelineTypeOK, PipelineTypeOK', PipelineInv, DeadInv, QueueQuiet,
           \A w \in Workers : /\ Tidy(worker'[w])
                              /\ JobsOf(worker'[w]) \subseteq JobsOf(worker[w])
    PROVE  DeadInv'
<1>1. ASSUME NEW w \in Workers, NEW j \in JobsOf(worker'[w])
      PROVE  j.reads <= msg'[j.event].reads /\ msg'[j.event].place # "none"
  <2>1. /\ j \in JobsOf(worker[w])
        /\ j.event \in Raw
        /\ j.reads \in 1..DeadLetterReads
    BY JobsAreJobs
  <2>2. j.reads <= msg[j.event].reads /\ msg[j.event].place # "none"
    BY <2>1 DEF DeadInv
  <2>3. msg'[j.event].place # "none" /\ msg'[j.event].reads >= msg[j.event].reads
    BY <2>1, <2>2 DEF QueueQuiet
  <2>4. msg[j.event].reads \in 0..DeadLetterReads
        /\ msg'[j.event].reads \in 0..DeadLetterReads
    BY <2>1 DEF PipelineTypeOK
  <2>. QED
    BY <2>1, <2>2, <2>3, <2>4, PipelineAssumption
<1>2. ASSUME NEW e \in Raw, dead'[e] > 0
      PROVE  /\ msg'[e].place \in {"archived", "deleted"}
             /\ msg'[e].reads = DeadLetterReads
             /\ dead'[e] + Cardinality(Holders(e)') <= Cardinality(Workers)
  <2>1. dead'[e] = dead[e] /\ dead[e] \in Nat
    BY DEF QueueQuiet, PipelineTypeOK
  <2>2. Cardinality(Holders(e)') <= Cardinality(Holders(e))
    <3>1. Holders(e)' \in SUBSET Holders(e)
      BY DEF Holders
    <3>. QED
      BY <3>1, FewerHolders
  <2>3. Cardinality(Holders(e)') \in Nat
    <3>1. IsFiniteSet(Workers) /\ Holders(e)' \in SUBSET Workers
      BY PipelineAssumption DEF Holders
    <3>. QED
      BY <3>1, FS_Subset, FS_CardinalityType
  <2>4. /\ msg[e].place \in {"archived", "deleted"}
        /\ msg[e].reads = DeadLetterReads
        /\ dead[e] + Cardinality(Holders(e)) <= Cardinality(Workers)
    BY <1>2, <2>1 DEF DeadInv
  <2>5. msg'[e] = msg[e]
    BY <2>4 DEF QueueQuiet
  <2>. QED
    BY <2>1, <2>2, <2>3, <2>4, <2>5, HoldersBound
<1>. QED
  BY <1>1, <1>2 DEF DeadInv

LEMMA ReadKeepsDead ==
    ASSUME PipelineTypeOK, PipelineTypeOK', PipelineInv, DeadInv,
           NEW w \in Workers, ReadJobs(w)
    PROVE  DeadInv'
<1>0. dead' = dead /\ worker[w] = IdleWorker
  BY DEF ReadJobs
<1>1. PICK B \in SUBSET Visible :
        /\ msg' = [e \in Raw |->
                     IF e \in B
                     THEN [place |-> "hidden", reads |-> NextRead(msg[e].reads)]
                     ELSE msg[e]]
        /\ worker' = [worker EXCEPT ![w].batch = {JobRead(e) : e \in B}]
  BY DEF ReadJobs
<1>2. \A e \in B : e \in Raw /\ msg[e].place = "visible"
  BY DEF Visible
<1>3. ASSUME NEW e \in Raw
      PROVE  /\ NextRead(msg[e].reads) >= msg[e].reads
             /\ e \in B => /\ msg'[e].place = "hidden"
                           /\ msg'[e].reads = NextRead(msg[e].reads)
             /\ e \notin B => msg'[e] = msg[e]
  <2>1. msg[e].reads \in 0..DeadLetterReads
    BY DEF PipelineTypeOK
  <2>2. NextRead(msg[e].reads) >= msg[e].reads
    BY <2>1, PipelineAssumption DEF NextRead
  <2>. QED
    BY <1>1, <2>2
<1>. DEFINE b == {JobRead(e) : e \in B}
<1>4. /\ JobsOf(worker'[w]) = b
      /\ worker'[w].at = "idle"
      /\ \A v \in Workers \ {w} : worker'[v] = worker[v]
  <2>1. worker \in [Workers -> WorkerState]
    BY DEF PipelineTypeOK, WorkerState
  <2>2. worker'[w].at = "idle" /\ worker'[w].batch = b
    BY <1>0, <1>1, <2>1 DEF WorkerState, IdleWorker
  <2>3. \A v \in Workers \ {w} : worker'[v] = worker[v]
    BY <1>1, <2>1
  <2>. QED
    BY <2>2, <2>3 DEF JobsOf
<1>5. ASSUME NEW v \in Workers, NEW j \in JobsOf(worker'[v])
      PROVE  /\ j.reads <= msg'[j.event].reads
             /\ msg'[j.event].place # "none"
  <2>1. CASE v = w
    <3>1. PICK e \in B : j = JobRead(e)
      BY <1>4, <2>1
    <3>2. j.event = e /\ j.reads = msg'[e].reads /\ msg'[e].place = "hidden"
      BY <1>2, <1>3, <3>1 DEF JobRead
    <3>3. msg'[e].reads \in 0..DeadLetterReads
      BY <1>2 DEF PipelineTypeOK
    <3>. QED
      BY <3>2, <3>3
  <2>2. CASE v # w
    <3>1. /\ j \in JobsOf(worker[v]) /\ j.event \in Raw
          /\ j.reads \in 1..DeadLetterReads
      BY <1>4, <2>2, JobsAreJobs
    <3>2. j.reads <= msg[j.event].reads /\ msg[j.event].place # "none"
      BY <3>1 DEF DeadInv
    <3>3. msg[j.event].reads \in 0..DeadLetterReads
          /\ msg'[j.event].reads \in 0..DeadLetterReads
      BY <3>1 DEF PipelineTypeOK
    <3>4. CASE j.event \in B
      <4>1. msg'[j.event].reads >= msg[j.event].reads
        BY <1>3, <3>1, <3>4
      <4>2. msg'[j.event].place = "hidden"
        BY <1>3, <3>1, <3>4
      <4>. QED
        BY <3>1, <3>2, <3>3, <4>1, <4>2, PipelineAssumption
    <3>5. CASE j.event \notin B
      BY <1>3, <3>1, <3>2, <3>5
    <3>. QED
      BY <3>4, <3>5
  <2>. QED
    BY <2>1, <2>2
<1>6. ASSUME NEW v \in Workers PROVE Tidy(worker'[v])
  <2>1. CASE v = w
    <3>1. \A i, j \in b : i.event = j.event => i = j
      BY DEF JobRead
    <3>. HIDE DEF b
    <3>. QED
      BY <1>4, <2>1, <3>1 DEF Tidy
  <2>2. CASE v # w
    BY <1>4, <2>2 DEF DeadInv
  <2>. QED
    BY <2>1, <2>2
<1>7. ASSUME NEW e \in Raw, dead'[e] > 0
      PROVE  /\ msg'[e].place \in {"archived", "deleted"}
             /\ msg'[e].reads = DeadLetterReads
             /\ dead'[e] + Cardinality(Holders(e)') <= Cardinality(Workers)
  <2>1. /\ dead'[e] = dead[e]
        /\ msg[e].place \in {"archived", "deleted"}
        /\ msg[e].reads = DeadLetterReads
        /\ dead[e] + Cardinality(Holders(e)) <= Cardinality(Workers)
    BY <1>0, <1>7 DEF DeadInv
  <2>2. e \notin B /\ msg'[e] = msg[e]
    BY <1>2, <1>3, <2>1
  <2>3. Holders(e)' = Holders(e)
    <3>1. \A j \in b : j.event # e
      BY <2>2 DEF JobRead
    <3>2. JobsOf(worker[w]) = {}
      BY <1>0 DEF JobsOf, IdleWorker
    <3>3. ASSUME NEW v \in Workers
          PROVE  (\E j \in JobsOf(worker'[v]) : j.event = e)
                   <=> \E j \in JobsOf(worker[v]) : j.event = e
      <4>. HIDE DEF b
      <4>1. CASE v = w
        BY <1>4, <3>1, <3>2, <4>1
      <4>2. CASE v # w
        BY <1>4, <4>2
      <4>. QED
        BY <4>1, <4>2
    <3>. QED
      BY <3>3 DEF Holders
  <2>. QED
    BY <2>1, <2>2, <2>3
<1>. QED
  BY <1>5, <1>6, <1>7 DEF DeadInv

\* Who buries a job had it, and has it no longer.
LEMMA BuryKeepsDead ==
    ASSUME PipelineTypeOK, PipelineTypeOK', PipelineInv, DeadInv,
           NEW w \in Workers, worker[w].at = "dead_letter",
           BuryJob(worker[w].job.event),
           EndJob(w) \/ worker' = [worker EXCEPT ![w] = IdleWorker]
    PROVE  DeadInv'
<1>. DEFINE u0 == worker[w]
            j0 == worker[w].job
            e0 == worker[w].job.event
<1>1. /\ j0 \in JobsOf(u0) /\ j0 \notin u0.batch
      /\ j0.reads >= DeadLetterReads
      /\ \A j \in JobsOf(u0) : j.event = e0 => j = j0
  BY DEF DeadInv, Tidy, JobsOf
<1>2. e0 \in Raw /\ j0.reads \in 1..DeadLetterReads
  BY <1>1, JobsAreJobs
<1>3. msg[e0].place # "none" /\ msg[e0].reads = DeadLetterReads
  <2>1. j0.reads <= msg[e0].reads /\ msg[e0].place # "none"
    BY <1>1 DEF DeadInv
  <2>2. msg[e0].reads \in 0..DeadLetterReads
    BY <1>2 DEF PipelineTypeOK
  <2>. QED
    BY <1>1, <1>2, <2>1, <2>2, PipelineAssumption
<1>4. /\ dead'[e0] = dead[e0] + 1
      /\ \A e \in Raw \ {e0} : dead'[e] = dead[e] /\ msg'[e] = msg[e]
      /\ msg'[e0].place \in {"archived", "deleted"}
      /\ msg'[e0].reads = msg[e0].reads
      /\ dead \in [Raw -> Nat]
  <2>1. /\ dead \in [Raw -> Nat]
        /\ msg \in [Raw -> [place : JobPlaces, reads : 0..DeadLetterReads]]
    BY DEF PipelineTypeOK
  <2>2. /\ dead' = [dead EXCEPT ![e0] = @ + 1]
        /\ Remove(e0, "deleted")
    BY DEF BuryJob
  <2>. HIDE DEF e0
  <2>. QED
    BY <1>2, <1>3, <2>1, <2>2 DEF Remove, InQueue, JobPlaces
<1>5. /\ JobsOf(worker'[w]) \subseteq u0.batch
      /\ worker'[w].at = "idle"
      /\ \A v \in Workers \ {w} : worker'[v] = worker[v]
  <2>1. worker \in [Workers -> WorkerState]
    BY DEF PipelineTypeOK, WorkerState
  <2>2. CASE EndJob(w)
    BY <2>1, <2>2 DEF EndJob, JobsOf, WorkerState
  <2>3. CASE worker' = [worker EXCEPT ![w] = IdleWorker]
    BY <2>1, <2>3 DEF JobsOf, IdleWorker
  <2>. QED
    BY <2>2, <2>3
<1>6. ASSUME NEW v \in Workers
      PROVE  /\ Tidy(worker'[v])
             /\ JobsOf(worker'[v]) \subseteq JobsOf(worker[v])
  <2>1. CASE v = w
    <3>1. JobsOf(worker'[w]) \subseteq JobsOf(u0)
      BY <1>5 DEF JobsOf
    <3>. QED
      BY <1>5, <2>1, <3>1, TidyParts DEF DeadInv
  <2>2. CASE v # w
    BY <1>5, <2>2 DEF DeadInv
  <2>. QED
    BY <2>1, <2>2
<1>7. ASSUME NEW v \in Workers, NEW j \in JobsOf(worker'[v])
      PROVE  j.reads <= msg'[j.event].reads /\ msg'[j.event].place # "none"
  <2>1. j \in JobsOf(worker[v]) /\ j.event \in Raw
    BY <1>6, JobsAreJobs
  <2>2. j.reads <= msg[j.event].reads /\ msg[j.event].place # "none"
    BY <2>1 DEF DeadInv
  <2>3. msg'[j.event].reads = msg[j.event].reads
        /\ msg'[j.event].place # "none"
    BY <1>4, <2>1, <2>2
  <2>. QED
    BY <2>2, <2>3
<1>8. \A e \in Raw : Holders(e)' \in SUBSET Holders(e)
  BY <1>6 DEF Holders
<1>9. ASSUME NEW e \in Raw, e = e0
      PROVE  w \in Holders(e) /\ Holders(e)' \in SUBSET (Holders(e) \ {w})
  <2>1. w \in Holders(e)
    BY <1>1, <1>9 DEF Holders
  <2>2. \A j \in JobsOf(worker'[w]) : j.event # e
    BY <1>1, <1>5, <1>9 DEF JobsOf
  <2>3. w \notin Holders(e)'
    BY <2>2 DEF Holders
  <2>. QED
    BY <1>8, <2>1, <2>3
<1>10. ASSUME NEW e \in Raw, e = e0
       PROVE  Cardinality(Holders(e)') <= Cardinality(Holders(e)) - 1
  <2>0. w \in Holders(e) /\ Holders(e)' \in SUBSET (Holders(e) \ {w})
    BY <1>9, <1>10
  <2>1. /\ IsFiniteSet(Holders(e) \ {w})
        /\ Cardinality(Holders(e) \ {w}) = Cardinality(Holders(e)) - 1
    BY <2>0, HoldersBound, FS_RemoveElement
  <2>. QED
    BY <2>0, <2>1, FS_Subset
<1>11. \A e \in Raw : Cardinality(Holders(e)') \in Nat
  <2>1. \A e \in Raw : Holders(e)' \in SUBSET Workers
    BY DEF Holders
  <2>. QED
    BY <2>1, PipelineAssumption, FS_Subset, FS_CardinalityType
<1>12. ASSUME NEW e \in Raw, dead'[e] > 0
       PROVE  /\ msg'[e].place \in {"archived", "deleted"}
              /\ msg'[e].reads = DeadLetterReads
              /\ dead'[e] + Cardinality(Holders(e)') <= Cardinality(Workers)
  <2>1. dead[e] \in Nat
    BY <1>4
  <2>2. CASE e # e0
    <3>1. /\ msg[e].place \in {"archived", "deleted"}
          /\ msg[e].reads = DeadLetterReads
          /\ dead[e] + Cardinality(Holders(e)) <= Cardinality(Workers)
      BY <1>4, <1>12, <2>2 DEF DeadInv
    <3>2. Cardinality(Holders(e)') <= Cardinality(Holders(e))
      BY <1>8, FewerHolders
    <3>. HIDE DEF e0
    <3>3. dead'[e] = dead[e] /\ msg'[e] = msg[e]
      BY <1>4, <2>2
    <3>. QED
      BY <1>11, <2>1, <3>1, <3>2, <3>3, HoldersBound
  <2>3. CASE e = e0
    <3>1. dead[e] + Cardinality(Holders(e)) <= Cardinality(Workers)
      <4>1. CASE dead[e] = 0
        BY <4>1, HoldersBound
      <4>2. CASE dead[e] > 0
        BY <4>2 DEF DeadInv
      <4>. QED
        BY <2>1, <4>1, <4>2
    <3>2. Cardinality(Holders(e)') <= Cardinality(Holders(e)) - 1
      BY <1>10, <2>3
    <3>3. /\ dead'[e] = dead[e] + 1
          /\ msg'[e].place \in {"archived", "deleted"}
          /\ msg'[e].reads = DeadLetterReads
      BY <1>3, <1>4, <2>3
    <3>. QED
      BY <1>11, <2>1, <3>1, <3>2, <3>3, HoldersBound
  <2>. QED
    BY <2>2, <2>3
<1>. QED
  BY <1>6, <1>7, <1>12 DEF DeadInv

LEMMA DeadStep ==
    ASSUME PipelineTypeOK, PipelineTypeOK', PipelineInv, QueueInv, DeadInv,
           [PipelineNext]_pipelineVars
    PROVE  DeadInv'
<1>1. ASSUME QueueQuiet, worker' = worker PROVE DeadInv'
  BY <1>1, QuietKeepsDead DEF DeadInv
<1>2. ASSUME UNCHANGED queueVars PROVE QueueQuiet
  <2>1. \A e \in Raw : msg[e].reads \in 0..DeadLetterReads
    BY DEF PipelineTypeOK
  <2>. QED
    BY <1>2, <2>1, PipelineAssumption DEF queueVars, QueueQuiet
<1>3. CASE UNCHANGED pipelineVars
  BY <1>1, <1>2, <1>3 DEF pipelineVars
<1>4. ASSUME NEW d \in Deliveries, Ingest(d) PROVE DeadInv'
  <2>1. CASE EnqueueJob(d)
    <3>. DEFINE e == delivery[d].event
    <3>1. e \in Raw /\ msg[e].place = "none"
      BY <2>1 DEF EnqueueJob, Advance, QueueInv, PipelineTypeOK
    <3>2. \A x \in Raw : msg[x].reads \in 0..DeadLetterReads
      BY DEF PipelineTypeOK
    <3>3. QueueQuiet
      BY <2>1, <3>1, <3>2, PipelineAssumption
         DEF EnqueueJob, QueueQuiet, PipelineTypeOK
    <3>. QED
      BY <1>1, <2>1, <3>3 DEF EnqueueJob
  <2>2. CASE ~ EnqueueJob(d)
    BY <1>1, <1>2, <1>4, <2>2
       DEF Ingest, CheckRequest, InsertRaw, AnswerDuplicate, AnswerAccepted,
           IngestFails
  <2>. QED
    BY <2>1, <2>2
<1>5. ASSUME NEW w \in Workers, ReadJobs(w) PROVE DeadInv'
  BY <1>5, ReadKeepsDead
<1>6. ASSUME NEW w \in Workers, WorkerStep(w) \/ WorkerFault(w), QueueQuiet
      PROVE  DeadInv'
  <2>1. PICK u : WorkerKeeps(w, u)
    BY <1>6, NonReadKeeps DEF DeadInv
  <2>2. \A v \in Workers : /\ Tidy(worker'[v])
                           /\ JobsOf(worker'[v]) \subseteq JobsOf(worker[v])
    BY <2>1 DEF WorkerKeeps, DeadInv, PipelineTypeOK
  <2>. QED
    BY <1>6, <2>2, QuietKeepsDead
<1>7. ASSUME NEW w \in Workers, worker[w].at = "archive",
             Remove(worker[w].job.event, "archived"), dead' = dead
      PROVE  QueueQuiet
  <2>1. worker[w].job.event \in Raw
    BY <1>7 DEF PipelineInv, WorkerOK, Job
  <2>2. \A x \in Raw : msg[x].reads \in 0..DeadLetterReads
    BY DEF PipelineTypeOK
  <2>. QED
    BY <1>7, <2>1, <2>2, PipelineAssumption
       DEF Remove, InQueue, QueueQuiet, PipelineTypeOK
<1>8. ASSUME NEW w \in Workers, WorkerStep(w) \/ WorkerFault(w)
      PROVE  DeadInv'
  <2>1. CASE DeadLetterJob(w)
    BY <2>1, BuryKeepsDead DEF DeadLetterJob
  <2>2. CASE DeadLetterThrows(w) /\ BuryJob(worker[w].job.event)
    BY <2>2, BuryKeepsDead DEF DeadLetterThrows
  <2>3. CASE ~ DeadLetterJob(w)
             /\ ~ (DeadLetterThrows(w) /\ BuryJob(worker[w].job.event))
    <3>1. \/ UNCHANGED queueVars
          \/ /\ worker[w].at = "archive"
             /\ Remove(worker[w].job.event, "archived")
             /\ dead' = dead
      BY <1>8, <2>3
         DEF WorkerStep, WorkerFault, StartJob, ApplyJob, ApplyAborts,
             ApplyFails, HandlerRuns, ArchiveJob, CallFails, AnswerLost,
             DeadLetterThrows, Crash, queueVars
    <3>. QED
      BY <1>2, <1>6, <1>7, <1>8, <3>1
  <2>. QED
    BY <2>1, <2>2, <2>3
<1>9. ASSUME NEW e \in Raw, VisibilityTimeout(e) PROVE DeadInv'
  <2>1. \A x \in Raw : msg[x].reads \in 0..DeadLetterReads
    BY DEF PipelineTypeOK
  <2>2. QueueQuiet
    BY <1>9, <2>1, PipelineAssumption
       DEF VisibilityTimeout, QueueQuiet, PipelineTypeOK
  <2>. QED
    BY <1>1, <1>9, <2>2 DEF VisibilityTimeout
<1>10. CASE Operate \/ \E k \in Direct : ProcessEvent(k)
  BY <1>1, <1>2, <1>10 DEF Operate, ProcessEvent
<1>. QED
  BY <1>3, <1>4, <1>5, <1>8, <1>9, <1>10 DEF PipelineNext

LEMMA DeadInit == PipelineInit => DeadInv
<1>. SUFFICES ASSUME PipelineInit PROVE DeadInv
  OBVIOUS
<1>1. \A w \in Workers : worker[w] = IdleWorker
  BY DEF PipelineInit
<1>2. JobsOf(IdleWorker) = {} /\ Tidy(IdleWorker)
  BY DEF JobsOf, Tidy, IdleWorker
<1>3. \A e \in Raw : ~ (dead[e] > 0)
  BY DEF PipelineInit
<1>. QED
  BY <1>1, <1>2, <1>3 DEF DeadInv

\* A job becomes a dead letter only when it was read often enough, at most
\* once per worker, and is deleted only then.
THEOREM DeadLettersAreEarned == PipelineSafeSpec => []DeadLettersEarned
<1>1. PipelineTypeOK /\ QueueInv /\ DeadInv => DeadLettersEarned
  <2>. SUFFICES ASSUME PipelineTypeOK, QueueInv, DeadInv, NEW e \in Raw
                PROVE  /\ dead[e] > 0 => msg[e].reads = DeadLetterReads
                       /\ dead[e] <= Cardinality(Workers)
                       /\ msg[e].place = "deleted" => dead[e] > 0
    BY DEF DeadLettersEarned
  <2>1. dead[e] \in Nat
    BY DEF PipelineTypeOK
  <2>2. CASE dead[e] = 0
    BY <2>2, HoldersBound DEF QueueInv
  <2>3. CASE dead[e] > 0
    <3>1. dead[e] + Cardinality(Holders(e)) <= Cardinality(Workers)
          /\ msg[e].reads = DeadLetterReads
      BY <2>3 DEF DeadInv
    <3>. QED
      BY <2>1, <2>3, <3>1, HoldersBound
  <2>. QED
    BY <2>1, <2>2, <2>3
<1>2. PipelineTypeOK /\ PipelineInv /\ QueueInv /\ DeadInv
        /\ [PipelineNext]_pipelineVars =>
          (PipelineTypeOK /\ PipelineInv /\ QueueInv /\ DeadInv)'
  BY PipelineTypeStep, QueueStep, DeadStep
<1>. QED
  BY <1>1, <1>2, PipelineTypeInit, QueueInit, DeadInit, PTL
     DEF PipelineSafeSpec
=============================================================================
