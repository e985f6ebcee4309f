------------------------ MODULE ReplayControlProofs ------------------------
(***************************************************************************)
(* What controlled replay promises, for any number of keys, runs, workers  *)
(* and faults, and any threshold for dead letters.                         *)
(***************************************************************************)
EXTENDS ReplayControl, TLAPS

-----------------------------------------------------------------------------
(* What a step may do to the requests.                                     *)

\* The variables a decision or a replay changes.
requestVars == <<status, request, succeeded>>

RequestState == [status : RequestStatuses, run : Runs \cup {NoRun},
                 replayed : BOOLEAN]

RequestTypeOK ==
    /\ status \in [Runs -> RunStatuses]
    /\ request \in [Keys -> RequestState]
    /\ succeeded \in [Keys -> Nat]

RunEnds ==
    \E r \in Runs, s \in TerminalStatuses :
        /\ IsLegalRunTransition(status[r], s)
        /\ status[r] # s
        /\ status' = [status EXCEPT ![r] = s]
        /\ UNCHANGED <<request, succeeded>>

Requested(k, r) ==
    /\ status[r] \in Replayable
    /\ request[k].status = "none"
    /\ ~ ActiveReplay(r)
    /\ request' = [request EXCEPT ![k].status = "pending", ![k].run = r]
    /\ UNCHANGED <<status, succeeded>>

Decided(k, decision) ==
    /\ request[k].status = "pending"
    /\ request' = [request EXCEPT ![k].status = decision]
    /\ UNCHANGED <<status, succeeded>>

Replayed(k) == Replay(k) /\ UNCHANGED status

Decisions == {"approved", "rejected"}

\* Every step does one of these things to the requests.
RequestsMove ==
    \/ UNCHANGED requestVars
    \/ RunEnds
    \/ \E k \in Keys, r \in Runs : Requested(k, r)
    \/ \E k \in Keys, d \in Decisions : Decided(k, d)
    \/ \E k \in Keys : Replayed(k)

-----------------------------------------------------------------------------
(* Workers and jobs.                                                       *)

WorkerState == [at : {"idle", "call", "archive", "dead_letter"},
                batch : SUBSET Job, job : Job \cup {NoJob}]

\* A worker between two calls knows its job.
WorkerOK(u) ==
    /\ u \in WorkerState
    /\ u.at # "idle" => u.job \in Job

MessageState == [place : {"none", "visible", "hidden", "archived", "deleted"},
                 reads : 0..DeadLetterReads]

\* TypeOK is not inductive: a worker that calls must have a job.
TypeInv ==
    /\ RequestTypeOK
    /\ msg \in [JobNames -> MessageState]
    /\ dead \in [JobNames -> Nat]
    /\ worker \in [Workers -> WorkerState]
    /\ \A w \in Workers : WorkerOK(worker[w])
    /\ faults \in 0..MaxFaults

LEMMA TypeInvImpliesTypeOK == TypeInv => TypeOK
BY DEF TypeInv, TypeOK, RequestTypeOK, RequestState, WorkerState, MessageState

LEMMA NextReadBounds ==
    ASSUME NEW n \in 0..DeadLetterReads
    PROVE  NextRead(n) \in 1..DeadLetterReads
BY ReplayAssumption DEF NextRead

LEMMA JobReadType ==
    ASSUME TypeInv, NEW m \in JobNames
    PROVE  JobRead(m) \in Job
<1>1. msg[m].reads \in 0..DeadLetterReads
  BY DEF TypeInv, MessageState
<1>. QED
  BY <1>1, NextReadBounds DEF JobRead, Job

LEMMA JobType ==
    ASSUME NEW j \in Job
    PROVE  j.name \in JobNames /\ j.name[1] \in Keys
BY DEF Job, JobNames

\* The job a worker calls for.
LEMMA CalledJob ==
    ASSUME TypeInv, NEW w \in Workers, worker[w].at # "idle"
    PROVE  /\ worker[w].job \in Job
           /\ worker[w].job.name \in JobNames
           /\ worker[w].job.name[1] \in Keys
BY JobType DEF TypeInv, WorkerOK

\* A step of the workers leaves one of them in a state it may be in.
LEMMA WorkerMoves ==
    ASSUME TypeInv, NEW w \in Workers, NEW u, WorkerOK(u),
           worker' = [worker EXCEPT ![w] = u]
    PROVE  /\ worker' \in [Workers -> WorkerState]
           /\ \A v \in Workers : WorkerOK(worker'[v])
BY DEF TypeInv, WorkerOK

LEMMA IdleWorkerOK == WorkerOK(IdleWorker)
BY DEF WorkerOK, WorkerState, IdleWorker

\* A job is sent, read, or taken from the queue.
LEMMA SendType ==
    ASSUME TypeInv, NEW m \in JobNames, Send(m)
    PROVE  msg' \in [JobNames -> MessageState]
BY ReplayAssumption DEF TypeInv, Send, MessageState

LEMMA RemoveType ==
    ASSUME TypeInv, NEW m \in JobNames, NEW place \in {"archived", "deleted"},
           Remove(m, place)
    PROVE  msg' \in [JobNames -> MessageState]
BY DEF TypeInv, Remove, MessageState

LEMMA FaultType ==
    ASSUME faults \in 0..MaxFaults, Fault
    PROVE  faults' \in 0..MaxFaults
BY ReplayAssumption DEF Fault

LEMMA FailJobOK ==
    ASSUME TypeInv, NEW w \in Workers, worker[w].at # "idle", FailJob(w)
    PROVE  /\ worker' \in [Workers -> WorkerState]
           /\ \A v \in Workers : WorkerOK(worker'[v])
<1>. DEFINE u0 == worker[w]
            u == IF u0.job.reads >= DeadLetterReads
                 THEN [u0 EXCEPT !.at = "dead_letter"]
                 ELSE [u0 EXCEPT !.at = "idle", !.job = NoJob]
<1>1. worker' = [worker EXCEPT ![w] = u]
  BY DEF FailJob
<1>2. WorkerOK(u)
  BY CalledJob DEF TypeInv, WorkerOK, WorkerState
<1>. QED
  BY <1>1, <1>2, WorkerMoves

LEMMA EndJobOK ==
    ASSUME TypeInv, NEW w \in Workers, EndJob(w)
    PROVE  /\ worker' \in [Workers -> WorkerState]
           /\ \A v \in Workers : WorkerOK(worker'[v])
<1>. DEFINE u == [worker[w] EXCEPT !.at = "idle", !.job = NoJob]
<1>1. worker' = [worker EXCEPT ![w] = u]
  BY DEF EndJob, TypeInv
<1>2. WorkerOK(u)
  BY DEF TypeInv, WorkerOK, WorkerState
<1>. QED
  BY <1>1, <1>2, WorkerMoves

-----------------------------------------------------------------------------
(* Steps, as the requests see them.                                        *)

LEMMA StepMovesRequests ==
    ASSUME TypeInv, [Next]_vars
    PROVE  RequestsMove
<1>1. CASE UNCHANGED vars
  BY <1>1 DEF vars, requestVars, RequestsMove
<1>2. CASE \E r \in Runs : EndRun(r)
  BY <1>2 DEF EndRun, RunEnds, RequestsMove
<1>3. CASE \E k \in Keys, r \in Runs : RequestReplay(k, r) \/ RequestAgain(k, r)
  BY <1>3 DEF RequestReplay, RequestAgain, Requested, RequestsMove,
              requestVars, vars
<1>4. CASE \E k \in Keys, d \in {"approved", "rejected"} : Decide(k, d)
  BY <1>4 DEF Decide, Decided, Decisions, RequestsMove
<1>5. ASSUME NEW w \in Workers, ProcessReplay(w) \/ ReplayCallFails(w)
      PROVE  RequestsMove
  <2>. DEFINE k == worker[w].job.name[1]
  <2>1. k \in Keys
    BY <1>5, CalledJob DEF ProcessReplay, ReplayCallFails
  <2>2. /\ UNCHANGED status
        /\ \/ Replay(k) \/ NothingToReplay(k) \/ ReplayFails(k)
           \/ UNCHANGED <<request, succeeded>>
    BY <1>5 DEF ProcessReplay, ReplayCallFails
  <2>3. CASE Replay(k)
    BY <2>1, <2>2, <2>3 DEF Replayed, RequestsMove
  <2>4. CASE NothingToReplay(k) \/ UNCHANGED <<request, succeeded>>
    BY <2>2, <2>4 DEF NothingToReplay, RequestsMove, requestVars
  <2>5. CASE ReplayFails(k)
    <3>1. request \in [Keys -> RequestState]
      BY DEF TypeInv, RequestTypeOK
    <3>2. request' = request
      BY <2>1, <2>5, <3>1 DEF ReplayFails, RequestState
    <3>. QED
      BY <2>2, <2>5, <3>2 DEF ReplayFails, RequestsMove, requestVars
  <2>. QED
    BY <2>2, <2>3, <2>4, <2>5
<1>6. ASSUME UNCHANGED requestVars PROVE RequestsMove
  BY <1>6 DEF RequestsMove
<1>7. ASSUME NEW w \in Workers,
             \/ ReadJobs(w) \/ StartJob(w) \/ ArchiveJob(w) \/ DeadLetterJob(w)
             \/ ArchiveFails(w) \/ DeadLetterThrows(w) \/ Crash(w)
      PROVE  UNCHANGED requestVars
  BY <1>7 DEF ReadJobs, StartJob, ArchiveJob, DeadLetterJob, ArchiveFails,
              DeadLetterThrows, Crash, requestVars
<1>8. ASSUME NEW m \in JobNames, VisibilityTimeout(m)
      PROVE  UNCHANGED requestVars
  BY <1>8 DEF VisibilityTimeout, requestVars
<1>. QED
  BY <1>1, <1>2, <1>3, <1>4, <1>5, <1>6, <1>7, <1>8 DEF Next, WorkerStep

LEMMA RequestTypes ==
    ASSUME RequestTypeOK, RequestsMove
    PROVE  RequestTypeOK'
<1>1. CASE UNCHANGED requestVars
  BY <1>1 DEF RequestTypeOK, requestVars
<1>2. CASE RunEnds
  BY <1>2 DEF RunEnds, RequestTypeOK, RunStatuses, TerminalStatuses
<1>3. ASSUME NEW k \in Keys, NEW r \in Runs, Requested(k, r)
      PROVE  RequestTypeOK'
  BY <1>3 DEF Requested, RequestTypeOK, RequestState, RequestStatuses
<1>4. ASSUME NEW k \in Keys, NEW d \in Decisions, Decided(k, d)
      PROVE  RequestTypeOK'
  BY <1>4 DEF Decided, Decisions, RequestTypeOK, RequestState, RequestStatuses
<1>5. ASSUME NEW k \in Keys, Replayed(k)
      PROVE  RequestTypeOK'
  <2>1. request' \in [Keys -> RequestState]
    BY <1>5 DEF Replayed, Replay, RequestTypeOK, RequestState, RequestStatuses
  <2>2. succeeded' \in [Keys -> Nat] /\ status' = status
    BY <1>5 DEF Replayed, Replay, RequestTypeOK
  <2>. QED
    BY <2>1, <2>2 DEF RequestTypeOK
<1>. QED
  BY <1>1, <1>2, <1>3, <1>4, <1>5 DEF RequestsMove

-----------------------------------------------------------------------------
(* Types.                                                                  *)

LEMMA InitTypes == Init => TypeInv
<1>. SUFFICES ASSUME Init PROVE TypeInv
  OBVIOUS
<1>1. RequestTypeOK
  BY DEF Init, RequestTypeOK, RequestState, RequestStatuses, RunStatuses
<1>2. /\ msg \in [JobNames -> MessageState]
      /\ dead \in [JobNames -> Nat]
      /\ faults \in 0..MaxFaults
  BY ReplayAssumption DEF Init, MessageState
<1>3. /\ worker \in [Workers -> WorkerState]
      /\ \A w \in Workers : WorkerOK(worker[w])
  BY IdleWorkerOK DEF Init, WorkerOK
<1>. QED
  BY <1>1, <1>2, <1>3 DEF TypeInv

\* The queue: messages, dead letters, workers and faults.
QueueTypeOK ==
    /\ msg \in [JobNames -> MessageState]
    /\ dead \in [JobNames -> Nat]
    /\ worker \in [Workers -> WorkerState]
    /\ \A w \in Workers : WorkerOK(worker[w])
    /\ faults \in 0..MaxFaults

LEMMA BuryType ==
    ASSUME TypeInv, NEW m \in JobNames, BuryJob(m)
    PROVE  msg' \in [JobNames -> MessageState] /\ dead' \in [JobNames -> Nat]
BY RemoveType DEF BuryJob, TypeInv

LEMMA WorkerStepTypes ==
    ASSUME TypeInv, NEW w \in Workers, ReadJobs(w) \/ WorkerStep(w)
    PROVE  QueueTypeOK'
<1>0. QueueTypeOK
  BY DEF TypeInv, QueueTypeOK
<1>1. CASE ReadJobs(w)
  <2>. DEFINE u == [worker[w] EXCEPT !.batch = {JobRead(m) : m \in Visible}]
  <2>1. {JobRead(m) : m \in Visible} \subseteq Job
    BY JobReadType DEF Visible
  <2>2. WorkerOK(u)
    BY <1>1, <2>1 DEF TypeInv, WorkerOK, WorkerState
  <2>3. worker' = [worker EXCEPT ![w] = u]
    BY <1>1 DEF ReadJobs
  <2>4. msg' \in [JobNames -> MessageState]
    <3>1. \A m \in JobNames : NextRead(msg[m].reads) \in 0..DeadLetterReads
      BY NextReadBounds DEF TypeInv, MessageState
    <3>. QED
      BY <1>1, <3>1 DEF ReadJobs, TypeInv, MessageState
  <2>. HIDE DEF u
  <2>5. /\ worker' \in [Workers -> WorkerState]
        /\ \A v \in Workers : WorkerOK(worker'[v])
    BY <2>2, <2>3, WorkerMoves
  <2>. QED
    BY <1>0, <1>1, <2>4, <2>5 DEF ReadJobs, QueueTypeOK
<1>2. CASE StartJob(w)
  <2>1. PICK j \in worker[w].batch :
          worker' = [worker EXCEPT ![w].batch = @ \ {j}, ![w].at = "call",
                                   ![w].job = j]
    BY <1>2 DEF StartJob
  <2>. DEFINE u == [worker[w] EXCEPT !.batch = @ \ {j}, !.at = "call",
                                     !.job = j]
  <2>2. WorkerOK(u)
    BY DEF TypeInv, WorkerOK, WorkerState
  <2>3. worker' = [worker EXCEPT ![w] = u]
    BY <2>1 DEF TypeInv
  <2>. HIDE DEF u
  <2>4. /\ worker' \in [Workers -> WorkerState]
        /\ \A v \in Workers : WorkerOK(worker'[v])
    BY <2>2, <2>3, WorkerMoves
  <2>. QED
    BY <1>0, <1>2, <2>4 DEF StartJob, QueueTypeOK, queueVars
<1>3. CASE ProcessReplay(w)
  <2>. DEFINE u == [worker[w] EXCEPT !.at = "archive"]
  <2>1. worker' = [worker EXCEPT ![w] = u]
    BY <1>3 DEF ProcessReplay
  <2>2. WorkerOK(u)
    BY <1>3, CalledJob DEF ProcessReplay, TypeInv, WorkerOK, WorkerState
  <2>. HIDE DEF u
  <2>3. /\ worker' \in [Workers -> WorkerState]
        /\ \A v \in Workers : WorkerOK(worker'[v])
    BY <2>1, <2>2, WorkerMoves
  <2>. QED
    BY <1>0, <1>3, <2>3 DEF ProcessReplay, QueueTypeOK, queueVars
<1>4. CASE ArchiveJob(w)
  BY <1>0, <1>4, CalledJob, RemoveType, EndJobOK DEF ArchiveJob, QueueTypeOK
<1>5. CASE DeadLetterJob(w)
  BY <1>0, <1>5, CalledJob, BuryType, EndJobOK DEF DeadLetterJob, QueueTypeOK
<1>. QED
  BY <1>1, <1>2, <1>3, <1>4, <1>5 DEF WorkerStep

LEMMA WorkerFaultTypes ==
    ASSUME TypeInv, NEW w \in Workers,
           \/ ReplayCallFails(w) \/ ArchiveFails(w)
           \/ DeadLetterThrows(w) \/ Crash(w)
    PROVE  QueueTypeOK'
<1>0. QueueTypeOK
  BY DEF TypeInv, QueueTypeOK
<1>1. faults' \in 0..MaxFaults
  BY FaultType DEF TypeInv, ReplayCallFails, ArchiveFails, DeadLetterThrows,
                   Crash
<1>2. ASSUME worker' = [worker EXCEPT ![w] = IdleWorker]
      PROVE  /\ worker' \in [Workers -> WorkerState]
             /\ \A v \in Workers : WorkerOK(worker'[v])
  BY <1>2, IdleWorkerOK, WorkerMoves
<1>3. CASE ReplayCallFails(w)
  BY <1>0, <1>1, <1>3, FailJobOK DEF ReplayCallFails, QueueTypeOK, queueVars
<1>4. CASE ArchiveFails(w)
  BY <1>0, <1>1, <1>4, FailJobOK, CalledJob, RemoveType
     DEF ArchiveFails, QueueTypeOK
<1>5. CASE DeadLetterThrows(w)
  BY <1>0, <1>1, <1>2, <1>5, CalledJob, BuryType
     DEF DeadLetterThrows, QueueTypeOK, queueVars
<1>6. CASE Crash(w)
  BY <1>0, <1>1, <1>2, <1>6 DEF Crash, QueueTypeOK, queueVars
<1>. QED
  BY <1>3, <1>4, <1>5, <1>6

LEMMA NextTypes == TypeInv /\ [Next]_vars => TypeInv'
<1>. SUFFICES ASSUME TypeInv, [Next]_vars PROVE TypeInv'
  OBVIOUS
<1>1. RequestTypeOK'
  BY StepMovesRequests, RequestTypes DEF TypeInv
<1>2. QueueTypeOK
  BY DEF TypeInv, QueueTypeOK
<1>. DEFINE idle == UNCHANGED <<msg, dead, worker, faults>>
<1>0. ASSUME idle PROVE QueueTypeOK'
  BY <1>0, <1>2 DEF QueueTypeOK
<1>. HIDE DEF idle
<1>3. ASSUME UNCHANGED vars PROVE QueueTypeOK'
  <2>1. idle
    BY <1>3 DEF vars, queueVars, idle
  <2>. QED
    BY <1>0, <2>1
<1>4. ASSUME NEW r \in Runs, EndRun(r) PROVE QueueTypeOK'
  <2>1. idle
    BY <1>4 DEF EndRun, queueVars, idle
  <2>. QED
    BY <1>0, <2>1
<1>5. ASSUME NEW k \in Keys, NEW r \in Runs,
             RequestReplay(k, r) \/ RequestAgain(k, r)
      PROVE  QueueTypeOK'
  <2>1. <<k, "requested">> \in JobNames
    BY DEF JobNames
  <2>. QED
    BY <1>2, <1>5, <2>1, SendType
       DEF RequestReplay, RequestAgain, QueueTypeOK, vars, queueVars
<1>6. ASSUME NEW k \in Keys, NEW d \in {"approved", "rejected"}, Decide(k, d)
      PROVE  QueueTypeOK'
  <2>1. <<k, "approved">> \in JobNames
    BY DEF JobNames
  <2>. QED
    BY <1>2, <1>6, <2>1, SendType DEF Decide, QueueTypeOK
<1>7. ASSUME NEW m \in JobNames, VisibilityTimeout(m) PROVE QueueTypeOK'
  BY <1>2, <1>7 DEF VisibilityTimeout, QueueTypeOK, MessageState
<1>8. QueueTypeOK'
  <2>1. ASSUME NEW w \in Workers,
               \/ ReadJobs(w) \/ WorkerStep(w)
               \/ ReplayCallFails(w) \/ ArchiveFails(w)
               \/ DeadLetterThrows(w) \/ Crash(w)
        PROVE  QueueTypeOK'
    BY <2>1, WorkerStepTypes, WorkerFaultTypes
  <2>. QED
    BY <1>3, <1>4, <1>5, <1>6, <1>7, <2>1 DEF Next
<1>. QED
  BY <1>1, <1>8 DEF TypeInv, QueueTypeOK

LEMMA TypeInvariant == SafeSpec => []TypeInv
BY InitTypes, NextTypes, PTL DEF SafeSpec

\* Every reachable state of ReplayControl is well typed.
THEOREM TypeCorrect == SafeSpec => []TypeOK
BY TypeInvariant, TypeInvImpliesTypeOK, PTL

-----------------------------------------------------------------------------
(* Requests: one effect, one open request per run, final decisions.        *)

\* A request that exists is for a run, and no request is left "processing".
RequestRuns ==
    \A k \in Keys :
        /\ request[k].status # "none" => request[k].run \in Runs
        /\ request[k].status # "processing"

RequestInv ==
    /\ RequestTypeOK
    /\ RequestRuns
    /\ ReplayedOnce
    /\ OneOpenReplayPerRun

LEMMA TerminalStays ==
    ASSUME NEW s \in Replayable, NEW t \in RunStatuses,
           IsLegalRunTransition(s, t)
    PROVE  t = s
BY DEF IsLegalRunTransition, Replayable, TerminalStatuses, RunStatuses

LEMMA RequestInvariance ==
    ASSUME RequestInv, RequestsMove
    PROVE  RequestInv'
<1>0. RequestTypeOK /\ RequestTypeOK'
  BY RequestTypes DEF RequestInv
<1>1. CASE UNCHANGED requestVars
  BY <1>1 DEF RequestInv, RequestTypeOK, RequestRuns, ReplayedOnce,
              OneOpenReplayPerRun, requestVars
<1>2. CASE RunEnds
  <2>1. UNCHANGED <<request, succeeded>>
    BY <1>2 DEF RunEnds
  <2>2. ASSUME NEW r \in Runs, status[r] \in Replayable
        PROVE  status'[r] = status[r]
    <3>1. TerminalStatuses \subseteq RunStatuses
      BY DEF TerminalStatuses, RunStatuses
    <3>. QED
      BY <1>0, <1>2, <2>2, <3>1, TerminalStays DEF RunEnds, RequestTypeOK
  <2>3. OneOpenReplayPerRun'
    BY <2>1, <2>2 DEF RequestInv, RequestRuns, OneOpenReplayPerRun
  <2>. QED
    BY <1>0, <2>1, <2>3 DEF RequestInv, RequestRuns, ReplayedOnce
<1>3. ASSUME NEW k \in Keys, NEW r \in Runs, Requested(k, r)
      PROVE  RequestInv'
  <2>1. /\ request' = [request EXCEPT ![k] = [@ EXCEPT !.status = "pending",
                                                        !.run = r]]
        /\ UNCHANGED <<status, succeeded>>
    BY <1>3 DEF Requested
  <2>2. /\ request'[k].status = "pending"
        /\ request'[k].run = r
        /\ request'[k].replayed = request[k].replayed
        /\ \A l \in Keys \ {k} : request'[l] = request[l]
    BY <1>0, <2>1 DEF RequestTypeOK, RequestState
  <2>3. RequestRuns'
    BY <2>2 DEF RequestInv, RequestRuns
  <2>4. ReplayedOnce'
    BY <1>3, <2>1, <2>2 DEF Requested, RequestInv, ReplayedOnce
  <2>5. OneOpenReplayPerRun'
    <3>1. /\ status[r] \in Replayable
          /\ \A l \in Keys : request[l].run = r =>
                                 request[l].status \notin OpenStatuses
      BY <1>3 DEF Requested, ActiveReplay
    <3>2. \A l \in Keys : request'[l].status # "none" =>
                              status'[request'[l].run] \in Replayable
      BY <2>1, <2>2, <3>1 DEF RequestInv, OneOpenReplayPerRun
    <3>3. ASSUME NEW k1 \in Keys, NEW k2 \in Keys,
                 request'[k1].status \in OpenStatuses,
                 request'[k2].status \in OpenStatuses,
                 request'[k1].run = request'[k2].run
          PROVE  k1 = k2
      <4>1. CASE k1 = k \/ k2 = k
        BY <2>2, <3>1, <3>3, <4>1
      <4>2. CASE k1 # k /\ k2 # k
        BY <2>2, <3>3, <4>2 DEF RequestInv, OneOpenReplayPerRun
      <4>. QED
        BY <4>1, <4>2
    <3>. QED
      BY <3>2, <3>3 DEF OneOpenReplayPerRun
  <2>. QED
    BY <1>0, <2>3, <2>4, <2>5 DEF RequestInv
<1>4. ASSUME NEW k \in Keys, NEW d \in Decisions, Decided(k, d)
      PROVE  RequestInv'
  <2>1. /\ request' = [request EXCEPT ![k] = [@ EXCEPT !.status = d]]
        /\ UNCHANGED <<status, succeeded>>
        /\ request[k].status = "pending"
    BY <1>4 DEF Decided
  <2>2. /\ request'[k].status = d
        /\ request'[k].run = request[k].run
        /\ request'[k].replayed = request[k].replayed
        /\ \A l \in Keys \ {k} : request'[l] = request[l]
    BY <1>0, <2>1 DEF RequestTypeOK, RequestState
  <2>3. RequestRuns'
    BY <2>1, <2>2 DEF RequestInv, RequestRuns, Decisions
  <2>4. ReplayedOnce'
    BY <2>1, <2>2 DEF Decisions, RequestInv, ReplayedOnce
  <2>5. \A l \in Keys : request'[l].status \in OpenStatuses =>
                            request[l].status \in OpenStatuses
    BY <2>1, <2>2 DEF OpenStatuses
  <2>6. \A l \in Keys : request'[l].run = request[l].run
    BY <2>2
  <2>7. OneOpenReplayPerRun'
    BY <2>1, <2>2, <2>5, <2>6 DEF RequestInv, OneOpenReplayPerRun
  <2>. QED
    BY <1>0, <2>3, <2>4, <2>7 DEF RequestInv
<1>5. ASSUME NEW k \in Keys, Replayed(k)
      PROVE  RequestInv'
  <2>1. /\ request' = [request EXCEPT ![k] = [@ EXCEPT !.status = "succeeded",
                                                        !.replayed = TRUE]]
        /\ succeeded' = [succeeded EXCEPT ![k] = @ + 1]
        /\ UNCHANGED status
        /\ request[k].status = "approved"
    BY <1>5 DEF Replayed, Replay
  <2>2. /\ request'[k].status = "succeeded"
        /\ request'[k].run = request[k].run
        /\ request'[k].replayed = TRUE
        /\ \A l \in Keys \ {k} : request'[l] = request[l]
    BY <1>0, <2>1 DEF RequestTypeOK, RequestState
  <2>3. succeeded[k] = 0
    BY <1>0, <2>1 DEF RequestInv, ReplayedOnce, RequestTypeOK
  <2>4. succeeded'[k] = 1 /\ \A l \in Keys \ {k} : succeeded'[l] = succeeded[l]
    BY <1>0, <2>1, <2>3 DEF RequestTypeOK
  <2>5. RequestRuns'
    BY <2>1, <2>2 DEF RequestInv, RequestRuns
  <2>6. ReplayedOnce'
    BY <2>2, <2>4 DEF RequestInv, ReplayedOnce
  <2>7. \A l \in Keys : request'[l].status \in OpenStatuses =>
                            request[l].status \in OpenStatuses
    BY <2>1, <2>2 DEF OpenStatuses
  <2>8. \A l \in Keys : request'[l].run = request[l].run
    BY <2>2
  <2>9. OneOpenReplayPerRun'
    BY <2>1, <2>2, <2>7, <2>8 DEF RequestInv, OneOpenReplayPerRun
  <2>. QED
    BY <1>0, <2>5, <2>6, <2>9 DEF RequestInv
<1>. QED
  BY <1>1, <1>2, <1>3, <1>4, <1>5 DEF RequestsMove

LEMMA InitRequests == Init => RequestInv
BY InitTypes DEF TypeInv, Init, RequestInv, RequestRuns, ReplayedOnce,
                 OneOpenReplayPerRun, OpenStatuses

LEMMA RequestInvariant == SafeSpec => [](TypeInv /\ RequestInv)
<1>1. TypeInv /\ RequestInv /\ [Next]_vars => (TypeInv /\ RequestInv)'
  BY NextTypes, StepMovesRequests, RequestInvariance
<1>. QED
  BY <1>1, InitTypes, InitRequests, PTL DEF SafeSpec

\* A request that succeeded was replayed exactly once, whichever of its two
\* jobs is processed, how often and by how many workers.
THEOREM ReplaysOnce == SafeSpec => []ReplayedOnce
BY RequestInvariant, PTL DEF RequestInv

\* Only failed runs are replayed and no run has two open requests.
THEOREM OneReplayPerRun == SafeSpec => []OneOpenReplayPerRun
BY RequestInvariant, PTL DEF RequestInv

LEMMA DecisionStands ==
    ASSUME RequestTypeOK, RequestsMove, NEW k \in Keys
    PROVE  LET old == request[k].status
               new == request'[k].status IN
           /\ old \in ClosedStatuses => new = old
           /\ old = "approved" => new \in {"approved", "succeeded", "failed"}
           /\ new = "succeeded" => old \in {"approved", "succeeded"}
<1>1. CASE UNCHANGED requestVars \/ RunEnds
  BY <1>1 DEF requestVars, RunEnds
<1>2. ASSUME NEW l \in Keys, NEW r \in Runs, Requested(l, r)
      PROVE  request'[k].status = request[k].status
             \/ (request[k].status = "none" /\ request'[k].status = "pending")
  BY <1>2 DEF Requested, RequestTypeOK, RequestState
<1>3. ASSUME NEW l \in Keys, NEW d \in Decisions, Decided(l, d)
      PROVE  request'[k].status = request[k].status
             \/ (request[k].status = "pending" /\ request'[k].status \in Decisions)
  BY <1>3 DEF Decided, RequestTypeOK, RequestState
<1>4. ASSUME NEW l \in Keys, Replayed(l)
      PROVE  request'[k].status = request[k].status
             \/ (request[k].status = "approved"
                 /\ request'[k].status = "succeeded")
  BY <1>4 DEF Replayed, Replay, RequestTypeOK, RequestState
<1>. QED
  BY <1>1, <1>2, <1>3, <1>4 DEF RequestsMove, ClosedStatuses, Decisions

\* No step undoes a decision or replays a request that was not approved.
THEOREM DecisionsAreFinal == SafeSpec => DecisionIsFinal
<1>1. TypeInv /\ [Next]_vars =>
        [\A k \in Keys :
          LET old == request[k].status
              new == request'[k].status IN
          /\ old \in ClosedStatuses => new = old
          /\ old = "approved" => new \in {"approved", "succeeded", "failed"}
          /\ new = "succeeded" => old \in {"approved", "succeeded"}]_vars
  BY StepMovesRequests, DecisionStands DEF TypeInv
<1>. QED
  BY <1>1, TypeInvariant, PTL DEF SafeSpec, DecisionIsFinal

-----------------------------------------------------------------------------
(* Turns.                                                                  *)

\* The turn of a run without an open request.
LEMMA TurnFree ==
    ASSUME NEW r, ~ ActiveReplay(r)
    PROVE  TurnOf(r) = {}
BY DEF ActiveReplay, TurnOf, OpenFor

turns == [r \in Runs |-> TurnOf(r)]
spentKeys == {k \in Keys : request[k].status # "none"}

\* A step of one request: the turns of the other runs are unchanged.
LEMMA OneTurnMoves ==
    ASSUME NEW k \in Keys, NEW r \in Runs, NEW t,
           request[k].run = r \/ request[k].status = "none",
           \A l \in Keys \ {k} : request'[l] = request[l],
           request'[k].run = r,
           TurnOf(r)' = t
    PROVE  turns' = [turns EXCEPT ![r] = t]
<1>1. ASSUME NEW s \in Runs, s # r PROVE TurnOf(s)' = TurnOf(s)
  BY <1>1 DEF TurnOf, OpenFor, OpenStatuses
<1>. QED
  BY <1>1 DEF turns

LEMMA InitTurns == Init => Turns!Init
BY DEF Init, Turns!Init, Turns!Free, TurnOf, OpenFor, OpenStatuses

LEMMA TurnsStep ==
    ASSUME RequestInv, RequestsMove
    PROVE  [Turns!Next]_(<<turns, spentKeys, succeeded>>)
<1>0. RequestTypeOK /\ RequestInv'
  BY RequestInvariance DEF RequestInv
<1>1. CASE UNCHANGED requestVars \/ RunEnds
  <2>1. UNCHANGED <<request, succeeded>>
    BY <1>1 DEF requestVars, RunEnds
  <2>. QED
    BY <2>1 DEF turns, spentKeys, TurnOf, OpenFor
<1>2. ASSUME NEW k \in Keys, NEW r \in Runs, Requested(k, r)
      PROVE  Turns!Take(k, r)
  <2>1. /\ request'[k].status = "pending"
        /\ request'[k].run = r
        /\ \A l \in Keys \ {k} : request'[l] = request[l]
    BY <1>0, <1>2 DEF Requested, RequestTypeOK, RequestState
  <2>2. request[k].status = "none" /\ turns[r] = {}
    BY <1>2, TurnFree DEF Requested, turns
  <2>3. TurnOf(r)' = Turns!Turn(k, FALSE)
    <3>1. OpenFor(r)' = {k}
      BY <1>2, <2>1 DEF OpenFor, OpenStatuses, Requested, ActiveReplay
    <3>. QED
      BY <2>1, <3>1 DEF TurnOf, Turns!Turn
  <2>4. turns' = [turns EXCEPT ![r] = Turns!Turn(k, FALSE)]
    BY <2>1, <2>2, <2>3, OneTurnMoves DEF Turns!Turn
  <2>5. spentKeys' = spentKeys \cup {k} /\ k \notin spentKeys
    BY <2>1, <2>2 DEF spentKeys
  <2>6. succeeded' = succeeded
    BY <1>2 DEF Requested
  <2>. QED
    BY <2>2, <2>4, <2>5, <2>6
       DEF Turns!Take, Turns!Free, turns, spentKeys
<1>3. ASSUME NEW k \in Keys, NEW d \in Decisions, Decided(k, d)
      PROVE  \E r \in Runs : Turns!Grant(k, r) \/ Turns!Refuse(k, r)
  <2>0. request[k].run \in Runs
    BY <1>3 DEF RequestInv, RequestRuns, Decided
  <2>. PICK r \in Runs : r = request[k].run
    BY <2>0
  <2>1. /\ request[k].status = "pending"
        /\ request'[k].status = d
        /\ request'[k].run = r
        /\ request[k].run = r
        /\ \A l \in Keys \ {k} : request'[l] = request[l]
        /\ succeeded' = succeeded
    BY <1>0, <1>3 DEF Decided, RequestTypeOK, RequestState
  <2>3. OpenFor(r) = {k}
    BY <2>1 DEF RequestInv, OneOpenReplayPerRun, OpenFor, OpenStatuses
  <2>4. turns[r] = Turns!Turn(k, FALSE)
    BY <2>1, <2>3 DEF turns, TurnOf, Turns!Turn
  <2>5. spentKeys' = spentKeys
    BY <2>1 DEF spentKeys, Decisions
  <2>6. CASE d = "approved"
    <3>1. OpenFor(r)' = {k}
      BY <2>1, <2>3, <2>6 DEF OpenFor, OpenStatuses
    <3>2. TurnOf(r)' = Turns!Turn(k, TRUE)
      BY <2>1, <2>6, <3>1 DEF TurnOf, Turns!Turn
    <3>3. turns' = [turns EXCEPT ![r] = Turns!Turn(k, TRUE)]
      BY <2>1, <3>2, OneTurnMoves DEF Turns!Turn
    <3>. QED
      BY <2>1, <2>4, <2>5, <3>3 DEF Turns!Grant, turns, spentKeys
  <2>7. CASE d = "rejected"
    <3>1. OpenFor(r)' = {}
      BY <2>1, <2>3, <2>7 DEF OpenFor, OpenStatuses
    <3>2. TurnOf(r)' = {}
      BY <3>1 DEF TurnOf
    <3>3. turns' = [turns EXCEPT ![r] = {}]
      BY <2>1, <3>2, OneTurnMoves
    <3>. QED
      BY <2>1, <2>4, <2>5, <3>3
         DEF Turns!Refuse, Turns!Free, turns, spentKeys
  <2>. QED
    BY <2>6, <2>7 DEF Decisions
<1>4. ASSUME NEW k \in Keys, Replayed(k)
      PROVE  \E r \in Runs : Turns!Make(k, r)
  <2>0. request[k].run \in Runs
    BY <1>4 DEF RequestInv, RequestRuns, Replayed, Replay
  <2>. PICK r \in Runs : r = request[k].run
    BY <2>0
  <2>1. /\ request[k].status = "approved"
        /\ request'[k].status = "succeeded"
        /\ request'[k].run = r
        /\ request[k].run = r
        /\ \A l \in Keys \ {k} : request'[l] = request[l]
        /\ succeeded' = [succeeded EXCEPT ![k] = @ + 1]
    BY <1>0, <1>4 DEF Replayed, Replay, RequestTypeOK, RequestState
  <2>3. OpenFor(r) = {k}
    BY <2>1 DEF RequestInv, OneOpenReplayPerRun, OpenFor, OpenStatuses
  <2>4. turns[r] = Turns!Turn(k, TRUE)
    BY <2>1, <2>3 DEF turns, TurnOf, Turns!Turn
  <2>5. TurnOf(r)' = {}
    <3>1. OpenFor(r)' = {}
      BY <2>1, <2>3 DEF OpenFor, OpenStatuses
    <3>. QED
      BY <3>1 DEF TurnOf
  <2>6. turns' = [turns EXCEPT ![r] = {}]
    BY <2>1, <2>5, OneTurnMoves
  <2>7. spentKeys' = spentKeys
    BY <2>1 DEF spentKeys
  <2>. QED
    BY <2>1, <2>4, <2>6, <2>7
       DEF Turns!Make, Turns!Free, turns, spentKeys
<1>. QED
  BY <1>1, <1>2, <1>3, <1>4 DEF RequestsMove, Turns!Next

\* Every step of the workers, the queue and the operators is a step of some
\* run's turn or none: ReplayControl implements ReplayTurns.
THEOREM TurnsImplemented == SafeSpec => ImplementsTurns
<1>1. TypeInv /\ RequestInv /\ [Next]_vars
        => [Turns!Next]_(Turns!vars)
  BY StepMovesRequests, TurnsStep DEF Turns!vars, turns, spentKeys
<1>. QED
  BY <1>1, RequestInvariant, InitTurns, PTL
     DEF SafeSpec, ImplementsTurns, Turns!Spec

-----------------------------------------------------------------------------
(* The job of an approval.                                                 *)

Sent(m) == msg[m].place # "none"

Served == {"approved"} \cup ClosedStatuses

\* A worker holds jobs that were sent.
JobsSent ==
    \A w \in Workers :
        /\ \A j \in worker[w].batch : Sent(j.name)
        /\ worker[w].at # "idle" => Sent(worker[w].job.name)

\* The second job is sent by an approval, which stands.
SentApproved ==
    \A k \in Keys : Sent(<<k, "approved">>) => request[k].status \in Served

\* Its call returned: the request is closed before the job is archived.
ArchivedServed ==
    \A w \in Workers :
        worker[w].at = "archive" /\ worker[w].job.name[2] = "approved" =>
            request[worker[w].job.name[1]].status \in ClosedStatuses

\* ApprovedHasJob is not inductive: it needs what a worker knows of its job.
JobInv ==
    /\ JobsSent
    /\ SentApproved
    /\ ArchivedServed
    /\ ApprovedHasJob

\* What a step does to the jobs.
MessagesMove ==
    /\ \A m \in JobNames : Sent(m) => msg'[m].place # "none"
    /\ \A k \in Keys : msg'[<<k, "approved">>].place # "none" =>
          Sent(<<k, "approved">>) \/ request'[k].status \in Served
    /\ \A m \in JobNames : dead[m] > 0 => dead'[m] > 0
    /\ \A m \in JobNames : InQueue(m) =>
          \/ msg'[m].place \in {"visible", "hidden"}
          \/ dead'[m] > 0
          \/ \E w \in Workers : worker[w].at = "archive" /\ worker[w].job.name = m
    /\ \A k \in Keys : request'[k].status = "approved" =>
          \/ request[k].status = "approved"
          \/ msg'[<<k, "approved">>].place \in {"visible", "hidden"}

\* What a step does to worker w, whose state becomes u.
WorkerMove(w, u) ==
    /\ \A j \in u.batch : j \in worker[w].batch \/ Sent(j.name)
    /\ u.at # "idle" =>
          u.job \in worker[w].batch \/ (worker[w].at # "idle" /\ u.job = worker[w].job)
    /\ u.at = "archive" =>
          /\ worker[w].at \in {"call", "archive"}
          /\ u.job = worker[w].job
          /\ worker[w].at = "call" => request'[u.job.name[1]].status # "approved"

WorkersMove == \A w \in Workers : WorkerMove(w, worker'[w])

LEMMA SameWorkers ==
    ASSUME TypeInv, UNCHANGED worker
    PROVE  WorkersMove
BY DEF WorkersMove, WorkerMove, TypeInv, WorkerState

LEMMA OneWorkerMoves ==
    ASSUME TypeInv, NEW w \in Workers, NEW u, WorkerMove(w, u),
           worker' = [worker EXCEPT ![w] = u]
    PROVE  WorkersMove
<1>1. ASSUME NEW v \in Workers \ {w} PROVE WorkerMove(v, worker'[v])
  BY <1>1 DEF WorkerMove, TypeInv, WorkerState
<1>2. worker'[w] = u
  BY DEF TypeInv
<1>. QED
  BY <1>1, <1>2 DEF WorkersMove

LEMMA FailJobMoves ==
    ASSUME TypeInv, NEW w \in Workers, worker[w].at # "idle", FailJob(w)
    PROVE  WorkersMove
<1>. DEFINE u0 == worker[w]
            u == IF u0.job.reads >= DeadLetterReads
                 THEN [u0 EXCEPT !.at = "dead_letter"]
                 ELSE [u0 EXCEPT !.at = "idle", !.job = NoJob]
<1>1. worker' = [worker EXCEPT ![w] = u]
  BY DEF FailJob
<1>2. WorkerMove(w, u)
  BY DEF WorkerMove, TypeInv, WorkerState
<1>. QED
  BY <1>1, <1>2, OneWorkerMoves

LEMMA EndJobMoves ==
    ASSUME TypeInv, NEW w \in Workers, EndJob(w)
    PROVE  WorkersMove
<1>. DEFINE u == [worker[w] EXCEPT !.at = "idle", !.job = NoJob]
<1>1. worker' = [worker EXCEPT ![w] = u]
  BY DEF EndJob, TypeInv
<1>2. WorkerMove(w, u)
  BY DEF WorkerMove, TypeInv, WorkerState
<1>. QED
  BY <1>1, <1>2, OneWorkerMoves

LEMMA StopMoves ==
    ASSUME TypeInv, NEW w \in Workers,
           worker' = [worker EXCEPT ![w] = IdleWorker]
    PROVE  WorkersMove
<1>1. WorkerMove(w, IdleWorker)
  BY DEF WorkerMove, IdleWorker
<1>. QED
  BY <1>1, OneWorkerMoves

LEMMA StepMovesWorkers ==
    ASSUME TypeInv, [Next]_vars
    PROVE  WorkersMove
<1>1. ASSUME UNCHANGED worker PROVE WorkersMove
  BY <1>1, SameWorkers
<1>2. ASSUME NEW w \in Workers, ReadJobs(w) PROVE WorkersMove
  <2>. DEFINE u == [worker[w] EXCEPT !.batch = {JobRead(m) : m \in Visible}]
  <2>1. worker' = [worker EXCEPT ![w] = u]
    BY <1>2 DEF ReadJobs
  <2>2. WorkerMove(w, u)
    BY <1>2 DEF ReadJobs, WorkerMove, TypeInv, WorkerState, IdleWorker,
                JobRead, Visible, Sent
  <2>. QED
    BY <2>1, <2>2, OneWorkerMoves
<1>3. ASSUME NEW w \in Workers, StartJob(w) PROVE WorkersMove
  <2>1. PICK j \in worker[w].batch :
          worker' = [worker EXCEPT ![w].batch = @ \ {j}, ![w].at = "call",
                                   ![w].job = j]
    BY <1>3 DEF StartJob
  <2>. DEFINE u == [worker[w] EXCEPT !.batch = @ \ {j}, !.at = "call",
                                     !.job = j]
  <2>2. worker' = [worker EXCEPT ![w] = u]
    BY <2>1 DEF TypeInv
  <2>3. WorkerMove(w, u)
    BY DEF WorkerMove, TypeInv, WorkerState
  <2>. QED
    BY <2>2, <2>3, OneWorkerMoves
<1>4. ASSUME NEW w \in Workers, ProcessReplay(w) PROVE WorkersMove
  <2>. DEFINE u == [worker[w] EXCEPT !.at = "archive"]
              k == worker[w].job.name[1]
  <2>1. worker' = [worker EXCEPT ![w] = u]
    BY <1>4 DEF ProcessReplay
  <2>2. k \in Keys
    BY <1>4, CalledJob DEF ProcessReplay
  <2>3. request'[k].status # "approved"
    BY <1>4, <2>2 DEF ProcessReplay, Replay, NothingToReplay, TypeInv,
                      RequestTypeOK, RequestState
  <2>4. WorkerMove(w, u)
    BY <1>4, <2>3 DEF ProcessReplay, WorkerMove, TypeInv, WorkerState
  <2>. QED
    BY <2>1, <2>4, OneWorkerMoves
<1>5. ASSUME NEW w \in Workers,
             \/ ArchiveJob(w) \/ DeadLetterJob(w) \/ ReplayCallFails(w)
             \/ ArchiveFails(w) \/ DeadLetterThrows(w) \/ Crash(w)
      PROVE  WorkersMove
  BY <1>5, EndJobMoves, FailJobMoves, StopMoves
     DEF ArchiveJob, DeadLetterJob, ReplayCallFails, ArchiveFails,
         DeadLetterThrows, Crash
<1>6. ASSUME UNCHANGED vars PROVE UNCHANGED worker
  BY <1>6 DEF vars
<1>7. ASSUME NEW r \in Runs, EndRun(r) PROVE UNCHANGED worker
  BY <1>7 DEF EndRun
<1>8. ASSUME NEW k \in Keys, NEW r \in Runs,
             RequestReplay(k, r) \/ RequestAgain(k, r)
      PROVE  UNCHANGED worker
  BY <1>8 DEF RequestReplay, RequestAgain, vars
<1>9. ASSUME NEW k \in Keys, NEW d \in {"approved", "rejected"}, Decide(k, d)
      PROVE  UNCHANGED worker
  BY <1>9 DEF Decide
<1>10. ASSUME NEW m \in JobNames, VisibilityTimeout(m) PROVE UNCHANGED worker
  BY <1>10 DEF VisibilityTimeout
<1>. QED
  BY <1>1, <1>2, <1>3, <1>4, <1>5, <1>6, <1>7, <1>8, <1>9, <1>10
     DEF Next, WorkerStep

LEMMA JobPreserved ==
    ASSUME TypeInv, TypeInv', JobInv, RequestsMove, MessagesMove, WorkersMove
    PROVE  JobInv'
<1>1. \A k \in Keys :
        /\ request[k].status \in ClosedStatuses =>
              request'[k].status \in ClosedStatuses
        /\ request[k].status \in Served => request'[k].status \in Served
  BY DecisionStands DEF TypeInv, Served, ClosedStatuses
<1>2. \A w \in Workers : \A j \in worker'[w].batch : j.name \in JobNames
  BY JobType DEF TypeInv, WorkerState
<1>3. \A w \in Workers : worker'[w].at # "idle" =>
        /\ worker'[w].job \in Job
        /\ worker'[w].job.name \in JobNames
        /\ worker'[w].job.name[1] \in Keys
  BY JobType DEF TypeInv, WorkerOK
<1>4. \A w \in Workers :
        /\ \A j \in worker'[w].batch : Sent(j.name)
        /\ worker'[w].at # "idle" => Sent(worker'[w].job.name)
  BY DEF JobInv, JobsSent, WorkersMove, WorkerMove
<1>5. JobsSent'
  BY <1>2, <1>3, <1>4 DEF JobsSent, MessagesMove, Sent
<1>6. SentApproved'
  BY <1>1 DEF JobInv, SentApproved, MessagesMove, Sent
<1>7. ArchivedServed'
  <2>. SUFFICES ASSUME NEW w \in Workers, worker'[w].at = "archive",
                       worker'[w].job.name[2] = "approved"
                PROVE  request'[worker'[w].job.name[1]].status
                         \in ClosedStatuses
    BY DEF ArchivedServed
  <2>. DEFINE k == worker'[w].job.name[1]
  <2>1. /\ k \in Keys
        /\ worker'[w].job.name = <<k, "approved">>
    BY <1>3 DEF JobNames
  <2>2. worker[w].job = worker'[w].job
    BY DEF WorkersMove, WorkerMove
  <2>3. CASE worker[w].at = "archive"
    BY <1>1, <2>1, <2>2, <2>3 DEF JobInv, ArchivedServed
  <2>4. CASE worker[w].at # "archive"
    <3>1. request'[k].status # "approved"
      BY <2>4 DEF WorkersMove, WorkerMove
    <3>2. Sent(<<k, "approved">>)
      BY <1>4, <2>1
    <3>3. request'[k].status \in Served
      BY <1>1, <2>1, <3>2 DEF JobInv, SentApproved
    <3>. QED
      BY <3>1, <3>3 DEF Served
  <2>. QED
    BY <2>3, <2>4
<1>8. ApprovedHasJob'
  <2>. SUFFICES ASSUME NEW k \in Keys, request'[k].status = "approved"
                PROVE  \/ msg'[<<k, "approved">>].place \in {"visible", "hidden"}
                       \/ dead'[<<k, "approved">>] > 0
    BY DEF ApprovedHasJob, InQueue
  <2>. DEFINE m == <<k, "approved">>
  <2>1. m \in JobNames
    BY DEF JobNames
  <2>2. CASE request[k].status # "approved"
    BY <2>2 DEF MessagesMove
  <2>3. CASE request[k].status = "approved"
    <3>1. InQueue(m) \/ dead[m] > 0
      BY <2>3 DEF JobInv, ApprovedHasJob
    <3>2. ~ \E w \in Workers : worker[w].at = "archive"
                                /\ worker[w].job.name = m
      BY <2>3 DEF JobInv, ArchivedServed, ClosedStatuses
    <3>. HIDE DEF m
    <3>3. msg'[m].place \in {"visible", "hidden"} \/ dead'[m] > 0
      BY <2>1, <3>1, <3>2 DEF MessagesMove
    <3>. QED
      BY <3>3 DEF m
  <2>. QED
    BY <2>2, <2>3
<1>. QED
  BY <1>5, <1>6, <1>7, <1>8 DEF JobInv

\* Steps that send nothing and lose no job.
QuietMessages ==
    /\ \A m \in JobNames :
          /\ msg'[m].place = "none" <=> msg[m].place = "none"
          /\ InQueue(m) => msg'[m].place \in {"visible", "hidden"}
    /\ dead' = dead

LEMMA QuietMoves ==
    ASSUME TypeInv, QuietMessages,
           \A k \in Keys : request'[k].status = "approved" =>
                               request[k].status = "approved"
    PROVE  MessagesMove
<1>1. \A k \in Keys : <<k, "approved">> \in JobNames
  BY DEF JobNames
<1>. QED
  BY <1>1 DEF QuietMessages, MessagesMove, Sent

\* A job is taken from the queue once it is processed or in the dead letters.
LEMMA RemoveMoves ==
    ASSUME TypeInv, NEW m \in JobNames, NEW place \in {"archived", "deleted"},
           UNCHANGED request,
           Remove(m, place) \/ UNCHANGED msg,
           dead' = dead \/ dead' = [dead EXCEPT ![m] = @ + 1],
           \/ UNCHANGED msg
           \/ dead'[m] > 0
           \/ \E w \in Workers : worker[w].at = "archive"
                                  /\ worker[w].job.name = m
    PROVE  MessagesMove
<1>1. \A k \in Keys : <<k, "approved">> \in JobNames
  BY DEF JobNames
<1>2. \A n \in JobNames : n # m => msg'[n] = msg[n]
  BY DEF Remove, TypeInv
<1>3. \A n \in JobNames : msg'[n].place = "none" <=> msg[n].place = "none"
  BY DEF Remove, InQueue, TypeInv, MessageState
<1>4. \A n \in JobNames : dead[n] > 0 => dead'[n] > 0
  BY DEF TypeInv
<1>. QED
  BY <1>1, <1>2, <1>3, <1>4 DEF MessagesMove, Sent, InQueue

LEMMA BuryMoves ==
    ASSUME TypeInv, NEW m \in JobNames, BuryJob(m), UNCHANGED request
    PROVE  MessagesMove
<1>1. dead' = [dead EXCEPT ![m] = @ + 1] /\ Remove(m, "deleted")
  BY DEF BuryJob
<1>2. dead'[m] > 0
  BY <1>1 DEF TypeInv
<1>. QED
  BY <1>1, <1>2, RemoveMoves

LEMMA StepMovesMessages ==
    ASSUME TypeInv, RequestInv, [Next]_vars
    PROVE  MessagesMove
<1>0. \A k \in Keys : <<k, "approved">> \in JobNames
  BY DEF JobNames
<1>1. ASSUME UNCHANGED queueVars, UNCHANGED request PROVE MessagesMove
  <2>1. QuietMessages
    BY <1>1 DEF QuietMessages, queueVars, InQueue
  <2>. QED
    BY <1>1, <2>1, QuietMoves
<1>2. ASSUME UNCHANGED vars PROVE MessagesMove
  BY <1>1, <1>2 DEF vars
<1>3. ASSUME NEW r \in Runs, EndRun(r) PROVE MessagesMove
  BY <1>1, <1>3 DEF EndRun
<1>4. ASSUME NEW k \in Keys, NEW r \in Runs, RequestReplay(k, r)
      PROVE  MessagesMove
  <2>1. request'[k].status = "pending"
        /\ \A l \in Keys \ {k} : request'[l] = request[l]
    BY <1>4 DEF RequestReplay, TypeInv, RequestTypeOK, RequestState
  <2>2. /\ msg'[<<k, "requested">>].place = "visible"
        /\ \A m \in JobNames : m # <<k, "requested">> => msg'[m] = msg[m]
    BY <1>4 DEF RequestReplay, Send, TypeInv, JobNames
  <2>3. dead' = dead
    BY <1>4 DEF RequestReplay
  <2>4. \A l \in Keys : msg'[<<l, "approved">>] = msg[<<l, "approved">>]
    BY <1>0, <2>2
  <2>5. \A m \in JobNames : /\ Sent(m) => msg'[m].place # "none"
                            /\ InQueue(m) => msg'[m].place \in {"visible", "hidden"}
    BY <2>2 DEF Sent, InQueue
  <2>. QED
    BY <2>1, <2>3, <2>4, <2>5 DEF MessagesMove, Sent
<1>5. ASSUME NEW k \in Keys, NEW r \in Runs, RequestAgain(k, r)
      PROVE  MessagesMove
  BY <1>2, <1>5 DEF RequestAgain
<1>6. ASSUME NEW k \in Keys, Decide(k, "rejected") PROVE MessagesMove
  <2>1. request'[k].status = "rejected"
        /\ \A l \in Keys \ {k} : request'[l] = request[l]
    BY <1>6 DEF Decide, TypeInv, RequestTypeOK, RequestState
  <2>2. QuietMessages
    BY <1>6 DEF Decide, QuietMessages, InQueue
  <2>. QED
    BY <2>1, <2>2, QuietMoves
<1>7. ASSUME NEW k \in Keys, Decide(k, "approved") PROVE MessagesMove
  <2>. DEFINE n == <<k, "approved">>
  <2>1. request'[k].status = "approved"
        /\ \A l \in Keys \ {k} : request'[l] = request[l]
    BY <1>7 DEF Decide, TypeInv, RequestTypeOK, RequestState
  <2>2. /\ msg'[n].place = "visible"
        /\ \A m \in JobNames : m # n => msg'[m] = msg[m]
    BY <1>0, <1>7 DEF Decide, Send, TypeInv
  <2>3. dead' = dead
    BY <1>7 DEF Decide
  <2>4. \A m \in JobNames : /\ Sent(m) => msg'[m].place # "none"
                            /\ InQueue(m) => msg'[m].place \in {"visible", "hidden"}
    BY <2>2 DEF Sent, InQueue
  <2>5. \A l \in Keys \ {k} : msg'[<<l, "approved">>] = msg[<<l, "approved">>]
    BY <1>0, <2>2
  <2>. QED
    BY <2>1, <2>2, <2>3, <2>4, <2>5 DEF MessagesMove, Sent, Served
<1>8. ASSUME NEW w \in Workers,
             ReadJobs(w) \/ StartJob(w) \/ Crash(w)
      PROVE  MessagesMove
  <2>1. QuietMessages /\ UNCHANGED request
    <3>1. CASE ReadJobs(w)
      <4>1. \A m \in JobNames :
              msg'[m] = IF msg[m].place = "visible"
                        THEN [place |-> "hidden", reads |-> NextRead(msg[m].reads)]
                        ELSE msg[m]
        BY <3>1 DEF ReadJobs, Visible
      <4>. QED
        BY <3>1, <4>1 DEF ReadJobs, QuietMessages, InQueue
    <3>2. CASE StartJob(w) \/ Crash(w)
      BY <3>2 DEF StartJob, Crash, QuietMessages, queueVars, InQueue
    <3>. QED
      BY <1>8, <3>1, <3>2
  <2>. QED
    BY <2>1, QuietMoves
<1>9. ASSUME NEW w \in Workers, ProcessReplay(w) \/ ReplayCallFails(w)
      PROVE  MessagesMove
  <2>. DEFINE k == worker[w].job.name[1]
  <2>1. k \in Keys
    BY <1>9, CalledJob DEF ProcessReplay, ReplayCallFails
  <2>2. QuietMessages
    BY <1>9 DEF ProcessReplay, ReplayCallFails, QuietMessages, queueVars,
                InQueue
  <2>3. \A l \in Keys : request'[l].status = "approved" =>
                            request[l].status = "approved"
    BY <1>9, <2>1 DEF ProcessReplay, ReplayCallFails, Replay, NothingToReplay,
                      ReplayFails, TypeInv, RequestTypeOK, RequestState
  <2>. QED
    BY <2>2, <2>3, QuietMoves
<1>10. ASSUME NEW w \in Workers, ArchiveJob(w) \/ ArchiveFails(w)
       PROVE  MessagesMove
  BY <1>10, CalledJob, RemoveMoves DEF ArchiveJob, ArchiveFails
<1>11. ASSUME NEW w \in Workers, DeadLetterJob(w) \/ DeadLetterThrows(w)
       PROVE  MessagesMove
  BY <1>1, <1>11, CalledJob, BuryMoves DEF DeadLetterJob, DeadLetterThrows
<1>12. ASSUME NEW m \in JobNames, VisibilityTimeout(m) PROVE MessagesMove
  <2>1. QuietMessages /\ UNCHANGED request
    BY <1>12 DEF VisibilityTimeout, QuietMessages, InQueue, TypeInv,
                 MessageState
  <2>. QED
    BY <2>1, QuietMoves
<1>. QED
  BY <1>2, <1>3, <1>4, <1>5, <1>6, <1>7, <1>8, <1>9, <1>10, <1>11, <1>12
     DEF Next, WorkerStep

LEMMA InitJobs == Init => JobInv
BY InitTypes DEF Init, JobInv, JobsSent, SentApproved, ArchivedServed,
                 ApprovedHasJob, Sent, IdleWorker, JobNames

\* An approved request always has a job in the queue or a dead letter,
\* whatever calls fail and whenever a worker is killed.
THEOREM ApprovedKeepsJob == SafeSpec => []ApprovedHasJob
<1>1. TypeInv /\ RequestInv /\ JobInv /\ [Next]_vars =>
        (TypeInv /\ RequestInv /\ JobInv)'
  BY NextTypes, StepMovesRequests, RequestInvariance, StepMovesMessages,
     StepMovesWorkers, JobPreserved
<1>2. JobInv => ApprovedHasJob
  BY DEF JobInv
<1>. QED
  BY <1>1, <1>2, InitTypes, InitRequests, InitJobs, PTL DEF SafeSpec
=============================================================================
