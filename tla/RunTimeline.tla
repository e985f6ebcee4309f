---------------------------- MODULE RunTimeline ----------------------------
(***************************************************************************)
(* What apply_canonical_event keeps of a run besides its status: the times *)
(* of workflow_runs and the steps of run_steps, upserted one by one.  Each *)
(* event reaches it through the Edge functions' adapter, which names and   *)
(* numbers the steps a provider left unnamed or unnumbered.  The model     *)
(* starts after the ordering rules: every event is one that may be applied.*)
(* Durations, summaries and errors are left out: no constraint the adapter *)
(* can break reads them.                                                   *)
(***************************************************************************)
EXTENDS ProviderAdapters, FiniteSets

CONSTANTS
    Events,      \* the raw events of one run
    Payload,     \* per event: what the provider sent
    Steps,       \* per event: the list of steps in it
    NoJob,       \* no event is being processed
    MaxInteger   \* the greatest value of an integer column

VARIABLES
    times,     \* the run's started_at and ended_at
    timeline,  \* per stored step: its sequence_number, started_at, ended_at
    job,       \* the event process-queues is working on
    draft,     \* both as the transaction of apply_canonical_event sees them
    next,      \* 0 before the run is upserted, then the index of a step
    last       \* history: the event stored last, until another is taken

vars == <<times, timeline, job, draft, next, last>>

\* normalizeSteps keeps no more of a payload's list.
MaxSteps == 200

ASSUME EventsAssumption ==
    /\ \A e \in Events : /\ Payload[e].provider \in Providers
                         /\ \E n \in 0..MaxSteps : DOMAIN Steps[e] = 1..n
    /\ NoJob \notin Events
    /\ MaxInteger \in Nat

EventOf(e) == NormalizeProviderEvent(Payload[e])
StepsOf(e) == NormalizeSteps(Steps[e])

Committed == [times |-> times, rows |-> timeline]

Init ==
    /\ times = [started |-> Null, ended |-> Null]
    /\ timeline = << >>
    /\ job = NoJob
    /\ draft = Committed
    /\ next = 0
    /\ last = NoJob

\* Mutant of Fits: a step the run has is not updated but refused.
FitsOnce(rows, step) ==
    /\ \A id \in DOMAIN rows : rows[id].number # step.number
    /\ step.id \notin DOMAIN rows

\* unique (workflow_run_id, sequence_number): no other step has the number.
Fits(rows, step) ==
    \A id \in DOMAIN rows : rows[id].number = step.number => id = step.id

\* The first start and the last known end.
MergeTimes(t, e) ==
    [started |-> IF t.started = Null THEN e.started ELSE t.started,
     ended |-> IF e.ended = Null THEN t.ended ELSE e.ended]

NoTimes == [started |-> Null, ended |-> Null]

\* check (ended_at >= started_at)
EndsInTime(t) == ~ EndsEarly(t.started, t.ended)

\* The row a step leaves: inserted, or updated on the conflict of its id.
StepRow(rows, step) ==
    LET merged == MergeTimes(IF step.id \in DOMAIN rows THEN rows[step.id]
                                                        ELSE NoTimes, step)
    IN  [number |-> step.number,
         started |-> merged.started, ended |-> merged.ended]

\* Mutant of UpsertStep: the step gets a number behind those that are stored.
AppendStep(rows, step) ==
    [id \in DOMAIN rows \cup {step.id} |->
        IF id = step.id
        THEN [StepRow(rows, step) EXCEPT !.number = @ + Cardinality(DOMAIN rows)]
        ELSE rows[id]]

\* insert ... on conflict (workflow_run_id, external_step_id) do update.
UpsertStep(rows, step) ==
    [id \in DOMAIN rows \cup {step.id} |->
        IF id = step.id THEN StepRow(rows, step) ELSE rows[id]]

\* A step without an id, a name or a status is passed over.
Skipped(step) == step.id = "" \/ step.name = "" \/ step.status = Inherited

\* The constraints on the values a step brings.  They are checked before the
\* conflict is found, so an update that would not keep a value needs it too.
Valid(step) ==
    /\ step.number <= MaxInteger
    /\ step.attempt \in 1..MaxInteger
    /\ EndsInTime(step)

\* The constraints of run_steps let the step in.
Storable(rows, step) ==
    Valid(step) /\ Fits(rows, step) /\ EndsInTime(StepRow(rows, step))

\* The adapter takes the payload, and workflow_runs the values it brings.
Readable(e) ==
    LET edge == EventOf(e)
    IN  /\ edge # Reject /\ StepsOf(e) # Reject
        /\ edge.status # Inherited
        /\ edge.attempt \in 1..MaxInteger

\* The next statement can be executed: the adapter takes the payload, and the
\* constraints of workflow_runs or run_steps hold of the row.
Executable ==
    /\ next = 0 => /\ Readable(job)
                   /\ EndsInTime(MergeTimes(times, EventOf(job)))
    /\ next > 0 /\ next \in DOMAIN StepsOf(job) =>
          LET step == StepsOf(job)[next]
          IN  Skipped(step) \/ Storable(draft.rows, step)

StartJob(e) ==
    /\ job = NoJob
    /\ job' = e
    /\ last' = IF last = e THEN e ELSE NoJob
    /\ UNCHANGED <<times, timeline, draft, next>>

\* The payload is normalized and the run's row upserted.
UpsertRun ==
    /\ job # NoJob
    /\ next = 0
    /\ Executable
    /\ draft' = [draft EXCEPT !.times = MergeTimes(@, EventOf(job))]
    /\ next' = 1
    /\ UNCHANGED <<times, timeline, job, last>>

\* One round of the loop over the steps.
UpsertNext ==
    /\ next > 0
    /\ next \in DOMAIN StepsOf(job)
    /\ Executable
    /\ LET step == StepsOf(job)[next]
       IN  draft' = [draft EXCEPT
                        !.rows = IF Skipped(step) THEN @ ELSE UpsertStep(@, step)]
    /\ next' = next + 1
    /\ UNCHANGED <<times, timeline, job, last>>

Commit ==
    /\ next > 0
    /\ next = Len(StepsOf(job)) + 1
    /\ times' = draft.times
    /\ timeline' = draft.rows
    /\ last' = job
    /\ job' = NoJob
    /\ next' = 0
    /\ UNCHANGED draft

\* Nothing of the event is kept.
RollBack ==
    /\ job' = NoJob
    /\ next' = 0
    /\ draft' = Committed
    /\ UNCHANGED <<times, timeline, last>>

\* The adapter or the database refuses.
FailJob == job # NoJob /\ ~ Executable /\ RollBack

\* The worker stops, or the database ends its transaction.
Interrupt == job # NoJob /\ RollBack

Proceed == UpsertRun \/ UpsertNext \/ Commit \/ FailJob \/ Interrupt

Next == (\E e \in Events : StartJob(e)) \/ Proceed

Spec == Init /\ [][Next]_vars

-----------------------------------------------------------------------------
(* What the adapters and the upserts promise.                              *)

Known == Nat \cup {Null}
RowTimes == [started : Known, ended : Known]
Rows == [number : Nat, started : Known, ended : Known]

\* Every variable holds a value of its kind.
TypeOK ==
    /\ times \in RowTimes
    /\ timeline \in [DOMAIN timeline -> Rows]
    /\ job \in Events \cup {NoJob}
    /\ draft \in [times : RowTimes, rows : {draft.rows}]
    /\ draft.rows \in [DOMAIN draft.rows -> Rows]
    /\ next \in 0..MaxSteps + 1
    /\ last \in Events \cup {NoJob}

\* Both languages take this value, and write it as the same text: an empty
\* text, a zero, a flag, a float, a list or an object is an exception.
Alike(v) == v[1] \in {"text", "integer"} /\ v \notin Falsy

\* TypeScript looks at a first and Python at b: they read the same integer if
\* there is one value only, no float, and no zero that Python passes over.
SameNumber(a, b) ==
    /\ a[1] # "float" /\ b[1] # "float"
    /\ \/ a = b \/ b \in Nullish
       \/ a \in Nullish /\ b # Num(0)

\* The step s, the i-th of its list, that both adapters accept: with one
\* status, and with the same id, name, number, attempt and times but for the
\* exceptions.  Python has no attempt before the first.
SameStep(s, i, edge, api) ==
    /\ edge.status = api.status
    /\ Alike(Coalesce(StepIds(s, i))) => edge.id = api.id
    /\ Alike(Coalesce(StepNames(s, i))) => edge.name = api.name
    /\ SameNumber(Part(s, "sequence"), Part(s, "sequence_number"))
          => edge.number = api.number
    /\ SameNumber(Part(s, "attempt"), Part(s, "attempt_number"))
          => api.attempt = AtLeastOne(edge.attempt)
    /\ Part(s, "started_at") # Str("") => edge.started = Cut(api.started)
    /\ Part(s, "ended_at") # Str("") => edge.ended = Cut(api.ended)

\* Only an empty list or object is true in JavaScript and false in Python.
SameFlag(v) == v \notin PyFalsy \ Falsy

\* A payload that both adapters accept is the same event to both: FastAPI
\* and the Edge functions put it on one run of one workflow, with one
\* status, one clock to the millisecond and the same steps.  The exceptions:
\* the blanks around an identity, an empty event id, an attempt of zero or a
\* float, a flag of n8n that is an empty list or object, and those of SameStep.
AdaptersAgree ==
    job # NoJob =>
    LET p == Payload[job]
        edge == EventOf(job)
        api == NormalizeEvent(p)
        edgeSteps == StepsOf(job)
        apiSteps == PySteps(Steps[job])
    IN  /\ edge # Reject /\ api # Reject
        /\ edgeSteps # Reject /\ apiSteps # Reject
        =>
        /\ Strip(edge.run) = api.run
        /\ Strip(edge.workflow) = api.workflow
        /\ \A f \in {"at", "started", "ended"} : edge[f] = Cut(api[f])
        /\ SameFlag(At(p, In("finished"))) => edge.status = api.status
        /\ /\ SameFlag(At(p, In("retryOf")))
           /\ Coalesce(Values(p, "attempt", Falsy))[1] # "float"
           => api.attempt = AtLeastOne(edge.attempt)
        /\ Coalesce(Values(p, "event", Falsy)) # Str("") => edge.event = api.event
        /\ \A i \in DOMAIN edgeSteps :
              SameStep(Steps[job][i], i, edgeSteps[i], apiSteps[i])

\* The steps that are stored.
Named(steps) == {i \in DOMAIN steps : ~ Skipped(steps[i])}

NoStepTwice(steps) ==
    \A i, j \in Named(steps) : steps[i].id = steps[j].id => i = j

\* The queue delivers again: an event that was stored, and that lists no
\* step twice, is not refused the second time and changes nothing then,
\* statement by statement.
RepeatIsHarmless ==
    job # NoJob /\ job = last /\ NoStepTwice(StepsOf(job)) =>
        Executable /\ draft = Committed

\* Steps that the run has keep their numbers; the new ones bring numbers that
\* are neither in use nor brought twice.
Stable(rows, steps) ==
    \A i \in Named(steps) :
        IF steps[i].id \in DOMAIN rows
        THEN rows[steps[i].id].number = steps[i].number
        ELSE /\ \A id \in DOMAIN rows : rows[id].number # steps[i].number
             /\ \A j \in Named(steps) : steps[j].number = steps[i].number => j = i

\* Every step is valid by itself and its times fit those the run has of it.
InOrder(rows, steps) ==
    \A i \in Named(steps) :
        Valid(steps[i]) /\ EndsInTime(StepRow(rows, steps[i]))

\* What a source must do for its steps to be stored: numbers are unique in a
\* run and the upsert looks for the step's id only, and the database checks
\* times and attempts that the adapter lets pass.  An event with each step
\* once, with stable numbers and with steps in order is stored with all of
\* them once its run is upserted: no step is in the way of a later one.
OrderlyStepsAreStored ==
    /\ job # NoJob
    /\ next > 0
    /\ NoStepTwice(StepsOf(job))
    /\ Stable(timeline, StepsOf(job))
    /\ InOrder(timeline, StepsOf(job))
    => Executable
=============================================================================
