-------------------------- MODULE ProviderAdapters --------------------------
(***************************************************************************)
(* The two adapters that turn a provider's payload into a canonical event: *)
(* normalizeProviderEvent, which process-queues calls, and normalize_event *)
(* of the FastAPI service.  They read the same paths, but TypeScript takes *)
(* the first of them that is not null (??) and Python the first that is    *)
(* not falsy (or); they differ in what is falsy, in what they refuse, in   *)
(* how a value is written as a text and in how exact a time is.            *)
(*                                                                         *)
(* Error texts, summaries and types of steps are left out, and so are the  *)
(* greatest lengths FastAPI allows: they make it refuse more, never read   *)
(* something else.                                                         *)
(***************************************************************************)
EXTENDS Integers, Sequences, SequencesExt, TLC, RunStates

CONSTANTS
    Null, Reject,  \* no value; an error is thrown
    Instants       \* the texts both parsers read as times, in microseconds

ASSUME InstantsAssumption ==
    /\ Instants \in [DOMAIN Instants -> Nat]
    /\ Null \notin Nat \cup DOMAIN Instants
    /\ Reject # Null /\ Reject \notin Nat

-----------------------------------------------------------------------------
(* JSON values, as pairs of a kind and a content.  The integers and floats *)
(* are the whole numbers 2 and 2.0: one value to JavaScript, two types to  *)
(* Python.  A list or an object has a text inside, or is empty.            *)

Absent == <<"none", "absent">>
JsonNull == <<"none", "null">>
Str(s) == <<"text", s>>
Num(n) == <<"integer", n>>
Float(n) == <<"float", n>>

Nullish == {Absent, JsonNull}

\* What ||, ?: and && of JavaScript, and what Python's or, pass over.
Falsy == Nullish \cup {Str(""), Num(0), Float(0), <<"flag", "false">>}
PyFalsy == Falsy \cup {<<"list", "">>, <<"object", "">>}

\* String(value) and str(value).  What Python writes for a list or an object
\* has brackets around it.
JsString(v) ==
    IF v[1] \in {"text", "flag", "list"} THEN v[2]
    ELSE IF v[1] \in {"integer", "float"} THEN ToString(v[2])
    ELSE "[object Object]"

PyString(v) ==
    IF v[1] = "text" THEN v[2]
    ELSE IF v[1] = "integer" THEN ToString(v[2])
    ELSE IF v[1] = "float" THEN ToString(v[2]) \o ".0"
    ELSE IF v[1] = "flag" THEN IF v[2] = "true" THEN "True" ELSE "False"
    ELSE IF v[1] = "list" THEN "[...]" ELSE "{...}"

-----------------------------------------------------------------------------
(* Payloads: an outer object that may wrap the execution or task, and the  *)
(* value at each path of either object.                                    *)

Top(name) == <<"top", name>>
In(name) == <<"in", name>>

\* The paths of each canonical field, in the order in which they are tried.
Paths ==
    [custom |->
        [run |-> <<Top("run_id")>>, workflow |-> <<Top("workflow_id")>>,
         status |-> <<Top("status")>>, at |-> <<Top("event_timestamp")>>,
         started |-> <<Top("started_at")>>, ended |-> <<Top("ended_at")>>,
         attempt |-> <<Top("attempt_number")>>, event |-> <<Top("event_id")>>],
     n8n |->
        [run |-> <<In("id")>>,
         workflow |-> <<In("workflow.id"), In("workflowId")>>,
         status |-> <<In("status"), In("finished")>>,
         at |-> <<Top("timestamp"), In("stoppedAt"), In("startedAt")>>,
         started |-> <<In("startedAt")>>, ended |-> <<In("stoppedAt")>>,
         attempt |-> <<In("retryOf")>>,
         event |-> <<Top("id"), In("eventId")>>],
     make |->
        [run |-> <<In("execution_id"), In("id")>>,
         workflow |-> <<In("scenario.id"), In("scenario_id")>>,
         status |-> <<In("status")>>,
         at |-> <<Top("occurred_at"), In("started_at")>>,
         started |-> <<In("started_at")>>, ended |-> <<In("finished_at")>>,
         attempt |-> <<In("attempt")>>, event |-> <<Top("event_id")>>],
     zapier |->
        [run |-> <<In("id")>>, workflow |-> <<In("zap.id"), In("zap_id")>>,
         status |-> <<In("status")>>,
         at |-> <<Top("timestamp"), In("started_at")>>,
         started |-> <<In("started_at")>>, ended |-> <<In("completed_at")>>,
         attempt |-> <<In("attempt")>>, event |-> <<Top("event_id")>>]]

Providers == DOMAIN Paths

\* The value at a path: without a wrapper the payload is its own execution.
At(p, path) ==
    LET here == IF path[1] = "in" /\ p.wrap \in {"absent", "null"}
                THEN Top(path[2]) ELSE path
    IN  IF here \in DOMAIN p.values THEN p.values[here] ELSE Absent

\* The values a field may come from.  Two of n8n's are computed from a flag:
\* finished stands in for a status, and a retry is the second attempt.
Values(p, field, falsy) ==
    [i \in 1..Len(Paths[p.provider][field]) |->
        LET path == Paths[p.provider][field][i]
            flag == At(p, path) \notin falsy
        IN  IF path = In("finished")
            THEN IF flag THEN Str("success") ELSE Str("running")
            ELSE IF path = In("retryOf")
                 THEN IF flag THEN Num(2) ELSE Num(1)
                 ELSE At(p, path)]

\* The first value that is not passed over, or else the last.
FirstOf(values, passedOver) ==
    LET kept == {i \in DOMAIN values : values[i] \notin passedOver}
        first == CHOOSE i \in kept : \A j \in kept : i <= j
    IN  values[IF kept = {} THEN Len(values) ELSE first]

\* Mutant of Coalesce: the paths are tried in the opposite order.
CoalesceLast(values) == FirstOf(Reverse(values), Nullish)

\* a ?? b in TypeScript, a or b in Python.
Coalesce(values) == FirstOf(values, Nullish)
Or(values) == FirstOf(values, PyFalsy)

\* The status names both adapters know, after lower case and "_" for "-".
StatusNames ==
    [cancelled |-> "cancelled", error |-> "failed", failed |-> "failed",
     completed |-> "succeeded", finished |-> "succeeded",
     success |-> "succeeded", succeeded |-> "succeeded",
     pending |-> "queued", queued |-> "queued", waiting |-> "queued",
     running |-> "running", timeout |-> "timed_out",
     timed_out |-> "timed_out"]

Normalized(s) ==
    IF s = "Timed-Out" THEN "timed_out" ELSE IF s = "Skipped" THEN "skipped"
    ELSE s

EndsEarly(started, ended) == started # Null /\ ended # Null /\ ended < started

\* An adapter returns an event if no field was refused.
Event(fields) ==
    IF \/ \E f \in DOMAIN fields : fields[f] = Reject
       \/ EndsEarly(fields.started, fields.ended)
    THEN Reject ELSE fields

\* A list of steps is refused if a field of any is.
Listed(steps) ==
    IF \E i \in DOMAIN steps : \E f \in DOMAIN steps[i] : steps[i][f] = Reject
    THEN Reject ELSE steps

\* What a step says under a name.
Part(step, name) == IF name \in DOMAIN step THEN step[name] ELSE Absent

\* A step's id and name may each come from two names, or else its position.
StepIds(step, i) ==
    <<Part(step, "id"), Part(step, "external_step_id"),
      Str("step-" \o ToString(i))>>
StepNames(step, i) ==
    <<Part(step, "name"), Part(step, "label"), Str("Step " \o ToString(i))>>

-----------------------------------------------------------------------------
(* The Edge functions' adapter.                                            *)

Text(v, required) ==
    IF v \in Nullish \cup {Str("")} THEN IF required THEN Reject ELSE Null
    ELSE IF v[1] = "text" THEN v[2] ELSE Reject

\* toISOString writes milliseconds.
PerMillisecond == 1000
Cut(t) == IF t = Null THEN Null ELSE (t \div PerMillisecond) * PerMillisecond

Timestamp(v, required) ==
    LET t == Text(v, required)
    IN  IF t \in {Null, Reject} THEN t
        ELSE IF t \in DOMAIN Instants THEN Cut(Instants[t]) ELSE Reject

Integer(v, fallback) ==
    IF v[1] \in {"integer", "float"} /\ v[2] \in Nat THEN v[2] ELSE fallback

\* A text, or a list of one, can be the name of a status.  The names are looked
\* up in an object, which has inherited properties too: such a status is not
\* refused, and JSON leaves it out of the canonical event.  (The one other
\* name in lower case, __proto__, gives an object, which no status column takes.)
Inherited == "constructor"

NormalizeStatus(v) ==
    LET name == Normalized(v[2])
    IN  IF v[1] \notin {"text", "list"} THEN Reject
        ELSE IF name \in DOMAIN StatusNames THEN StatusNames[name]
        ELSE IF name = Inherited THEN Inherited ELSE Reject

Canonical(p) ==
    LET F(field) == Coalesce(Values(p, field, Falsy)) IN
    Event([run |-> Text(F("run"), TRUE), workflow |-> Text(F("workflow"), TRUE),
           status |-> NormalizeStatus(F("status")),
           at |-> Timestamp(F("at"), TRUE),
           started |-> Timestamp(F("started"), FALSE),
           ended |-> Timestamp(F("ended"), FALSE),
           attempt |-> Integer(F("attempt"), 1),
           event |-> Text(F("event"), FALSE)])

\* A step may be skipped besides, but not with another name for it.
StepStatus(v) ==
    IF v[1] \in {"text", "list"} /\ Normalized(v[2]) = "skipped"
    THEN "skipped" ELSE NormalizeStatus(v)

NormalizeStep(s, i) ==
    LET Either(a, b) == Coalesce(<<Part(s, a), Part(s, b)>>) IN
    [id |-> JsString(Coalesce(StepIds(s, i))),
     name |-> JsString(Coalesce(StepNames(s, i))),
     number |-> Integer(Either("sequence", "sequence_number"), i),
     attempt |-> Integer(Either("attempt", "attempt_number"), 1),
     started |-> Timestamp(Either("started_at", "startedAt"), FALSE),
     ended |-> Timestamp(Either("ended_at", "stoppedAt"), FALSE),
     status |-> StepStatus(Part(s, "status"))]

NormalizeSteps(steps) ==
    Listed([i \in DOMAIN steps |-> NormalizeStep(steps[i], i)])

NormalizeProviderEvent(p) ==
    IF p.provider # "custom" /\ p.wrap = "text" THEN Reject ELSE Canonical(p)

-----------------------------------------------------------------------------
(* The FastAPI service's adapter.                                          *)

Strip(s) == IF s = " a " THEN "a" ELSE IF s = " " THEN "" ELSE s

RequiredText(v) ==
    IF v[1] = "text" /\ Strip(v[2]) # "" THEN Strip(v[2]) ELSE Reject

\* A datetime keeps its microseconds.
PyTimestamp(v, required) ==
    IF v \in Nullish \cup {Str("")} THEN IF required THEN Reject ELSE Null
    ELSE IF v[1] = "text" /\ v[2] \in DOMAIN Instants THEN Instants[v[2]]
    ELSE Reject

\* isinstance(value, int)
PyInteger(v, default) ==
    IF v[1] = "integer" /\ v[2] \in Nat THEN v[2] ELSE default

AtLeastOne(n) == IF n < 1 THEN 1 ELSE n

PyStatus(v) ==
    IF v[1] = "text" /\ Normalized(v[2]) \in DOMAIN StatusNames
    THEN StatusNames[Normalized(v[2])] ELSE Reject

PyCanonical(p) ==
    LET F(field) == Or(Values(p, field, PyFalsy)) IN
    Event([run |-> RequiredText(F("run")),
           workflow |-> RequiredText(F("workflow")),
           status |-> PyStatus(F("status")),
           at |-> PyTimestamp(F("at"), TRUE),
           started |-> PyTimestamp(F("started"), FALSE),
           ended |-> PyTimestamp(F("ended"), FALSE),
           attempt |-> AtLeastOne(PyInteger(F("attempt"), 1)),
           event |-> IF F("event")[1] = "text" THEN F("event")[2] ELSE Null])

StepStatuses == RunStatuses \cup {"skipped"}

PyStepStatus(v) ==
    IF v[1] = "text" /\ Normalized(v[2]) \in StepStatuses THEN Normalized(v[2])
    ELSE Reject

PyStep(s, i) ==
    LET Either(a, b) == Or(<<Part(s, a), Part(s, b)>>) IN
    [id |-> PyString(Or(StepIds(s, i))),
     name |-> PyString(Or(StepNames(s, i))),
     number |-> PyInteger(Either("sequence_number", "sequence"), i),
     attempt |-> AtLeastOne(PyInteger(Either("attempt_number", "attempt"), 1)),
     started |-> PyTimestamp(Either("started_at", "startedAt"), FALSE),
     ended |-> PyTimestamp(Either("ended_at", "stoppedAt"), FALSE),
     status |-> PyStepStatus(Part(s, "status"))]

PySteps(steps) == Listed([i \in DOMAIN steps |-> PyStep(steps[i], i)])

NormalizeEvent(p) ==
    IF p.provider # "custom" /\ p.wrap \in {"null", "text"} THEN Reject
    ELSE PyCanonical(p)
=============================================================================
