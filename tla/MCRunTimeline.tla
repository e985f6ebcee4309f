--------------------------- MODULE MCRunTimeline ---------------------------
(* TLC instance of RunTimeline: the payloads and step lists of providers.  *)
EXTENDS RunTimeline

\* Two times within one millisecond, and a later one.
MCInstants == [t0 |-> 0, t0us |-> 1, t1 |-> 1000]

T0 == Str("t0")
T0us == Str("t0us")
T1 == Str("t1")
EmptyList == <<"list", "">>
EmptyObject == <<"object", "">>

Fields == DOMAIN Paths["custom"]

\* Values worth trying for a field, the usual one first.
Trials(field) ==
    IF field \in {"run", "workflow"} THEN
        <<Str("a"), Str("b"), Str(" a "), Str(""), Num(0), Absent>>
    ELSE IF field = "event" THEN <<Str("a"), Str(""), Num(0), Absent>>
    ELSE IF field = "status" THEN
        <<Str("success"), Str("Timed-Out"), Str("paused"), Str(Inherited),
          Str(""), EmptyList, <<"list", "failed">>, Absent>>
    ELSE IF field = "attempt" THEN
        <<Absent, Num(0), Num(2), Num(10), Float(2), Str("a"), EmptyObject>>
    ELSE <<T0, T0us, T1, Str(""), JsonNull>>

\* The usual payload has a value at the first path of every field.
Usual(provider) ==
    [path \in UNION {ToSet(Paths[provider][f]) : f \in Fields} |->
        IF \E f \in Fields : path = Paths[provider][f][1]
        THEN Trials(CHOOSE f \in Fields : path = Paths[provider][f][1])[1]
        ELSE Absent]

\* Others differ from it in all paths of one field, by a trial for each.
Picks(provider, field) ==
    [DOMAIN Paths[provider][field] -> DOMAIN Trials(field)]

Variant(provider, field, picks) ==
    [path \in DOMAIN Usual(provider) |->
        IF path \in ToSet(Paths[provider][field])
        THEN LET i == CHOOSE i \in DOMAIN picks : Paths[provider][field][i] = path
             IN  Trials(field)[picks[i]]
        ELSE Usual(provider)[path]]

Unwrapped(values) ==
    [path \in {Top(p[2]) : p \in DOMAIN values} |->
        IF In(path[2]) \in DOMAIN values THEN values[In(path[2])]
                                         ELSE values[path]]

-----------------------------------------------------------------------------

UsualStep == [id |-> Str("a"), name |-> Str("n"), status |-> Str("succeeded"),
              sequence |-> Num(1)]

\* One step with every way to name it, number it, count its attempts, date it
\* or state its status.  The attempt of zero keeps those with the oddest ids
\* out of the database, where each would be one more step of the run.
OddSteps ==
    [id : {Num(0), <<"flag", "true">>, EmptyList},
     external_step_id : {Str("b"), Absent}, attempt : {Num(0)}]
    \cup [id : {Str(""), Absent}, external_step_id : {Str("b"), Absent},
          sequence : {Num(2)}]
    \cup [name : {Str(""), Num(0), Float(2), Absent}, label : {Str("l"), Absent}]
    \cup [sequence : {Num(0), Num(1), Float(2), Num(10), EmptyList, Absent},
          sequence_number : {Num(0), Num(2), Float(2), Absent}]
    \cup [attempt : {Num(0), Num(2), Float(2), Absent},
          attempt_number : {Num(0), Num(2), Num(10), Absent}]
    \cup [started_at : {T0us, T1, Str(""), Absent}, startedAt : {T0, Absent},
          ended_at : {T0us, T1, Absent}]
    \cup [ended_at : {Str(""), Absent}, stoppedAt : {T0, Absent}]
    \cup [status : {Str("success"), Str("Skipped"), Str("paused"),
                    Str("Timed-Out"), Str(Inherited), <<"list", "failed">>}]

\* Two steps that the source names and may leave the adapter to number, or of
\* which one starts after the other, or the same step, has ended.
TwoSteps ==
    LET named == [id : {Str("a"), Str("b")}, sequence : {Num(1), Num(2), Absent}]
    IN  {<<first @@ UsualStep, second @@ UsualStep>> : first, second \in named}
        \cup {<<[started_at |-> T1] @@ UsualStep,
                [id |-> id, ended_at |-> T0] @@ UsualStep>> :
                  id \in {Str("a"), Str("b")}}

StepLists == {<<odd @@ UsualStep>> : odd \in OddSteps} \cup TwoSteps

\* An event is named after what is special about it: a provider, a wrapper,
\* and a field with what is picked for it, or the steps of a custom source.
\* The wrapper is an object, there is none, or it is null or a text.
Special(provider, field) ==
    {<<provider, wrap, field, picks>> :
        wrap \in {"object", "absent"}, picks \in Picks(provider, field)}

MCEvents ==
    UNION {Special(provider, field) : provider \in Providers, field \in Fields}
        \cup {<<provider, wrap, "started", <<1>>>> :
                provider \in Providers, wrap \in {"null", "text"}}
        \cup {<<"custom", "object", "steps", list>> : list \in StepLists}

MCPayload ==
    [e \in MCEvents |->
        LET values == IF e[3] = "steps" THEN Usual(e[1])
                      ELSE Variant(e[1], e[3], e[4])
        IN  [provider |-> e[1], wrap |-> e[2],
             values |-> IF e[2] = "object" THEN values ELSE Unwrapped(values)]]

MCSteps == [e \in MCEvents |-> IF e[3] = "steps" THEN e[4] ELSE << >>]

StepEvents == {e \in MCEvents : e[3] = "steps"}

\* The varied payloads, which bring no steps, are delivered to a run that has
\* none yet: what they do does not depend on the steps.
Delivered == IF timeline = << >> THEN MCEvents ELSE StepEvents

MCNext == (job = NoJob /\ \E e \in Delivered : StartJob(e)) \/ Proceed

MCSpec == Init /\ [][MCNext]_vars
=============================================================================
