------------------------- MODULE RunTimelineProofs -------------------------
(***************************************************************************)
(* What the two adapters agree on for every payload, and what the upserts  *)
(* of apply_canonical_event keep, for any events with lists of any length  *)
(* and any number of repetitions, interruptions and refusals.              *)
(***************************************************************************)
EXTENDS RunTimeline, TLAPS, SequenceTheorems, WellFoundedInduction

-----------------------------------------------------------------------------
(* The first value that is not passed over.                                *)

LEMMA LeastIndex ==
    ASSUME NEW S \in SUBSET Nat, S # {}
    PROVE  \E i \in S : \A j \in S : i <= j
<1>1. \E i \in S : \A j \in S : ~ (<<j, i>> \in OpToRel(<, Nat))
  BY NatLessThanWellFounded, WFMin
<1>2. PICK i \in S : \A j \in S : ~ (<<j, i>> \in OpToRel(<, Nat))
  BY <1>1
<1>3. \A j \in S : ~ (j < i)
  BY <1>2 DEF OpToRel
<1>. QED
  BY <1>3

\* The fallback of a field is the value at the least index that is kept.
LEMMA FirstOfKept ==
    ASSUME NEW values, NEW n \in Nat, DOMAIN values = 1..n, NEW passedOver,
           NEW i \in 1..n, values[i] \notin passedOver,
           \A j \in 1..n : j < i => values[j] \in passedOver
    PROVE  FirstOf(values, passedOver) = values[i]
<1>. DEFINE kept == {k \in DOMAIN values : values[k] \notin passedOver}
            first == CHOOSE k \in kept : \A j \in kept : k <= j
<1>1. i \in kept /\ \A j \in kept : i <= j
  OBVIOUS
<1>2. first \in kept /\ \A j \in kept : first <= j
  BY <1>1
<1>3. first = i
  BY <1>1, <1>2
<1>. QED
  BY <1>1, <1>3 DEF FirstOf

LEMMA NoneKept ==
    ASSUME NEW values, NEW passedOver,
           \A j \in DOMAIN values : values[j] \in passedOver
    PROVE  FirstOf(values, passedOver) = values[Len(values)]
BY DEF FirstOf

LEMMA FirstOfTwo ==
    ASSUME NEW a, NEW b, NEW S
    PROVE  FirstOf(<<a, b>>, S) = IF a \notin S THEN a ELSE b
<1>. DEFINE values == <<a, b>>
<1>1. /\ DOMAIN values = 1..2 /\ Len(values) = 2
      /\ values[1] = a /\ values[2] = b
  OBVIOUS
<1>2. 2 \in Nat /\ 1 \in 1..2 /\ 2 \in 1..2 /\ (\A j \in 1..2 : j = 1 \/ j = 2)
  OBVIOUS
<1>. HIDE DEF values
<1>0. \A i \in 1..2 :
         values[i] \notin S /\ (\A j \in 1..2 : j < i => values[j] \in S) =>
            FirstOf(values, S) = values[i]
  <2>1. PICK n \in Nat : n = 2
    OBVIOUS
  <2>2. DOMAIN values = 1..n
    BY <1>1, <2>1
  <2>3. \A i \in 1..n :
           values[i] \notin S /\ (\A j \in 1..n : j < i => values[j] \in S) =>
              FirstOf(values, S) = values[i]
    BY <2>2, FirstOfKept
  <2>. QED
    BY <2>1, <2>3
<1>3. ASSUME a \notin S PROVE FirstOf(values, S) = a
  <2>1. \A j \in 1..2 : j < 1 => values[j] \in S
    OBVIOUS
  <2>. QED
    BY <1>0, <1>1, <1>2, <1>3, <2>1
<1>4. ASSUME a \in S, b \notin S PROVE FirstOf(values, S) = b
  <2>1. \A j \in 1..2 : j < 2 => values[j] \in S
    BY <1>1, <1>4
  <2>. QED
    BY <1>0, <1>1, <1>2, <1>4, <2>1
<1>5. ASSUME a \in S, b \in S PROVE FirstOf(values, S) = b
  BY <1>1, <1>2, <1>5, NoneKept
<1>. QED
  BY <1>3, <1>4, <1>5 DEF values

LEMMA FirstOfThree ==
    ASSUME NEW a, NEW b, NEW c, NEW S
    PROVE  FirstOf(<<a, b, c>>, S) = IF a \notin S THEN a
                                     ELSE IF b \notin S THEN b ELSE c
<1>. DEFINE values == <<a, b, c>>
<1>1. /\ DOMAIN values = 1..3 /\ Len(values) = 3
      /\ values[1] = a /\ values[2] = b /\ values[3] = c
  OBVIOUS
<1>2. /\ 3 \in Nat /\ 1 \in 1..3 /\ 2 \in 1..3 /\ 3 \in 1..3
      /\ \A j \in 1..3 : j = 1 \/ j = 2 \/ j = 3
  OBVIOUS
<1>. HIDE DEF values
<1>0. \A i \in 1..3 :
         values[i] \notin S /\ (\A j \in 1..3 : j < i => values[j] \in S) =>
            FirstOf(values, S) = values[i]
  <2>1. PICK n \in Nat : n = 3
    OBVIOUS
  <2>2. DOMAIN values = 1..n
    BY <1>1, <2>1
  <2>3. \A i \in 1..n :
           values[i] \notin S /\ (\A j \in 1..n : j < i => values[j] \in S) =>
              FirstOf(values, S) = values[i]
    BY <2>2, FirstOfKept
  <2>. QED
    BY <2>1, <2>3
<1>3. ASSUME a \notin S PROVE FirstOf(values, S) = a
  <2>1. \A j \in 1..3 : j < 1 => values[j] \in S
    OBVIOUS
  <2>. QED
    BY <1>0, <1>1, <1>2, <1>3, <2>1
<1>4. ASSUME a \in S, b \notin S PROVE FirstOf(values, S) = b
  <2>1. \A j \in 1..3 : j < 2 => values[j] \in S
    BY <1>1, <1>4
  <2>. QED
    BY <1>0, <1>1, <1>2, <1>4, <2>1
<1>5. ASSUME a \in S, b \in S, c \notin S PROVE FirstOf(values, S) = c
  <2>1. \A j \in 1..3 : j < 3 => values[j] \in S
    BY <1>1, <1>5
  <2>. QED
    BY <1>0, <1>1, <1>2, <1>5, <2>1
<1>6. ASSUME a \in S, b \in S, c \in S PROVE FirstOf(values, S) = c
  BY <1>1, <1>2, <1>6, NoneKept
<1>. QED
  BY <1>3, <1>4, <1>5, <1>6 DEF values

\* The values at which ?? stops and Python's or goes on.
Passed == PyFalsy \ Nullish

\* ?? and or take the same value, unless ?? stops at one that is falsy.
LEMMA SameOrPassed ==
    ASSUME NEW values, NEW n \in Nat, DOMAIN values = 1..n
    PROVE  Coalesce(values) = Or(values) \/ Coalesce(values) \in Passed
<1>. DEFINE kept == {k \in 1..n : values[k] \notin Nullish}
<1>1. Nullish \subseteq PyFalsy
  BY DEF PyFalsy, Falsy
<1>2. CASE kept = {}
  <2>1. Coalesce(values) = values[Len(values)]
    BY <1>2, NoneKept DEF Coalesce
  <2>2. \A j \in 1..n : values[j] \in PyFalsy
    BY <1>1, <1>2
  <2>3. Or(values) = values[Len(values)]
    BY <2>2, NoneKept DEF Or
  <2>. QED
    BY <2>1, <2>3
<1>3. CASE kept # {}
  <2>1. PICK i \in kept : \A j \in kept : i <= j
    BY <1>3, LeastIndex, kept \in SUBSET Nat
  <2>2. \A j \in 1..n : j < i => values[j] \in Nullish
    BY <2>1
  <2>3. Coalesce(values) = values[i]
    BY <2>1, <2>2, FirstOfKept DEF Coalesce
  <2>4. CASE values[i] \in PyFalsy
    BY <2>1, <2>3, <2>4 DEF Passed
  <2>5. CASE values[i] \notin PyFalsy
    <3>1. \A j \in 1..n : j < i => values[j] \in PyFalsy
      BY <1>1, <2>2
    <3>2. Or(values) = values[i]
      BY <2>1, <2>5, <3>1, FirstOfKept DEF Or
    <3>. QED
      BY <2>3, <3>2
  <2>. QED
    BY <2>4, <2>5
<1>. QED
  BY <1>2, <1>3

\* With one path there is nothing to choose.
LEMMA OnePath ==
    ASSUME NEW values, DOMAIN values = 1..1, NEW v, values = [i \in 1..1 |-> v]
    PROVE  Coalesce(values) = v /\ Or(values) = v
<1>1. values \in Seq({v})
  BY SeqDef, values \in [1..1 -> {v}]
<1>2. Len(values) = 1
  BY <1>1, LenProperties
<1>3. \A passedOver : FirstOf(values, passedOver) = v
  <2>1. \A passedOver : (CHOOSE i \in {1} : \A j \in {1} : i <= j) = 1
    OBVIOUS
  <2>. TAKE passedOver
  <2>2. CASE v \in passedOver
    BY <1>2, <2>2, NoneKept
  <2>3. CASE v \notin passedOver
    BY <2>3, FirstOfKept, 1 \in 1..1
  <2>. QED
    BY <2>2, <2>3
<1>. QED
  BY <1>3 DEF Coalesce, Or

-----------------------------------------------------------------------------
(* One value, two languages.                                               *)

\* The values at which the two fall apart, one by one.
LEMMA PassedValues ==
    ASSUME NEW v \in Passed
    PROVE  \/ v[1] = "text" /\ v[2] = "" /\ v = Str("")
           \/ v[1] \in {"integer", "float", "flag", "object"}
           \/ v[1] = "list" /\ v[2] = ""
<1>1. v \in {Str(""), Num(0), Float(0), <<"flag", "false">>, <<"list", "">>,
            <<"object", "">>}
  BY DEF Passed, PyFalsy, Falsy
<1>2. /\ Str("")[1] = "text" /\ Str("")[2] = ""
      /\ Num(0)[1] = "integer" /\ Float(0)[1] = "float"
  BY DEF Str, Num, Float
<1>3. /\ <<"flag", "false">>[1] = "flag" /\ <<"object", "">>[1] = "object"
      /\ <<"list", "">>[1] = "list" /\ <<"list", "">>[2] = ""
  OBVIOUS
<1>. QED
  BY <1>1, <1>2, <1>3

LEMMA NullishKind ==
    ASSUME NEW v \in Nullish
    PROVE  v[1] = "none"
BY DEF Nullish, Absent, JsonNull

LEMMA TextKind ==
    /\ Str("")[1] = "text" /\ Str("")[2] = ""
    /\ Str("") \in PyFalsy /\ Str("") \notin Nullish
    /\ Nullish \subseteq PyFalsy
BY DEF Str, PyFalsy, Falsy, Nullish, Absent, JsonNull

\* Where a text is looked for they are refused, but for the empty text.
LEMMA NotAText ==
    ASSUME NEW v \in Passed, NEW required \in BOOLEAN
    PROVE  /\ v # Str("") => Text(v, required) = Reject
           /\ required => Text(v, required) = Reject
<1>1. CASE v = Str("")
  BY <1>1 DEF Text
<1>2. CASE v # Str("")
  <2>1. v[1] # "text" /\ v \notin Nullish
    BY <1>2, PassedValues DEF Passed
  <2>. QED
    BY <1>2, <2>1 DEF Text
<1>. QED
  BY <1>1, <1>2

LEMMA SameText ==
    ASSUME NEW v, NEW w, v = w \/ v \in Passed,
           Text(v, TRUE) # Reject, RequiredText(w) # Reject
    PROVE  Strip(Text(v, TRUE)) = RequiredText(w)
<1>1. v = w
  BY NotAText
<1>. QED
  BY <1>1 DEF Text, RequiredText

LEMMA SameStatus ==
    ASSUME NEW v, NEW w, v = w \/ v \in Passed,
           NormalizeStatus(v) # Reject, PyStatus(w) # Reject
    PROVE  NormalizeStatus(v) = PyStatus(w)
<1>1. "" \notin DOMAIN StatusNames /\ Normalized("") = "" /\ "" # Inherited
  BY DEF StatusNames, Normalized, Inherited
<1>2. v \notin Passed
  BY <1>1, PassedValues DEF NormalizeStatus
<1>. QED
  BY <1>2 DEF NormalizeStatus, PyStatus

LEMMA SameTime ==
    ASSUME NEW v, NEW w, v = w \/ v \in Passed, NEW required \in BOOLEAN,
           required \/ v = w,
           Timestamp(v, required) # Reject, PyTimestamp(w, required) # Reject
    PROVE  Timestamp(v, required) = Cut(PyTimestamp(w, required))
<1>1. v = w
  <2>1. required /\ v \in Passed => Text(v, required) = Reject
    BY NotAText
  <2>. QED
    BY <2>1 DEF Timestamp
<1>2. CASE v \in Nullish \cup {Str("")}
  BY <1>1, <1>2 DEF Timestamp, PyTimestamp, Text, Cut
<1>3. CASE v \notin Nullish \cup {Str("")}
  <2>1. v[1] = "text" /\ v[2] \in DOMAIN Instants
    BY <1>1, <1>3 DEF PyTimestamp
  <2>2. Text(v, required) = v[2] /\ v[2] # Null
    BY <1>3, <2>1, InstantsAssumption DEF Text
  <2>3. v[2] # Reject
    BY <2>2 DEF Timestamp
  <2>. QED
    BY <1>1, <1>3, <2>1, <2>2, <2>3 DEF Timestamp, PyTimestamp
<1>. QED
  BY <1>2, <1>3

LEMMA SameEvent ==
    ASSUME NEW v, NEW w, v = w \/ v \in Passed, v # Str(""),
           Text(v, FALSE) # Reject
    PROVE  Text(v, FALSE) = IF w[1] = "text" THEN w[2] ELSE Null
<1>1. v = w
  BY NotAText
<1>. QED
  BY <1>1, NullishKind DEF Text

LEMMA SameInteger ==
    ASSUME NEW a, NEW b, SameNumber(a, b), NEW fallback
    PROVE  Integer(Coalesce(<<a, b>>), fallback)
              = PyInteger(Or(<<b, a>>), fallback)
<1>1. Coalesce(<<a, b>>) = IF a \notin Nullish THEN a ELSE b
  BY FirstOfTwo DEF Coalesce
<1>2. Or(<<b, a>>) = IF b \notin PyFalsy THEN b ELSE a
  BY FirstOfTwo DEF Or
<1>3. /\ \A v \in Nullish : Integer(v, fallback) = fallback
      /\ \A v \in Nullish : PyInteger(v, fallback) = fallback
  BY NullishKind DEF Integer, PyInteger
<1>4. \A v : v[1] # "float" => Integer(v, fallback) = PyInteger(v, fallback)
  BY DEF Integer, PyInteger
<1>5. \A v \in Passed : v[1] # "float" /\ v # Num(0) =>
         Integer(v, fallback) = fallback
  <2>. TAKE v \in Passed
  <2>. HAVE v[1] # "float" /\ v # Num(0)
  <2>1. v \in {Str(""), Float(0), <<"flag", "false">>, <<"list", "">>,
              <<"object", "">>}
    BY DEF Passed, PyFalsy, Falsy
  <2>2. Str("")[1] = "text" /\ Float(0)[1] = "float"
    BY DEF Str, Float
  <2>3. /\ <<"flag", "false">>[1] = "flag" /\ <<"list", "">>[1] = "list"
        /\ <<"object", "">>[1] = "object"
    OBVIOUS
  <2>4. v[1] \notin {"integer", "float"}
    BY <2>1, <2>2, <2>3
  <2>. QED
    BY <2>4 DEF Integer
<1>6. Nullish \subseteq PyFalsy
  BY TextKind
<1>7. a[1] # "float" /\ b[1] # "float"
  BY DEF SameNumber
<1>8. CASE a = b
  BY <1>1, <1>2, <1>4, <1>7, <1>8
<1>9. CASE b \in Nullish
  BY <1>1, <1>2, <1>3, <1>4, <1>6, <1>7, <1>9
<1>10. CASE a \in Nullish /\ b # Num(0)
  <2>1. CASE b \notin PyFalsy
    BY <1>1, <1>2, <1>4, <1>7, <1>10, <2>1
  <2>2. CASE b \in PyFalsy
    <3>1. b \in Nullish \/ b \in Passed
      BY <2>2 DEF Passed
    <3>. QED
      BY <1>1, <1>2, <1>3, <1>5, <1>7, <1>10, <2>2, <3>1
  <2>. QED
    BY <2>1, <2>2
<1>. QED
  BY <1>8, <1>9, <1>10 DEF SameNumber

\* The text of the first of two values, or else of a default.
LEMMA SameString ==
    ASSUME NEW a, NEW b, NEW c, Alike(Coalesce(<<a, b, c>>))
    PROVE  JsString(Coalesce(<<a, b, c>>)) = PyString(Or(<<a, b, c>>))
<1>. DEFINE v == Coalesce(<<a, b, c>>)
<1>1. v = IF a \notin Nullish THEN a ELSE IF b \notin Nullish THEN b ELSE c
  BY FirstOfThree DEF Coalesce
<1>2. Or(<<a, b, c>>) = IF a \notin PyFalsy THEN a
                        ELSE IF b \notin PyFalsy THEN b ELSE c
  BY FirstOfThree DEF Or
<1>. HIDE DEF v
<1>3. v \notin PyFalsy /\ v[1] \in {"text", "integer"}
  <2>1. v \notin Falsy /\ v[1] \in {"text", "integer"}
    BY DEF Alike, v
  <2>2. <<"list", "">>[1] = "list" /\ <<"object", "">>[1] = "object"
    OBVIOUS
  <2>. QED
    BY <2>1, <2>2 DEF PyFalsy
<1>4. Or(<<a, b, c>>) = v
  BY <1>1, <1>2, <1>3, TextKind
<1>. QED
  BY <1>3, <1>4 DEF JsString, PyString, v

\* A time under two names.
LEMMA SameStepTime ==
    ASSUME NEW a, NEW b, a # Str(""),
           Timestamp(Coalesce(<<a, b>>), FALSE) # Reject,
           PyTimestamp(Or(<<a, b>>), FALSE) # Reject
    PROVE  Timestamp(Coalesce(<<a, b>>), FALSE)
              = Cut(PyTimestamp(Or(<<a, b>>), FALSE))
<1>1. Coalesce(<<a, b>>) = IF a \notin Nullish THEN a ELSE b
  BY FirstOfTwo DEF Coalesce
<1>2. Or(<<a, b>>) = IF a \notin PyFalsy THEN a ELSE b
  BY FirstOfTwo DEF Or
<1>3. a \notin Passed
  <2>. SUFFICES ASSUME a \in Passed PROVE FALSE
    OBVIOUS
  <2>1. a \notin Nullish
    BY DEF Passed
  <2>2. Text(a, FALSE) = Reject
    BY NotAText
  <2>. QED
    BY <1>1, <2>1, <2>2 DEF Timestamp
<1>4. Coalesce(<<a, b>>) = Or(<<a, b>>)
  <2>1. a \notin Nullish <=> a \notin PyFalsy
    BY <1>3, TextKind DEF Passed
  <2>2. CASE a \in Nullish
    BY <1>1, <1>2, <2>1, <2>2
  <2>3. CASE a \notin Nullish
    BY <1>1, <1>2, <2>1, <2>3
  <2>. QED
    BY <2>2, <2>3
<1>. QED
  BY <1>4, SameTime

-----------------------------------------------------------------------------
(* One payload, two adapters.                                              *)

Plain == {"run", "workflow", "at", "started", "ended", "event"}
AllFields == Plain \cup {"status", "attempt"}
SinglePath == {"started", "ended", "attempt"}

LEMMA PathCounts ==
    ASSUME NEW provider \in Providers
    PROVE  /\ \A f \in AllFields : Len(Paths[provider][f]) \in Nat
           /\ \A f \in SinglePath : Len(Paths[provider][f]) = 1
BY DEF Providers, Paths, AllFields, Plain, SinglePath

\* Only n8n's status and attempt depend on a flag.
LEMMA FlagPaths ==
    ASSUME NEW provider \in Providers
    PROVE  /\ \A f \in Plain : \A i \in 1..Len(Paths[provider][f]) :
                 Paths[provider][f][i] \notin {In("finished"), In("retryOf")}
           /\ \A i \in 1..Len(Paths[provider].status) :
                 Paths[provider].status[i] # In("retryOf")
           /\ \A i \in 1..Len(Paths[provider].attempt) :
                 Paths[provider].attempt[i] # In("finished")
<1>1. \A name : Top(name) \notin {In("finished"), In("retryOf")}
  BY DEF In, Top
<1>2. \A name : name \notin {"finished", "retryOf"} =>
         In(name) \notin {In("finished"), In("retryOf")}
  BY DEF In
<1>3. CASE provider = "custom"
  BY <1>1, <1>3 DEF Paths, Plain
<1>4. CASE provider = "n8n"
  <2>1. /\ Paths[provider].run = <<In("id")>>
        /\ Paths[provider].workflow = <<In("workflow.id"), In("workflowId")>>
        /\ Paths[provider].at =
              <<Top("timestamp"), In("stoppedAt"), In("startedAt")>>
        /\ Paths[provider].started = <<In("startedAt")>>
        /\ Paths[provider].ended = <<In("stoppedAt")>>
        /\ Paths[provider].event = <<Top("id"), In("eventId")>>
        /\ Paths[provider].status = <<In("status"), In("finished")>>
        /\ Paths[provider].attempt = <<In("retryOf")>>
    BY <1>4 DEF Paths
  <2>2. /\ In("status") # In("retryOf") /\ In("finished") # In("retryOf")
        /\ \A name \in {"id", "workflow.id", "workflowId", "stoppedAt",
                         "startedAt", "eventId"} :
              In(name) \notin {In("finished"), In("retryOf")}
    BY <1>2 DEF In
  <2>3. \A f \in Plain : \A i \in 1..Len(Paths[provider][f]) :
           Paths[provider][f][i] \notin {In("finished"), In("retryOf")}
    BY <1>1, <2>1, <2>2 DEF Plain
  <2>. QED
    BY <2>1, <2>2, <2>3
<1>5. CASE provider = "make"
  <2>1. /\ Paths[provider].run = <<In("execution_id"), In("id")>>
        /\ Paths[provider].workflow = <<In("scenario.id"), In("scenario_id")>>
        /\ Paths[provider].status = <<In("status")>>
        /\ Paths[provider].at = <<Top("occurred_at"), In("started_at")>>
        /\ Paths[provider].started = <<In("started_at")>>
        /\ Paths[provider].ended = <<In("finished_at")>>
        /\ Paths[provider].attempt = <<In("attempt")>>
        /\ Paths[provider].event = <<Top("event_id")>>
    BY <1>5 DEF Paths
  <2>2. \A name \in {"execution_id", "id", "scenario.id", "scenario_id",
                     "status", "started_at", "finished_at", "attempt"} :
           In(name) \notin {In("finished"), In("retryOf")}
    BY <1>2
  <2>3. \A f \in Plain : \A i \in 1..Len(Paths[provider][f]) :
           Paths[provider][f][i] \notin {In("finished"), In("retryOf")}
    BY <1>1, <2>1, <2>2 DEF Plain
  <2>. QED
    BY <2>1, <2>2, <2>3
<1>6. CASE provider = "zapier"
  <2>1. /\ Paths[provider].run = <<In("id")>>
        /\ Paths[provider].workflow = <<In("zap.id"), In("zap_id")>>
        /\ Paths[provider].status = <<In("status")>>
        /\ Paths[provider].at = <<Top("timestamp"), In("started_at")>>
        /\ Paths[provider].started = <<In("started_at")>>
        /\ Paths[provider].ended = <<In("completed_at")>>
        /\ Paths[provider].attempt = <<In("attempt")>>
        /\ Paths[provider].event = <<Top("event_id")>>
    BY <1>6 DEF Paths
  <2>2. \A name \in {"id", "zap.id", "zap_id", "status", "started_at",
                     "completed_at", "attempt"} :
           In(name) \notin {In("finished"), In("retryOf")}
    BY <1>2
  <2>3. \A f \in Plain : \A i \in 1..Len(Paths[provider][f]) :
           Paths[provider][f][i] \notin {In("finished"), In("retryOf")}
    BY <1>1, <2>1, <2>2 DEF Plain
  <2>. QED
    BY <2>1, <2>2, <2>3
<1>. QED
  BY <1>3, <1>4, <1>5, <1>6 DEF Providers, Paths

LEMMA SameValues ==
    ASSUME NEW p, NEW f,
           \A i \in 1..Len(Paths[p.provider][f]) :
              Paths[p.provider][f][i] \in {In("finished"), In("retryOf")} =>
                 SameFlag(At(p, Paths[p.provider][f][i]))
    PROVE  Values(p, f, Falsy) = Values(p, f, PyFalsy)
<1>1. \A v : SameFlag(v) => (v \notin Falsy <=> v \notin PyFalsy)
  BY DEF SameFlag, PyFalsy
<1>. QED
  BY <1>1 DEF Values

\* The values the two adapters take for a field.
LEMMA FieldValues ==
    ASSUME NEW p, p.provider \in Providers, NEW f \in AllFields,
           Values(p, f, Falsy) = Values(p, f, PyFalsy)
    PROVE  LET v == Coalesce(Values(p, f, Falsy))
               w == Or(Values(p, f, PyFalsy))
           IN  /\ v = w \/ v \in Passed
               /\ f \in SinglePath => v = w
<1>. DEFINE values == Values(p, f, Falsy)
<1>1. DOMAIN values = 1..Len(Paths[p.provider][f])
  BY DEF Values
<1>2. Coalesce(values) = Or(values) \/ Coalesce(values) \in Passed
  BY <1>1, PathCounts, SameOrPassed
<1>3. f \in SinglePath => Coalesce(values) = Or(values)
  <2>. SUFFICES ASSUME f \in SinglePath PROVE Coalesce(values) = Or(values)
    OBVIOUS
  <2>1. DOMAIN values = 1..1
    BY <1>1, PathCounts
  <2>2. values = [i \in DOMAIN values |-> values[i]]
    BY DEF Values
  <2>3. values = [i \in 1..1 |-> values[1]]
    BY <2>1, <2>2
  <2>. HIDE DEF values
  <2>. QED
    BY <2>1, <2>3, OnePath
<1>. QED
  BY <1>2, <1>3

LEMMA PlainFields ==
    ASSUME NEW p, p.provider \in Providers, NEW f \in Plain
    PROVE  LET v == Coalesce(Values(p, f, Falsy))
               w == Or(Values(p, f, PyFalsy))
           IN  /\ v = w \/ v \in Passed
               /\ f \in SinglePath => v = w
<1>1. Values(p, f, Falsy) = Values(p, f, PyFalsy)
  BY FlagPaths, SameValues
<1>. QED
  BY <1>1, FieldValues DEF AllFields

\* An adapter that returns an event refused none of its fields.
LEMMA NothingRefused ==
    ASSUME NEW fields, Event(fields) # Reject
    PROVE  /\ Event(fields) = fields
           /\ \A f \in DOMAIN fields : fields[f] # Reject
BY DEF Event

LEMMA PayloadsAgree ==
    ASSUME NEW p, p.provider \in Providers,
           NormalizeProviderEvent(p) # Reject, NormalizeEvent(p) # Reject
    PROVE  LET edge == NormalizeProviderEvent(p)
               api == NormalizeEvent(p)
           IN  /\ Strip(edge.run) = api.run
               /\ Strip(edge.workflow) = api.workflow
               /\ \A f \in {"at", "started", "ended"} : edge[f] = Cut(api[f])
               /\ SameFlag(At(p, In("finished"))) => edge.status = api.status
               /\ /\ SameFlag(At(p, In("retryOf")))
                  /\ Coalesce(Values(p, "attempt", Falsy))[1] # "float"
                  => api.attempt = AtLeastOne(edge.attempt)
               /\ Coalesce(Values(p, "event", Falsy)) # Str("") =>
                     edge.event = api.event
<1>. DEFINE v(f) == Coalesce(Values(p, f, Falsy))
            w(f) == Or(Values(p, f, PyFalsy))
            edge == [run |-> Text(v("run"), TRUE),
                     workflow |-> Text(v("workflow"), TRUE),
                     status |-> NormalizeStatus(v("status")),
                     at |-> Timestamp(v("at"), TRUE),
                     started |-> Timestamp(v("started"), FALSE),
                     ended |-> Timestamp(v("ended"), FALSE),
                     attempt |-> Integer(v("attempt"), 1),
                     event |-> Text(v("event"), FALSE)]
            api == [run |-> RequiredText(w("run")),
                    workflow |-> RequiredText(w("workflow")),
                    status |-> PyStatus(w("status")),
                    at |-> PyTimestamp(w("at"), TRUE),
                    started |-> PyTimestamp(w("started"), FALSE),
                    ended |-> PyTimestamp(w("ended"), FALSE),
                    attempt |-> AtLeastOne(PyInteger(w("attempt"), 1)),
                    event |-> IF w("event")[1] = "text" THEN w("event")[2]
                              ELSE Null]
<1>1. NormalizeProviderEvent(p) = Event(edge)
  BY DEF NormalizeProviderEvent, Canonical
<1>2. NormalizeEvent(p) = Event(api)
  BY DEF NormalizeEvent, PyCanonical
<1>. HIDE DEF edge, api
<1>3. /\ NormalizeProviderEvent(p) = edge
      /\ \A f \in DOMAIN edge : edge[f] # Reject
  BY <1>1, NothingRefused
<1>4. /\ NormalizeEvent(p) = api
      /\ \A f \in DOMAIN api : api[f] # Reject
  BY <1>2, NothingRefused
<1>5. \A f \in Plain : v(f) = w(f) \/ v(f) \in Passed
  BY PlainFields
<1>6. v("started") = w("started") /\ v("ended") = w("ended")
  BY PlainFields DEF Plain, SinglePath
<1>7. SameFlag(At(p, In("finished"))) =>
         v("status") = w("status") \/ v("status") \in Passed
  <2>. SUFFICES ASSUME SameFlag(At(p, In("finished")))
                PROVE  Values(p, "status", Falsy) = Values(p, "status", PyFalsy)
    BY FieldValues DEF AllFields
  <2>. QED
    BY FlagPaths, SameValues
<1>8. SameFlag(At(p, In("retryOf"))) => v("attempt") = w("attempt")
  <2>. SUFFICES ASSUME SameFlag(At(p, In("retryOf")))
                PROVE  Values(p, "attempt", Falsy) = Values(p, "attempt", PyFalsy)
    BY FieldValues DEF AllFields, SinglePath
  <2>. QED
    BY FlagPaths, SameValues
<1>. HIDE DEF v, w
<1>9. /\ edge.run # Reject /\ edge.workflow # Reject
      /\ edge.status # Reject /\ edge.at # Reject
      /\ edge.started # Reject /\ edge.ended # Reject
      /\ edge.event # Reject
  BY <1>3 DEF edge
<1>10. /\ api.run # Reject /\ api.workflow # Reject
       /\ api.status # Reject /\ api.at # Reject
       /\ api.started # Reject /\ api.ended # Reject
  BY <1>4 DEF api
<1>11. Strip(edge.run) = api.run /\ Strip(edge.workflow) = api.workflow
  BY <1>5, <1>9, <1>10, SameText DEF Plain, edge, api
<1>12. edge.at = Cut(api.at)
  BY <1>5, <1>9, <1>10, SameTime DEF Plain, edge, api
<1>13. edge.started = Cut(api.started) /\ edge.ended = Cut(api.ended)
  BY <1>6, <1>9, <1>10, SameTime DEF edge, api
<1>14. SameFlag(At(p, In("finished"))) => edge.status = api.status
  BY <1>7, <1>9, <1>10, SameStatus DEF edge, api
<1>15. SameFlag(At(p, In("retryOf"))) /\ v("attempt")[1] # "float" =>
          api.attempt = AtLeastOne(edge.attempt)
  BY <1>8 DEF Integer, PyInteger, edge, api
<1>16. v("event") # Str("") => edge.event = api.event
  BY <1>5, <1>9, SameEvent DEF Plain, edge, api
<1>. QED
  BY <1>3, <1>4, <1>11, <1>12, <1>13, <1>14, <1>15, <1>16 DEF v

-----------------------------------------------------------------------------
(* One list of steps, two adapters.                                        *)

LEMMA AllListed ==
    ASSUME NEW steps, Listed(steps) # Reject
    PROVE  /\ Listed(steps) = steps
           /\ \A i \in DOMAIN steps : \A f \in DOMAIN steps[i] :
                 steps[i][f] # Reject
BY DEF Listed

LEMMA EdgeStep ==
    ASSUME NEW steps, NormalizeSteps(steps) # Reject
    PROVE  /\ DOMAIN NormalizeSteps(steps) = DOMAIN steps
           /\ NormalizeSteps(steps) =
                 [i \in DOMAIN steps |-> NormalizeStep(steps[i], i)]
           /\ \A i \in DOMAIN steps :
                 \A f \in DOMAIN NormalizeStep(steps[i], i) :
                    NormalizeStep(steps[i], i)[f] # Reject
<1>. DEFINE list == [i \in DOMAIN steps |-> NormalizeStep(steps[i], i)]
<1>1. NormalizeSteps(steps) = Listed(list)
  BY DEF NormalizeSteps
<1>2. DOMAIN list = DOMAIN steps
      /\ \A i \in DOMAIN steps : list[i] = NormalizeStep(steps[i], i)
  OBVIOUS
<1>3. Listed(list) = list
      /\ \A i \in DOMAIN list : \A f \in DOMAIN list[i] : list[i][f] # Reject
  <2>. HIDE DEF list
  <2>. QED
    BY <1>1, AllListed
<1>. QED
  BY <1>1, <1>2, <1>3

LEMMA ApiStep ==
    ASSUME NEW steps, PySteps(steps) # Reject
    PROVE  /\ PySteps(steps) = [i \in DOMAIN steps |-> PyStep(steps[i], i)]
           /\ \A i \in DOMAIN steps :
                 \A f \in DOMAIN PyStep(steps[i], i) :
                    PyStep(steps[i], i)[f] # Reject
<1>. DEFINE list == [i \in DOMAIN steps |-> PyStep(steps[i], i)]
<1>1. PySteps(steps) = Listed(list)
  BY DEF PySteps
<1>2. DOMAIN list = DOMAIN steps
      /\ \A i \in DOMAIN steps : list[i] = PyStep(steps[i], i)
  OBVIOUS
<1>3. Listed(list) = list
      /\ \A i \in DOMAIN list : \A f \in DOMAIN list[i] : list[i][f] # Reject
  <2>. HIDE DEF list
  <2>. QED
    BY <1>1, AllListed
<1>. QED
  BY <1>1, <1>2, <1>3

\* FastAPI takes a step's status by its own name only.
LEMMA StatusesKeepTheirNames ==
    ASSUME NEW x \in RunStatuses
    PROVE  x # Inherited /\ (x \in DOMAIN StatusNames => StatusNames[x] = x)
BY DEF RunStatuses, StatusNames, Inherited

LEMMA SameStepStatus ==
    ASSUME NEW v, StepStatus(v) # Reject, PyStepStatus(v) # Reject
    PROVE  StepStatus(v) = PyStepStatus(v)
<1>. DEFINE name == Normalized(v[2])
<1>1. v[1] = "text" /\ name \in StepStatuses /\ PyStepStatus(v) = name
  BY DEF PyStepStatus
<1>. HIDE DEF name
<1>2. CASE name = "skipped"
  BY <1>1, <1>2 DEF StepStatus, name
<1>3. CASE name # "skipped"
  <2>1. name \in RunStatuses
    BY <1>1, <1>3 DEF StepStatuses
  <2>2. StepStatus(v) = NormalizeStatus(v)
    BY <1>1, <1>3 DEF StepStatus, name
  <2>3. name # Inherited
    BY <2>1, StatusesKeepTheirNames
  <2>4. name \in DOMAIN StatusNames /\ NormalizeStatus(v) = StatusNames[name]
    BY <1>1, <2>2, <2>3 DEF NormalizeStatus, name
  <2>. QED
    BY <1>1, <2>1, <2>2, <2>4, StatusesKeepTheirNames
<1>. QED
  BY <1>2, <1>3

LEMMA StepsAgree ==
    ASSUME NEW steps, NormalizeSteps(steps) # Reject, PySteps(steps) # Reject,
           NEW i \in DOMAIN steps
    PROVE  SameStep(steps[i], i, NormalizeSteps(steps)[i], PySteps(steps)[i])
<1>. DEFINE s == steps[i]
            edge == NormalizeStep(s, i)
            api == PyStep(s, i)
<1>1. /\ NormalizeSteps(steps)[i] = edge
      /\ \A f \in DOMAIN edge : edge[f] # Reject
  BY EdgeStep
<1>2. /\ PySteps(steps)[i] = api
      /\ \A f \in DOMAIN api : api[f] # Reject
  BY ApiStep
<1>3. /\ edge.status = StepStatus(Part(s, "status"))
      /\ edge.id = JsString(Coalesce(StepIds(s, i)))
      /\ edge.name = JsString(Coalesce(StepNames(s, i)))
      /\ edge.number = Integer(Coalesce(<<Part(s, "sequence"),
                                          Part(s, "sequence_number")>>), i)
      /\ edge.attempt = Integer(Coalesce(<<Part(s, "attempt"),
                                           Part(s, "attempt_number")>>), 1)
      /\ edge.started = Timestamp(Coalesce(<<Part(s, "started_at"),
                                             Part(s, "startedAt")>>), FALSE)
      /\ edge.ended = Timestamp(Coalesce(<<Part(s, "ended_at"),
                                           Part(s, "stoppedAt")>>), FALSE)
      /\ {"status", "started", "ended"} \subseteq DOMAIN edge
  BY DEF NormalizeStep
<1>4. /\ api.status = PyStepStatus(Part(s, "status"))
      /\ api.id = PyString(Or(StepIds(s, i)))
      /\ api.name = PyString(Or(StepNames(s, i)))
      /\ api.number = PyInteger(Or(<<Part(s, "sequence_number"),
                                     Part(s, "sequence")>>), i)
      /\ api.attempt = AtLeastOne(PyInteger(Or(<<Part(s, "attempt_number"),
                                                 Part(s, "attempt")>>), 1))
      /\ api.started = PyTimestamp(Or(<<Part(s, "started_at"),
                                        Part(s, "startedAt")>>), FALSE)
      /\ api.ended = PyTimestamp(Or(<<Part(s, "ended_at"),
                                      Part(s, "stoppedAt")>>), FALSE)
      /\ {"status", "started", "ended"} \subseteq DOMAIN api
  BY DEF PyStep
<1>. HIDE DEF edge, api, s
<1>5. edge.status = api.status
  BY <1>1, <1>2, <1>3, <1>4, SameStepStatus
<1>6. Alike(Coalesce(StepIds(s, i))) => edge.id = api.id
  BY <1>3, <1>4, SameString DEF StepIds
<1>7. Alike(Coalesce(StepNames(s, i))) => edge.name = api.name
  BY <1>3, <1>4, SameString DEF StepNames
<1>8. SameNumber(Part(s, "sequence"), Part(s, "sequence_number")) =>
         edge.number = api.number
  BY <1>3, <1>4, SameInteger
<1>9. SameNumber(Part(s, "attempt"), Part(s, "attempt_number")) =>
         api.attempt = AtLeastOne(edge.attempt)
  BY <1>3, <1>4, SameInteger
<1>10. Part(s, "started_at") # Str("") => edge.started = Cut(api.started)
  BY <1>1, <1>2, <1>3, <1>4, SameStepTime
<1>11. Part(s, "ended_at") # Str("") => edge.ended = Cut(api.ended)
  BY <1>1, <1>2, <1>3, <1>4, SameStepTime
<1>12. SameStep(s, i, edge, api)
  BY <1>5, <1>6, <1>7, <1>8, <1>9, <1>10, <1>11 DEF SameStep
<1>. QED
  BY <1>1, <1>2, <1>12 DEF s

-----------------------------------------------------------------------------
(* What the transaction and the history of the last event have in common   *)
(* with the stored run.                                                     *)

\* unique (workflow_run_id, sequence_number)
NumbersUnique(rows) ==
    \A a, b \in DOMAIN rows : rows[a].number = rows[b].number => a = b

AllInTime(rows) == \A id \in DOMAIN rows : EndsInTime(rows[id])

\* The rows hold the first k - 1 steps: they would bring nothing new.
Holds(rows, steps, k) ==
    \A i \in Named(steps) :
        i < k => /\ steps[i].id \in DOMAIN rows
                 /\ StepRow(rows, steps[i]) = rows[steps[i].id]
                 /\ Valid(steps[i])

\* The loop has reached step next of an event that was let in.
InTransaction ==
    /\ job # NoJob
    /\ Readable(job)
    /\ next <= Len(StepsOf(job)) + 1
    /\ draft.times = MergeTimes(times, EventOf(job))
    /\ NoStepTwice(StepsOf(job)) => Holds(draft.rows, StepsOf(job), next)

\* Every row of the draft is a row of the run, or has the number of an earlier
\* step of this event.
OldOrNew ==
    /\ DOMAIN timeline \subseteq DOMAIN draft.rows
    /\ \A id \in DOMAIN draft.rows :
          \/ id \in DOMAIN timeline /\ draft.rows[id] = timeline[id]
          \/ \E j \in Named(StepsOf(job)) :
                /\ j < next
                /\ StepsOf(job)[j].id = id
                /\ StepsOf(job)[j].number = draft.rows[id].number

\* The run as it is holds the last event.
LastIsStored ==
    /\ Readable(last)
    /\ MergeTimes(times, EventOf(last)) = times
    /\ NoStepTwice(StepsOf(last)) =>
          Holds(timeline, StepsOf(last), Len(StepsOf(last)) + 1)

IInv ==
    /\ TypeOK
    /\ NumbersUnique(timeline) /\ NumbersUnique(draft.rows)
    /\ AllInTime(timeline) /\ AllInTime(draft.rows)
    /\ EndsInTime(times) /\ EndsInTime(draft.times)
    /\ next = 0 => draft = Committed
    /\ next > 0 => InTransaction /\ OldOrNew
    /\ next > 0 /\ job = last /\ NoStepTwice(StepsOf(job)) => draft = Committed
    /\ last # NoJob => LastIsStored

-----------------------------------------------------------------------------
(* Types of what the adapter returns and of what is merged.                *)

LEMMA IntegerTyped ==
    ASSUME NEW v, NEW fallback \in Nat
    PROVE  Integer(v, fallback) \in Nat
BY DEF Integer

LEMMA CutTyped ==
    ASSUME NEW t \in Nat
    PROVE  Cut(t) \in Nat
<1>1. \A x \in Nat : (x \div 1000) * 1000 \in Nat
  OBVIOUS
<1>. QED
  BY <1>1, InstantsAssumption DEF Cut, PerMillisecond

LEMMA TimestampTyped ==
    ASSUME NEW v, NEW required \in BOOLEAN
    PROVE  Timestamp(v, required) \in Known \cup {Reject}
<1>1. \A t \in DOMAIN Instants : Cut(Instants[t]) \in Known
  BY InstantsAssumption, CutTyped DEF Known
<1>. QED
  BY <1>1 DEF Timestamp, Known

LEMMA StepsTyped ==
    ASSUME NEW e \in Events, StepsOf(e) # Reject
    PROVE  /\ Len(StepsOf(e)) \in 0..MaxSteps
           /\ DOMAIN StepsOf(e) = 1..Len(StepsOf(e))
           /\ \A i \in DOMAIN StepsOf(e) :
                 /\ StepsOf(e)[i].number \in Nat
                 /\ StepsOf(e)[i].started \in Known
                 /\ StepsOf(e)[i].ended \in Known
<1>. DEFINE list == StepsOf(e)
            entries == {list[i] : i \in DOMAIN list}
<1>1. PICK n \in 0..MaxSteps : DOMAIN Steps[e] = 1..n
  BY EventsAssumption
<1>2. /\ DOMAIN list = 1..n
      /\ list = [i \in 1..n |-> NormalizeStep(Steps[e][i], i)]
      /\ \A i \in 1..n : \A f \in DOMAIN NormalizeStep(Steps[e][i], i) :
            NormalizeStep(Steps[e][i], i)[f] # Reject
  BY <1>1, EdgeStep DEF StepsOf
<1>3. list = [i \in 1..n |-> list[i]]
  BY <1>2
<1>4. \A i \in 1..n : /\ list[i].number \in Nat
                      /\ list[i].started \in Known
                      /\ list[i].ended \in Known
  <2>. TAKE i \in 1..n
  <2>. DEFINE step == NormalizeStep(Steps[e][i], i)
  <2>1. list[i] = step /\ \A f \in DOMAIN step : step[f] # Reject
    BY <1>2
  <2>2. i \in Nat
    BY DEF MaxSteps
  <2>3. step.number \in Nat
    BY <2>2, IntegerTyped DEF NormalizeStep
  <2>4. /\ {"started", "ended"} \subseteq DOMAIN step
        /\ step.started \in Known \cup {Reject}
        /\ step.ended \in Known \cup {Reject}
    BY TimestampTyped DEF NormalizeStep
  <2>. HIDE DEF step, list
  <2>. QED
    BY <2>1, <2>3, <2>4
<1>. HIDE DEF list
<1>5. list \in Seq(entries)
  <2>1. \A i \in 1..n : list[i] \in entries
    BY <1>2
  <2>. HIDE DEF entries
  <2>2. list \in [1..n -> entries]
    BY <1>3, <2>1
  <2>3. n \in Nat
    BY DEF MaxSteps
  <2>. QED
    BY <2>2, <2>3, SeqDef
<1>6. Len(list) = n
  BY <1>2, <1>5, LenProperties DEF MaxSteps
<1>. QED
  BY <1>2, <1>4, <1>6 DEF list

LEMMA TimesTyped ==
    ASSUME NEW e, EventOf(e) # Reject
    PROVE  EventOf(e).started \in Known /\ EventOf(e).ended \in Known
<1>. DEFINE v(f) == Coalesce(Values(Payload[e], f, Falsy))
            edge == [run |-> Text(v("run"), TRUE),
                     workflow |-> Text(v("workflow"), TRUE),
                     status |-> NormalizeStatus(v("status")),
                     at |-> Timestamp(v("at"), TRUE),
                     started |-> Timestamp(v("started"), FALSE),
                     ended |-> Timestamp(v("ended"), FALSE),
                     attempt |-> Integer(v("attempt"), 1),
                     event |-> Text(v("event"), FALSE)]
<1>1. EventOf(e) = Event(edge)
  BY DEF EventOf, NormalizeProviderEvent, Canonical
<1>. HIDE DEF v
<1>2. {"started", "ended"} \subseteq DOMAIN edge
  OBVIOUS
<1>3. /\ edge.started \in Known \cup {Reject}
      /\ edge.ended \in Known \cup {Reject}
  BY TimestampTyped
<1>. HIDE DEF edge
<1>. QED
  BY <1>1, <1>2, <1>3, NothingRefused

LEMMA MergeTyped ==
    ASSUME NEW t, t.started \in Known, t.ended \in Known,
           NEW e, e.started \in Known, e.ended \in Known
    PROVE  MergeTimes(t, e) \in RowTimes
BY DEF MergeTimes, RowTimes

\* Times that were merged once do not change by the same event again.
LEMMA MergeTwice ==
    ASSUME NEW t \in RowTimes, NEW e
    PROVE  MergeTimes(MergeTimes(t, e), e) = MergeTimes(t, e)
BY DEF MergeTimes, RowTimes

-----------------------------------------------------------------------------
(* One upsert.                                                             *)

\* The row of a step depends on its own row only.
LEMMA RowOfItsOwn ==
    ASSUME NEW rows, NEW new, NEW step,
           step.id \in DOMAIN rows <=> step.id \in DOMAIN new,
           step.id \in DOMAIN rows => new[step.id] = rows[step.id]
    PROVE  StepRow(new, step) = StepRow(rows, step)
BY DEF StepRow

LEMMA RowTyped ==
    ASSUME NEW rows, rows \in [DOMAIN rows -> Rows], NEW step,
           step.number \in Nat, step.started \in Known, step.ended \in Known
    PROVE  /\ StepRow(rows, step) \in Rows
           /\ StepRow(rows, step).number = step.number
<1>. DEFINE t == IF step.id \in DOMAIN rows THEN rows[step.id] ELSE NoTimes
            merged == MergeTimes(t, step)
<1>1. t.started \in Known /\ t.ended \in Known
  BY DEF Rows, NoTimes, Known
<1>. HIDE DEF t
<1>2. merged \in RowTimes
  BY <1>1, MergeTyped
<1>. HIDE DEF merged
<1>3. StepRow(rows, step) = [number |-> step.number, started |-> merged.started,
                             ended |-> merged.ended]
  BY DEF StepRow, merged, t
<1>. QED
  BY <1>2, <1>3 DEF Rows, RowTimes

\* A step changes the row that it left not any more.
LEMMA RowTwice ==
    ASSUME NEW rows, NEW new, NEW step,
           step.id \in DOMAIN new, new[step.id] = StepRow(rows, step)
    PROVE  StepRow(new, step) = StepRow(rows, step)
<1>. DEFINE t == IF step.id \in DOMAIN rows THEN rows[step.id] ELSE NoTimes
            row == StepRow(rows, step)
<1>1. /\ row.number = step.number
      /\ row.started = IF t.started = Null THEN step.started ELSE t.started
      /\ row.ended = IF step.ended = Null THEN t.ended ELSE step.ended
      /\ row = [number |-> row.number, started |-> row.started,
                ended |-> row.ended]
  BY DEF StepRow, MergeTimes
<1>. HIDE DEF row, t
<1>2. StepRow(new, step) =
         [number |-> step.number,
          started |-> IF row.started = Null THEN step.started ELSE row.started,
          ended |-> IF step.ended = Null THEN row.ended ELSE step.ended]
  BY DEF StepRow, MergeTimes, row
<1>3. (IF row.started = Null THEN step.started ELSE row.started) = row.started
  BY <1>1
<1>4. (IF step.ended = Null THEN row.ended ELSE step.ended) = row.ended
  BY <1>1
<1>. QED
  BY <1>1, <1>2, <1>3, <1>4 DEF row

\* What the loop does to the rows of a run with one step.
LEMMA UpsertOrSkip ==
    ASSUME NEW rows, rows \in [DOMAIN rows -> Rows],
           NumbersUnique(rows), AllInTime(rows),
           NEW step, step.number \in Nat,
           step.started \in Known, step.ended \in Known,
           Skipped(step) \/ Storable(rows, step)
    PROVE  LET new == IF Skipped(step) THEN rows ELSE UpsertStep(rows, step)
           IN  /\ new \in [DOMAIN new -> Rows]
               /\ NumbersUnique(new) /\ AllInTime(new)
               /\ DOMAIN rows \subseteq DOMAIN new
               /\ \A id \in DOMAIN new : id \in DOMAIN rows \/ id = step.id
               /\ \A id \in DOMAIN rows :
                     id # step.id \/ Skipped(step) => new[id] = rows[id]
               /\ ~ Skipped(step) => /\ step.id \in DOMAIN new
                                     /\ new[step.id] = StepRow(rows, step)
                                     /\ new[step.id].number = step.number
<1>1. CASE Skipped(step)
  BY <1>1
<1>2. CASE ~ Skipped(step)
  <2>. DEFINE new == UpsertStep(rows, step)
              row == StepRow(rows, step)
  <2>1. row \in Rows /\ row.number = step.number
    BY RowTyped
  <2>. HIDE DEF row
  <2>2. /\ DOMAIN new = DOMAIN rows \cup {step.id}
        /\ new[step.id] = row
        /\ \A id \in DOMAIN rows : id # step.id => new[id] = rows[id]
        /\ new = [id \in DOMAIN new |-> new[id]]
    BY DEF UpsertStep, row
  <2>. HIDE DEF new
  <2>3. new \in [DOMAIN new -> Rows]
    BY <2>1, <2>2
  <2>4. NumbersUnique(new)
    BY <1>2, <2>1, <2>2 DEF NumbersUnique, Storable, Fits
  <2>5. AllInTime(new)
    BY <1>2, <2>2 DEF AllInTime, Storable, row
  <2>. QED
    BY <1>2, <2>1, <2>2, <2>3, <2>4, <2>5 DEF new, row
<1>. QED
  BY <1>1, <1>2

\* A step that the rows hold is let in and changes nothing.
LEMMA UpsertAgain ==
    ASSUME NEW rows, rows \in [DOMAIN rows -> Rows],
           NumbersUnique(rows), AllInTime(rows),
           NEW step, step.id \in DOMAIN rows, Valid(step),
           StepRow(rows, step) = rows[step.id]
    PROVE  Storable(rows, step) /\ UpsertStep(rows, step) = rows
<1>1. rows[step.id].number = step.number
  <2>1. StepRow(rows, step).number = step.number
    BY DEF StepRow
  <2>. QED
    BY <2>1
<1>2. Fits(rows, step)
  BY <1>1 DEF Fits, NumbersUnique
<1>3. EndsInTime(StepRow(rows, step))
  BY DEF AllInTime
<1>4. UpsertStep(rows, step) = [id \in DOMAIN rows |-> rows[id]]
  BY DEF UpsertStep
<1>. QED
  BY <1>2, <1>3, <1>4 DEF Storable

-----------------------------------------------------------------------------
(* The invariant holds in every step.                                      *)

LEMMA InitInv == Init => IInv
<1>. SUFFICES ASSUME Init PROVE IInv
  OBVIOUS
<1>1. /\ times \in RowTimes
      /\ DOMAIN timeline = {}
      /\ timeline \in [DOMAIN timeline -> Rows]
      /\ draft = [times |-> times, rows |-> timeline]
  BY DEF Init, RowTimes, Known, Committed
<1>2. TypeOK
  BY <1>1 DEF Init, TypeOK, MaxSteps
<1>3. /\ NumbersUnique(timeline) /\ NumbersUnique(draft.rows)
      /\ AllInTime(timeline) /\ AllInTime(draft.rows)
  BY <1>1 DEF NumbersUnique, AllInTime
<1>4. EndsInTime(times) /\ EndsInTime(draft.times)
  <2>1. times.started = Null
    BY DEF Init
  <2>. QED
    BY <1>1, <2>1 DEF EndsInTime, EndsEarly
<1>. QED
  BY <1>2, <1>3, <1>4 DEF Init, IInv

LEMMA StartJobInv ==
    ASSUME IInv, NEW e \in Events, StartJob(e)
    PROVE  IInv'
<1>1. next = 0
  BY DEF IInv, InTransaction, StartJob, TypeOK, MaxSteps
<1>2. Committed' = Committed
  BY DEF StartJob, Committed
<1>3. TypeOK'
  BY DEF IInv, TypeOK, StartJob
<1>4. last' # NoJob => last' = last /\ LastIsStored'
  BY DEF IInv, StartJob, LastIsStored
<1>. QED
  BY <1>1, <1>2, <1>3, <1>4 DEF IInv, StartJob

LEMMA RollBackInv ==
    ASSUME IInv, RollBack
    PROVE  IInv'
<1>1. Committed' = Committed
  BY DEF RollBack, Committed
<1>2. /\ draft'.times = times /\ draft'.rows = timeline
      /\ draft' \in [times : {times}, rows : {timeline}]
  BY DEF RollBack, Committed
<1>3. TypeOK'
  BY <1>2 DEF IInv, TypeOK, RollBack, MaxSteps
<1>4. last' # NoJob => LastIsStored'
  BY DEF IInv, RollBack, LastIsStored
<1>. QED
  BY <1>1, <1>2, <1>3, <1>4 DEF IInv, RollBack

LEMMA UpsertRunInv ==
    ASSUME IInv, UpsertRun
    PROVE  IInv'
<1>. DEFINE steps == StepsOf(job)
<1>1. /\ job \in Events /\ job' = job
      /\ Readable(job) /\ EventOf(job) # Reject /\ steps # Reject
      /\ EndsInTime(MergeTimes(times, EventOf(job)))
      /\ draft = Committed
  BY DEF UpsertRun, Executable, Readable, IInv, TypeOK
<1>2. /\ draft' = [times |-> MergeTimes(times, EventOf(job)), rows |-> timeline]
      /\ draft'.times = MergeTimes(times, EventOf(job))
      /\ draft'.rows = timeline
  BY <1>1 DEF UpsertRun, Committed
<1>3. draft'.times \in RowTimes
  <2>1. times.started \in Known /\ times.ended \in Known
    BY DEF IInv, TypeOK, RowTimes
  <2>. QED
    BY <1>1, <1>2, <2>1, TimesTyped, MergeTyped
<1>4. TypeOK'
  BY <1>2, <1>3 DEF IInv, TypeOK, UpsertRun, MaxSteps
<1>5. Len(steps) \in Nat /\ DOMAIN steps = 1..Len(steps)
  BY <1>1, StepsTyped DEF MaxSteps
<1>6. Holds(timeline, steps, 1)
  BY <1>5 DEF Holds, Named
<1>7. InTransaction'
  BY <1>1, <1>2, <1>5, <1>6 DEF InTransaction, UpsertRun
<1>8. OldOrNew'
  BY <1>2 DEF OldOrNew, UpsertRun
<1>9. job' = last' => draft' = Committed'
  <2>. SUFFICES ASSUME job = last PROVE draft' = Committed'
    BY DEF UpsertRun
  <2>1. MergeTimes(times, EventOf(job)) = times
    BY DEF IInv, LastIsStored, UpsertRun
  <2>. QED
    BY <1>2, <2>1 DEF Committed, UpsertRun
<1>10. last' # NoJob => LastIsStored'
  BY DEF IInv, UpsertRun, LastIsStored
<1>11. /\ NumbersUnique(timeline') /\ NumbersUnique(draft'.rows)
       /\ AllInTime(timeline') /\ AllInTime(draft'.rows)
  BY <1>2 DEF IInv, UpsertRun
<1>12. next' = 1 /\ times' = times
  BY DEF UpsertRun
<1>13. EndsInTime(times') /\ EndsInTime(draft'.times)
  BY <1>1, <1>2, <1>12 DEF IInv
<1>. QED
  BY <1>4, <1>7, <1>8, <1>9, <1>10, <1>11, <1>12, <1>13 DEF IInv

\* What every step of the loop starts from.
LEMMA InLoop ==
    ASSUME IInv, next > 0, next \in DOMAIN StepsOf(job)
    PROVE  /\ InTransaction /\ OldOrNew
           /\ Len(StepsOf(job)) \in 0..MaxSteps
           /\ DOMAIN StepsOf(job) = 1..Len(StepsOf(job))
           /\ next \in 1..Len(StepsOf(job))
           /\ next + 1 \in 0..MaxSteps + 1
           /\ StepsOf(job)[next].number \in Nat
           /\ StepsOf(job)[next].started \in Known
           /\ StepsOf(job)[next].ended \in Known
<1>1. InTransaction /\ OldOrNew
  BY DEF IInv
<1>2. job \in Events /\ StepsOf(job) # Reject
  BY <1>1 DEF IInv, TypeOK, InTransaction, Readable
<1>3. /\ Len(StepsOf(job)) \in 0..MaxSteps
      /\ next \in 1..Len(StepsOf(job))
  BY <1>2, StepsTyped
<1>4. next + 1 \in 0..MaxSteps + 1
  <2>. DEFINE n == Len(StepsOf(job))
  <2>1. n \in 0..200 /\ next \in 1..n
    BY <1>3 DEF MaxSteps
  <2>. HIDE DEF n
  <2>2. next + 1 \in 0..200 + 1
    BY <2>1
  <2>. QED
    BY <2>2 DEF MaxSteps
<1>. QED
  BY <1>1, <1>2, <1>4, StepsTyped

LEMMA UpsertNextInv ==
    ASSUME IInv, UpsertNext
    PROVE  IInv'
<1>. DEFINE steps == StepsOf(job)
            step == steps[next]
            rows == draft.rows
            new == draft'.rows
<1>1. /\ InTransaction /\ OldOrNew
      /\ Len(steps) \in 0..MaxSteps
      /\ DOMAIN steps = 1..Len(steps)
      /\ next \in 1..Len(steps)
      /\ next + 1 \in 0..MaxSteps + 1
      /\ step.number \in Nat /\ step.started \in Known /\ step.ended \in Known
  BY InLoop DEF UpsertNext
<1>2. /\ UNCHANGED <<times, timeline, job, last>>
      /\ next' = next + 1
      /\ Skipped(step) \/ Storable(rows, step)
  BY DEF UpsertNext, Executable
<1>3. /\ draft \in [times : RowTimes, rows : {rows}]
      /\ rows \in [DOMAIN rows -> Rows]
      /\ NumbersUnique(rows) /\ AllInTime(rows)
  BY DEF IInv, TypeOK
<1>4. /\ draft' = [times |-> draft.times,
                  rows |-> IF Skipped(step) THEN rows ELSE UpsertStep(rows, step)]
      /\ new = IF Skipped(step) THEN rows ELSE UpsertStep(rows, step)
      /\ draft'.times = draft.times
  BY <1>3 DEF UpsertNext
<1>5. /\ new \in [DOMAIN new -> Rows]
      /\ NumbersUnique(new) /\ AllInTime(new)
      /\ DOMAIN rows \subseteq DOMAIN new
      /\ \A id \in DOMAIN new : id \in DOMAIN rows \/ id = step.id
      /\ \A id \in DOMAIN rows : id # step.id \/ Skipped(step) => new[id] = rows[id]
      /\ ~ Skipped(step) => /\ step.id \in DOMAIN new
                            /\ new[step.id] = StepRow(rows, step)
                            /\ new[step.id].number = step.number
  <2>. HIDE DEF rows, step
  <2>. QED
    BY <1>1, <1>2, <1>3, <1>4, UpsertOrSkip
<1>. HIDE DEF new, rows, steps
<1>6. TypeOK'
  <2>1. /\ draft' = [times |-> draft.times, rows |-> new]
        /\ draft.times \in RowTimes
    BY <1>3, <1>4 DEF new
  <2>2. draft' \in [times : RowTimes, rows : {new}]
    BY <2>1
  <2>3. next' \in 0..MaxSteps + 1
    BY <1>1, <1>2
  <2>. QED
    BY <1>2, <1>5, <2>2, <2>3 DEF IInv, TypeOK, new
<1>7. NoStepTwice(steps) => Holds(new, steps, next + 1)
  <2>. SUFFICES ASSUME NoStepTwice(steps), NEW i \in Named(steps), i < next + 1
                PROVE  /\ steps[i].id \in DOMAIN new
                       /\ StepRow(new, steps[i]) = new[steps[i].id]
                       /\ Valid(steps[i])
    BY DEF Holds
  <2>1. i \in Nat
    BY <1>1 DEF Named
  <2>2. CASE i = next
    <3>1. ~ Skipped(step) /\ Valid(step)
      BY <1>2, <2>2 DEF Named, Storable
    <3>2. StepRow(new, step) = new[step.id]
      BY <1>5, <3>1, RowTwice
    <3>. QED
      BY <1>5, <2>2, <3>1, <3>2
  <2>3. CASE i # next
    <3>. DEFINE known == steps[i]
    <3>1. i < next
      BY <1>1, <2>1, <2>3
    <3>2. /\ known.id \in DOMAIN rows
          /\ StepRow(rows, known) = rows[known.id]
          /\ Valid(known)
      BY <1>1, <3>1 DEF InTransaction, Holds, rows, steps
    <3>3. known.id # step.id \/ Skipped(step)
      BY <1>1, <2>3 DEF NoStepTwice, Named
    <3>4. known.id \in DOMAIN new /\ new[known.id] = rows[known.id]
      BY <1>5, <3>2, <3>3
    <3>. HIDE DEF known
    <3>5. StepRow(new, known) = StepRow(rows, known)
      BY <3>2, <3>4, RowOfItsOwn
    <3>. QED
      BY <3>2, <3>4, <3>5 DEF known
  <2>. QED
    BY <2>2, <2>3
<1>8. InTransaction'
  <2>1. StepsOf(job') = steps /\ EventOf(job') = EventOf(job)
    BY <1>2 DEF steps
  <2>2. next' <= Len(steps) + 1
    BY <1>1, <1>2
  <2>3. draft'.times = MergeTimes(times, EventOf(job))
    BY <1>1, <1>4 DEF InTransaction
  <2>. QED
    BY <1>1, <1>2, <1>7, <2>1, <2>2, <2>3 DEF InTransaction, new
<1>9. OldOrNew'
  <2>1. DOMAIN timeline \subseteq DOMAIN new
    BY <1>1, <1>5 DEF OldOrNew, rows
  <2>2. ASSUME NEW id \in DOMAIN new
        PROVE  \/ id \in DOMAIN timeline /\ new[id] = timeline[id]
               \/ \E j \in Named(steps) : /\ j < next + 1
                                          /\ steps[j].id = id
                                          /\ steps[j].number = new[id].number
    <3>1. CASE id = step.id /\ ~ Skipped(step)
      <4>1. next \in Named(steps) /\ next < next + 1
        BY <1>1, <3>1 DEF Named
      <4>2. new[id].number = step.number
        BY <1>5, <3>1
      <4>. QED
        BY <3>1, <4>1, <4>2
    <3>2. CASE ~ (id = step.id /\ ~ Skipped(step))
      <4>1. id \in DOMAIN rows /\ new[id] = rows[id]
        BY <1>4, <1>5, <3>2 DEF new, rows
      <4>2. CASE id \in DOMAIN timeline /\ rows[id] = timeline[id]
        BY <4>1, <4>2
      <4>3. CASE \E j \in Named(steps) : /\ j < next
                                         /\ steps[j].id = id
                                         /\ steps[j].number = rows[id].number
        <5>1. PICK j \in Named(steps) : /\ j < next
                                        /\ steps[j].id = id
                                        /\ steps[j].number = rows[id].number
          BY <4>3
        <5>2. j \in Nat /\ j < next + 1
          BY <1>1, <5>1 DEF Named
        <5>. QED
          BY <4>1, <5>1, <5>2
      <4>. QED
        BY <1>1, <4>1, <4>2, <4>3 DEF OldOrNew, rows, steps
    <3>. QED
      BY <3>1, <3>2
  <2>3. StepsOf(job') = steps
    BY <1>2 DEF steps
  <2>. QED
    BY <1>2, <2>1, <2>2, <2>3 DEF OldOrNew, new
<1>10. job = last /\ NoStepTwice(steps) => draft' = Committed'
  <2>. SUFFICES ASSUME job = last, NoStepTwice(steps) PROVE draft' = draft
    BY <1>1, <1>2 DEF IInv, Committed, steps
  <2>1. draft = Committed /\ LastIsStored
    BY <1>1 DEF IInv, InTransaction, steps
  <2>2. ~ Skipped(step) => /\ step.id \in DOMAIN rows
                           /\ StepRow(rows, step) = rows[step.id]
                           /\ Valid(step)
    BY <1>1, <2>1 DEF LastIsStored, Holds, Named, Committed, rows, steps
  <2>3. new = rows
    <3>. HIDE DEF step
    <3>. QED
      BY <1>3, <1>4, <2>2, UpsertAgain DEF new
  <2>. QED
    BY <1>3, <1>4, <2>3 DEF new, rows
<1>11. last' # NoJob => LastIsStored'
  BY <1>2 DEF IInv, LastIsStored
<1>12. /\ NumbersUnique(timeline') /\ NumbersUnique(draft'.rows)
       /\ AllInTime(timeline') /\ AllInTime(draft'.rows)
  BY <1>2, <1>5 DEF IInv, new
<1>13. next' > 0 /\ StepsOf(job') = steps
  BY <1>1, <1>2 DEF steps
<1>14. EndsInTime(times') /\ EndsInTime(draft'.times)
  BY <1>2, <1>4 DEF IInv
<1>. QED
  BY <1>2, <1>6, <1>8, <1>9, <1>10, <1>11, <1>12, <1>13, <1>14 DEF IInv

LEMMA CommitInv ==
    ASSUME IInv, Commit
    PROVE  IInv'
<1>1. InTransaction /\ next = Len(StepsOf(job)) + 1
  BY DEF IInv, Commit
<1>2. /\ times' = draft.times /\ timeline' = draft.rows /\ draft' = draft
      /\ last' = job /\ job' = NoJob /\ next' = 0
  BY DEF Commit
<1>3. /\ draft = [times |-> draft.times, rows |-> draft.rows]
      /\ times \in RowTimes /\ draft.times \in RowTimes
  BY DEF IInv, TypeOK
<1>4. TypeOK'
  BY <1>2, <1>3 DEF IInv, TypeOK, MaxSteps
<1>5. draft' = Committed'
  BY <1>2, <1>3 DEF Committed
<1>6. LastIsStored'
  <2>1. MergeTimes(draft.times, EventOf(job)) = draft.times
    BY <1>1, <1>3, MergeTwice DEF InTransaction
  <2>. QED
    BY <1>1, <1>2, <2>1 DEF InTransaction, LastIsStored
<1>. QED
  BY <1>2, <1>4, <1>5, <1>6 DEF IInv

LEMMA StepInv == IInv /\ [Next]_vars => IInv'
<1>. SUFFICES ASSUME IInv, [Next]_vars PROVE IInv'
  OBVIOUS
<1>1. CASE UNCHANGED vars
  <2>1. /\ times' = times /\ timeline' = timeline /\ job' = job
        /\ draft' = draft /\ next' = next /\ last' = last
    BY <1>1 DEF vars
  <2>. QED
    BY <2>1 DEF IInv, TypeOK, InTransaction, OldOrNew, LastIsStored, Committed
<1>2. CASE FailJob \/ Interrupt
  BY <1>2, RollBackInv DEF FailJob, Interrupt
<1>. QED
  BY <1>1, <1>2, StartJobInv, UpsertRunInv, UpsertNextInv, CommitInv
     DEF Next, Proceed

LEMMA AlwaysInv == Spec => []IInv
BY InitInv, StepInv, PTL DEF Spec

-----------------------------------------------------------------------------
(* The theorems.                                                           *)

\* Every variable of RunTimeline keeps a value of its kind: no event makes the
\* database hold a step without a number, or a time that was refused.
THEOREM RunTypeCorrect == Spec => []TypeOK
<1>1. IInv => TypeOK
  BY DEF IInv
<1>. QED
  BY <1>1, AlwaysInv, PTL

\* Whatever the values of a payload: the two adapters that accept it read one
\* event in it, but for the exceptions that AdaptersAgree names.
THEOREM AdaptersAlwaysAgree == Spec => []AdaptersAgree
<1>1. TypeOK => AdaptersAgree
  <2>. SUFFICES ASSUME TypeOK, job # NoJob PROVE AdaptersAgree
    BY DEF AdaptersAgree
  <2>1. Payload[job].provider \in Providers
    BY EventsAssumption DEF TypeOK
  <2>2. StepsOf(job) # Reject => DOMAIN StepsOf(job) = DOMAIN Steps[job]
    BY EdgeStep DEF StepsOf
  <2>. QED
    BY <2>1, <2>2, PayloadsAgree, StepsAgree DEF AdaptersAgree, EventOf, StepsOf
<1>. QED
  BY <1>1, RunTypeCorrect, PTL

\* An event delivered again is stored again, statement by statement, without
\* a change, whatever came of it in between and however often it is cut off.
THEOREM RepeatIsAlwaysHarmless == Spec => []RepeatIsHarmless
<1>1. IInv => RepeatIsHarmless
  <2>. SUFFICES ASSUME IInv, job # NoJob, job = last, NoStepTwice(StepsOf(job))
                PROVE  Executable /\ draft = Committed
    BY DEF RepeatIsHarmless
  <2>1. LastIsStored /\ draft = Committed
    BY DEF IInv, TypeOK, MaxSteps
  <2>2. Readable(job) /\ EndsInTime(MergeTimes(times, EventOf(job)))
    BY <2>1 DEF IInv, LastIsStored
  <2>3. ASSUME next > 0, next \in DOMAIN StepsOf(job),
               ~ Skipped(StepsOf(job)[next])
        PROVE  Storable(draft.rows, StepsOf(job)[next])
    <3>. DEFINE step == StepsOf(job)[next]
    <3>1. next \in Named(StepsOf(job)) /\ next < Len(StepsOf(job)) + 1
      BY <2>3, InLoop DEF Named, MaxSteps
    <3>2. /\ step.id \in DOMAIN timeline
          /\ StepRow(timeline, step) = timeline[step.id]
          /\ Valid(step)
      BY <2>1, <3>1 DEF LastIsStored, Holds
    <3>3. /\ draft.rows = timeline
          /\ timeline \in [DOMAIN timeline -> Rows]
          /\ NumbersUnique(timeline) /\ AllInTime(timeline)
      BY <2>1 DEF IInv, TypeOK, Committed
    <3>. HIDE DEF step
    <3>4. Storable(timeline, step)
      BY <3>2, <3>3, UpsertAgain
    <3>. QED
      BY <3>3, <3>4 DEF step
  <2>. QED
    BY <2>1, <2>2, <2>3 DEF Executable
<1>. QED
  BY <1>1, AlwaysInv, PTL

\* Whatever came before: once the run of an event is upserted, nothing refuses
\* its steps if each is listed once and valid, keeps the number the run knows
\* or brings a free one, and does not end before the start the run knows.
THEOREM OrderlyStepsAlwaysStored == Spec => []OrderlyStepsAreStored
<1>1. IInv => OrderlyStepsAreStored
  <2>. DEFINE steps == StepsOf(job)
              step == steps[next]
  <2>. SUFFICES ASSUME IInv, job # NoJob, next > 0, NoStepTwice(steps),
                       Stable(timeline, steps), InOrder(timeline, steps),
                       next \in DOMAIN steps, ~ Skipped(step)
                PROVE  Storable(draft.rows, step)
    BY DEF OrderlyStepsAreStored, Executable
  <2>1. OldOrNew /\ NumbersUnique(timeline) /\ next \in Named(steps)
    BY DEF IInv, Named
  <2>2. \A j \in Named(steps) : j < next => steps[j].id # step.id
    <3>1. next \in Nat /\ \A j \in Named(steps) : j \in Nat
      BY InLoop DEF Named, MaxSteps
    <3>. QED
      BY <2>1, <3>1 DEF NoStepTwice
  <2>3. Fits(draft.rows, step)
    <3>. SUFFICES ASSUME NEW id \in DOMAIN draft.rows,
                         draft.rows[id].number = step.number, id # step.id
                  PROVE  FALSE
      BY DEF Fits
    <3>1. CASE id \in DOMAIN timeline /\ draft.rows[id] = timeline[id]
      BY <2>1, <3>1 DEF Stable, NumbersUnique
    <3>2. CASE \E j \in Named(steps) : /\ j < next
                                       /\ steps[j].id = id
                                       /\ steps[j].number = draft.rows[id].number
      <4>1. PICK j \in Named(steps) : /\ j < next
                                      /\ steps[j].id = id
                                      /\ steps[j].number = step.number
        BY <3>2
      <4>2. j # next
        BY <4>1
      <4>3. step.id \in DOMAIN timeline
        BY <2>1, <4>1, <4>2 DEF Stable
      <4>4. id \in DOMAIN timeline
        BY <2>1, <4>1, <4>2 DEF Stable
      <4>. QED
        BY <2>1, <4>1, <4>3, <4>4 DEF Stable, NumbersUnique
    <3>. QED
      BY <2>1, <3>1, <3>2 DEF OldOrNew
  <2>4. StepRow(draft.rows, step) = StepRow(timeline, step)
    <3>1. step.id \in DOMAIN draft.rows =>
             step.id \in DOMAIN timeline /\ draft.rows[step.id] = timeline[step.id]
      BY <2>1, <2>2 DEF OldOrNew
    <3>2. step.id \in DOMAIN timeline => step.id \in DOMAIN draft.rows
      BY <2>1 DEF OldOrNew
    <3>. HIDE DEF step
    <3>. QED
      BY <3>1, <3>2, RowOfItsOwn
  <2>5. Valid(step) /\ EndsInTime(StepRow(timeline, step))
    BY <2>1 DEF InOrder
  <2>. QED
    BY <2>3, <2>4, <2>5 DEF Storable
<1>. QED
  BY <1>1, AlwaysInv, PTL
=============================================================================
