----------------------- MODULE ApplyTransactionProofs ----------------------
(***************************************************************************)
(* The row locks of apply_canonical_event make it atomic: every execution  *)
(* of its statements is an execution of CanonicalEvents, for every number  *)
(* of events, runs, sources and concurrent calls.                          *)
(***************************************************************************)
EXTENDS ApplyTransaction, CanonicalEventsProofs

\* What a call knows while it is under way.
CallKnows(k) ==
    LET e == call[k].event
        c == call[k].content IN
    /\ call[k].at # "idle" =>
          /\ e \in Raw /\ c \in PayloadsFor(e)
          /\ raw[e].state \notin {"absent", "processed"}
          /\ aborted[k] = NoCall
    /\ call[k].at \in {"find", "upsert", "touch", "commit"} => SourceActive(e)
    /\ call[k].at \in {"upsert", "touch", "commit"} =>
          /\ call[k].seen = run[c.run]
          /\ ~ OutOfOrder(c) /\ ~ Illegal(c)

\* No two calls hold the same raw event.
RawHeldOnce ==
    \A k, o \in Calls :
        /\ call[k].at # "idle" /\ call[o].at # "idle"
        /\ call[k].event = call[o].event
        => k = o

CallShape ==
    /\ \A k \in Calls : call[k].at \in CallSteps
    /\ call \in [Calls -> [at : CallSteps, event : Raw \cup {Nothing},
                           content : Payloads \cup {Nothing},
                           seen : [status : RunStatuses \cup {"none"},
                                   at : Nat] \cup {Nothing}]]
    /\ \A k \in Calls : aborted[k] # NoCall => aborted[k].event \in Raw

\* The inductive invariant.
LockInv ==
    /\ CallShape
    /\ \A k \in Calls : CallKnows(k)
    /\ RawHeldOnce
    /\ CommitAlone

-----------------------------------------------------------------------------
(* Every statement is a step, or a stutter, of CanonicalEvents.            *)

LEMMA StatementImplements ==
    ASSUME TypeOK, LockInv, [TxNext]_txVars
    PROVE  [Next]_vars
<1>1. ASSUME NEW k \in Calls, call[k].at # "idle",
             NEW code \in {"55000", "22023", "other"},
             RollBack(k, code),
             code = "55000" => ~ SourceActive(call[k].event),
             code = "22023" => /\ SourceActive(call[k].event)
                               /\ ~ OutOfOrder(call[k].content)
                               /\ Illegal(call[k].content)
      PROVE  Next
  <2>. DEFINE e == call[k].event
              c == call[k].content
  <2>1. /\ e \in Raw /\ c \in PayloadsFor(e)
        /\ raw[e].state \notin {"absent", "processed"}
        /\ aborted[k] = NoCall
    BY <1>1 DEF LockInv, CallKnows
  <2>2. Abort(k, e, c, code)
    BY <1>1, <2>1 DEF Abort, MayCall, Exists, RollBack
  <2>. QED
    BY <2>1, <2>2 DEF Next
<1>2. ASSUME NEW k \in Calls, ShareSource(k) PROVE [Next]_vars
  BY <1>1, <1>2 DEF ShareSource
<1>3. ASSUME NEW k \in Calls, FindRun(k) PROVE [Next]_vars
  <2>. DEFINE e == call[k].event
              c == call[k].content
  <2>1. /\ call[k].at = "find"
        /\ e \in Raw /\ c \in PayloadsFor(e)
        /\ raw[e].state \notin {"absent", "processed"}
        /\ aborted[k] = NoCall
        /\ SourceActive(e)
    BY <1>3 DEF FindRun, LockInv, CallKnows
  <2>2. CASE OutOfOrder(c)
    <3>1. IgnoreOutOfOrder(k, e, c)
      BY <1>3, <2>1, <2>2 DEF FindRun, IgnoreOutOfOrder, MayCall, Exists
    <3>. QED
      BY <2>1, <3>1 DEF Next, Succeed
  <2>3. CASE ~ OutOfOrder(c) /\ Illegal(c)
    <3>1. RollBack(k, "22023")
      BY <1>3, <2>3 DEF FindRun
    <3>. QED
      BY <1>1, <2>1, <2>3, <3>1
  <2>4. CASE ~ OutOfOrder(c) /\ ~ Illegal(c)
    BY <1>3, <2>4 DEF FindRun
  <2>. QED
    BY <2>2, <2>3, <2>4
<1>4. ASSUME NEW k \in Calls, Commit(k) PROVE [Next]_vars
  <2>. DEFINE e == call[k].event
              c == call[k].content
  <2>1. /\ e \in Raw /\ c \in PayloadsFor(e)
        /\ raw[e].state \notin {"absent", "processed"}
        /\ aborted[k] = NoCall
        /\ SourceActive(e)
        /\ ~ OutOfOrder(c) /\ ~ Illegal(c)
    BY <1>4 DEF Commit, LockInv, CallKnows
  <2>2. ApplyEvent(k, e, c)
    BY <1>4, <2>1 DEF Commit, ApplyEvent, MayCall, Exists
  <2>. QED
    BY <2>1, <2>2 DEF Next, Succeed
<1>5. ASSUME NEW k \in Calls, StatementFails(k) PROVE [Next]_vars
  BY <1>1, <1>5 DEF StatementFails
<1>6. ASSUME NEW k \in Calls, RunHandler(k) PROVE [Next]_vars
  BY <1>6 DEF RunHandler, Next
<1>7. ASSUME NEW k \in Calls, UpsertRun(k) \/ TouchSource(k)
      PROVE  [Next]_vars
  BY <1>7 DEF UpsertRun, TouchSource
<1>8. ASSUME NEW k \in Calls, NEW e \in Raw, NEW c \in PayloadsFor(e),
             LockRaw(k, e, c)
      PROVE  [Next]_vars
  BY <1>8 DEF LockRaw
<1>9. CASE \E e \in Raw : ReceiveRaw(e) /\ UNCHANGED call
  BY <1>9 DEF Next
<1>10. CASE \E r \in Runs : \E i \in DOMAIN incidents[r] :
               \E target \in IncidentStatuses :
                  TransitionIncident(r, i, target) /\ UNCHANGED call
  BY <1>10 DEF Next
<1>11. CASE \E s \in Sources, status \in SourceStatuses :
               UpdateSourceStatus(s, status)
  BY <1>11 DEF UpdateSourceStatus, Next
<1>12. CASE UNCHANGED txVars
  BY <1>12 DEF txVars, vars
<1>. QED
  BY <1>2, <1>3, <1>4, <1>5, <1>6, <1>7, <1>8, <1>9, <1>10, <1>11, <1>12
     DEF TxNext, Statement

-----------------------------------------------------------------------------
(* The invariant is inductive.                                             *)

\* A call keeps what it knows as long as nobody touches the rows it looks at.
LEMMA Frame ==
    ASSUME NEW o \in Calls, CallKnows(o),
           call'[o] = call[o],
           call[o].at # "idle" =>
              /\ aborted'[o] = aborted[o]
              /\ raw'[call[o].event] = raw[call[o].event],
           call[o].at \in {"find", "upsert", "touch", "commit"} =>
              source'[SourceOf[call[o].event]].status
                 = source[SourceOf[call[o].event]].status,
           call[o].at \in {"upsert", "touch", "commit"} =>
              run'[call[o].content.run] = run[call[o].content.run]
    PROVE  CallKnows(o)'
BY DEF CallKnows, SourceActive, OutOfOrder, Illegal, PayloadsFor

\* When one call only moves on, keeps its event or becomes idle, two calls
\* still do not hold one raw event.
LEMMA HeldOnceKept ==
    ASSUME RawHeldOnce, NEW k \in Calls,
           \A o \in Calls \ {k} : call'[o] = call[o],
           \/ call'[k].at = "idle"
           \/ call[k].at # "idle" /\ call'[k].event = call[k].event
    PROVE  RawHeldOnce'
BY DEF RawHeldOnce

\* A call that does not start to share a source, and does not come to
\* "commit", disturbs no commit.
LEMMA AloneKept ==
    ASSUME CommitAlone, NEW k \in Calls,
           \A o \in Calls \ {k} : call'[o] = call[o],
           call'[k].at # "commit",
           \/ call'[k].at \in {"idle", "share"}
           \/ /\ call[k].at \in {"find", "upsert", "touch", "commit"}
              /\ call'[k].event = call[k].event
    PROVE  CommitAlone'
BY DEF CommitAlone, HoldsSourceShared

\* The effect of moving on or returning on the function call.
LEMMA CallUpdate ==
    ASSUME CallShape, NEW k \in Calls
    PROVE  /\ \A step \in CallSteps : Goto(k, step) =>
                 /\ \A o \in Calls \ {k} : call'[o] = call[o]
                 /\ call'[k].at = step
                 /\ call'[k].event = call[k].event
                 /\ call'[k].content = call[k].content
                 /\ call'[k].seen = call[k].seen
           /\ Return(k) =>
                 /\ \A o \in Calls \ {k} : call'[o] = call[o]
                 /\ call'[k] = IdleCall
BY DEF CallShape, Goto, Return

\* The fields of a call.
CallRecord == [at : CallSteps, event : Raw \cup {Nothing},
               content : Payloads \cup {Nothing},
               seen : [status : RunStatuses \cup {"none"}, at : Nat]
                         \cup {Nothing}]

LEMMA ShapeStep ==
    ASSUME TypeOK, TypeOK', LockInv, [TxNext]_txVars
    PROVE  CallShape'
<1>1. \A k \in Calls : aborted'[k] # NoCall => aborted'[k].event \in Raw
  BY DEF TypeOK, Failure
<1>2. call \in [Calls -> CallRecord]
  BY DEF LockInv, CallShape, CallRecord
<1>3. ASSUME call' \in [Calls -> CallRecord] PROVE CallShape'
  BY <1>1, <1>3 DEF CallShape, CallRecord
<1>4. ASSUME NEW k \in Calls, NEW new \in CallRecord,
             call' = [call EXCEPT ![k] = new]
      PROVE  CallShape'
  BY <1>2, <1>3, <1>4
<1>5. ASSUME NEW k \in Calls, NEW step \in CallSteps, Goto(k, step)
      PROVE  CallShape'
  <2>1. [call[k] EXCEPT !.at = step] \in CallRecord
    BY <1>2 DEF CallRecord
  <2>. QED
    BY <1>2, <1>4, <1>5, <2>1 DEF Goto
<1>6. ASSUME NEW k \in Calls, Return(k) PROVE CallShape'
  <2>1. IdleCall \in CallRecord
    BY DEF IdleCall, CallRecord, CallSteps
  <2>. QED
    BY <1>4, <1>6, <2>1 DEF Return
<1>7. CASE call' = call
  BY <1>2, <1>3, <1>7
<1>8. ASSUME NEW k \in Calls, NEW e \in Raw, NEW c \in PayloadsFor(e),
             LockRaw(k, e, c)
      PROVE  CallShape'
  <2>1. c \in Payloads
    BY DEF PayloadsFor
  <2>2. [at |-> "share", event |-> e, content |-> c, seen |-> Nothing]
           \in CallRecord
    BY <2>1 DEF CallRecord, CallSteps
  <2>. QED
    BY <1>4, <1>7, <1>8, <2>2 DEF LockRaw
<1>9. ASSUME NEW k \in Calls, FindRun(k) PROVE CallShape'
  <2>. DEFINE c == call[k].content
  <2>1. c.run \in Runs
    BY <1>9, PayloadFields DEF FindRun, LockInv, CallKnows
  <2>2. run[c.run] \in [status : RunStatuses \cup {"none"}, at : Nat]
    BY <2>1 DEF TypeOK
  <2>3. [call[k] EXCEPT !.at = "upsert", !.seen = run[c.run]] \in CallRecord
    BY <1>2, <2>2 DEF CallRecord, CallSteps
  <2>4. CASE call' = [call EXCEPT ![k].at = "upsert", ![k].seen = run[c.run]]
    BY <1>2, <1>4, <2>3, <2>4
  <2>5. CASE Return(k)
    BY <1>6, <2>5
  <2>. QED
    BY <1>9, <2>4, <2>5 DEF FindRun, RollBack
<1>10. ASSUME NEW k \in Calls, Statement(k) PROVE CallShape'
  BY <1>5, <1>6, <1>7, <1>9, <1>10
     DEF Statement, ShareSource, UpsertRun, TouchSource, Commit,
         StatementFails, RunHandler, RollBack, CallSteps
<1>. QED
  BY <1>7, <1>8, <1>10 DEF TxNext, UpdateSourceStatus, txVars

LEMMA LockStep ==
    ASSUME TypeOK, TypeOK', LockInv, [TxNext]_txVars
    PROVE  LockInv'
<1>1. CallShape'
  BY ShapeStep
<1>2. CallShape /\ RawHeldOnce /\ CommitAlone /\ \A o \in Calls : CallKnows(o)
  BY DEF LockInv
<1>3. ASSUME NEW k \in Calls, Return(k),
             UNCHANGED <<run, source>>,
             \A o \in Calls \ {k} :
                /\ aborted'[o] = aborted[o]
                /\ call[o].at # "idle" =>
                      raw'[call[o].event] = raw[call[o].event]
      PROVE  LockInv'
  <2>1. /\ \A o \in Calls \ {k} : call'[o] = call[o]
        /\ call'[k].at = "idle"
    BY <1>2, <1>3, CallUpdate DEF IdleCall
  <2>2. \A o \in Calls \ {k} : CallKnows(o)'
    BY <1>2, <1>3, <2>1, Frame
  <2>3. CallKnows(k)'
    BY <2>1 DEF CallKnows
  <2>. QED
    BY <1>1, <1>2, <2>1, <2>2, <2>3, HeldOnceKept, AloneKept DEF LockInv
<1>4. ASSUME NEW k \in Calls, call[k].at # "idle", NEW code, RollBack(k, code)
      PROVE  LockInv'
  <2>1. \A o \in Calls \ {k} : aborted'[o] = aborted[o]
    BY <1>4 DEF RollBack, TypeOK
  <2>. QED
    BY <1>3, <1>4, <2>1 DEF RollBack
<1>5. ASSUME NEW k \in Calls, ShareSource(k) PROVE LockInv'
  <2>1. CASE SourceActive(call[k].event)
    <3>1. /\ UNCHANGED vars
          /\ \A o \in Calls \ {k} : call'[o] = call[o]
          /\ call'[k].at = "find"
          /\ call[k].at = "share"
          /\ call'[k].event = call[k].event
          /\ call'[k].content = call[k].content
      BY <1>2, <1>5, <2>1, CallUpdate DEF ShareSource, CallSteps
    <3>2. \A o \in Calls \ {k} : CallKnows(o)'
      BY <1>2, <3>1, Frame DEF vars
    <3>3. CallKnows(k)'
      BY <1>2, <2>1, <3>1 DEF CallKnows, SourceActive, PayloadsFor, vars
    <3>4. RawHeldOnce'
      BY <1>2, <3>1, HeldOnceKept
    <3>5. CommitAlone'
      BY <1>2, <1>5, <3>1
         DEF CommitAlone, HoldsSourceShared, ShareSource, HoldsSource, Others
    <3>. QED
      BY <1>1, <3>2, <3>3, <3>4, <3>5 DEF LockInv
  <2>2. CASE ~ SourceActive(call[k].event)
    BY <1>4, <1>5, <2>2 DEF ShareSource
  <2>. QED
    BY <2>1, <2>2
<1>6. ASSUME NEW k \in Calls, FindRun(k) PROVE LockInv'
  <2>. DEFINE e == call[k].event
              c == call[k].content
              row == run[c.run]
  <2>1. call[k].at = "find"
    BY <1>6 DEF FindRun
  <2>2. CASE OutOfOrder(c)
    <3>1. \A o \in Calls \ {k} :
             call[o].at # "idle" =>
                raw'[call[o].event] = raw[call[o].event]
      <4>1. \A x \in Raw : x # e => raw'[x] = raw[x]
        BY <1>6, <2>2 DEF FindRun, WriteIgnored, TypeOK
      <4>. QED
        BY <1>2, <2>1, <4>1 DEF RawHeldOnce, CallKnows
    <3>. QED
      BY <1>3, <1>6, <2>2, <3>1 DEF FindRun, WriteIgnored
  <2>3. CASE ~ OutOfOrder(c) /\ Illegal(c)
    BY <1>4, <1>6, <2>1, <2>3 DEF FindRun
  <2>4. CASE ~ OutOfOrder(c) /\ ~ Illegal(c)
    <3>1. /\ UNCHANGED vars
          /\ call' = [call EXCEPT ![k].at = "upsert", ![k].seen = row]
      BY <1>6, <2>4 DEF FindRun
    <3>2. /\ \A o \in Calls \ {k} : call'[o] = call[o]
          /\ call'[k].at = "upsert"
          /\ call'[k].seen = row
          /\ call'[k].event = e
          /\ call'[k].content = c
      BY <1>2, <3>1 DEF CallShape
    <3>3. \A o \in Calls \ {k} : CallKnows(o)'
      BY <1>2, <3>1, <3>2, Frame DEF vars
    <3>4. CallKnows(k)'
      BY <1>2, <2>1, <2>4, <3>1, <3>2
         DEF CallKnows, SourceActive, PayloadsFor, vars, OutOfOrder, Illegal
    <3>. QED
      BY <1>1, <1>2, <2>1, <3>2, <3>3, <3>4, HeldOnceKept, AloneKept
         DEF LockInv
  <2>. QED
    BY <2>2, <2>3, <2>4
<1>7. ASSUME NEW k \in Calls, UpsertRun(k) PROVE LockInv'
  <2>1. /\ UNCHANGED vars
        /\ \A o \in Calls \ {k} : call'[o] = call[o]
        /\ call[k].at = "upsert"
        /\ call'[k].at = "touch"
        /\ call'[k].event = call[k].event
        /\ call'[k].content = call[k].content
        /\ call'[k].seen = call[k].seen
    BY <1>2, <1>7, CallUpdate DEF UpsertRun, CallSteps
  <2>2. \A o \in Calls \ {k} : CallKnows(o)'
    BY <1>2, <2>1, Frame DEF vars
  <2>3. CallKnows(k)'
    BY <1>2, <2>1
       DEF CallKnows, SourceActive, PayloadsFor, vars, OutOfOrder, Illegal
  <2>. QED
    BY <1>1, <1>2, <2>1, <2>2, <2>3, HeldOnceKept, AloneKept DEF LockInv
<1>8. ASSUME NEW k \in Calls, TouchSource(k) PROVE LockInv'
  <2>1. /\ UNCHANGED vars
        /\ \A o \in Calls \ {k} : call'[o] = call[o]
        /\ call[k].at = "touch"
        /\ call'[k].at = "commit"
        /\ call'[k].event = call[k].event
        /\ call'[k].content = call[k].content
        /\ call'[k].seen = call[k].seen
    BY <1>2, <1>8, CallUpdate DEF TouchSource, CallSteps
  <2>2. \A o \in Calls \ {k} : CallKnows(o)'
    BY <1>2, <2>1, Frame DEF vars
  <2>3. CallKnows(k)'
    BY <1>2, <2>1
       DEF CallKnows, SourceActive, PayloadsFor, vars, OutOfOrder, Illegal
  <2>4. RawHeldOnce'
    BY <1>2, <2>1, HeldOnceKept
  <2>5. CommitAlone'
    BY <1>2, <1>8, <2>1
       DEF CommitAlone, HoldsSourceShared, TouchSource, Others
  <2>. QED
    BY <1>1, <2>2, <2>3, <2>4, <2>5 DEF LockInv
<1>9. ASSUME NEW k \in Calls, Commit(k) PROVE LockInv'
  <2>. DEFINE e == call[k].event
              c == call[k].content
  <2>1. /\ call[k].at = "commit"
        /\ e \in Raw /\ c \in PayloadsFor(e)
    BY <1>2, <1>9 DEF Commit, CallKnows
  <2>2. c.run \in Runs /\ SourceOf[c.run] = SourceOf[e]
    BY <2>1, PayloadFields
  <2>3. /\ \A o \in Calls \ {k} : call'[o] = call[o]
        /\ call'[k].at = "idle"
    BY <1>2, <1>9, CallUpdate DEF Commit, IdleCall
  <2>4. /\ \A x \in Raw : x # e => raw'[x] = raw[x]
        /\ \A r \in Runs : r # c.run => run'[r] = run[r]
        /\ \A s \in Sources : source'[s].status = source[s].status
        /\ aborted' = aborted
    <3>1. WriteApplied(e, c) /\ aborted' = aborted
      BY <1>9 DEF Commit
    <3>2. /\ \A x \in Raw : x # e => raw'[x] = raw[x]
          /\ \A r \in Runs : r # c.run => run'[r] = run[r]
      BY <3>1 DEF WriteApplied, TypeOK
    <3>3. \A s \in Sources : source'[s].status = source[s].status
      BY <3>1 DEF WriteApplied, TypeOK
    <3>. QED
      BY <3>1, <3>2, <3>3
  <2>5. ASSUME NEW o \in Calls \ {k} PROVE CallKnows(o)'
    <3>1. call[o].at # "idle" => raw'[call[o].event] = raw[call[o].event]
      BY <1>2, <2>1, <2>4 DEF RawHeldOnce, CallKnows
    <3>2. CASE call[o].at \in {"find", "upsert", "touch", "commit"}
      <4>1. /\ call[o].event \in Raw
            /\ call[o].content \in PayloadsFor(call[o].event)
        BY <1>2, <3>2 DEF CallKnows
      <4>2. SourceOf[call[o].event] # SourceOf[e]
        BY <1>2, <2>1, <3>2 DEF CommitAlone, HoldsSourceShared
      <4>3. /\ call[o].content.run \in Runs
            /\ SourceOf[call[o].content.run] = SourceOf[call[o].event]
            /\ SourceOf[call[o].event] \in Sources
        BY <4>1, PayloadFields
      <4>4. call[o].content.run # c.run
        BY <2>2, <4>2, <4>3
      <4>. QED
        BY <1>2, <2>3, <2>4, <3>1, <4>3, <4>4, Frame
    <3>3. CASE call[o].at \notin {"find", "upsert", "touch", "commit"}
      BY <1>2, <2>3, <2>4, <3>1, <3>3, Frame
    <3>. QED
      BY <3>2, <3>3
  <2>6. CallKnows(k)'
    BY <2>3 DEF CallKnows
  <2>. QED
    BY <1>1, <1>2, <2>3, <2>5, <2>6, HeldOnceKept, AloneKept DEF LockInv
<1>10. ASSUME NEW k \in Calls, StatementFails(k) PROVE LockInv'
  BY <1>4, <1>10 DEF StatementFails
<1>11. ASSUME UNCHANGED call, UNCHANGED run,
              \A o \in Calls : call[o].at # "idle" =>
                 /\ aborted'[o] = aborted[o]
                 /\ raw'[call[o].event] = raw[call[o].event],
              \A o \in Calls :
                 call[o].at \in {"find", "upsert", "touch", "commit"} =>
                    source'[SourceOf[call[o].event]].status
                       = source[SourceOf[call[o].event]].status
       PROVE  LockInv'
  <2>1. \A o \in Calls : CallKnows(o)'
    BY <1>2, <1>11, Frame
  <2>2. RawHeldOnce' /\ CommitAlone'
    BY <1>2, <1>11 DEF RawHeldOnce, CommitAlone, HoldsSourceShared
  <2>. QED
    BY <1>1, <2>1, <2>2 DEF LockInv
<1>12. ASSUME NEW k \in Calls, RunHandler(k) PROVE LockInv'
  <2>. DEFINE e == aborted[k].event
  <2>1. /\ aborted[k] # NoCall
        /\ e \in Raw
        /\ call[k].at = "idle"
    BY <1>2, <1>12 DEF RunHandler, CallShape, CallKnows
  <2>2. /\ \A x \in Raw : x # e => raw'[x] = raw[x]
        /\ \A o \in Calls \ {k} : aborted'[o] = aborted[o]
        /\ UNCHANGED <<call, run, source>>
    BY <1>12 DEF RunHandler, RecordFailure, TypeOK
  <2>3. \A o \in Calls : call[o].at # "idle" =>
           /\ o # k
           /\ call[o].event \in Raw
           /\ call[o].event # e
    BY <1>2, <1>12, <2>1 DEF RunHandler, HoldsRaw, Others, CallKnows
  <2>. QED
    BY <1>11, <2>2, <2>3
<1>13. ASSUME NEW k \in Calls, NEW e \in Raw, NEW c \in PayloadsFor(e),
              LockRaw(k, e, c)
       PROVE  LockInv'
  <2>1. CASE raw[e].state = "processed"
    BY <1>11, <1>13, <2>1 DEF LockRaw, vars
  <2>2. CASE raw[e].state # "processed"
    <3>1. /\ UNCHANGED vars
          /\ \A o \in Calls \ {k} : call'[o] = call[o]
          /\ call'[k] = [at |-> "share", event |-> e, content |-> c,
                         seen |-> Nothing]
      BY <1>2, <1>13, <2>2 DEF LockRaw, CallShape
    <3>2. \A o \in Calls \ {k} : CallKnows(o)'
      BY <1>2, <3>1, Frame DEF vars
    <3>3. CallKnows(k)'
      BY <1>13, <2>2, <3>1 DEF LockRaw, Exists, CallKnows, PayloadsFor, vars
    <3>4. RawHeldOnce'
      BY <1>2, <1>13, <3>1 DEF RawHeldOnce, LockRaw, HoldsRaw, Others
    <3>5. CommitAlone'
      BY <1>2, <3>1, AloneKept
    <3>. QED
      BY <1>1, <3>2, <3>3, <3>4, <3>5 DEF LockInv
  <2>. QED
    BY <2>1, <2>2
<1>14. ASSUME NEW e \in Raw, ReceiveRaw(e), UNCHANGED call PROVE LockInv'
  <2>1. \A o \in Calls : call[o].at # "idle" => call[o].event # e
    BY <1>2, <1>14 DEF ReceiveRaw, CallKnows
  <2>2. /\ \A x \in Raw : x # e => raw'[x] = raw[x]
        /\ UNCHANGED <<run, source, aborted>>
    BY <1>14 DEF ReceiveRaw, TypeOK
  <2>3. \A o \in Calls : call[o].at # "idle" => call[o].event \in Raw
    BY <1>2 DEF CallKnows
  <2>. QED
    BY <1>11, <1>14, <2>1, <2>2, <2>3
<1>15. ASSUME NEW r \in Runs, NEW i \in DOMAIN incidents[r],
              NEW target \in IncidentStatuses,
              TransitionIncident(r, i, target), UNCHANGED call
       PROVE  LockInv'
  BY <1>11, <1>15 DEF TransitionIncident
<1>16. ASSUME NEW s \in Sources, NEW status \in SourceStatuses,
              UpdateSourceStatus(s, status)
       PROVE  LockInv'
  <2>1. /\ \A t \in Sources : t # s => source'[t] = source[t]
        /\ UNCHANGED <<raw, run, aborted, call>>
    BY <1>16 DEF UpdateSourceStatus, SetSourceStatus, TypeOK
  <2>2. ASSUME NEW o \in Calls,
               call[o].at \in {"find", "upsert", "touch", "commit"}
        PROVE  source'[SourceOf[call[o].event]]
                  = source[SourceOf[call[o].event]]
    <3>1. SourceOf[call[o].event] # s
      BY <1>16, <2>2 DEF UpdateSourceStatus, HoldsSourceShared
    <3>2. call[o].event \in Raw
      BY <1>2, <2>2 DEF CallKnows
    <3>. QED
      BY <2>1, <3>1, <3>2, ConstantsAssumption
  <2>. QED
    BY <1>11, <2>1, <2>2
<1>17. CASE UNCHANGED txVars
  BY <1>11, <1>17 DEF txVars, vars
<1>. QED
  BY <1>5, <1>6, <1>7, <1>8, <1>9, <1>10, <1>12, <1>13, <1>14, <1>15, <1>16,
     <1>17
     DEF TxNext, Statement

LEMMA LockInit == TxInit => LockInv
<1>. SUFFICES ASSUME TxInit PROVE LockInv
  OBVIOUS
<1>1. \A k \in Calls : call[k] = IdleCall /\ aborted[k] = NoCall
  BY DEF TxInit, Init
<1>2. CallShape
  <2>1. IdleCall \in CallRecord
    BY DEF IdleCall, CallRecord, CallSteps
  <2>2. call \in [Calls -> CallRecord]
    BY <2>1 DEF TxInit
  <2>. QED
    BY <1>1, <2>2 DEF CallShape, CallRecord
<1>. QED
  BY <1>1, <1>2
     DEF LockInv, CallKnows, RawHeldOnce, CommitAlone, IdleCall

-----------------------------------------------------------------------------

\* However calls overlap, the statements of apply_canonical_event do what
\* CanonicalEvents says in one step (or, when they fail, in two).
THEOREM LocksMakeItAtomic == TxSpec => ImplementsCanonicalEvents
<1>1. TxInit => Init
  BY DEF TxInit
<1>2. TypeOK /\ LockInv /\ [TxNext]_txVars => [Next]_vars
  BY StatementImplements
<1>3. TypeOK /\ LockInv /\ [TxNext]_txVars => TypeOK'
  BY <1>2, TypeStep
<1>4. TypeOK /\ LockInv /\ [TxNext]_txVars => LockInv'
  BY <1>3, LockStep
<1>. QED
  BY <1>1, <1>2, <1>3, <1>4, LockInit, TypeInit, PTL
     DEF TxSpec, ImplementsCanonicalEvents, Spec

\* The types and the locks hold at every statement.
LEMMA LocksHold == TxSpec => [](TypeOK /\ LockInv)
<1>1. TypeOK /\ LockInv /\ [TxNext]_txVars => TypeOK' /\ LockInv'
  BY StatementImplements, TypeStep, LockStep
<1>2. TxInit => TypeOK
  BY TypeInit DEF TxInit
<1>. QED
  BY <1>1, <1>2, LockInit, PTL DEF TxSpec

\* Between its update of the source and its commit, a call is alone: no
\* other call has read that source.
THEOREM CommitsAlone == TxSpec => []CommitAlone
<1>1. LockInv => CommitAlone
  BY DEF LockInv
<1>. QED
  BY <1>1, LocksHold, PTL

\* What a call read of its run and source is still true when it commits.
THEOREM SeenStaysCurrent == TxSpec => []SeenIsCurrent
<1>1. LockInv => SeenIsCurrent
  BY DEF LockInv, CallKnows, SeenIsCurrent
<1>. QED
  BY <1>1, LocksHold, PTL

-----------------------------------------------------------------------------
(* Types.                                                                  *)

Seen == [status : RunStatuses \cup {"none"}, at : Nat] \cup {Nothing}

IdleCalls == [at : {"idle"}, event : {Nothing}, content : {Nothing},
              seen : {Nothing}]
BusyCalls == [at : CallSteps \ {"idle"}, event : Raw, content : Payloads,
              seen : Seen]

LEMMA CallTypes == CallTypeOK <=> call \in [Calls -> IdleCalls \cup BusyCalls]
BY DEF CallTypeOK, IdleCalls, BusyCalls, Seen

LEMMA CallTypeStep ==
    ASSUME TypeOK, LockInv, CallTypeOK, [TxNext]_txVars
    PROVE  CallTypeOK'
<1>1. call \in [Calls -> IdleCalls \cup BusyCalls]
  BY CallTypes
<1>2. ASSUME call' \in [Calls -> IdleCalls \cup BusyCalls] PROVE CallTypeOK'
  BY <1>2 DEF CallTypeOK, IdleCalls, BusyCalls, Seen
<1>3. ASSUME NEW k \in Calls, call[k].at # "idle" PROVE call[k] \in BusyCalls
  BY <1>1, <1>3 DEF IdleCalls
<1>4. ASSUME NEW k \in Calls, NEW new \in IdleCalls \cup BusyCalls,
             call' = [call EXCEPT ![k] = new]
      PROVE  CallTypeOK'
  BY <1>1, <1>2, <1>4
<1>5. ASSUME NEW k \in Calls, call[k].at # "idle",
             NEW step \in CallSteps \ {"idle"}, Goto(k, step)
      PROVE  CallTypeOK'
  <2>1. [call[k] EXCEPT !.at = step] \in BusyCalls
    BY <1>3, <1>5 DEF BusyCalls
  <2>2. call' = [call EXCEPT ![k] = [call[k] EXCEPT !.at = step]]
    BY <1>5 DEF Goto
  <2>. QED
    BY <1>4, <2>1, <2>2
<1>6. ASSUME NEW k \in Calls, Return(k) PROVE CallTypeOK'
  <2>1. IdleCall \in IdleCalls
    BY DEF IdleCall, IdleCalls
  <2>. QED
    BY <1>4, <1>6, <2>1 DEF Return
<1>7. ASSUME call' = call PROVE CallTypeOK'
  BY <1>1, <1>2, <1>7
<1>8. ASSUME NEW k \in Calls, NEW e \in Raw, NEW c \in PayloadsFor(e),
             LockRaw(k, e, c)
      PROVE  CallTypeOK'
  <2>1. [at |-> "share", event |-> e, content |-> c, seen |-> Nothing]
           \in BusyCalls
    BY DEF PayloadsFor, BusyCalls, CallSteps, Seen
  <2>. QED
    BY <1>4, <1>7, <1>8, <2>1 DEF LockRaw
<1>9. ASSUME NEW k \in Calls, FindRun(k) PROVE CallTypeOK'
  <2>. DEFINE c == call[k].content
  <2>1. c.run \in Runs
    BY <1>9, PayloadFields DEF FindRun, LockInv, CallKnows
  <2>2. run[c.run] \in Seen
    BY <2>1 DEF TypeOK, Seen
  <2>3. [call[k] EXCEPT !.at = "upsert", !.seen = run[c.run]] \in BusyCalls
    <3>1. call[k] \in BusyCalls
      BY <1>3, <1>9 DEF FindRun
    <3>. QED
      BY <2>2, <3>1 DEF BusyCalls, CallSteps
  <2>4. CASE call' = [call EXCEPT ![k].at = "upsert", ![k].seen = run[c.run]]
    BY <1>1, <1>4, <2>3, <2>4
  <2>5. CASE Return(k)
    BY <1>6, <2>5
  <2>. QED
    BY <1>9, <2>4, <2>5 DEF FindRun, RollBack
<1>10. ASSUME NEW k \in Calls, Statement(k) PROVE CallTypeOK'
  BY <1>5, <1>6, <1>7, <1>9, <1>10
     DEF Statement, ShareSource, UpsertRun, TouchSource, Commit,
         StatementFails, RunHandler, RollBack, CallSteps
<1>. QED
  BY <1>7, <1>8, <1>10 DEF TxNext, UpdateSourceStatus, txVars

\* A call that is under way has its arguments, an idle call has none.
THEOREM CallTypeCorrect == TxSpec => []CallTypeOK
<1>1. TxInit => CallTypeOK
  BY DEF TxInit, CallTypeOK, IdleCall
<1>2. TypeOK /\ LockInv /\ TypeOK' /\ CallTypeOK /\ [TxNext]_txVars =>
         CallTypeOK'
  BY CallTypeStep
<1>. QED
  BY <1>1, <1>2, LocksHold, PTL DEF TxSpec

-----------------------------------------------------------------------------
(* Therefore, of every commit.                                             *)

\* However the statements of overlapping calls interleave, each commit leaves
\* the rows consistent: attempts, audit rows and status of a raw event, the
\* incidents of a run, the clocks of runs and sources.  An event is applied
\* once per time it was turned back, and what is settled stays so.
THEOREM StatementsKeepRows ==
    TxSpec => /\ []RawRowConsistent
              /\ []FailureHasIncident
              /\ []OnlyNewestIncidentActive
              /\ []SourceClockCoversRuns
              /\ []AppliedOncePerUndoing
              /\ SettledForever
              /\ TerminalRunFrozen
BY LocksMakeItAtomic, RawRowsConsistent, FailuresHaveIncidents,
   OneActiveIncident, SourceClock, AppliedOnceUnlessUndone, SettledIsFinal,
   TerminalRunsFrozen, PTL
   DEF ImplementsCanonicalEvents
=============================================================================
