------------------------ MODULE WebhookIntakeProofs ------------------------
(***************************************************************************)
(* What credentials promise, for any number of sources, keys, requests and *)
(* concurrent rotations.                                                   *)
(***************************************************************************)
EXTENDS WebhookIntake, TLAPS

SourceState == [status : {"active", "disabled"}, key : Keys \cup {NoKey}]
CredentialState == [status : {"none", "active", "revoked"},
                    source : Sources \cup {NoSource}, used : BOOLEAN]
CallState == [at : {"new", "generated", "stored", "done"},
              source : Sources \cup {NoSource}, key : Keys \cup {NoKey}]
RequestState == [at : {"new", "received", "insert", "enqueue", "mark"}
                        \cup Answers,
                 key : Keys \cup {NoKey}, body : Bodies \cup {NoName},
                 flaw : Flaws, source : Sources \cup {NoSource},
                 revoked : SUBSET Keys]

-----------------------------------------------------------------------------
(* Types.  A call that generated a key knows it, and no other call has it. *)

KeysApart ==
    /\ \A c \in Calls : call[c].at \in {"generated", "stored"} =>
          call[c].key \in Keys /\ call[c].source \in Sources
    /\ \A c \in Calls : call[c].at = "generated" =>
          credential[call[c].key].status = "none"
    /\ \A c1, c2 \in Calls :
          call[c1].key \in Keys /\ call[c1].key = call[c2].key => c1 = c2

\* The row of a job that is about to be queued is stored.
JobsStored == \A r \in Requests : request[r].at = "enqueue" => RowOf(r) \in rows

TypeInv == IntakeTypeOK /\ KeysApart /\ JobsStored

LEMMA InitTypes == Init => TypeInv
BY IntakeAssumption
   DEF Init, TypeInv, IntakeTypeOK, KeysApart, JobsStored, NewRequest, Flaws,
       Answers

\* A step of the credential calls.
LEMMA CallTypes ==
    ASSUME TypeInv,
           \/ \E c \in Calls, s \in Sources : RequestCredential(c, s)
           \/ \E c \in Calls : CallStep(c)
    PROVE  TypeInv'
<1>0. UNCHANGED <<request, rows, queued>>
  BY DEF RequestCredential, CallStep, StoreCredential, ShowCredential,
         CredentialFails
<1>4. call \in [Calls -> CallState]
  BY DEF TypeInv, IntakeTypeOK, CallState
<1>1. CASE \E c \in Calls, s \in Sources : RequestCredential(c, s)
  <2>1. IntakeTypeOK' /\ KeysApart'
    BY <1>0, <1>1 DEF RequestCredential, Generate, TypeInv, IntakeTypeOK,
                      KeysApart
  <2>. QED
    BY <1>0, <2>1 DEF TypeInv, JobsStored, RowOf
<1>2. ASSUME NEW c \in Calls, StoreCredential(c) PROVE TypeInv'
  <2>1. /\ call[c].at = "generated"
        /\ call[c].key \in Keys
        /\ call[c].source \in Sources
    BY <1>2 DEF StoreCredential, TypeInv, KeysApart
  <2>2. credential' \in [Keys -> CredentialState]
    <3>1. credential \in [Keys -> CredentialState]
      BY DEF TypeInv, IntakeTypeOK, CredentialState
    <3>2. [status |-> "active", source |-> call[c].source, used |-> FALSE]
            \in CredentialState
      BY <2>1 DEF CredentialState
    <3>3. \A k \in Keys : [credential[k] EXCEPT !.status = "revoked"]
                              \in CredentialState
      BY <3>1 DEF CredentialState
    <3>. QED
      BY <1>2, <3>1, <3>2, <3>3 DEF StoreCredential
  <2>3. source' \in [Sources -> SourceState]
    BY <1>2, <2>1 DEF StoreCredential, TypeInv, IntakeTypeOK, SourceState
  <2>4. call' = [call EXCEPT ![c].at = "stored"] /\ UNCHANGED shown
    BY <1>2 DEF StoreCredential
  <2>5. call' \in [Calls -> CallState]
    BY <1>4, <2>4 DEF CallState
  <2>6. IntakeTypeOK'
    BY <1>0, <2>2, <2>3, <2>4, <2>5
       DEF TypeInv, IntakeTypeOK, CredentialState, SourceState, CallState
  <2>7. \A k \in Keys : k # call[c].key /\ credential[k].status = "none" =>
                            credential'[k].status = "none"
    BY <1>2 DEF StoreCredential
  <2>8. \A d \in Calls : call'[d].key = call[d].key
                         /\ call'[d].source = call[d].source
                         /\ (d # c => call'[d].at = call[d].at)
    BY <2>4 DEF TypeInv, IntakeTypeOK
  <2>9. call'[c].at = "stored"
    BY <2>4 DEF TypeInv, IntakeTypeOK
  <2>10. KeysApart'
    BY <2>1, <2>7, <2>8, <2>9 DEF TypeInv, KeysApart
  <2>. QED
    BY <1>0, <2>6, <2>10 DEF TypeInv, JobsStored, RowOf
<1>3. ASSUME NEW c \in Calls, ShowCredential(c) \/ CredentialFails(c)
      PROVE  TypeInv'
  <2>0. UNCHANGED <<source, credential>>
    BY <1>3 DEF ShowCredential, CredentialFails
  <2>1. call' = [call EXCEPT ![c].at = "done"]
    BY <1>3 DEF ShowCredential, CredentialFails
  <2>2. shown' \subseteq Keys
    BY <1>3 DEF ShowCredential, CredentialFails, TypeInv, IntakeTypeOK,
                KeysApart
  <2>3. call' \in [Calls -> CallState]
    BY <1>4, <2>1 DEF CallState
  <2>4. IntakeTypeOK'
    BY <1>0, <2>0, <2>2, <2>3 DEF TypeInv, IntakeTypeOK, CallState
  <2>5. KeysApart'
    BY <2>0, <2>1 DEF TypeInv, IntakeTypeOK, KeysApart
  <2>. QED
    BY <1>0, <2>4, <2>5 DEF TypeInv, JobsStored, RowOf
<1>. QED
  BY <1>1, <1>2, <1>3 DEF CallStep

LEMMA StatusTypes ==
    ASSUME TypeInv, NEW s \in Sources, SetStatus(s)
    PROVE  TypeInv'
<1>1. IntakeTypeOK' /\ KeysApart'
  BY DEF SetStatus, TypeInv, IntakeTypeOK, KeysApart
<1>. QED
  BY <1>1 DEF SetStatus, TypeInv, JobsStored, RowOf

\* What a step of a request leaves alone, and how it ends.
LEMMA RequestStepTypes ==
    ASSUME TypeInv, NEW r \in Requests,
           \/ \E k \in Keys, b \in Bodies, f \in Flaws : Send(r, k, b, f)
           \/ RequestStep(r)
    PROVE  TypeInv'
<1>1. UNCHANGED <<source, shown, call>>
  BY DEF Send, RequestStep, RefuseHeaders, LookUpSource, InsertRaw,
         AnswerDuplicate, EnqueueJob, MarkUsed, IngestFails, credentialVars
<1>2. credential' \in [Keys -> CredentialState]
      /\ \A k \in Keys : credential'[k].status = credential[k].status
  <2>1. CASE UNCHANGED credential
    BY <2>1 DEF TypeInv, IntakeTypeOK, CredentialState
  <2>2. CASE ~ UNCHANGED credential
    <3>1. credential' = [k \in Keys |->
                            IF k \in InUse(request[r].source)
                            THEN [credential[k] EXCEPT !.used = TRUE]
                            ELSE credential[k]]
      BY <2>2 DEF Send, RequestStep, RefuseHeaders, LookUpSource, InsertRaw,
                  AnswerDuplicate, EnqueueJob, MarkUsed, IngestFails,
                  credentialVars
    <3>2. credential \in [Keys -> CredentialState]
      BY DEF TypeInv, IntakeTypeOK, CredentialState
    <3>3. \A k \in Keys :
            /\ [credential[k] EXCEPT !.used = TRUE] \in CredentialState
            /\ [credential[k] EXCEPT !.used = TRUE].status = credential[k].status
      BY <3>2 DEF CredentialState
    <3>. QED
      BY <3>1, <3>2, <3>3
  <2>. QED
    BY <2>1, <2>2
<1>3. request' \in [Requests -> RequestState]
  <2>1. NewRequest \in RequestState
    BY DEF NewRequest, RequestState, Flaws
  <2>2. request \in [Requests -> RequestState]
    BY DEF TypeInv, IntakeTypeOK, RequestState
  <2>3. RevokedKeys \subseteq Keys
    BY DEF RevokedKeys
  <2>4. ASSUME NEW a \in {"refused", "failed"}, TurnDown(r, a)
        PROVE  request' \in [Requests -> RequestState]
    BY <2>1, <2>2, <2>4 DEF TurnDown, RequestState, Answers
  <2>5. ASSUME NEW a \in {"enqueue", "mark", "duplicate", "accepted"},
               Answer(r, a)
        PROVE  request' \in [Requests -> RequestState]
    BY <2>2, <2>5 DEF Answer, RequestState, Answers
  <2>6. ASSUME NEW k \in Keys, NEW b \in Bodies, NEW f \in Flaws,
               Send(r, k, b, f)
        PROVE  request' \in [Requests -> RequestState]
    BY <2>1, <2>2, <2>3, <2>6 DEF Send, RequestState
  <2>7. ASSUME LookUpSource(r)
        PROVE  request' \in [Requests -> RequestState]
    BY <2>2, <2>4, <2>7 DEF LookUpSource, RequestState
  <2>. QED
    BY <2>4, <2>5, <2>6, <2>7
       DEF RequestStep, RefuseHeaders, InsertRaw, AnswerDuplicate,
           EnqueueJob, MarkUsed, IngestFails
<1>4. queued' \subseteq rows' /\ rows \subseteq rows'
  <2>1. queued \subseteq rows
    BY DEF TypeInv, IntakeTypeOK
  <2>2. CASE UNCHANGED queued
    <3>1. rows \subseteq rows'
      BY DEF Send, RequestStep, RefuseHeaders, LookUpSource, InsertRaw,
             AnswerDuplicate, EnqueueJob, MarkUsed, IngestFails, credentialVars
    <3>. QED
      BY <2>1, <2>2, <3>1
  <2>3. CASE ~ UNCHANGED queued
    <3>1. /\ request[r].at = "enqueue"
          /\ queued' = queued \cup {RowOf(r)}
          /\ rows' = rows
      BY <2>3 DEF Send, RequestStep, RefuseHeaders, LookUpSource, InsertRaw,
                  AnswerDuplicate, EnqueueJob, MarkUsed, IngestFails
    <3>2. RowOf(r) \in rows
      BY <3>1 DEF TypeInv, JobsStored
    <3>. QED
      BY <2>1, <3>1, <3>2
  <2>. QED
    BY <2>2, <2>3
<1>5. IntakeTypeOK'
  BY <1>1, <1>2, <1>3, <1>4
     DEF TypeInv, IntakeTypeOK, RequestState, CredentialState
<1>6. KeysApart'
  BY <1>1, <1>2 DEF TypeInv, KeysApart
<1>7. JobsStored'
  <2>. SUFFICES ASSUME NEW q \in Requests, request'[q].at = "enqueue"
                PROVE  RowOf(q)' \in rows'
    BY DEF JobsStored
  <2>1. CASE q # r
    <3>1. request'[q] = request[q]
      BY <2>1 DEF Send, RequestStep, RefuseHeaders, LookUpSource, InsertRaw,
                  AnswerDuplicate, EnqueueJob, MarkUsed, IngestFails, Answer,
                  TurnDown, TypeInv, IntakeTypeOK
    <3>. QED
      BY <1>4, <3>1 DEF TypeInv, JobsStored, RowOf
  <2>2. CASE q = r
    <3>1. InsertRaw(r)
      <4>0. request \in [Requests -> RequestState] /\ r \in Requests
        BY DEF TypeInv, IntakeTypeOK, RequestState
      <4>1. ASSUME NEW k \in Keys, NEW b \in Bodies, NEW f \in Flaws,
                   Send(r, k, b, f)
            PROVE  request'[r].at = "received"
        BY <4>0, <4>1 DEF Send, NewRequest
      <4>2. ASSUME NEW a, TurnDown(r, a) PROVE request'[r].at = a
        BY <4>0, <4>2 DEF TurnDown, NewRequest
      <4>3. ASSUME NEW a, Answer(r, a) PROVE request'[r].at = a
        BY <4>0, <4>3 DEF Answer, RequestState
      <4>4. ASSUME LookUpSource(r) PROVE request'[r].at \in {"insert", "refused"}
        BY <4>0, <4>2, <4>4 DEF LookUpSource, RequestState
      <4>. QED
        BY <2>2, <4>1, <4>2, <4>3, <4>4
           DEF RequestStep, RefuseHeaders, AnswerDuplicate, EnqueueJob,
               MarkUsed, IngestFails
    <3>2. request' = [request EXCEPT ![r].at = "enqueue"]
          /\ rows' = rows \cup {RowOf(r)}
      BY <3>1 DEF InsertRaw, Answer
    <3>3. request'[r].source = request[r].source
          /\ request'[r].body = request[r].body
      BY <3>2 DEF TypeInv, IntakeTypeOK
    <3>. QED
      BY <2>2, <3>2, <3>3 DEF RowOf
  <2>. QED
    BY <2>1, <2>2
<1>. QED
  BY <1>5, <1>6, <1>7 DEF TypeInv

LEMMA NextTypes == TypeInv /\ [Next]_vars => TypeInv'
<1>1. TypeInv /\ UNCHANGED vars => TypeInv'
  BY DEF TypeInv, IntakeTypeOK, KeysApart, JobsStored, RowOf, vars,
         credentialVars
<1>. QED
  BY <1>1, CallTypes, StatusTypes, RequestStepTypes DEF Next

\* Every reachable state of WebhookIntake is well typed.
THEOREM IntakeTypeCorrect == Spec => []IntakeTypeOK
<1>1. TypeInv => IntakeTypeOK
  BY DEF TypeInv
<1>. QED
  BY <1>1, InitTypes, NextTypes, PTL DEF Spec

-----------------------------------------------------------------------------
(* Credentials.                                                            *)

\* A step that stores no credential keeps their status and source, and the
\* key of every source.
CredentialsStay ==
    /\ \A k \in Keys : /\ credential'[k].status = credential[k].status
                       /\ credential'[k].source = credential[k].source
    /\ \A s \in Sources : source'[s].key = source[s].key

LEMMA StoredOrStay ==
    ASSUME TypeInv, [Next]_vars
    PROVE  CredentialsStay \/ \E c \in Calls : StoreCredential(c)
<1>1. ASSUME UNCHANGED <<source, credential>> PROVE CredentialsStay
  BY <1>1 DEF CredentialsStay
<1>2. CASE UNCHANGED vars
  BY <1>1, <1>2 DEF vars, credentialVars
<1>3. CASE \E c \in Calls, s \in Sources : RequestCredential(c, s)
  BY <1>1, <1>3 DEF RequestCredential
<1>4. CASE \E c \in Calls : CallStep(c)
  BY <1>1, <1>4 DEF CallStep, ShowCredential, CredentialFails
<1>5. ASSUME NEW s \in Sources, SetStatus(s) PROVE CredentialsStay
  BY <1>5 DEF SetStatus, CredentialsStay, TypeInv, IntakeTypeOK
<1>6. ASSUME NEW r \in Requests, MarkUsed(r) PROVE CredentialsStay
  <2>1. source' = source
    BY <1>6 DEF MarkUsed
  <2>2. ASSUME NEW k \in Keys
        PROVE  /\ credential'[k].status = credential[k].status
               /\ credential'[k].source = credential[k].source
    BY <1>6 DEF MarkUsed, TypeInv, IntakeTypeOK
  <2>. QED
    BY <2>1, <2>2 DEF CredentialsStay
<1>7. CASE \E r \in Requests, k \in Keys, b \in Bodies, f \in Flaws :
              Send(r, k, b, f)
  BY <1>1, <1>7 DEF Send, credentialVars
<1>8. ASSUME NEW r \in Requests,
             \/ RefuseHeaders(r) \/ LookUpSource(r) \/ InsertRaw(r)
             \/ AnswerDuplicate(r) \/ EnqueueJob(r) \/ IngestFails(r)
      PROVE  UNCHANGED <<source, credential>>
  BY <1>8 DEF RefuseHeaders, LookUpSource, InsertRaw, AnswerDuplicate,
              EnqueueJob, IngestFails, credentialVars
<1>. QED
  BY <1>1, <1>2, <1>3, <1>4, <1>5, <1>6, <1>7, <1>8 DEF Next, RequestStep

\* What storing a credential does to the others.
LEMMA StoreEffect ==
    ASSUME TypeInv, NEW c \in Calls, StoreCredential(c)
    PROVE  /\ call[c].key \in Keys
           /\ call[c].source \in Sources
           /\ credential[call[c].key].status = "none"
           /\ credential'[call[c].key].status = "active"
           /\ credential'[call[c].key].source = call[c].source
           /\ ~ credential'[call[c].key].used
           /\ \A k \in Keys \ {call[c].key} :
                /\ credential'[k].source = credential[k].source
                /\ credential'[k].used = credential[k].used
                /\ credential'[k].status =
                     IF credential[k].source = call[c].source
                          /\ credential[k].status = "active"
                     THEN "revoked" ELSE credential[k].status
           /\ source'[call[c].source].key = call[c].key
           /\ \A s \in Sources \ {call[c].source} :
                source'[s].key = source[s].key
<1>1. /\ call[c].key \in Keys
      /\ call[c].source \in Sources
      /\ credential[call[c].key].status = "none"
  BY DEF StoreCredential, TypeInv, KeysApart
<1>2. /\ source'[call[c].source].key = call[c].key
      /\ \A s \in Sources \ {call[c].source} : source'[s].key = source[s].key
  BY <1>1 DEF StoreCredential, TypeInv, IntakeTypeOK
<1>3. /\ credential'[call[c].key].status = "active"
      /\ credential'[call[c].key].source = call[c].source
      /\ ~ credential'[call[c].key].used
  BY <1>1 DEF StoreCredential
<1>4. ASSUME NEW k \in Keys \ {call[c].key}
      PROVE  /\ credential'[k].source = credential[k].source
             /\ credential'[k].used = credential[k].used
             /\ credential'[k].status =
                  IF credential[k].source = call[c].source
                       /\ credential[k].status = "active"
                  THEN "revoked" ELSE credential[k].status
  <2>1. credential[k] \in CredentialState
    BY DEF TypeInv, IntakeTypeOK, CredentialState
  <2>2. credential'[k] =
          IF credential[k].source = call[c].source
               /\ credential[k].status = "active"
          THEN [credential[k] EXCEPT !.status = "revoked"]
          ELSE credential[k]
    BY DEF StoreCredential
  <2>. QED
    BY <2>1, <2>2 DEF CredentialState
<1>. QED
  BY <1>1, <1>2, <1>3, <1>4

LEMMA OneActivePreserved ==
    ASSUME TypeInv, OneActiveCredential, [Next]_vars
    PROVE  OneActiveCredential'
<1>1. CASE CredentialsStay
  BY <1>1 DEF CredentialsStay, OneActiveCredential
<1>2. ASSUME NEW c \in Calls, StoreCredential(c) PROVE OneActiveCredential'
  <2>. SUFFICES ASSUME NEW s \in Sources, NEW k \in Keys
                PROVE  credential'[k].source = s
                         /\ credential'[k].status = "active"
                         <=> source'[s].key = k
    BY DEF OneActiveCredential
  <2>1. credential[k].source = s /\ credential[k].status = "active"
          <=> source[s].key = k
    BY DEF OneActiveCredential
  <2>2. CASE k = call[c].key
    <3>1. credential'[k].status = "active" /\ credential'[k].source = call[c].source
      BY <1>2, <2>2, StoreEffect
    <3>2. source[s].key # k
      BY <1>2, <2>1, <2>2, StoreEffect
    <3>3. source'[call[c].source].key = k
          /\ (s # call[c].source => source'[s].key = source[s].key)
      BY <1>2, <2>2, StoreEffect
    <3>. QED
      BY <3>1, <3>2, <3>3
  <2>3. CASE k # call[c].key
    <3>1. /\ credential'[k].source = credential[k].source
          /\ credential'[k].status =
               IF credential[k].source = call[c].source
                    /\ credential[k].status = "active"
               THEN "revoked" ELSE credential[k].status
      BY <1>2, <2>3, StoreEffect
    <3>2. CASE s = call[c].source
      <4>1. source'[s].key = call[c].key
        BY <1>2, <3>2, StoreEffect
      <4>. QED
        BY <2>3, <3>1, <3>2, <4>1
    <3>3. CASE s # call[c].source
      <4>1. source'[s].key = source[s].key
        BY <1>2, <3>3, StoreEffect
      <4>. QED
        BY <2>1, <3>1, <3>3, <4>1
    <3>. QED
      BY <3>2, <3>3
  <2>. QED
    BY <2>2, <2>3
<1>. QED
  BY <1>1, <1>2, StoredOrStay

LEMMA InitOneActive == Init => OneActiveCredential
BY IntakeAssumption DEF Init, OneActiveCredential

\* Webhooks are compared with the one active credential of their source.
THEOREM OneActive == Spec => []OneActiveCredential
<1>1. TypeInv /\ OneActiveCredential /\ [Next]_vars =>
        (TypeInv /\ OneActiveCredential)'
  BY NextTypes, OneActivePreserved
<1>. QED
  BY <1>1, InitTypes, InitOneActive, PTL DEF Spec

\* A credential keeps its source, and is never taken back into use.
LEMMA CredentialsLast ==
    ASSUME TypeInv, [Next]_vars, NEW k \in Keys, credential[k].status # "none"
    PROVE  /\ credential'[k].status # "none"
           /\ credential'[k].source = credential[k].source
           /\ credential[k].status = "revoked" =>
                 credential'[k].status = "revoked"
<1>1. CASE CredentialsStay
  BY <1>1 DEF CredentialsStay
<1>2. ASSUME NEW c \in Calls, StoreCredential(c)
      PROVE  /\ credential'[k].status # "none"
             /\ credential'[k].source = credential[k].source
             /\ credential[k].status = "revoked" =>
                   credential'[k].status = "revoked"
  BY <1>2, StoreEffect
<1>. QED
  BY <1>1, <1>2, StoredOrStay

-----------------------------------------------------------------------------
(* Requests.                                                               *)

Taken == {"insert", "enqueue", "mark", "duplicate", "accepted"}

\* What a request carries: nothing before it is sent and once it is turned
\* down; and once its source is found, a key issued for that source that had
\* not been revoked when the request was sent.
RequestKnown(r) ==
    /\ request[r].revoked \subseteq RevokedKeys
    /\ request[r].at \in {"new", "refused", "failed"} => request[r].key = NoKey
    /\ request[r].at = "received" => request[r].key \in Keys
    /\ request[r].at \in Taken =>
          /\ request[r].key \in Keys \ request[r].revoked
          /\ request[r].source \in Sources
          /\ credential[request[r].key].source = request[r].source
          /\ credential[request[r].key].status # "none"

RequestsKnown == \A r \in Requests : RequestKnown(r)

\* What a step does to request r.
RequestMove(r) ==
    LET old == request[r]
        new == request'[r] IN
    \/ new = old
    \/ new.at = "received" /\ new.key \in Keys /\ new.revoked = RevokedKeys
    \/ new.at \in {"refused", "failed"} /\ new.key = NoKey /\ new.revoked = {}
    \/ /\ new.at \in Taken
       /\ new.key = old.key
       /\ new.revoked = old.revoked
       /\ \/ /\ old.at \in Taken \ {"accepted", "duplicate"}
             /\ new.source = old.source
          \/ /\ old.at = "received"
             /\ new.source \in Sources
             /\ Authentic(new.source, old.key)

LEMMA StepMovesRequest ==
    ASSUME TypeInv, [Next]_vars, NEW r \in Requests
    PROVE  RequestMove(r)
<1>0. request \in [Requests -> RequestState]
  BY DEF TypeInv, IntakeTypeOK, RequestState
<1>1. ASSUME request'[r] = request[r] PROVE RequestMove(r)
  BY <1>1 DEF RequestMove
<1>2. CASE UNCHANGED request
  BY <1>1, <1>2
<1>3. ASSUME NEW q \in Requests, NEW k \in Keys, NEW b \in Bodies,
             NEW f \in Flaws, Send(q, k, b, f)
      PROVE  RequestMove(r)
  BY <1>0, <1>3 DEF Send, NewRequest, RequestMove
<1>4. ASSUME NEW q \in Requests, NEW a \in {"refused", "failed"},
             TurnDown(q, a)
      PROVE  RequestMove(r)
  BY <1>0, <1>4 DEF TurnDown, NewRequest, RequestMove
<1>5. ASSUME NEW q \in Requests, request[q].at \in {"insert", "enqueue", "mark"},
             NEW a \in Taken, Answer(q, a)
      PROVE  RequestMove(r)
  BY <1>0, <1>5 DEF Answer, RequestState, RequestMove, Taken
<1>6. ASSUME NEW q \in Requests, LookUpSource(q) PROVE RequestMove(r)
  <2>1. CASE \E a \in {"refused", "failed"} : TurnDown(q, a)
    BY <1>4, <2>1
  <2>2. ASSUME NEW s \in Sources, Authentic(s, request[q].key),
               request' = [request EXCEPT ![q].at = "insert", ![q].source = s]
        PROVE  RequestMove(r)
    BY <1>0, <1>6, <2>2 DEF LookUpSource, RequestState, RequestMove, Taken
  <2>. QED
    BY <1>6, <2>1, <2>2 DEF LookUpSource
<1>7. ASSUME NEW q \in Requests, RequestStep(q) PROVE RequestMove(r)
  BY <1>4, <1>5, <1>6, <1>7
     DEF RequestStep, RefuseHeaders, InsertRaw, AnswerDuplicate, EnqueueJob,
         MarkUsed, IngestFails, Taken
<1>8. ASSUME NEW c \in Calls, CallStep(c) PROVE UNCHANGED request
  BY <1>8 DEF CallStep, StoreCredential, ShowCredential, CredentialFails
<1>. QED
  BY <1>2, <1>3, <1>7, <1>8 DEF Next, vars, RequestCredential, SetStatus

LEMMA RequestsKnownPreserved ==
    ASSUME TypeInv, OneActiveCredential, RequestsKnown, [Next]_vars
    PROVE  RequestsKnown'
<1>. SUFFICES ASSUME NEW r \in Requests PROVE RequestKnown(r)'
  BY DEF RequestsKnown
<1>1. RevokedKeys \subseteq RevokedKeys'
  BY CredentialsLast DEF RevokedKeys
<1>2. RequestKnown(r) /\ RequestMove(r)
  BY StepMovesRequest DEF RequestsKnown
<1>3. CASE request'[r] = request[r]
  <2>1. request[r].at \in Taken =>
          /\ credential'[request[r].key].source = request[r].source
          /\ credential'[request[r].key].status # "none"
    BY <1>2, CredentialsLast DEF RequestKnown
  <2>. QED
    BY <1>1, <1>2, <1>3, <2>1 DEF RequestKnown
<1>4. CASE /\ request'[r].at = "received"
           /\ request'[r].key \in Keys
           /\ request'[r].revoked = RevokedKeys
  BY <1>1, <1>4 DEF RequestKnown, Taken
<1>5. CASE /\ request'[r].at \in {"refused", "failed"}
           /\ request'[r].key = NoKey
           /\ request'[r].revoked = {}
  BY <1>5 DEF RequestKnown, Taken
<1>6. CASE /\ request'[r].at \in Taken
           /\ request'[r].key = request[r].key
           /\ request'[r].revoked = request[r].revoked
           /\ request[r].at \in Taken
           /\ request'[r].source = request[r].source
  <2>1. /\ credential'[request[r].key].source = request[r].source
        /\ credential'[request[r].key].status # "none"
    BY <1>2, <1>6, CredentialsLast DEF RequestKnown
  <2>. QED
    BY <1>1, <1>2, <1>6, <2>1 DEF RequestKnown, Taken
<1>7. CASE /\ request'[r].at \in Taken
           /\ request'[r].key = request[r].key
           /\ request'[r].revoked = request[r].revoked
           /\ request[r].at = "received"
           /\ request'[r].source \in Sources
           /\ Authentic(request'[r].source, request[r].key)
  <2>. DEFINE k == request[r].key
              s == request'[r].source
  <2>1. k \in Keys
    BY <1>2, <1>7 DEF RequestKnown
  <2>2. credential[k].source = s /\ credential[k].status = "active"
    BY <1>7, <2>1 DEF Authentic, OneActiveCredential
  <2>3. k \notin request[r].revoked
    BY <1>2, <2>2 DEF RequestKnown, RevokedKeys
  <2>4. credential'[k].source = s /\ credential'[k].status # "none"
    BY <2>1, <2>2, CredentialsLast
  <2>. QED
    BY <1>1, <1>2, <1>7, <2>1, <2>3, <2>4 DEF RequestKnown, Taken
<1>. QED
  BY <1>2, <1>3, <1>4, <1>5, <1>6, <1>7 DEF RequestMove

\* Nothing happens to a request that was accepted.
LEMMA AcceptedStays ==
    ASSUME TypeInv, [Next]_vars, NEW r \in Requests,
           request[r].at = "accepted"
    PROVE  request'[r] = request[r]
<1>0. request \in [Requests -> RequestState]
  BY DEF TypeInv, IntakeTypeOK, RequestState
<1>1. ASSUME NEW q \in Requests,
             \/ \E k \in Keys, b \in Bodies, f \in Flaws : Send(q, k, b, f)
             \/ RequestStep(q)
      PROVE  request'[r] = request[r]
  BY <1>0, <1>1
     DEF Send, RequestStep, RefuseHeaders, LookUpSource, InsertRaw,
         AnswerDuplicate, EnqueueJob, MarkUsed, IngestFails, Answer, TurnDown
<1>2. ASSUME NEW c \in Calls, CallStep(c) PROVE UNCHANGED request
  BY <1>2 DEF CallStep, StoreCredential, ShowCredential, CredentialFails
<1>. QED
  BY <1>1, <1>2 DEF Next, vars, RequestCredential, SetStatus

LEMMA InitRequestsKnown == Init => RequestsKnown
BY DEF Init, RequestsKnown, RequestKnown, NewRequest, Taken, RevokedKeys

CredentialInv ==
    TypeInv /\ OneActiveCredential /\ RequestsKnown

LEMMA CredentialInvariant == Spec => []CredentialInv
<1>1. Init => CredentialInv
  BY InitTypes, InitOneActive, InitRequestsKnown DEF CredentialInv
<1>2. CredentialInv /\ [Next]_vars => CredentialInv'
  BY NextTypes, OneActivePreserved, RequestsKnownPreserved DEF CredentialInv
<1>. QED
  BY <1>1, <1>2, PTL DEF Spec

\* A request signed with a key that was revoked before it arrived stores
\* nothing.
THEOREM RevokedKeyStoresNothing == Spec => []RevokedKeyRefused
<1>1. CredentialInv => RevokedKeyRefused
  <2>. SUFFICES ASSUME CredentialInv, NEW r \in Requests,
                       request[r].key \in request[r].revoked
                PROVE  request[r].at = "received"
    BY DEF RevokedKeyRefused
  <2>1. RequestKnown(r) /\ request[r] \in RequestState
    BY DEF CredentialInv, RequestsKnown, TypeInv, IntakeTypeOK, RequestState
  <2>. QED
    BY <2>1, IntakeAssumption
       DEF RequestKnown, RequestState, Taken, Answers, RevokedKeys
<1>. QED
  BY <1>1, CredentialInvariant, PTL

\* A credential that is marked now: its request was accepted in this step.
LEMMA MarkedSigned ==
    ASSUME CredentialInv, NEW r \in Requests, MarkUsed(r), NEW k \in Keys,
           k \in InUse(request[r].source)
    PROVE  /\ request'[r].at = "accepted"
           /\ request'[r].source = credential'[k].source
           /\ \/ request'[r].key = k
              \/ request'[r].key \in RevokedKeys' \ request'[r].revoked
<1>1. request[r].at = "mark" /\ RequestKnown(r)
  BY DEF MarkUsed, CredentialInv, RequestsKnown
<1>2. /\ request'[r].at = "accepted"
      /\ request'[r].key = request[r].key
      /\ request'[r].source = request[r].source
      /\ request'[r].revoked = request[r].revoked
  BY DEF MarkUsed, Answer, CredentialInv, TypeInv, IntakeTypeOK
<1>. DEFINE q == request[r].key
            s == request[r].source
<1>3. /\ q \in Keys \ request[r].revoked
      /\ s \in Sources
      /\ credential[q].source = s
      /\ credential[q].status # "none"
  BY <1>1 DEF RequestKnown, Taken
<1>4. ASSUME NEW p \in Keys
      PROVE  /\ credential'[p].status = credential[p].status
             /\ credential'[p].source = credential[p].source
  BY DEF MarkUsed, CredentialInv, TypeInv, IntakeTypeOK
<1>5. credential[k].source = s /\ credential[k].status = "active"
  BY DEF InUse
<1>6. CASE credential[q].status = "active"
  <2>1. source[s].key = q /\ source[s].key = k
    BY <1>3, <1>5, <1>6 DEF CredentialInv, OneActiveCredential
  <2>. QED
    BY <1>2, <1>4, <1>5, <2>1
<1>7. CASE credential[q].status = "revoked"
  BY <1>2, <1>3, <1>4, <1>5, <1>7 DEF RevokedKeys
<1>. QED
  BY <1>3, <1>6, <1>7 DEF CredentialInv, TypeInv, IntakeTypeOK

\* last_used_at is set on a key that signed an accepted request, or took the
\* place of the key that did while the request was in flight.
THEOREM UsedKeysSigned == Spec => []UsedKeySigned
<1>1. CredentialInv /\ UsedKeySigned /\ [Next]_vars => UsedKeySigned'
  <2>. SUFFICES ASSUME CredentialInv, UsedKeySigned, [Next]_vars,
                       NEW k \in Keys, credential'[k].used
                PROVE  \E r \in Requests :
                          /\ request'[r].at = "accepted"
                          /\ request'[r].source = credential'[k].source
                          /\ \/ request'[r].key = k
                             \/ request'[r].key
                                  \in RevokedKeys' \ request'[r].revoked
    BY DEF UsedKeySigned
  <2>1. CASE /\ credential[k].used
             /\ credential'[k].source = credential[k].source
    <3>1. PICK r \in Requests :
             /\ request[r].at = "accepted"
             /\ request[r].source = credential[k].source
             /\ \/ request[r].key = k
                \/ request[r].key \in RevokedKeys \ request[r].revoked
      BY <2>1 DEF UsedKeySigned
    <3>2. request'[r] = request[r]
      BY <3>1, AcceptedStays DEF CredentialInv
    <3>3. RevokedKeys \subseteq RevokedKeys'
      BY CredentialsLast DEF CredentialInv, RevokedKeys
    <3>. QED
      BY <2>1, <3>1, <3>2, <3>3
  <2>2. ASSUME NEW r \in Requests, MarkUsed(r)
        PROVE  \/ /\ credential[k].used
                  /\ credential'[k].source = credential[k].source
               \/ k \in InUse(request[r].source)
    BY <2>2 DEF MarkUsed, CredentialInv, TypeInv, IntakeTypeOK
  <2>3. ASSUME NEW c \in Calls, StoreCredential(c)
        PROVE  /\ credential[k].used
               /\ credential'[k].source = credential[k].source
    BY <2>3, StoreEffect DEF CredentialInv
  <2>4. \/ UNCHANGED credential
        \/ \E r \in Requests : MarkUsed(r)
        \/ \E c \in Calls : StoreCredential(c)
    BY DEF Next, vars, credentialVars, RequestCredential, CallStep,
           ShowCredential, CredentialFails, SetStatus, Send, RequestStep,
           RefuseHeaders, LookUpSource, InsertRaw, AnswerDuplicate,
           EnqueueJob, IngestFails
  <2>. QED
    BY <2>1, <2>2, <2>3, <2>4, MarkedSigned
<1>2. Init => UsedKeySigned
  BY DEF Init, UsedKeySigned
<1>. QED
  BY <1>1, <1>2, CredentialInvariant, PTL DEF Spec
=============================================================================
