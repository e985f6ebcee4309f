--------------------------- MODULE WebhookIntake ---------------------------
(***************************************************************************)
(* The credentials of integration sources and the webhook requests signed  *)
(* with them.  Administrators create and rotate credentials while requests *)
(* are in flight: ingest-execution-event reads the source once, and stores *)
(* the event, queues its job and marks the credential in later calls.      *)
(*                                                                         *)
(* A key stands for a generated credential, its prefix and its hash; a     *)
(* request carries the key it was signed with, a body, and at most one     *)
(* flaw.  What becomes of the queued job is EventPipeline's subject.       *)
(***************************************************************************)
EXTENDS Integers, FiniteSets

CONSTANTS
    Sources,          \* integration sources
    Keys,             \* credentials generateWebhookCredential may return
    Requests,         \* webhook requests
    Calls,            \* calls of create- or rotate-integration-credential
    Bodies,           \* request bodies: the strings at event_id and id
    NoKey, NoSource,  \* no credential; no source found
    NoName            \* no string at event_id or id

ASSUME IntakeAssumption ==
    /\ NoKey \notin Keys
    /\ NoSource \notin Sources
    /\ \A b \in Bodies : {"event_id", "id"} \subseteq DOMAIN b

VARIABLES
    source,      \* per source: its status, and webhook_key_prefix and _hash
    credential,  \* per key: the row of webhook_credentials
    shown,       \* the keys administrators have seen and providers may use
    call,        \* per credential call: its step, source and key
    request,     \* per request: its step and what it carries
    rows,        \* raw_execution_events, by source and identity
    queued       \* the rows whose job was queued

credentialVars == <<source, credential, shown, call>>
vars == <<credentialVars, request, rows, queued>>

Flaws == {"none", "headers", "body"}
Answers == {"refused", "duplicate", "accepted", "failed"}

NewRequest == [at |-> "new", key |-> NoKey, body |-> NoName, flaw |-> "none",
               source |-> NoSource, revoked |-> {}]

Init ==
    /\ source = [s \in Sources |-> [status |-> "active", key |-> NoKey]]
    /\ credential = [k \in Keys |-> [status |-> "none", source |-> NoSource,
                                     used |-> FALSE]]
    /\ shown = {}
    /\ call = [c \in Calls |-> [at |-> "new", source |-> NoSource,
                                key |-> NoKey]]
    /\ request = [r \in Requests |-> NewRequest]
    /\ rows = {}
    /\ queued = {}

-----------------------------------------------------------------------------
(* create-integration-credential and rotate-integration-credential, which  *)
(* differ in their names only.                                             *)

RevokedKeys == {k \in Keys : credential[k].status = "revoked"}

\* generateWebhookCredential: a key no other call has been given.
Generate(k) ==
    /\ credential[k].status = "none"
    /\ \A c \in Calls : call[c].key # k

\* A signed-in user asks for a credential of a source.
RequestCredential(c, s) ==
    /\ call[c].at = "new"
    /\ \E k \in Keys :
          /\ Generate(k)
          /\ call' = [call EXCEPT ![c] = [at |-> "generated", source |-> s,
                                          key |-> k]]
    /\ UNCHANGED <<source, credential, shown, request, rows, queued>>

\* Mutant of StoreCredential: the credential in use is not revoked.
StoreBeside(c) ==
    /\ call[c].at = "generated"
    /\ credential' = [credential EXCEPT
                        ![call[c].key] = [status |-> "active", used |-> FALSE,
                                          source |-> call[c].source]]
    /\ source' = [source EXCEPT ![call[c].source].key = call[c].key]
    /\ call' = [call EXCEPT ![c].at = "stored"]
    /\ UNCHANGED <<shown, request, rows, queued>>

\* store_integration_credential, one transaction under the source's lock.
StoreCredential(c) ==
    /\ call[c].at = "generated"
    /\ LET s == call[c].source IN
          /\ credential' =
                [k \in Keys |->
                    IF k = call[c].key
                    THEN [status |-> "active", source |-> s, used |-> FALSE]
                    ELSE IF credential[k].source = s
                               /\ credential[k].status = "active"
                    THEN [credential[k] EXCEPT !.status = "revoked"]
                    ELSE credential[k]]
          /\ source' = [source EXCEPT ![s].key = call[c].key]
    /\ call' = [call EXCEPT ![c].at = "stored"]
    /\ UNCHANGED <<shown, request, rows, queued>>

\* 201: the credential is displayed, this once.
ShowCredential(c) ==
    /\ call[c].at = "stored"
    /\ shown' = shown \cup {call[c].key}
    /\ call' = [call EXCEPT ![c].at = "done"]
    /\ UNCHANGED <<source, credential, request, rows, queued>>

\* 400, 401 or 403, or an answer that is lost: nobody learns the key, and
\* if it was stored the key before it is revoked all the same.
CredentialFails(c) ==
    /\ call[c].at \in {"generated", "stored"}
    /\ call' = [call EXCEPT ![c].at = "done"]
    /\ UNCHANGED <<source, credential, shown, request, rows, queued>>

\* An administrator disables a source, or enables it again.
SetStatus(s) ==
    /\ source' = [source EXCEPT
                    ![s].status = IF @ = "active" THEN "disabled" ELSE "active"]
    /\ UNCHANGED <<credential, shown, call, request, rows, queued>>

-----------------------------------------------------------------------------
(* ingest-execution-event.                                                 *)

\* A provider sends a body signed with a key it was given, current or not;
\* revoked, a history variable, is what had been revoked by then.
Send(r, k, b, flaw) ==
    /\ request[r].at = "new"
    /\ k \in shown
    /\ request' = [request EXCEPT
                     ![r] = [NewRequest EXCEPT
                               !.at = "received", !.key = k, !.body = b,
                               !.flaw = flaw, !.revoked = RevokedKeys]]
    /\ UNCHANGED <<credentialVars, rows, queued>>

Answer(r, answer) == request' = [request EXCEPT ![r].at = answer]

\* A request that was not accepted is of no further interest.
TurnDown(r, answer) ==
    request' = [request EXCEPT ![r] = [NewRequest EXCEPT !.at = answer]]

\* 405, 413 or 401 before the database is asked: method, declared length,
\* form of the key, timestamp, size.
RefuseHeaders(r) ==
    /\ request[r].at = "received"
    /\ request[r].flaw = "headers"
    /\ TurnDown(r, "refused")
    /\ UNCHANGED <<credentialVars, rows, queued>>

\* Mutant of Authentic: the credentials are searched for the key.
EverIssued(s, k) == credential[k].source = s

\* The source with this prefix is active and has the hash of this key.
Authentic(s, k) == source[s].status = "active" /\ source[s].key = k

\* One read of the source, then the comparisons that need no other: hash,
\* signature, and that the body is a JSON object.
LookUpSource(r) ==
    /\ request[r].at = "received"
    /\ request[r].flaw # "headers"
    /\ \/ /\ request[r].flaw = "none"
          /\ \E s \in Sources :
                /\ Authentic(s, request[r].key)
                /\ request' = [request EXCEPT ![r].at = "insert",
                                              ![r].source = s]
       \/ /\ \/ request[r].flaw = "body"
             \/ \A s \in Sources : ~ Authentic(s, request[r].key)
          /\ TurnDown(r, "refused")
    /\ UNCHANGED <<credentialVars, rows, queued>>

ExternalEventId(b) == IF b.event_id # NoName THEN b.event_id ELSE b.id

\* What the two partial unique indices compare.
Identity(b) ==
    IF ExternalEventId(b) # NoName THEN <<"event_id", ExternalEventId(b)>>
                                   ELSE <<"hash", b>>

RowOf(r) == [source |-> request[r].source,
             identity |-> Identity(request[r].body)]

InsertRaw(r) ==
    /\ request[r].at = "insert"
    /\ RowOf(r) \notin rows
    /\ rows' = rows \cup {RowOf(r)}
    /\ Answer(r, "enqueue")
    /\ UNCHANGED <<credentialVars, queued>>

\* 23505: answered 200.
AnswerDuplicate(r) ==
    /\ request[r].at = "insert"
    /\ RowOf(r) \in rows
    /\ Answer(r, "duplicate")
    /\ UNCHANGED <<credentialVars, rows, queued>>

EnqueueJob(r) ==
    /\ request[r].at = "enqueue"
    /\ queued' = queued \cup {RowOf(r)}
    /\ Answer(r, "mark")
    /\ UNCHANGED <<credentialVars, rows>>

\* Mutant of InUse: also the credentials that were revoked.
OfSource(s) == {k \in Keys : credential[k].source = s}

\* The rows the update of last_used_at matches.
InUse(s) ==
    {k \in Keys : credential[k].source = s /\ credential[k].status = "active"}

\* The credential of the source that is active by now is marked as used; an
\* error is not looked at.  The answer is 202.
MarkUsed(r) ==
    /\ request[r].at = "mark"
    /\ \/ credential' = [k \in Keys |->
                            IF k \in InUse(request[r].source)
                            THEN [credential[k] EXCEPT !.used = TRUE]
                            ELSE credential[k]]
       \/ UNCHANGED credential
    /\ Answer(r, "accepted")
    /\ UNCHANGED <<source, shown, call, rows, queued>>

\* 500: a call failed, before or after its effect, or was never made.
IngestFails(r) ==
    /\ request[r].at \in {"received", "insert", "enqueue"}
    /\ \/ UNCHANGED <<rows, queued>>
       \/ /\ request[r].at = "insert"
          /\ rows' = rows \cup {RowOf(r)}
          /\ UNCHANGED queued
       \/ /\ request[r].at = "enqueue"
          /\ queued' = queued \cup {RowOf(r)}
          /\ UNCHANGED rows
    /\ TurnDown(r, "failed")
    /\ UNCHANGED credentialVars

RequestStep(r) ==
    \/ RefuseHeaders(r) \/ LookUpSource(r) \/ InsertRaw(r)
    \/ AnswerDuplicate(r) \/ EnqueueJob(r) \/ MarkUsed(r) \/ IngestFails(r)

CallStep(c) == StoreCredential(c) \/ ShowCredential(c) \/ CredentialFails(c)

Next ==
    \/ \E c \in Calls, s \in Sources : RequestCredential(c, s)
    \/ \E c \in Calls : CallStep(c)
    \/ \E s \in Sources : SetStatus(s)
    \/ \E r \in Requests, k \in Keys, b \in Bodies, f \in Flaws : Send(r, k, b, f)
    \/ \E r \in Requests : RequestStep(r)

Spec == Init /\ [][Next]_vars

-----------------------------------------------------------------------------
(* What credentials promise.                                               *)

IntakeTypeOK ==
    /\ source \in [Sources -> [status : {"active", "disabled"},
                               key : Keys \cup {NoKey}]]
    /\ credential \in [Keys -> [status : {"none", "active", "revoked"},
                                source : Sources \cup {NoSource},
                                used : BOOLEAN]]
    /\ shown \subseteq Keys
    /\ call \in [Calls -> [at : {"new", "generated", "stored", "done"},
                           source : Sources \cup {NoSource},
                           key : Keys \cup {NoKey}]]
    /\ request \in [Requests -> [at : {"new", "received", "insert", "enqueue",
                                       "mark"} \cup Answers,
                                 key : Keys \cup {NoKey},
                                 body : Bodies \cup {NoName}, flaw : Flaws,
                                 source : Sources \cup {NoSource},
                                 revoked : SUBSET Keys]]
    /\ queued \subseteq rows

\* However many administrators rotate the keys of a source at once, the one
\* key webhooks are compared with is the one active credential of the
\* source, and so the one last_used_at and the audit log speak of.
OneActiveCredential ==
    \A s \in Sources, k \in Keys :
        credential[k].source = s /\ credential[k].status = "active"
            <=> source[s].key = k

\* "The current credential will stop working immediately" (the rotation
\* dialog): a request that arrives after its key was revoked is refused or
\* fails before it stores anything.
RevokedKeyRefused ==
    \A r \in Requests :
        request[r].key \in request[r].revoked =>
            request[r].at = "received"

\* last_used_at may be on another credential than the one that signed, but
\* only if that one was revoked while its request was in flight.
UsedKeySigned ==
    \A k \in Keys : credential[k].used =>
        \E r \in Requests :
            /\ request[r].at = "accepted"
            /\ request[r].source = credential[k].source
            /\ \/ request[r].key = k
               \/ request[r].key \in RevokedKeys \ request[r].revoked
=============================================================================
