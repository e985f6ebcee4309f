# A verification of the Automation Reliability Console

The console receives signed webhook events from automation providers, keeps
them as evidence, turns them into canonical workflow runs and incidents, and
lets operators replay failed runs under an administrator's control.  Its core
logic is in PL/pgSQL functions; Edge Functions (TypeScript), a FastAPI service
and a React client call them.  This directory holds TLA+ models of that core,
TLC runs on small instances, and TLAPS proofs for all instances.  Paths below
are relative to the repository; `M1`, `M2`, `M3` stand for the migrations
`20260724000100_foundation.sql`, `...200_event_processing.sql` and
`...300_replay_processing.sql` in `supabase/migrations/`.  Line numbers are
those of the files named.

## The system

| Component | State | Operations | Talks to |
|---|---|---|---|
| Webhook ingestion (`ingest-execution-event`) | none of its own | check the request, insert the raw event, enqueue a job, touch the credential, answer | database and queue, one request per call |
| Job queues (PGMQ) | jobs with visibility time and `read_ct`; dead-letter queues | send, read, archive, delete | webhook, replay functions, consumer |
| Queue consumer (`process-queues`) | the batch in hand | read up to ten jobs, load, normalize, apply or replay, archive, dead-letter | queue, database; started by Cron every two minutes |
| Event application (`apply_canonical_event`, M2) | raw event, run, steps, incident, notification, source, audit row | apply, ignore as out of order, refuse, record a failure | the tables; called by the consumer and by FastAPI |
| Incidents (M1, M2) | status and severity, one active per run | opened and refreshed by events; `transition_incident` | operators |
| Replay control (M1, M3) | replay requests, replay jobs, the linked run | `request_replay`, `decide_replay_request`, `process_replay_job` | operators, administrators, queue |
| Credentials (`credential-handler.ts`, M1) | prefix and hash on the source, credential rows | create, rotate, mark as used | administrators, webhook |
| Tenancy (M1) | organizations, members and roles, row-level security | change a role, every policy | everything |
| Approvals (M1) | approval requests | `decide_approval` | operators |
| FastAPI reference service | none | normalize and apply, ordering and incident rules, simulation, analytics | database |
| Provider adapters (TypeScript and Python) | none | normalize four payload formats | consumer, FastAPI |
| Realtime client (`useRealtimeOrganization`) | four private channels of the selected organization | subscribe, refresh on every message and every subscription | Realtime, query cache |
| Console (React) | session, chosen organization, query cache, a change in flight | sign in and out, select, fetch, change, invalidate | PostgREST, Edge Functions |

What is hard in it, and where the models look:

- **Overlap.**  Cron starts a consumer whether or not the last one is done, a
  visibility timeout may run out under a working consumer, and FastAPI applies
  events without the queue.  The same event is applied by several callers.
- **Row locks and subtransactions.**  `apply_canonical_event` reads, decides
  and writes in several statements under READ COMMITTED.  Its `exception when
  others` block rolls back a subtransaction: every write *and every row lock*
  of the body is gone before the handler's own update.
- **Requests that are not transactions.**  Every call an Edge Function makes
  is committed on its own; any of them may fail, before or after the database
  has done its work, and the function may be killed in between.
- **Order.**  Provider time decides between events of one run; the arrival
  order is arbitrary; clocks may move back.
- **Two jobs for one replay**, one of them queued before the decision.
- **Rotation under load.**  A webhook reads its source once and works on while
  administrators replace the key; two of them may do so at once.
- **Two implementations of one rule**: ordering, incidents and the provider
  adapters exist in Python and in SQL or TypeScript.
- **Constraints an upsert does not look at**: a step is found by its id, its
  number is unique too, and its attempt and times are checked by the database
  only.
- **A browser that outlives its sessions.**  The selected organization and
  the cached memberships survive a sign-out, other tabs share the storage, and
  old channels report to a badge that is already another one's.
- **A browser that is told of changes.**  Pages read several tables without a
  snapshot, messages may be lost with their channel, a change of one's own is
  answered after the organization was switched.

Per component, correctness means: an accepted event is kept, queued, applied
once (unless an overtaken handler turns it back) or dead-lettered; a terminal run stays terminal; exactly failed
runs have incidents, one of them active at most; a request is replayed at most
once and only after an approval; what is approved is served; a source has one
key, and a revoked one is refused; both adapters see one event; a repeated
event changes nothing of a run's steps and times; an organization does not
lose its last owner to a single update; a settled page misses nothing it was
told of, nor its own changes; a tab shows an organization of the person who is
signed in, and says "live" only for its channels.  `PROJECT.json` lists every
hazard with its line and the properties that cover it.

## The modules

| Module | What it is |
|---|---|
| `RunStates` | the state machines of runs and incidents, as constant operators |
| `CanonicalEvents` | `apply_canonical_event` as atomic steps, with `transition_incident` and source status |
| `CanonicalEventsProofs` | its theorems |
| `ApplyTransaction` | the same function statement by statement, with its row locks; implements `CanonicalEvents` |
| `ApplyTransactionProofs` | the proof that it does |
| `RuleAgreement` | the Python ordering and incident rules, beside the SQL state |
| `RuleAgreementProofs` | the proof that they agree |
| `DurableIntake` | abstract specification: what becomes of one event |
| `EventPipeline` | webhook, queue and consumers around `CanonicalEvents`; implements `DurableIntake` |
| `EventPipelineProofs` | safety of the pipeline and its refinements |
| `ReplayTurns` | abstract specification: the turns requests take on a run |
| `ReplayControl` | replay requests, their two jobs, the consumers; implements `ReplayTurns` |
| `ReplayControlProofs` | its safety and its refinement |
| `ProviderAdapters` | `normalizeProviderEvent` (TypeScript) and `normalize_event` (Python) as functions of one payload |
| `RunTimeline` | the steps and times of a run, upserted through the adapter statement by statement |
| `RunTimelineProofs` | its safety, the agreement of the adapters included |
| `WebhookIntake` | credentials, their rotation, and `ingest-execution-event` check by check |
| `WebhookIntakeProofs` | its safety |
| `Team` | role changes under the update policy of `organization_members`, as overlapping statements |
| `Session` | one tab: who is signed in, the memberships, the selection, the badge |
| `ConsolePages` | what every page reads and offers, what every change writes and announces |
| `Console` | one browser: page, query cache, channels, a change of its own |
| `ConsoleProofs` | the safety of `Team`, `Session` and `Console` |
| `MC...` | the instances TLC checks |

Who composes whom: `EventPipeline` extends `CanonicalEvents` (and implements
it and `DurableIntake`), `ApplyTransaction` refines `CanonicalEvents`,
`ReplayControl` refines `ReplayTurns`, `RuleAgreement` reads the state of
`CanonicalEvents`, `RunTimeline` feeds `ProviderAdapters` into the upserts,
`Console` is built on `ConsolePages`.  `WebhookIntake` and
`EventPipeline` overlap on the webhook: the former has the credentials, the
checks and the identity of a body, and ends with the queued job; the latter
has one source and follows the job.

`EventPipeline` EXTENDS `CanonicalEvents`: `ApplyJob`, `ApplyAborts` and
`ApplyFails` are its actions joined with the worker's step.  Definitions named
in a comment as a *mutant* are used by no specification: each is a form of the
definition after it that a plausible bug would give, and shows which property
notices.

### How state corresponds to the code

`CanonicalEvents`

- `raw[e]`: row of `raw_execution_events`; `state` is `processing_status`
  (`absent`: no row; the status `processing` is never written), `attempts` is
  `processing_attempts`, `code` is `processing_error_code`.  The code
  `illegal_state_transition` (M2:145) is not among the codes: its update is in
  the block the following `raise` rolls back, so the row gets `22023`.
- `run[r]`: status and `last_event_at` of the row with that source and
  external run id.  Runs that replays create are not among `Runs`.
- `incidents[r]`, oldest first; `notices[r]` counts notifications; `audit[e]`
  counts `workflow_run.event_applied` rows: how often `e` was applied.
- `source[s]`: status and `last_event_at`.  The policies let an administrator
  write the whole row; the model has the status change and no edit of
  `last_event_at`, which no client makes.
- `aborted[k]`: a caller whose block was rolled back and whose handler has not
  run.  This is the state between M2:386 and M2:388.
- `undone[e]` is a history variable: how often a handler found `e` processed
  and turned it back.  Nothing but properties reads it.

Each outcome of the function is an action: `AlreadyProcessed`,
`IgnoreOutOfOrder`, `ApplyEvent`, and `Abort` then `RecordFailure`.  What may
raise without a rule of the function (a deadlock, a check constraint, a cast,
a step's unique index) is the code `other`, always possible.

`ApplyTransaction` splits `ApplyEvent` at its lock acquisitions: `LockRaw`
(M2:47), `ShareSource` (65), `FindRun` (114), `UpsertRun` (156), `TouchSource`
(321), `Commit`.  Which locks a call holds is a function of how far it is.

`EventPipeline`: `delivery` is one webhook request, call by call; `msg[e]` the
job of event `e` (`visible`, `hidden`, `archived`, `deleted`) with `read_ct`;
`dead[e]` counts dead-letter entries; `worker` is an invocation of
`process-queues` with the rest of its batch.  A job stands for its event,
which `OneDeliveryQueues` justifies.  A worker slot is used again after a
crash; a handler still running in the database for the dead invocation is
`HandlerRuns`.

`ReplayControl`: `request[k]` is the row with idempotency key `k`; the jobs
are `<<k, "requested">>` and `<<k, "approved">>`.  Seen through `ReplayTurns`,
`turn[r]` is the open request of run `r`, if there is one, granted once it is
approved; `spent` are the keys with a row, `made` is `succeeded`.

`ProviderAdapters`: a payload says whether it is wrapped (`execution`, `task`)
and which JSON value stands at each path.  A value is a pair of its kind (text,
integer, float, flag, list, object, none) and its content, since the two
languages differ by kind: in what `??`, `?:` and `or` pass over (`Falsy`,
`PyFalsy`), in what `String` and `str` write (`JsString`, `PyString`), in what
is an integer (`Integer`, `PyInteger`: 2.0 is 2 in JavaScript and a float in
Python).  `Instants` gives the texts that are times, in microseconds;
`Timestamp` cuts them to milliseconds as `toISOString` does, `PyTimestamp` does
not.  `Canonical` and `PyCanonical` try the same paths, `NormalizeStep` and
`PyStep` read one step: its id, name, number, attempt, times and status.  A
status named like an inherited property of the lookup table (`constructor`)
passes the TypeScript adapter and vanishes from the JSON (`Inherited`).

`RunTimeline`: `times` are `started_at` and `ended_at` of `workflow_runs`,
`timeline` maps each `external_step_id` in `run_steps` to its
`sequence_number`, `started_at` and `ended_at`, `job` is the event
`process-queues` has in hand, `draft` both as its transaction sees them and
`next` the statement it has come to: `UpsertRun` (M2:156), then `UpsertNext`
for every round of the loop (M2:216), which passes over a step without an id, a
name or a status (`Skipped`).  `Valid` are the checks of `run_steps` on what a
step brings, `Fits` is its unique number, and `Storable` adds the check on the
merged times.  An error or an interruption rolls the draft back.  `last` is a
history variable: the event stored last, if no other was taken since.  The
ordering rules come before all this and are in `CanonicalEvents`.

`WebhookIntake`: a key stands for a generated credential with its prefix and
hash.  `source[s].key` is the pair on `integration_sources`, `credential[k]`
the row of `webhook_credentials`, `shown` what was displayed to somebody.
`request[r]` is a webhook between two calls; `revoked` is a history variable,
what had been revoked when it arrived.  `store_integration_credential` is one
step because it holds the lock of the source's row.

`Team`: `update[u]` is an executing `UPDATE`: its snapshot's roles of caller
and member.  The caller's role comes from the snapshot (`org_role` is STABLE),
the member's row is read again after waiting for its lock.

`Session`: `account` is the session in the browser's storage, `starting` is
`loading` of `AuthContext`, `lists` the cache entries of the memberships query
by person, `chosen` is `selectedId` and `saved` its copy in `localStorage`.
`View` is what `ProtectedRoute` renders.  An effect of React is part of every
action that changes what it depends on: `FallBack` (OrganizationContext:58-65)
and `Rewire` (the effect of `useRealtimeOrganization`); a sign-in and the
event the auth client sends for it are one step.  `heard` is `liveTopics`,
`up` the channels that are joined; `lost`, `rejoined`, `been` and `lacked` are
history.  `FallBack` takes any membership where the code takes the oldest.

`Console`: of the data only this is kept, for the page's cached result and for
the fetch in flight: whether it misses a change that was *announced*, and
whether it misses one this browser *made itself*.  `fetch.read` is the set of
requests already answered, so a change can fall between two of them;
`fetch.ignored` and `cached.unheard` say that a refresh met the page's first
fetch, which TanStack Query does not restart because there is nothing to
invalidate yet.  Pages are shown for one role; every change they offer to it,
and every change others make to what they show, is possible at any time.

## The runs

Every run is exhaustive for its constants.

| Run | Instance | Shows |
|---|---|---|
| `core_overlap` | 2 events, 2 runs of a source, 2 overlapping callers | types, incident and severity of exactly the failed runs, one active incident, source clock, terminal runs frozen; Python and SQL rules agree |
| `apply_locks` | 2 events, 1 run, 2 callers, statement by statement | row and source read are still current at the commit; commits are alone; the statements implement `CanonicalEvents` |
| `pipeline_overlap` | 1 event, 2 workers, 1 direct caller, 1 fault, any overlap | applied once per time it was turned back, settled for ever, the row tells its history, archived means processed unless turned back |
| `pipeline_intake` | 1 event, 2 deliveries, 2 workers, 1 fault, fairness | an accepted event is never lost, dead letters are earned, one job per event; implements `DurableIntake`, its liveness included |
| `pipeline_batch` | 2 events in one batch, 1 worker, 1 fault, fairness | the same when one job's failure abandons the other |
| `replay_requests` | 2 keys for 1 run, 1 worker, 2 faults, fairness | types; replayed at most once, after approval; one open request; approved is served; decisions are final; implements `ReplayTurns` |
| `provider_events` | payloads of 4 providers varied in all paths of one field at a time; one step in all its forms, lists of 2; interruptions at every statement | the adapters agree; repeating is harmless; orderly steps are stored |
| `intake_credentials` | 2 sources, 3 keys, 3 calls, 2 requests, 2 bodies | source and credential rows stay one pair; a revoked key is refused; who is marked as used has signed |
| `console_team` | the approvals page for an administrator, the settings page for an owner, 2 changes, 1 fault, fairness; 2 owners; a tab with 2 persons, 2 organizations, 2 channels, 2 faults | settled pages are fresh, own changes are shown, announced ones are shown in the end; the last owner is lost to an overlap only; the organization shown is one's own; the badge is live after every channel joined |
| `pipeline_reapplied` | 1 event, 2 workers | *violated:* `AppliedAtMostOnce` when calls overlap |
| `pipeline_unqueued` | 1 event, 2 deliveries | *violated:* `AcknowledgedIsQueued` |
| `replay_failure` | 1 request | *violated:* `FailureIsRecorded` |

`MCConsole` runs `Console`, `Team` and `Session` in one model: with a page
open the console moves, without one the team or the session does.  They share
no variable, so leaving out their interleavings leaves out no behaviour of any
of them.

### What the violated runs show

1. `pipeline_unqueued`.  README.md:90 says a signed event is "accepted,
   preserved, and queued".  Insert and enqueue are two requests.  If the
   second fails the provider gets 500 and retries; the retry meets the unique
   index and is answered `200 duplicate`.  The event stays `pending` and no job
   for it ever exists.
2. `pipeline_reapplied`.  ARCHITECTURE.md:138 says idempotency is enforced at
   the raw event level.  Worker A's call fails and is rolled back; worker B,
   which waited for A's lock, applies the event and commits; A's handler then
   sets the processed row to `failed`, and the next read applies it again,
   with a second notification and audit row.  What holds in
   spite of every overlap is in the run `pipeline_overlap` and in theorems:
   each further application needs one such handler (`AppliedOncePerUndoing`),
   and an event that is processed with no handler pending is final
   (`SettledForever`).
3. `replay_failure`.  ARCHITECTURE.md:122 draws `processing --> failed`.  The
   handler of `process_replay_job` looks for `processing`, which was written in
   the block just rolled back; a failing request stays `approved`, and after
   its jobs are dead letters it blocks further requests for its run.

### What the passing runs show beside their properties

- **The adapters** (`AdaptersAgree`) agree on run, workflow, status, clock,
  times, attempt, event id and steps of whatever both accept, times to the
  millisecond, with these exceptions, each a condition in the property:
  - blanks around an identity are kept by TypeScript and stripped by Python;
    an empty event id is none in TypeScript and an empty text in Python;
  - an attempt of 0, of a run or of a step, is kept by TypeScript, and then
    refused by the table's check (M1:148, M1:175) until the event is a dead
    letter, while Python makes it 1;
  - a whole float (2.0) is an integer to TypeScript and replaced by the default
    in Python;
  - n8n's `finished` and `retryOf` are flags: an empty list or object is true
    in JavaScript and false in Python;
  - a step's id or name is the same only if the first value that is not null is
    a text that is not empty or an integer that is not 0 (`Alike`): 0 is `"0"`
    and `step-1`, `true` is `"true"` and `"True"`, an empty id is kept by
    TypeScript, and passed over by the upsert, and replaced in Python;
  - a step's number or attempt may differ if it is brought under both of its
    names, or is a float, or a 0 that Python's `or` passes over (`SameNumber`);
  - a step's time may differ if its first name has an empty text.

  What only one of them accepts (a blank identity, a wrapper that is null, a
  number or an empty text in the first of two paths, a step's status under one
  of the second names only TypeScript knows) is no part of the property.
- **Steps** (`OrderlyStepsAreStored`, `RepeatIsHarmless`).  A source that
  numbers its steps by position and later inserts one in the middle moves the
  others' numbers: the upsert goes step by step, meets a number that is taken,
  and the whole event is refused.  It is refused as well for a step with
  attempt 0, which the adapter lets pass, or one that ends before the start
  the run already has of it, since `started_at` keeps its first value.  So the
  premises of the property: each step once, known steps keep their numbers, new
  ones bring free numbers (`Stable`), and each step satisfies the checks by
  itself and merged with its stored row (`InOrder`).  What remains to be shown
  is that, after any prefix of the loop and any interruption before, no step
  already written is in the way of a later one.  An event that lists one step
  twice is not idempotent, hence the premise of `RepeatIsHarmless`.
- **The ignored refresh** (`FreshWhenSubscribed`).  ASSUMPTIONS.md:25-26 has
  the browser refetch after messages or reconnection.  It does, except when a
  message, or the subscription itself, meets the first fetch of a page: that
  fetch goes on with what it has read and its result counts as fresh.
  `cached.unheard` marks this case and the property excludes nothing else.
- **Rotation** (`UsedKeySigned`).  `last_used_at` may be put on a credential
  that has signed nothing, if the one that has was revoked while the request
  was in flight; never otherwise.
- **The tab** (`WorkspaceIsOwn`).  Neither the saved selection nor the cache of
  an earlier person decides what the next one sees: the query is keyed by the
  person and the selection kept among the result.  Two things remain.  The
  memberships are as old as the query, so an ended one is shown until it is
  read again (`been`); and a query that failed counts as an empty list, so
  that a member may be offered the set-up of a new organization, which is the
  exception in the property.
- **The badge** (`LiveBadge`).  `liveTopics` only grows.  "live" means that
  every channel of this organization and token has joined some time since they
  were set up, and that the last thing heard was a channel joining; it does
  not mean that all are joined now, and TLC reaches states where one is not.
- **Owners** (`OwnerLostOnlyByOverlap`).  Two owners who demote each other at
  once both succeed and leave no owner: TLC reaches such states, and the
  property says that nothing less can.

### Bounds, and why they are enough

- `MaxAttempts` and `DeadLetterReads` are 5 in the code and 1 or 2 in the
  runs: the code compares with the threshold only, so below and at it are the
  cases.  Both counters stop at the threshold in the model, since the code
  never distinguishes values beyond it.
- `MaxApplications` bounds applications of one event, and the count `undone`
  with it.  2 admits the second application that `AppliedAtMostOnce` denies; in `core_overlap` and
  `apply_locks` it is 1, because two events already make every order of
  applications to one run, and the theorems need no bound.
- `MaxFaults` bounds failing calls, lost answers and killed functions.  One
  is enough for a fault and its recovery, two for a fault meanwhile.  In `ReplayControl` a failing dead-letter call is not
  counted: it only follows a failure that was.
- Times are 1 and 2: the code compares two of them.
- Two callers or workers make every overlap of two; a third adds no new pair
  of steps.  `ApplyTransaction`'s refinement is proved for any number.
- `MCEvents` varies all paths of one field together, because the adapters
  treat fields independently but for `started` and `ended`, whose order is
  tried across two events; and one step in every form of each of its fields,
  and in pairs, because the constraints relate two steps.  `MCSpec` delivers
  the varied payloads, which bring no steps, to a run without steps only.
  `MaxInteger` is 9 for 2147483647: a number is beyond it or not.
- Three keys and calls allow a rotation of a rotated key while another one is
  under way; two sources, a key of the wrong source; two requests, a marking
  by another request than the one that signed.
- `MaxChanges` 2: a change while another is being read, and one's own change
  between others'.  `MaxFaults` 1: one lost channel, renewed token, failed
  request or lost answer.  The approvals page has two requests, dialogs that
  outlive a switch and announced changes; the settings page has four requests,
  none of its changes announced.  The other pages are the same with fewer
  changes, and the theorems hold for any page.
- In `Session` two persons and organizations give every mix-up of two; one is
  a member, the other not yet, and `MaxStaffMoves` 1 lets a membership begin or
  end, or an organization be created.  Two channels stand for the four topics:
  the badge only counts them.  `MaxTabFaults` 2 lets a lost channel be followed
  by a renewed token, a reload or a failed query.
- In `RunTimeline`, `MaxSteps` is the 200 of the code; the lists tried have one
  or two steps, and `RunTimelineProofs` covers all lengths up to it.
- `CHECK_DEADLOCK FALSE` is set for `ReplayControl` and `WebhookIntake`: with
  every request closed or answered and no worker busy the system has stopped,
  which is its purpose.

### Fairness

`PipelineSpec` and `ReplayControl!Spec` assume weak fairness of reading (Cron
posts to `process-queues` every two minutes, `M5`:
`20260724000500_scheduled_queue_worker.sql`), of the next step of a worker
that is not killed (the function is a sequential loop of awaited calls), and of
each visibility timeout (60 seconds of wall time).  Nothing is assumed of
providers, operators or the webhook.  Faults are bounded, so that a worker is
not killed for ever; `DurableIntake` and `ApprovedIsServed` promise nothing
more than an archived or a dead-lettered job.

`Console!Fairness` assumes that the requests of a fetch are answered in the
end, that the Realtime library joins a channel it was asked for (after a
CHANNEL_ERROR or TIMED_OUT it rejoins with a growing delay) and that a message
on its way to a joined channel is delivered.  A CLOSED that the server sends is
outside this assumption: the library does not rejoin after it, and the page
then sees nothing of that topic until its channels are set up anew.  Nothing is assumed of users, of others who change the data, or of
the answer to a change of one's own.  That changes and faults are bounded
matters here: the code cancels a refetch at each message, so a stream of
messages that never pauses would starve it.

## The proofs

All from the assumptions named in the modules (`ConstantsAssumption`,
`PipelineAssumption`, ...), for any sets and bounds; `PipelineAssumption` says
that there are finitely many workers, because dead letters are counted against
them.

- `CanonicalEventsProofs`.  `TypeCorrect` comes first.  `TerminalRunFrozen`
  is an action property: `OnlyApplicationsChangeRuns` reduces it to
  `ApplyEvent`, whose guards do the rest.  `FailureHasIncident` and
  `OnlyNewestIncidentActive` are inductive only together (`IncidentInv`): a
  new incident is appended when none is active, and an incident exists because
  a terminal run can only be repeated.  `RawRowConsistent` is inductive with
  `TypeOK`.  `AppliedOncePerUndoing` is not: `UndoingInv` adds that an event
  that is not processed was turned back as often as it was applied, which
  leaves room for one application.  `SettledForever` needs no more than types:
  `RowSteps` lists the three kinds of step that write an event's row, and its
  guards or the missing handler exclude each (`SettledKept`).
- `ApplyTransactionProofs`.  `LockInv` says what a call knows once it is past
  each statement (`CallKnows`), that a raw event is locked by one call, and
  that a committing call shares its source with nobody (`CommitAlone`).  From
  it every statement is a step or a stutter of `CanonicalEvents`
  (`StatementImplements`), hence `LocksMakeItAtomic`.  The heart is the run
  that does not exist yet, which nobody can lock: two calls that both saw no
  row share the source, and neither can update it while the other does.
  `CallTypeCorrect` adds that a call's record has arguments exactly while it
  runs, `StatementsKeepRows` that the theorems on `CanonicalEvents` hold of
  every interleaving of statements.
- `EventPipelineProofs`.  Every step is put into one of four shapes
  (`PipelineShape`): an event is stored, a job is queued, a job leaves the
  queue, or all jobs stay where they are.  `PipelineInv` says what a worker
  knows between two calls, so that every step of the pipeline is one of
  `CanonicalEvents` or none (`PipelineImplementsCore`) and its theorems carry
  over; `PipelineKeepsRows` and `PipelineAppliesOnce` state them of the
  pipeline.  `QueueInv` relates deliveries, stored events and jobs; it gives
  `AcceptedIsNotLost`, `OneDeliveryQueues` and the safety half of the
  refinement (`IntakeImplemented`).  `ArchivedIsProcessed` needs what a worker
  about to archive knows (`ArchiveInv`): its event was processed, and by
  `DoneKept` the only step that undoes this is counted.  `DeadLettersEarned`
  needs to count: `DeadInv` says that the dead letters of an event and the
  workers that still hold its job (`Holders`) are together at most all workers, since a dead letter takes the job out of the queue and nobody can
  read it again; and that a worker holds one job per event at most (`Tidy`)
  and knows no more reads than there were.  `OnlyFailuresStrand` is the other
  side of the run `pipeline_unqueued`: by `StrandInv` an event without a job is
  about to get one or has a failed webhook, so that `AcknowledgedIsQueued`
  holds in every state before the first fault.
- `RuleAgreementProofs`.  The two transition tables are one relation
  (`SameTransitions`), and `IncidentAgrees` follows from `FailureHasIncident`.
- `ReplayControlProofs`.  `TypeOK` is not inductive, a worker about to call
  must have a job: `TypeInv`.  The steps are put into five shapes of what they
  do to the requests (`RequestsMove`), which is all `ReplayedOnce`,
  `OneOpenReplayPerRun` (inductive together, as `RequestInv`) and
  `DecisionIsFinal` need.  `ApprovedHasJob` is inductive as part of `JobInv`:
  the second job is only sent by an approval that stands, and who is about to
  archive it knows that the request is closed.  `TurnsImplemented` maps every
  step to one of `ReplayTurns` or a stutter; by `OneTurnMoves` an action on
  one request moves the turn of its own run only, which is where
  `OneOpenReplayPerRun` is needed: without it `turn[r]` would hold two
  requests.
- `WebhookIntakeProofs`.  `KeysApart` says that no two calls have generated
  one key, `JobsStored` that what is queued is stored; with them the types are
  inductive.  `OneActiveCredential` follows because a stored key is new.
  `RequestKnown` says what a request carries: past the lookup its key belongs
  to its source and had not been revoked when it was sent, which is
  `RevokedKeyRefused`; `UsedKeySigned` follows step by step from it.
- `ConsoleProofs`, for `Team`.  `LastOwnerLostByOverlap` needs no more than
  types: the update that takes the last owner away is by someone else,
  who was an owner in its snapshot and is none now.
- `ConsoleProofs`, for `Session`.  `TabInv` has four parts.  `StaffInv`: who
  is a member was one, and who lacked an organization is recorded.
  `FetchInv`: the fetch under a person's key is for that person, and what it
  or the cache holds was true at some time.  `ShownInv`: the selection is
  among the memberships on screen, because every action that changes them ends
  with `FallBack`; and data that is missing there is being fetched, or its
  query failed. `WireInv`: a channel heard of is joined or was lost since, and
  the badge is live only when all were heard of.  `WorkspaceAlwaysOwn` and
  `LiveBadgeEarned` follow at once; neither is inductive alone.
- `ConsoleProofs`, for `Console`.  `OwnInv`: once the answer has come, data
  that misses the change is being fetched again or known to be invalid.
  `AnnouncedInv`: data on screen, or being read, misses an announced change
  only while more is to come (a channel to join, a message to arrive) or the
  refresh was ignored. Both are about the fetch in flight too, because that
  becomes the data.
- `RunTimelineProofs`.  `AdaptersAlwaysAgree` is no induction over steps of
  the model but a case split over paths and values: which path `??` takes and
  which `or`, and what either makes of the value there.  It holds for any
  payload of JSON values, so also for those TLC does not try.  For the upserts
  the invariant says that a draft differs from what is committed only inside a transaction,
  and holds the steps done so far (`InTransaction`); that with stable numbers
  each of its rows is an old one or one this event has written (`OldOrNew`);
  that the run holds all steps and times of the event stored last
  (`LastIsStored`); and that numbers are unique in a run (`NumbersUnique`), as
  M1:183 demands.  From it `RepeatIsAlwaysHarmless` and
  `OrderlyStepsAlwaysStored`, for lists of up to 200 steps.

Only model-checked: liveness, which is out of the prover's reach (the fairness
half of `ImplementsIntake`, `ApprovedIsServed`, `ShownEventually`).  Every
other property of a passing run is stated by a theorem.  The violated ones are
shown by their counterexamples; for two of them a theorem says what holds
after all (`AppliedOnceUnlessUndone`, once per handler that turned the event
back; `OnlyFailuresStrand`, before the first fault).

## Not modelled, and simplifications

- The upsert of the workflow definition takes one more row lock, before the
  run's.  It only adds waiting, between events that name one workflow.
- Names but those of steps, summaries, error texts, durations, types, payload
  and attribution columns; the greatest lengths FastAPI allows a field, which
  make it refuse more.
- Which texts are times is taken to be the same for `new Date` and
  `datetime.fromisoformat` (`Instants`); what only one of them parses is
  refused by the other, or read in another time zone if it names none.  Whole
  numbers stand for all floats.
- Who may call a function: every operation is called by someone allowed to,
  except that pages offer changes by role, refusals are possible everywhere,
  and `Team` evaluates the policy on members.  The other policies are
  conditions on one row that relate no two steps.  Invitations, removals and
  ownership transfer have no code that calls them.
- A role that changes while a page is open.  `Session` has the membership
  without the role, and does not tell the channels of different set-ups apart
  once they are removed: all they can do is to set the badge to "connecting".
- Severity `critical` is written nowhere in the code and left out.
- The jobs of a batch are taken in any order; the code takes them in the order
  read.  An empty read is no step.
- `detect_incident` in Python has two rules the database does not: `high` for
  `SECURITY_` error codes, and a `low` incident for a success over its SLA.
  `IncidentAgrees` is stated for the other inputs.
- Redaction, replay simulation, analytics and demo data: pure functions that
  no other part uses.  Artifacts: one read and a signed URL.  Seeds, scripts,
  deployment; `database.types.ts`, which is generated and holds declarations
  only, a fifth of the counted lines.

## What could come next

1. The steps of `RunTimeline` inside `CanonicalEvents`, in place of the error
   `other`, so that the theorems speak of both.
2. `WebhookIntake` composed with `EventPipeline`: several sources and bodies
   in the proof that an accepted event is not lost.
3. A role that changes while pages are open: `Team` composed with `Console`.
4. `Session` composed with `Console`: the pages of the organization `Session`
   shows, with channels and requests of the one before still under way.
