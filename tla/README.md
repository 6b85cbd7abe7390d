# Formal verification of OPN Oracle

OPN Oracle is a multi-tenant Flask application whose slow work is done by Celery
workers and whose only durable truth is PostgreSQL
(`docs/architecture/0005-async-celery-redis.md`). This directory holds TLA+ models
of the parts where that truth is written by several processes at once, TLC
configurations that check them on small instances, and TLAPS proofs of what matters
most for every instance: the fencing of background jobs, the abstract job they
implement, the settlement of AI executions, the delivery of outbox events and of
e-mail, the inbox and its cursor, the life of a document, the publication of reports and
what a procurement watch tells. Paths below are relative to `src/`; `O/` stands for
`apps/api/src/opn_oracle/`.

- [1. The system](#1-the-system)
- [2. Modules](#2-modules)
- [3. Runs](#3-runs)
- [4. Fairness](#4-fairness)
- [5. Proofs](#5-proofs)
- [6. What the code does against its documents](#6-what-the-code-does-against-its-documents)
- [7. What is not modelled](#7-what-is-not-modelled)
- [8. Plan](#8-plan)

## 1. The system

### Processes

| process | runs | scheduling |
|---|---|---|
| web (Gunicorn) | the Flask routes; each request is one or more PostgreSQL transactions and may publish a message after its commit | on demand, may die anywhere |
| workers | Celery, `acks_late`, prefetch 1, queues `default, maintenance, signals, ai, documents, notifications` | hard limit 720 s for durable jobs, 60 s for signal tasks |
| beat | one process; publishes the maintenance tasks every 30 s to 1 h (`O/celery_app.py:39`) | one per environment, but a slow tick overlaps the next |
| Redis | broker and results; may lose messages and delivers at least once | |
| providers | LLM, Signal Avanza, SMTP, object storage, scanner | answer late, twice or never |

### Components

**Background jobs** (`O/jobs/`, `O/oracle/jobs.py`). A `background_jobs` row is
staged in the transaction of the request that wants the work and published after the
commit. State: status, stage, Celery task id, version (the ETag), attempts,
`cancel_requested`, `retryable`, execution lease. Operations: publish and the beat
dispatcher (`dispatch_queued_jobs`), delivery (`execute_durable`), cancel and retry
routes, recovery of expired leases (`recover_stale_jobs`). Hard: delivery is
at-least-once; publishers, cancel and retry read the row *without* a lock and flush
what they changed; leases can run out under a live worker. Correct when: one worker
at most can write the outcome; the handler does not run twice at once; attempts are
bounded; a cancellation is honoured; no job is left behind.

**AI execution** (`O/ai/service.py`). `execute_agent` runs inside a durable job. It
takes the slot (job, agent) in `ai_audit_logs`, reserves the tenant's budget in
`ai_usage_ledger` under the policy's row lock, records the `generate` and `reviewer`
attempts, each with an execution token and a lease, calls the LLM *between*
transactions, and settles. Recovery releases what expired leases hold. Hard: a call
that outlives its lease comes back after its slot was given away; a worker dies
between two commits. Correct when: reservations fit in the budget and the
concurrency limit, the artefact, audit and ledger agree, success is final, and every
reservation ends.

**Signal outbox** (`O/integrations/routes.py`, `tasks.py`, `service.py`). What a user
wants of a Signal Avanza monitor (create, pause, resume, update) is an
`integration_outbox_events` row staged with the change of the monitor and delivered
by `dispatch_outbox`; beat reconciles what is due or abandoned
(`oracle_signal_outbox_due`). Hard: two events of one monitor travel independently; a
message comes twice; the worker dies before or after the provider applied the call.
Correct when: an event has one deliverer, a delivered event is final and was
applied, every event ends, and, once all is delivered, Oracle and Signal agree.

**Signal inbox and synchronisation** (`O/integrations/webhooks.py`,
`tasks.py:277`, `service.py:640`). A webhook is stored once per provider event id and
processed by a task that claims the row for two minutes; beat reconciles what is due
(`oracle_signal_inbox_due`). `sync_monitor` pulls pages behind a cursor, under a
try-lock. Both end in `_ingest_item`. Hard: the two ways bring the same item, events
come repeated and in any order, a transaction fails between two pages. Correct when:
an event takes effect once, an accepted event ends, the cursor passes nothing that
Oracle does not have.

**Documents** (`O/documents/`). An upload commits a document, its first version and a
job; `process_document` scans, parses and chunks under an attempt whose token and
lease it renews (compare and set); an hourly task recovers expired attempts and purges
deleted documents; routes delete and reprocess. Hard: the recovery and the routes read
the document without a lock and write it later; a slow scan outlives its lease.
Correct when: a ready version was earned by one successful attempt and keeps its
chunks, deletion is final, every version ends, the document shows what became of its
current version.

**Object storage, artefacts and exports** (`O/documents/service.py`,
`O/documents/routes.py`, `O/reporting/artifacts.py`, `O/reporting/exports.py`). Objects are
written outside the transactions that name them, taken back when those fail, purged
with their rows, and collected by `reconcile_storage_orphans` when no row names them.
Hard: every order of store, commit, crash and cleaning. Correct when: what a row
offers can be read, nothing else stays, uploads stay within the quota.

**Reports** (`O/reporting/service.py`, `O/reporting/routes.py`). Generated inside a
fenced job; revised, reviewed and published by requests that load the report without
a lock, publication alone locks. Correct when: one report of a template is published,
what is published was approved, and stays what was published.

**E-mail** (`O/jobs/tasks.py:247`, `O/reporting/notifications.py:357`,
`O/notifications/email.py`). Password resets, invitations and notifications mailed
inside a durable job, with a mark committed before the SMTP call and checkpoints that
lock the job's row. Hard: what a crash between mark and answer means; a takeover or a
cancellation between check and mail. Correct when: one copy at most, mailed under the
lease, and no live link of a failed delivery.

**Procurement watch and schedules** (`O/oracle/procurement_search_watch.py`,
`O/integrations/procurement.py`, `O/jobs/tasks.py:1579`). A user saves a tender search at
Signal and may have it watched: a `job_schedules` row makes beat stage a scan when it is
due, job and next occurrence in one commit; the scan holds the watch's row while it asks
Signal page by page, compares hashes with what Oracle has seen, and commits items and one
notification together. State: the profile's search id, the watch, its schedule, the items
seen, the jobs. Hard: the outcome of the job is a transaction of its own, so a scan whose
news are told can run again over a list that has changed; saving and deleting a search
call Signal between Oracle's transactions; three rows say whether something is watched.
Correct when: what is recorded is told once, the three rows agree, and a watch that stays
enabled catches up with Signal.

**Custom reports** (`O/oracle/custom_reports.py`, `O/oracle/custom_report_lifecycle.py`). A
brief is planned by a job; a user edits, rejects or accepts the plan, which freezes a
snapshot; a job writes the draft from it, a third one reviews the draft and publishes the
artefact. State: the report's life, plan, snapshot, fence, draft and artefact, all in one
JSON column, and one job per step under a key that holds the snapshot. Hard: handlers and
requests copy the whole column without a lock and write the whole of it later, a handler
after a call of the provider; a key outlives the attempt it was made for. Correct when: a
download was made of a reviewed draft of the snapshot it names, `ready` and `cancelled`
are final, and a failed report can be generated again.

**Conversations, investigations** (`O/oracle/conversations.py`, `investigations.py`).
Handlers of durable jobs and requests over one row each. *Not modelled yet*; see section 8.

The remaining components (alerts, dossiers, authentication, tenants, platform administration, memory, front end,
infrastructure) are listed in `PROJECT.json` with the reason each is left
out, and in section 7.

### Interaction

```
 routes --stage row--> PostgreSQL <--lock / CAS-- workers --calls--> LLM, Signal, SMTP
   |                      ^   ^                     ^
   +--publish--> Redis ---+---|---at-least-once-----+
                              beat: dispatch, recover, reconcile
```

A durable job's handler is where most other components run: AI executions,
documents, e-mail and reports rely on the job's lease for exclusion and on its
retries for progress; each of their modules has the job reduced to what its handler
looks at, and `FencedJob` states what that reduction may rely on. The AI execution has leases of its own because the job's
lease may be taken over while a provider call is under way.

## 2. Modules

| module | what it is |
|---|---|
| `BackgroundJobs` | one job row, workers, publishers, cancel and retry requests, beat |
| `FencedJob` | the abstract job: leases granted, lapsed, revoked, and who may settle |
| `MCBackgroundJobs` | symmetry for TLC |
| `BackgroundJobsProofs` | types, fencing and exclusion; `BackgroundJobs` implements `FencedJob` |
| `AIExecution`, `MCAIExecution` | the slots, ledger rows and executions of one tenant |
| `AIExecutionProofs` | reservations, artefacts, concurrency, final success |
| `SignalOutbox` | one monitor, its events, workers, clients and the provider |
| `DocumentProcessing`, `MCDocumentProcessing` | one document, its versions, attempts, jobs and requests |
| `DocumentProcessingProofs` | earned readiness, final deletion, what a document shows at rest |
| `ReportWorkflow`, `MCReportWorkflow` | the reports of one template, their jobs and requests |
| `ReportWorkflowProofs` | one publication, and what it was approved by |
| `ArtifactStorage` | objects, uploads, exports, purges and the orphan cleaner |
| `EmailDelivery` | one message and the job that mails it |
| `SignalInbox` | the webhooks and the synchronisation of one monitor |
| `SignalInboxProofs` | one effect per event, the cursor |
| `ProcurementWatch` | the watch of one saved tender search, its schedule and its scans |
| `ProcurementWatchProofs` | news told once, rows that agree |
| `MCServices` | reports, e-mail, inbox and watch side by side |
| `ServicesProofs` | e-mail: one copy, mailed under the lease, dead links; what is proved of reports, inbox and watch holds of the composition |
| `CustomReports` | one custom report, the jobs that work on it and its users' requests |
| `MCPlatform` | outbox, agents, object store and custom reports side by side |
| `PlatformProofs` | outbox: one deliverer, final deliveries, what a patient user finds; the object store: what is offered is there, the quota; the agents' limits in the composition; custom reports: reviewed downloads, what is settled stays |

Conventions. One action is one committed transaction, or one external call. A
transaction that holds `SELECT ... FOR UPDATE` from its first read to its commit is
one action; one that reads without a lock is two, its SELECT and its commit, with
everybody else in between. Faults are actions guarded by `Fault(kind)`: a
configuration says which kinds may happen and how many in one behaviour
(`MaxFaults`). Definitions named `Bug...` stand next to the definition they mutate;
they are no part of the specification and document which plausible mistake each
property catches. `PROJECT.json` maps every definition to its lines.

### BackgroundJobs

Rows do not interact, so one row is modelled. The abstraction keeps every column the
control reads and drops payloads, results, messages and times; a time is replaced by
the only question asked of it: has the lease expired (`expired`), is the publisher's
claim two minutes old (`claimOld`).

- `Flush(row, snap, new)` is SQLAlchemy's unit of work: an unlocked session writes
  only the columns in which its object differs from what it read. It is used by
  `NotePublished` (`publish_claimed_job` after `apply_async`), `CommitCancel` and
  `CommitRetry`. Modelling these as whole-row writes would hide some races and
  invent others; for instance a retry does not clear a `cancel_requested` set
  between its SELECT and its commit.
- Publishing is `PublishJob`/`DispatchQueuedJob` (claim, committed), `LoadClaimed`
  (reads the task id), `ApplyAsync`, `ReloadPublished`, `NotePublished`: five steps,
  between any two of which a worker may take the job, recovery may requeue it or
  the publisher may die.
- Delivery is `IgnoreDelivery`, `CancelDelivery` or `ClaimDelivery`; execution is
  `StartHandler` and then one of `Succeed`, `StopCancelled`, `FailPermanently`,
  `ExhaustRetries`, `BackOff` (then `ResendMessage`), or `LeaseLost`. The broker is a
  set of task ids, and `Receive` may leave the copy there: duplication needs no
  fault.
- `LeaseExpires` with a live owner is the fault `overrun`: the lease is the hard time
  limit plus 60 s, so it takes a stopped process. `stall` is the same for unlocked
  readers. They are faults so that runs and theorems can say which results survive
  them.
- The version is carried because the routes compare it with `If-Match`.

### AIExecution

A job stands for its slot (one agent per job), an execution for the token it draws.
`Reserve` is the first transaction (`service.py:1360-1543`), under the slot's
advisory lock and the policy's row lock, so the quota check and the insertion are one
step. `MarkRunning` is the second one, and it is *not* fenced in the code: it writes
by primary key, so the model lets it reopen an attempt that recovery abandoned (fault
`stall`). `Checkpoint`, `Settle` and `LoseFencing` follow a provider call and are
guarded by `Holds`, the conjunction of the rows the code locks and compares.
`FailCall` and `FailUnfenced` are `fail()`. `RecoverAttempt` and `RecoverJob` are
`recover_stale_ai_executions` and `recover_stale_jobs`, in that order because the
task runs them in that order. `Deny` covers every refusal before a reservation (slot
taken, quota, policy, context): nothing of it is persisted, and the model leaves it
always possible, which can only add behaviours. The job is the part of
`BackgroundJobs` an execution depends on: running for one holder, requeued on a
retriable failure while attempts are left, requeued by recovery.

Costs are taken so that a generate and a review together fit in the reservation
(`AIAssumption`), which is how the reservation is computed from the registry's token
limits. One month and one day are modelled; `SpentOn` adds what `fail()` adds, every
committed attempt of the audit.

### SignalOutbox

An event stands for its idempotency key. `CommitAction`, `RepeatAction` and
`StageUpdate` are the routes; pause and resume read the monitor without a lock
(`ReadMonitor`) while an update holds it. `Claim`, `ProviderApplies`, `Deliver`,
`FailPermanently`, `FailTemporarily` are `dispatch_outbox`. The provider applies each
key once; a temporary failure may come before or after it did. `Deliver` writes
`observed := desired` of the moment of delivery, whatever the event was, as the code
does. `ClaimAges` is possible only when no worker holds the event: the task's hard
limit (60 s) ends a delivery before its claim is two minutes old. The broker is a
set of events; the fault `redelivery` keeps the received copy there. `Patient`
restricts the *users*, not the system: they act only when everything staged has
ended.

### FencedJob

Five variables: whether the job has an outcome, which lease may settle it, how many
were granted, which have lapsed, which executions go on. A lease is granted only when
none that has not lapsed stands, and only the holder's execution settles. The mapping
(`BackgroundJobs`, `Fenced == INSTANCE FencedJob WITH ...`) takes `ended` from the
status, `holder` from the row's lease, `issued` from the leases drawn, `lapsed` from
the expired ones and `executing` from the workers' own copies. Publishing, the broker
and every message vanish; cancel and retry requests become `Cancel` and `Reopen`.

### DocumentProcessing

A document with up to `MaxVersions` versions; attempts and jobs are sequences in the
order of creation, tokens are positions in them. `Start` is the first transaction of
`process_document`, `Scanned` and `Parsed` the renewals after the scanner and the
parser (which run between transactions), `Settle`, `Quarantine` and `Fail` the last one;
`Renewable` and `Fenced` are the comparisons `_renew_attempt` and the final transaction
make. `StartDeadlocks` is the execution PostgreSQL ends when it wants the attempt
that recovery holds while recovery wants its document. Recovery is `ReadExpired` (locks
attempt and version, reads the document) and `Recover`; a delete or a reprocess is
`ReadForRequest` and a commit through `Flush`. `CheckHolds` is the table's constraint
`document_deleted_state`, which is what stops a stale commit over a deletion. The
fault `slow` is a scan or a parse that takes longer than the 60 s a renewal grants
(`O/documents/service.py:76`).

### ReportWorkflow

The reports of one template by generation. `StartGeneration`, `FinishGeneration`,
`LoseLease` and `FailGeneration` are `process_report`; the last one is fenced neither in
the code nor in the model. `Load` is the unlocked read of a request
(`O/reporting/routes.py:110`), `CreateHumanRevision` and `ReviewReport` commit through
`Flush`; `PublishReport` holds an advisory lock and the row's lock from its read to its
commit. The unique number of a revision refuses the second of two editors.

### ArtifactStorage

An object is `absent`, `fresh` or `old` (more than a day), which is all the cleaner
asks of its time. An upload or an artefact is stored under the quota's advisory lock
(`StoreObject`), then committed or taken back; `PublishFails` is the handler that takes
back the object of a document it has already committed. Exports have a key per lease,
so a stale execution takes back its own object. `ReadReferences` computes the orphans
from the three tables, `DeleteOrphan` removes them one by one while everybody else
goes on. `PurgeDocuments` takes a batch in no order, of deleted documents whether
purged before or not, as the query does.

### EmailDelivery

One message of one of three kinds. A checkpoint locks the job's row until the next
commit (`locks`); resets commit `delivered_at` under that lock, an invitation takes a
third checkpoint, a notification never looks at the job. `SendMail` lets the provider
accept, refuse, or answer nothing after accepting or not. `Revoked` is
`_revoke_email_delivery`; `EndJob` is the outcome of the durable job, fenced by the lease.
The job is moved by `RecoverJob`, `RequestCancel`, `RetryJob`, `CancelDelivery` and
redelivery (`Begin` needs no message of its own). `UseToken` is the route of
the recipient.

### SignalInbox

What happened at the provider is a sequence; an event is an item or a status. `Webhook`
stores an event, `Claim` commits `validated`, `ReadRows` reads the monitor and the
record, `ApplyStatus` or `Ingest` commits. `ClaimLapses` needs that no worker has the
event: the task's limit is one minute, the claim lasts two. `LoadMonitor` and `LockMonitor` are
the row loaded before the try-lock; `ReadEntry` walks the pages inside one transaction
that `FinishSync` commits or `FailSync` rolls back. `Refused` is the unique constraint on
the ingestion records: of two transactions that see an item first, one fails.

### ProcurementWatch

One profile and its watch. An *edition* stands for the hash of a tender's material
fields: a tender whose fields return to an earlier state is a new edition, as it is a
changed hash for the code. A page holds one tender, and a tender that is listed stays
listed, so two pages of one scan can show different moments of Signal's list.

- `DispatchDueJobs` stages a scan whenever the schedule is enabled: that the cadence has
  passed is left to chance. `Jobs` are the rows that have not ended; a slot is used again
  when no worker refers to it. `Begin`, `EndJob`, `RecoverJob`, `WorkerDies` are the job as
  far as a handler can tell; a retry is queued again while attempts are left.
- `LockWatch`, `ReadPage`, `CommitScan`, `ScanClashes`, `ScanFails` are
  `scan_procurement_search_watch`; the row is locked from the first to the last
  (`WatchLocked`), and `News` and `Note` are computed from what was read. The deduplication
  key of the notification is the job, so `note` belongs to the job: a second run finds
  the first one's notification under its key, and if it has other things to say,
  `create_notification` refuses it (`Clashes`), everything is rolled back and the job
  fails.
- `SaveCalls`, `SaveCommits`, `SaveFails` are `save_profile_watch`, which holds the profile
  while Signal answers; `DeleteAtSignal`, `Retire`, `DeleteDies` are
  `delete_tender_search`, which holds nothing then. A retired watch is revived by the
  next save, with the items it had seen. `Age` is the passing of 90 days, longer than any
  job lasts; `PurgeMemory` the retention task.
- `TenantBound` says whether `flask.g.active_tenant_id` is set where the scan runs. TRUE is
  what the tests arrange, by passing a runner of their own; FALSE is a Celery worker
  (section 6).

Left out: review marks, the cap of twelve enabled watches, the cadence, budgets of pages
and results, and the cut of a notification's text at 1000 characters (an edition counts
as told when the notification was made of it).

### MCServices

Reports, e-mail, inbox and watch share no row, so interleaving them would multiply
states and show nothing. The variable `focus`, chosen initially, says which component a
behaviour moves; the others keep their initial values. Each component's state space is thus
explored whole, and one run checks them all. The instances are of the components' proof
modules where those exist, so that `ServicesProofs` can cite their theorems.

### CustomReports

The options of the row with the columns the control reads, and the job the row names. A
draft is named by its snapshot, an artefact by draft and snapshot. `Start` is the claim of a
job and the handler's copy of the options, which the provider call separates from the
commit: `ProposePlan`, `WriteDraft`, `FailReport`, `PublishArtifact`, `Drop` and
`RaiseError` commit what the handler made of the copy with the outcome of its job, and
`RollBack` is what is left to a worker that lost its lease or whose job was cancelled.
`Needed` and `Fenced` are the handlers' early returns. A request is `Load` (the unlocked
read, `If-Match`, `_TRANSITIONS`) and its commit through `Flush`. `StartGeneration` is
staged under the key of its snapshot: `Staged` keeps an existing job, and where the
payload differs the request is rolled back. `frozen` and `approved` remember what was
accepted and approved; no action reads `approved`.

`calm` restricts the *users*, as `Patient` does, and is chosen in the initial state: in a
calm behaviour a request that another commit has overtaken is not committed, a brief is
edited only when its planner has ended well, and nobody has the planner run again. What
holds in calm behaviours only says so.

### MCPlatform

`SignalOutbox`, `AIExecution`, `ArtifactStorage` and `CustomReports`, and a `focus` as in
`MCServices`; the constant `Foci` says which of them an instance has. Uploads and exports
are two foci of `ArtifactStorage`: they meet in the cleaner, whose sets speak of both, but
not in each other's rows; the proofs are of the store's whole `Next`. Two configurations: `platform.cfg` is fair (its `Fairness`
repeats that of the specifications under the condition that the behaviour belongs to
them, as otherwise an idle component's fairness would leave no behaviour), `patient_users.cfg`
is a safety run with symmetric workers and users that wait.

## 3. Runs

All passing runs finish within five minutes; state counts are distinct states. The
symmetry of workers or jobs is used in safety runs only. Deadlock is not checked:
a behaviour may end (the job is terminal, clients do not act again).

| run | instance | checks |
|---|---|---|
| `jobs_faults` | 2 workers, 1 dispatcher, creator; `MaxAttempts` 2; any two of the ten faults | `TypeOK`, `OneOwner`, `AttemptsBounded`, `RefinesFencedJob` |
| `jobs_routes` | the same and one canceller, one retrier; `MaxAttempts` 1; one refused publication or dead request (0.5 M) | `HandlerExclusion`, `CancelIsHonoured` |
| `jobs_live` | 2 workers; crashes, killed children, refused publications, dead publishers, any two; fair | `NeverStranded`, `EventuallySettled` |
| `ai_faults` | 2 jobs, 3 executions, budget for one reservation, 2 faults of 4 kinds (1.1 M) | `TypeOK`, `BudgetKept`, `ArtifactsSettled`, `ReservationsRecoverable`, `SuccessIsFinal` |
| `platform` | outbox: 2 workers, impatient client, 2 events, 2 faults of 4 kinds; agents: 2 jobs competing for concurrency 1, 4 executions, one fault; storage: 2 documents and a quota of one, an artefact, an export with 2 leases, 2 faults of 3 kinds; fair (154 k) | `ClaimedOnce`, `DeliveredIsFinal`, `OutboxDelivers` (`DeliveriesEnd`), `ConcurrencyKept`, `AgentsEnd` (`JobsEnd` and `ReservationsEnd`), `Readable`, `QuotaKept`, `NothingLingers` |
| `patient_users` | outbox: 2 workers, patient client, 4 events, crashes and lost messages; custom reports: 2 workers, 1 client, 2 snapshots, one fault, calm or not (2.5 M) | `InSyncWhenDelivered`, `DownloadsAreReviewed`, `SettledStaysSettled` |
| `documents` | 2 workers, 2 requests, 2 versions, one crash or slow scan, infected or clean; fair (187 k) | `TypeOK`, `ReadyIsEarned`, `StatusAtRest`, `EndsAreFinal` (`DeletedIsFinal` and `ReadyIsFinal`), `VersionsEnd` |
| `services` | four foci, each with racing actors and one or two faults; fair (128 k) | `TypesOK`, `PublicationsAreSound` (`OnePublished` and `PublishedIsApproved`), `AtMostOnce`, `FailedLinksAreDead`, `MailedUnderLease`, `AppliedOnce`, `CursorSkipsNothing`, `EventsEnd`, `NewsToldOnce`, `LinksAgree`, `ScansCatchUp` |

Four runs expect a violation; section 6 says what they show: `jobs_two_retries`,
`reports_race`, `watch_blind`, `custom_retry`.

### What the runs show

*Jobs.* `jobs_faults` and `jobs_routes` ask two different questions. Under every
fault, two workers may *run* the handler at once, and the promise is that one of
them at most can write (`OneOwner`); `RefinesFencedJob` says that
and that nothing else of the row's life is visible to a handler. When leases outlive workers the
handler itself is exclusive (`HandlerExclusion`). `jobs_live` shows that the
combination of publisher claims, stale claims, recovery and retries leaves no gap for
the faults listed; adding `lost_retry` or `lost_message` opens one (section 6).

*AI.* `ArtifactsSettled` relates four tables; it is where a late answer of a fenced
execution, a failure path that writes too much or a recovery that races the last
transaction would show. `ReservationsRecoverable` is why recovery is complete: it
looks for open attempts only, so a reservation without one would stay for ever.

*Outbox.* `DeliveriesEnd` needs the reconciler's second disjunct (abandoned claims).
`InSyncWhenDelivered` holds for patient users and fails without patience.

*Documents.* `ReadyIsEarned` and `ReadyIsFinal` relate a version, its attempts and its
chunks over the whole life of a document: an attempt that lost its lease, a recovery
that read the document before it was replaced and a reprocess all commit late.
`DeletedIsFinal` is kept by the table's constraint, not by the code that writes.
`StatusAtRest` holds up to `Overtaken` (section 6), which the property names.
`VersionsEnd` assumes finitely many slow scans.

*Storage.* `Readable` and `NothingLingers` are the two sides of the cleaner: it takes
nothing a row is about to name, and everything no row names.

*Services.* `AtMostOnce` is the
promise of `docs/operations/CELERY_REDIS.md` for plain SMTP; it rests on the mark, the
checkpoints and the row lock together, which is why it is proved as well.
`CursorSkipsNothing` is what a webhook and a synchronisation that race for the first
sight of an item could break. `PublishedIsApproved` survives stale approvals because
publication looks at the revision and not only at the report.

*Watch.* `NewsToldOnce` is the sentence of
`docs/implementation/prompts/83_LO_QUE_YA_VISTE_NO_ES_NOVEDAD.md:56`, with the clash of
keys as the delicate case: if a taken key were taken for the same notification, what the
second run records would never be told. `LinksAgree` spans every order of save, delete and
configure. `ScansCatchUp` needs that a scan which clashed or failed is followed by another.

*Custom reports.* `DownloadsAreReviewed` survives every late copy of the options, because
snapshot, draft, artefact and life are written together: what is undone is undone whole.
The comparison of the job's snapshot with the report's is what keeps a job of an earlier
snapshot from adding its draft to a later one. `SettledStaysSettled` needs that the report names the job that will write it
next, so that a cancellation finds it; it fails for users who are not calm (section 6).

### Bounds

Two workers are the smallest number that can compete, take over and hold a stale
lease at once; every exclusion property speaks of pairs, and the
theorems of section 5 remove the bound. Two attempts give a retry and an exhaustion. One dispatcher
plus the creator (and a retrier) are two publishers of one row. `MaxFaults` 2 lets a
fault hit the recovery from a fault. Three AI executions are a first, its replacement
and a competitor on the other job; in `platform` four let each of two jobs use a second
one. The budgets allow exactly one or two reservations, so that the limit is met.
Two outbox events are a creation and a change that can overtake; four give create,
change, change back and an update. Two versions of a document are one and the one that
replaces it; two requests let a deletion race a reprocess. Two generations of a report,
two revisions and four requests give an approval, a revision, a second approval and a
publication over an older one. A quota of one and two documents make the second upload
meet the limit; two leases give an export a stale and a new execution. In `services` the watch has one worker, one job slot, one
tender with two editions and two searches: an expired lease queues the job again under its
worker, and the two searches are the deleted one and its successor; with two workers and
two tenders (258 k states, checked apart) the same holds. Two snapshots of a custom report are the
accepted one and one accepted over it after a late planner; two workers hold two of its
jobs, or the lost and the new lease of one; two clients and one snapshot
(261 k states without faults, 1.2 M with one, checked apart) keep the same properties. Two provider
events are two contents of one item, or an item and a status. Attempts are bounded by
`MaxAttempts`, leases and task ids by attempts and faults, events by `MaxEvents`,
executions by `MaxExecutions`, requests by `MaxRequests`; no other counter grows.

## 4. Fairness

- Jobs: weak fairness of each worker, each publisher once it has started, the
  dispatcher, clocks and recovery. Justification: Celery restarts children, the hard
  limit ends handlers, beat ticks every 30 s (dispatch) and 300 s (recovery). A request
  that has been read is answered; *nothing* makes a client send one, and no fault has
  to happen.
- AI: each execution goes on (provider calls have timeouts below the job's limit),
  deliveries, lease clocks and recovery go on.
- Outbox: workers, backoff and claim clocks, reconciler (30 s). Clients are not fair.
- Documents: workers go on, leases run out, the hourly recovery runs, a request that
  has read is answered. Requests do not have to come, and the purge does not have to run.
- Storage: who has begun to write ends, time passes, purges and cleaner run. The purge
  is fair as a whole, which reaches every document only while a batch is no smaller than
  the deleted documents (section 6).
- Inbox: workers go on and claims lapse (weak); the reconciler is *strongly* fair for
  each event. A worker that is busy with another event disables the claim of this one
  for a while, again and again; the message waits in a queue that is first in, first
  out, and beat repeats it every 30 s, so a due event is taken in the end.

- Custom reports (`custom_retry`): users ask for a retry as long as the report has failed,
  and are answered. The property is about calm behaviours.
- Watch: beat stages a scan of an enabled watch again and again, the worker goes on with
  what it has begun and what a dead one left is recovered. No user has to act, and no
  request has to end.

Fairness of a worker is of the disjunction of its actions: no outcome (success, say)
is forced; jobs end because attempts are bounded.

## 5. Proofs

Everything below holds for every number of workers, dispatchers and requests, every
bound and every set and number of faults; the only assumptions are the modules' own
`ASSUME`s on their constants and the hypotheses named.

`BackgroundJobsProofs`:

| theorem | statement | argument |
|---|---|---|
| `TypeCorrect` | `Spec => []TypeOK` | inductive, one case per action; `FlushType` for the unlocked commits |
| `Fencing` | `Spec => []LeasesFenced` | inductive with `TypeOK`: the row's lease is absent or the newest, executing workers hold distinct issued leases |
| `SingleOwner` | `Spec => []OneOwner` | from `LeasesFenced` |
| `OutcomesAreFenced` | `Spec => FencedOutcome` | every step that leaves the handler and changes the row needs `Owns`, and what is owned is the newest lease |
| `HandlerRunsAlone` | `NoOverrun /\ OneRetrier => (Spec => []HandlerExclusion)` | inductive invariant `ExecutionGuarded` with `ExpiredIssued` and the two above |

`NoOverrun` (the fault `overrun` is not in the instance) is the code's own design
assumption: the lease is the hard time limit plus a minute. `OneRetrier` is needed:
with two racing retries the property is false (`jobs_two_retries`).
`HandlerExclusion` is not inductive: a worker may start the handler because nothing
in it says that the other executing worker has lost the row. `ExecutionGuarded` says
so, and its second conjunct is what a retry's unlocked read relies on: from its
SELECT to its commit nothing executes. `ExpiredIssued` (an expired lease was issued)
makes a fresh lease a live one. The lemmas `...Writes` describe the three unlocked
commits by the columns they can change, which is all the invariants need of `Flush`.

The refinement, in the same module:

| theorem | statement | argument |
|---|---|---|
| `JobsAreFenced` | `OneRetrier => (Spec => RefinesFencedJob)` | each action maps to an action of `FencedJob` or a stutter, given `TypeOK`, `LeasesFenced` and `IdleUnleased` |

`IdleUnleased` is the strengthening this needs: a row that is queued, retrying or
ended (cancelled apart) has no lease, and none is taken while a retry that has read the
row is about to write it. Without it `CommitRetry` could not be mapped to `Reopen`,
and with two retriers it cannot be: `jobs_two_retries` again.

Attempts, cancellations and progress, in the same module:

| theorem | statement | argument |
|---|---|---|
| `CancellationsAreHonoured` | `Spec => CancelIsHonoured` | an action property: a claim and a success read the flag in the row they write, and `...Keeps` and `...Spends` say that a stale commit clears it only when the row is retried |
| `AttemptsAreBounded` | `Spec => []AttemptsBounded` | `AttemptsCounted`: whatever can be claimed has an attempt left (a lease that ran out adds one), and a retry finds a row that has attempts to reset |
| `NeverLeftStranded` | `Quiet => (Spec => []NeverStranded)` | `MovingOn`: what waits has a message or a stage the dispatcher selects, and the publishers under way have read the job's present task id |

`Quiet` says what the last one needs: no requests, and none of the faults that lose a
message or let a lease run out under a live worker or publisher. Each of the four
faults strands the job in a small instance, and so does a canceller (section 6).

`ServicesProofs`, about `EmailDelivery`:

| theorem | statement | argument |
|---|---|---|
| `TypeCorrect` | `Spec => []TypeOK` | one case per action |
| `OneCopy` | `Spec => []AtMostOnce` | `OneSender`: without deduplication one worker at most is between the mark and the mail, and nothing was mailed before the mark; with it the provider keeps the count |
| `MailsUnderLease` | `Spec => MailedUnderLease` | `LeaseRuns` (a lease stands on a running job, who executes was given one) and `SentUnderLock` (who sends a token holds the lock, the lease and an uncancelled job) |
| `FailedLinksDie` | `Spec => []FailedLinksAreDead` | `TokenMailed` (what was mailed about a token had one) on top of these |

`AtMostOnce` alone is not inductive: that the second worker finds `started` is what
`OneSender` adds. `SentUnderLock` is the meaning of a checkpoint: from its return to the
next commit nobody writes the job.

`ServicesProofs`, about `MCServices`:

| theorem | statement | argument |
|---|---|---|
| `TypesAreCorrect` | `ServicesSpec => []TypesOK` | the components' `TypeCorrect` |
| `PublicationsStaySound` | `ServicesSpec => []PublicationsAreSound` | `OneReportPublished`, `PublicationIsApproved` |
| `EventsApplyOnce`, `CursorIsSound` | `ServicesSpec => []AppliedOnce`, `[]CursorSkipsNothing` | the theorems of `SignalInboxProofs` |
| `NewsAreToldOnce`, `LinksAlwaysAgree` | `ServicesSpec => []NewsToldOnce`, `[]LinksAgree` | the theorems of `ProcurementWatchProofs` |

Each cites a component's theorem through `INSTANCE`, under `ServicesAssumption`, and a lemma
(`ReportsRefined`, `InboxRefined`, `WatchRefined`) that the composition implies the component's
specification: it starts in one of its initial states, and a step of another focus
leaves its variables alone.

`AIExecutionProofs`:

| theorem | statement | argument |
|---|---|---|
| `ReservationsAreRecoverable` | `Spec => []ReservationsRecoverable` | `ReservationSound`: a slot is running exactly while its ledger row is reserved, and then the execution whose token the row holds has an open attempt with that token |
| `ArtifactsAreSettled` | `Spec => []ArtifactsSettled` | `ArtifactSound`, with `ExecutionSound` (an execution has exactly the attempts its process has come to) |
| `TypeCorrect` | `Spec => []TypeOK` | `Shapes`, and `Amounts` for the ledger: what a slot has spent is a sum |
| `BudgetIsKept` | `Spec => []BudgetKept` | `Amounts`: a reservation is added to a sum that leaves room for it (`ReserveAmounts`), and what ends takes no more than was reserved for it (`SlotAmounts`) |
| `LimitsKept` | `Spec => []ConcurrencyKept` | inductive with the above: a reservation counts the reserved rows in the same step in which it takes one |
| `SuccessStays` | `Spec => SuccessIsFinal` | no action writes a slot whose audit has succeeded: `Holds` needs a running one |

`ArtifactsSettled` alone is not inductive: that the execution behind an artefact is over,
and so writes no more, is what `ArtifactSound` adds, and that one with a reservation is
the one in the ledger is what stops the others. `ConcurrencyKept` counts reserved rows, which the library's theorems on
cardinality reach. `BudgetKept` adds amounts: the lemmas `SumEmpty`, `SumRemoves`, `SumMonotone` and
`SumNat` are proved from the definition of the community modules' fold. The library's
induction theorem cannot be instantiated here, so each induction over the subsets of a finite
set is a minimal counterexample (`SmallestCounterexample`) of the well-founded order of
strict inclusion. `Amounts` is what the budget needs: every reserved row holds exactly
`Reservation`, and every attempt's cost is one of `Costs`; a settlement replaces an amount by no
larger one.

`PlatformProofs`, about `SignalOutbox`:

| theorem | statement | argument |
|---|---|---|
| `TypeCorrect` | `Spec => []TypeOK` | one case per action |
| `OneWorkerDelivers` | `Spec => []ClaimedOnce` | `OneDeliverer`: a worker that holds an event holds it `processing` under a fresh claim, and no other worker holds it; `IdleHoldsNothing` |
| `DeliveriesAreFinal` | `Spec => DeliveredIsFinal` | `DeliveredWasApplied`, and nobody claims or holds a delivered event |
| `PatientUserInSync` | `OnePatientUser => (Spec => []InSyncWhenDelivered)` | `SyncInv`: of the events about the status, and of those about the configuration, only the last one is ever under way (`LastEvents`) |

`PatientUserInSync` holds for any number of workers, events, attempts, crashes and lost
messages. Its hypothesis, `OnePatientUser`, is the user of `patient_users`: one client, who
waits for what was staged, with no redelivery and no repeated request. Each part is
needed because the code does nothing about the opposite (section 6): events overtake each
other; of two clients that read the row together the second does not write its desired
status; a second copy of a message revives an event that had failed. `InSyncWhenDelivered`
speaks of the moment when everything is delivered, so its inductive form has to follow the
events on their way: a new one is staged when the earlier ones of its kind are delivered
or have failed (`ClientCurrent`: between the client's read and its commit nobody stages what
would change the status), and what failed stays failed because an ended event has no
message left (`MessagesWait`). So the provider's status and configuration, once it has
applied the last events, are what those asked for.

`PlatformProofs`, about `MCPlatform`:

| theorem | statement | argument |
|---|---|---|
| `OffersAreReadable` | `PlatformSpec => []Readable` | `StoreInv`: `WritersSound`, `ExecutionsSound` and `OrphansLost` below, with the types |
| `QuotaIsKept` | `PlatformSpec => []QuotaKept` | `QuotaHeld`: an upload that has stored its object is the only one, and there is room for it |
| `LimitsKept` | `PlatformSpec => []ConcurrencyKept` | `AIExecutionProofs!LimitsKept`, and the composition implies `AIExecution`'s specification |
| `DownloadsStayReviewed` | `PlatformSpec => []DownloadsAreReviewed` | `CustomInv`: what the row says of snapshot, draft and artefact is true of every copy of it that is still to be written |
| `SettledReportsStay` | `PlatformSpec => SettledStaysSettled` | `CalmInv`: of calm users, one plan is accepted at most, and the report names the one job that has not ended |

`Readable` alone says nothing of what the cleaner has selected but not deleted yet.
`OrphansLost` does: an upload among the orphans has failed, and an execution among them is
over, under a lease that was issued and that the export does not name. That it holds when
the cleaner reads the tables is `WritersSound` and `ExecutionsSound`: what somebody is about
to name is fresh, and the cleaner takes only what is old; that it goes on holding needs that a key
is written once, since a new lease is larger than all that were issued. `QuotaHeld` is the advisory lock, and the
sum over the live documents changes by one document at a time (`StoreSum`, from the lemmas
on sums of `AIExecutionProofs`).

The options of a custom report are one column that jobs and requests load, change and write
as a whole, so `DownloadsAreReviewed` has to be proved of every copy as well as of the row:
`CopiesSound` says that a draft was written by a job that succeeded, an artefact was
reviewed, and an options value without the snapshot of a plan that succeeded (the planner
commits over an accepted plan) is in no life from which a download can come. `JobsSound`
says that only a durable snapshot is written from and only what was written is reviewed,
`ReviewersSound` that a reviewer who finds something to do has the draft of its snapshot,
`RequestsSound` that a request goes on with a copy in which it was allowed. `LoudKeeps` and
`QuietKeeps` split the steps into those that write the row and those that do not.
`SettledStaysSettled` supposes calm users (without that it is false, section 6). Then
`CalmPlan` has one accepted plan at most, `CalmJobs` makes the job the report names the
only one that has not ended, so a cancellation reaches it, and `CalmWorkers` says that
who may still commit for a cancelled report has loaded it cancelled.

`SignalInboxProofs` (each under `ConstantsOK`, the ranges of the constants):

| theorem | statement | argument |
|---|---|---|
| `TypeCorrect` | `[]TypeOK` | one case per action |
| `EventsApplyOnce` | `[]AppliedOnce` | `ClaimsHeld` and `OneWorker`: between its claim and its commit an event belongs to one worker, and is still only validated |
| `CursorIsSound` | `[]CursorSkipsNothing` | `SyncsSound`: what a synchronisation has passed is in Oracle or among the records it has not committed yet |

`DocumentProcessingProofs`:

| theorem | statement | argument |
|---|---|---|
| `TypeCorrect` | `Spec => []TypeOK` | one case per action |
| `ReadinessIsEarned` | `Spec => []ReadyIsEarned` | with `WorkerSound` (a worker's attempt is on its job's version, and it parses only what was clean) and `ReadyIsFree` (nobody owns a ready version, and its chunks are those of an attempt) |
| `ReadinessIsFinal` | `Spec => ReadyIsFinal` | the same invariant |
| `DeletionIsFinal` | `Spec => DeletedIsFinal` | `CheckHolds` at every commit that writes the document |
| `EndsStayFinal` | `Spec => EndsAreFinal` | the two above |
| `RestShowsStatus` | `Spec => []StatusAtRest` | `RestInv`: at every moment somebody is still to settle the current version, or both rows show the same |

What recovery does between its read and its commit is `RecoverySound`: it holds an
attempt that had expired and did not succeed, so the version it fails is not a ready one.

`StatusAtRest` speaks of the end only; `CurrentShown` is its inductive form. A queued
version has a job nobody has begun (`Fresh`), a version under scan the token of an attempt
that is under way, and in the other cases document and version agree, or recovery has
overtaken a reprocess. It rests on `AttemptsSound` (a worker's attempt is its own and on
its job's version, so whoever marks an attempt over writes the version that shows it too),
`VersionsSound` (the current version is the last one; a token is an attempt's on that
version) and `ReadersSound` (a version the recovery finds current and held was current
when it read the document, so it stages a job). A fresh job is not lost: a refusal needs an
attempt of the job or another current version, and a deadlock needs one of the two rows the
recovery holds. `LastIsOne`, that the latest attempt of a job is an attempt of it, is the
well-foundedness of the naturals, again without an induction theorem.

`ReportWorkflowProofs` (under `ConstantsOK`):

| theorem | statement | argument |
|---|---|---|
| `TypeCorrect` | `[]TypeOK` | one case per action |
| `OneReportPublished` | `[]OnePublished` | publication supersedes under the template's lock; no commit through `Flush` writes `published` over anything else |
| `PublicationIsApproved` | `[]PublishedIsApproved` | `RequestsMatch`: approvals are never removed, so the one a loaded request relies on is still there when it commits |

`ProcurementWatchProofs` (under `ConstantsOK`):

| theorem | statement | argument |
|---|---|---|
| `TypeCorrect` | `[]TypeOK` | one case per action |
| `NewsAreToldOnce` | `[]NewsToldOnce` | `MemoryInv`: one scan holds the watch; what it has read is at least as new as what was seen (`ReadSound`); what was told, and what stands under a job's key, was seen (`ToldSound`); an old retired watch has no work left (`OldIsIdle`) |
| `LinksAlwaysAgree` | `[]LinksAgree` | `LinksInv`: a save that waits for Signal holds the profile, whose search is absent or its own (`SaveSound`), and a live watch has a search |

The heart is `NewsIsNewer`: news are newer than all that was seen, and what stands under
the job's own key was seen; so when a scan has news and no clash, nothing stands
under the key, and what it records is told in the same commit. `OldIsIdle` is why the
purge forgets nothing a scan still compares with.

In the run `services` one worker generates the reports, and one scans, to keep its states few; these
theorems cover any number of them, the stale one that comes back included.

Model-checked only: liveness (`EventuallySettled`, `JobsEnd`, `ReservationsEnd`,
`DeliveriesEnd`, `VersionsEnd`, `EventsEnd`, `NothingLingers`, `ScansCatchUp`), which is beyond the
prover. Every other property of a passing run is stated by a theorem.

## 6. What the code does against its documents

Runs with an expected violation, each listed in `PROJECT.json` under `findings`:

- `jobs_two_retries`: two manual retries that read the same failed row both commit,
  the second over a running execution; the handler runs twice at once.
- `reports_race`: a human revision loaded before a publication commits after it; the
  published report shows title and content nobody approved, although the guard of
  `create_human_revision` refuses published reports.
- `custom_retry`: `retry_report` promises to "Resume generation with same frozen
  snapshot" (`O/oracle/custom_report_lifecycle.py:1067`), but the job is staged under the key
  of the one that failed (line 963) with a `generation_fence` drawn anew (line 961), so
  `stage_job` raises (`O/jobs/service.py:193`) and the route does not catch it. With a key
  of its own for each attempt the property holds in the same instance.
- `watch_blind`: the scheduled scan asks Signal through `run_tender_search`, whose tenant
  comes from `flask.g.active_tenant_id` (`O/integrations/procurement.py:634`,
  `O/integrations/entity_intel.py:711`). Only a web request sets it
  (`O/auth/runtime.py:159`); a Celery task has a fresh application context
  (`O/celery_app.py:33`). Every scheduled scan fails for good, and the watch that
  `docs/implementation/DECISIONS.md:1253` wants scanned every 15 minutes learns nothing.
  The tests pass a runner of their own.

Seen while modelling, present in the models as behaviours or faults, without a run of
their own.

Jobs:

- A message lost by Redis after the job was noted `published` is never sent again
  (`O/jobs/tasks.py:1421`; `docs/operations/CELERY_REDIS.md:3-5`): with the fault
  `lost_message`, `EventuallySettled` fails.
- A job running with `cancel_requested` loses its worker; recovery requeues it as
  `publish_pending`, the publisher refuses cancelled jobs, and it stays queued
  (`O/jobs/tasks.py:1563`): with a canceller, `NeverStranded` fails.
- The status `retrying` is committed before the message is sent
  (`O/jobs/tasks.py:1084`); a lost message leaves it there. A retry request that dies
  before publishing leaves the stage `manual_retry`, which the dispatcher does not
  select (`O/jobs/tasks.py:1421`).
- The cancel and retry routes compare `If-Match` with an unlocked read
  (`O/jobs/service.py:319`), so a commit may change a newer version. A cancellation
  committed between a retry's SELECT and its commit survives it: the row is queued,
  cannot be published and cannot end (`O/jobs/service.py:332`).

AI:

- Recovery forgets the cost of the committed generate attempt (`O/ai/service.py:106`), so
  recorded spend can pass the hard budget (`docs/operations/AI_RUNTIME.md:45`).
- `MarkRunning` reopens an abandoned attempt; the next recovery then fails whatever
  execution holds the slot (`O/ai/service.py:1619`). The invariants of `ai_faults`
  hold in spite of it.
- A job recovered before its AI attempt's lease ran out is refused its own slot, for
  good (`O/ai/service.py:1288`).
- `fail()` rolls back before it adds up the committed attempts and counts those of
  earlier executions (`O/ai/service.py:1583`); the ledger row of a slot is reused, so a
  retry in another month moves the cost with it (`O/ai/service.py:1528`).

E-mail:

- A reset whose mail went out is queued again by recovery and then cancelled;
  `request_cancel` does not revoke the link (`O/jobs/service.py:326`), although
  `docs/operations/CELERY_REDIS.md:54` says a cancellation does:
  `CancelledLinksAreDead` of `EmailDelivery` fails.

Watch:

- The request that deletes a search dies after Signal's answer and before the watch is
  retired (`O/integrations/procurement.py:875`): deleting again and saving the profile
  again both ask Signal for a search that is gone, so the profile keeps it (`DeleteDies`).
- A search is created at Signal before the profile that is to have it is committed
  (`O/oracle/procurement_search_watch.py:856`): when the commit fails, Signal keeps a search
  nobody knows (`SaveFails`).
- The cap of twelve enabled watches is counted without a lock on the others
  (`O/oracle/procurement_search_watch.py:355`).

Signal:

- Two outbox events of a monitor overtake each other, and the observed status Oracle
  shows is not the provider's (`O/integrations/tasks.py:232`; without `Patient`,
  `InSyncWhenDelivered` fails).
- A repeated request with an old `Idempotency-Key` writes the desired status although
  it stages nothing (`O/integrations/routes.py:606`), and a second copy of a message
  revives an event that had failed (`O/integrations/tasks.py:90`). For this reason
  `patient_users` leaves repeated requests and redeliveries out: with the
  redelivery of an event that had failed, an ended event is not at rest and
  patience means nothing.
- The soft time limit raises inside the provider call and is taken for a permanent
  failure (`O/integrations/tasks.py:211`); an event that has used its attempts fails
  without telling its monitor (`O/integrations/tasks.py:193`).
- Status events of the inbox are applied in the order they are processed
  (`O/integrations/tasks.py:340`): an older one wins when it is processed last, and an
  observed pause stops synchronisation (`O/integrations/service.py:650`).
- An event about a monitor whose external id is not committed yet is rejected and never
  looked at again (`O/integrations/tasks.py:323`).
- `_ingest_item` counts without a lock: two transactions that see a known item lose one
  occurrence, and the older content can be the last one written
  (`O/integrations/service.py:549`).

Documents and storage:

- `Overtaken`: recovery reads the document, a reprocess replaces the version, and the
  commit of recovery leaves the document `queued` with a job for the old version
  (`O/documents/service.py:111`).
- An exception of `publish_job` after the commit makes the upload delete the object of a
  committed document (`O/documents/routes.py:121`). `Readable` leaves these uploads out.
- The purge selects 100 deleted documents in no order and does not leave out those it
  has purged (`O/documents/service.py:655`): with more of them one can wait for ever.
  With `PurgeBatch` 1 and two deleted documents, `NothingLingers` fails.
- A stale execution of an export that fails writes `failed` over its successor's
  `generating` (`FailExport`).

Reports:

- `FailGeneration` is not fenced: a stale execution fails the report its successor is
  generating (`O/reporting/service.py:1802`).
- A request for changes over a report it read as `ready` writes nothing, so an approval
  that came between stands; a review that races a publication can turn the published
  report back to `reviewed` or `ready` (`O/reporting/service.py:1894`).

Custom reports:

- Users who are not calm break `SettledStaysSettled`: a cancellation that loaded the
  report under review commits over `ready` (`O/oracle/custom_report_lifecycle.py:1022`),
  which the code calls immutable (line 74).
- The planner compares nothing but `plan_status`: it commits over a brief that was
  edited and accepted meanwhile, and the snapshot, the fence and the job are gone from the
  options (`O/oracle/custom_reports.py:464`); the write job then raises.
- A write or review job that fails for good leaves the report `generating` or
  `reviewing` (`RaiseError`): the outcome is rolled back with what the handler wrote, and
  no request but a cancellation is allowed in these lives.
- A retry without a snapshot goes back to `brief_draft` and stages no job
  (`O/oracle/custom_report_lifecycle.py:1085`): a plan comes only if the user writes one.

## 7. What is not modelled

- Data: prompts, contexts, provider answers, scores, documents' text, rendering.
  What an outcome depends on is a nondeterministic choice.
- Several job rows at once: the dispatcher's batches per tenant and starvation
  between rows.
- Time as numbers: only the comparisons the code makes, as flags. The absolute
  deadline of a document's attempt (`O/documents/service.py:76`) is part of "its lease
  ran out".
- PostgreSQL itself: committed transactions are atomic and durable, row locks and
  advisory locks exclude. Tenant isolation is a property of row-level policies.
- `connection.test` and `memory.bilateral` outbox events: they touch no monitor.
- A second agent inside one job, and budget periods other than the current one.
- Legal holds of documents (a filter on rows no other step writes), evidence made of
  chunks, snapshots and evidence of reports.
- Of schedules: wall-clock times and daylight saving; of job creation: idempotency keys,
  an insert under a unique key.
- The components marked `not_modelled` in `PROJECT.json`: alerts and in-app
  notifications are single inserts under a unique key; conversations and
  investigations are handlers of durable jobs whose core is modelled here;
  authentication and tenants commit once per request; scoring, contexts, validation
  and rendering, which are most of the repository's lines, compute functions of data
  without anything for a model checker to interleave; the front end keeps no
  authoritative state; configuration and infrastructure enter as the assumptions of
  sections 2 and 4.

## 8. Plan

Done, in this order: `BackgroundJobs` (everything else runs inside it), its proofs,
`AIExecution`, `SignalOutbox`, `DocumentProcessing`, `FencedJob` and the refinement,
`ArtifactStorage`, `ReportWorkflow`, `EmailDelivery` and its proofs, `SignalInbox`, the
proofs about the outbox, reports, inbox, documents and AI executions, and
`ProcurementWatch` with its proofs, `CustomReports`, and the proofs about the object store,
the custom reports and the compositions.

Next:

1. Conversations and investigations, on top of `FencedJob` in place of a job row of
   their own; the same for the jobs of the documents and reports.
2. Alerts with their cooldowns, and evidence under legal hold.
