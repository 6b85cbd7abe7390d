---------------------------- MODULE BackgroundJobs ----------------------------
(***************************************************************************)
(* One row of background_jobs and everything that reads and writes it: the *)
(* Celery workers of jobs/tasks.py (execute_durable), the publishers of    *)
(* jobs/service.py (an HTTP request that enqueues or retries, and the beat *)
(* dispatcher), the cancel and retry routes of jobs/routes.py, and the     *)
(* beat task that recovers jobs whose lease ran out.                       *)
(*                                                                         *)
(* Rows do not interact, so one row is enough.  A transaction that takes   *)
(* the row with SELECT ... FOR UPDATE is one step.  A reader that does not *)
(* lock is two steps, its SELECT and its commit, and its commit writes the *)
(* columns whose value differs from the one it read (see Flush).           *)
(***************************************************************************)
EXTENDS Naturals, FiniteSets

CONSTANTS
  Workers,        \* Celery worker processes
  Dispatchers,    \* runs of maintenance.dispatch_queued_jobs
  Creator,        \* the request that stages the job and publishes it
  Cancellers,     \* requests to POST /jobs/<id>/cancel
  Retriers,       \* requests to POST /jobs/<id>/retry
  MaxAttempts,    \* max_attempts of the row
  Faults,         \* the kinds of fault this instance may meet
  MaxFaults       \* bound: how many faults may happen in one behaviour

Requests == Cancellers \cup Retriers
Publishers == Dispatchers \cup Retriers \cup {Creator}

(***************************************************************************)
(* "crash"          a worker host dies; the unacknowledged message returns *)
(* "kill"           the pool child dies; its parent acknowledges for it    *)
(* "lost_retry"     the message of task.retry never reaches the broker     *)
(* "lost_message"   the broker loses a queued message                      *)
(* "broker_down"    apply_async raises                                     *)
(* "publisher_dies" a publisher dies after its claim was committed         *)
(* "request_dies"   a request dies between its commit and publish_job      *)
(* "slow_publisher" a claim is two minutes old and its publisher alive     *)
(* "overrun"        a lease runs out under a worker that is still alive    *)
(* "stall"          a lease runs out under an unlocked reader's commit     *)
(***************************************************************************)
FaultKinds ==
  {"crash", "kill", "lost_retry", "lost_message", "broker_down",
   "publisher_dies", "request_dies", "slow_publisher", "overrun", "stall"}

ASSUME JobsAssumption ==
  /\ MaxAttempts \in Nat \ {0}
  /\ MaxFaults \in Nat
  /\ Faults \subseteq FaultKinds
  /\ Dispatchers \cap Requests = {}
  /\ Cancellers \cap Retriers = {}
  /\ Creator \notin Dispatchers \cup Requests

VARIABLES
  job,        \* the row
  expired,    \* leases whose lease_expires_at has passed
  claimOld,   \* last_publish_attempt_at is two minutes old
  lastLease,  \* leases issued so far; the next one is lastLease + 1
  lastTask,   \* Celery task ids issued so far
  broker,     \* task ids of the messages waiting in Redis
  worker,     \* what each worker is doing
  publisher,  \* what each publisher is doing
  request,    \* what each HTTP request is doing
  faults      \* faults met so far

vars == <<job, expired, claimOld, lastLease, lastTask, broker,
          worker, publisher, request, faults>>

NoLease == 0

Statuses == {"queued", "running", "retrying", "succeeded", "failed", "cancelled"}
Terminal == {"succeeded", "failed", "cancelled"}
Stages == {"queued", "publishing", "published", "publish_pending", "manual_retry",
           "started", "processing", "backoff", "completed", "retry_exhausted",
           "failed", "cancelled"}

Row == [status: Statuses, stage: Stages, task: Nat, version: Nat, attempts: Nat,
        retryable: BOOLEAN, cancel: BOOLEAN, lease: Nat]

WorkerState ==
  [pc: {"idle", "claimed", "handling", "resend"}, task: Nat, lease: Nat]
PublisherState ==
  [pc: {"ready", "claimed", "loaded", "sent", "refused", "noting", "unsent", "done"},
   task: Nat, snap: Row]
RequestState == [pc: {"idle", "armed", "loaded", "done"}, etag: Nat, snap: Row]

NewRow == [status |-> "queued", stage |-> "queued", task |-> 1, version |-> 1,
           attempts |-> 0, retryable |-> TRUE, cancel |-> FALSE, lease |-> NoLease]

IdleWorker == [pc |-> "idle", task |-> 0, lease |-> NoLease]
RestingPublisher(p) ==
  [pc |-> IF p \in Dispatchers THEN "ready" ELSE "done", task |-> 0, snap |-> NewRow]
AnsweredRequest == [pc |-> "done", etag |-> 0, snap |-> NewRow]

Init ==
  /\ job = NewRow
  /\ expired = {}
  /\ claimOld = FALSE
  /\ lastLease = 0
  /\ lastTask = 1
  /\ broker = {}
  /\ worker = [w \in Workers |-> IdleWorker]
  /\ publisher = [p \in Publishers |->
                    IF p = Creator THEN [RestingPublisher(p) EXCEPT !.pc = "ready"]
                                   ELSE RestingPublisher(p)]
  /\ request = [r \in Requests |-> [AnsweredRequest EXCEPT !.pc = "idle"]]
  /\ faults = 0

-----------------------------------------------------------------------------
(* Helpers.                                                                *)

\* A session's flush: UPDATE the columns in which the object differs from
\* the row that was read, whatever the row holds by now.
Flush(row, snap, new) ==
  [c \in DOMAIN row |-> IF new[c] = snap[c] THEN row[c] ELSE new[c]]

Fault(kind) ==
  /\ kind \in Faults
  /\ faults < MaxFaults
  /\ faults' = faults + 1

LeaseLive == job.lease # NoLease /\ job.lease \notin expired

\* Bug: settle whatever is running, without comparing leases.
BugOwnsRunning(w) == job.status = "running"

Executing(w) == worker[w].pc \in {"claimed", "handling"}

\* The row `_owned_lease` selects: the worker's lease is still the row's.
Owns(w) == job.lease = worker[w].lease

InFlight(p) == publisher[p].pc \notin {"ready", "done"}

-----------------------------------------------------------------------------
(* Publishing (jobs/service.py, dispatch_queued_jobs).                     *)

PublishableStages == {"queued", "publish_pending", "manual_retry"}

Claimable(row, allowStale) ==
  /\ row.status = "queued"
  /\ ~row.cancel
  /\ row.stage \in PublishableStages \/ (allowStale /\ row.stage = "publishing")

ClaimForPublish(p) ==
  /\ job' = [job EXCEPT !.stage = "publishing", !.version = @ + 1]
  /\ claimOld' = FALSE
  /\ publisher' = [publisher EXCEPT ![p].pc = "claimed"]
  /\ UNCHANGED <<expired, lastLease, lastTask, broker, worker, request, faults>>

\* publish_job: the request that staged or retried the job claims it, if it can.
PublishJob(p) ==
  /\ p \notin Dispatchers
  /\ publisher[p].pc = "ready"
  /\ \/ /\ Claimable(job, FALSE)
        /\ ClaimForPublish(p)
     \/ /\ ~Claimable(job, FALSE)
        /\ publisher' = [publisher EXCEPT ![p] = RestingPublisher(p)]
        /\ UNCHANGED <<job, expired, claimOld, lastLease, lastTask, broker, worker,
                       request, faults>>

\* Bug: an abandoned claim is never selected again.
BugSelectedOnce ==
  /\ job.status = "queued"
  /\ job.stage \in {"queued", "publish_pending"}

Selected ==
  /\ job.status = "queued"
  /\ job.stage \in {"queued", "publish_pending"} \/ (job.stage = "publishing" /\ claimOld)

DispatchQueuedJob(p) ==
  /\ p \in Dispatchers
  /\ publisher[p].pc = "ready"
  /\ Selected
  /\ Claimable(job, job.stage = "publishing")
  /\ ClaimForPublish(p)

\* publish_claimed_job up to apply_async: the task id is the one it reads here.
LoadClaimed(p) ==
  /\ publisher[p].pc = "claimed"
  /\ publisher' = [publisher EXCEPT ![p] =
       IF job.status = "queued" /\ job.stage = "publishing"
         THEN [@ EXCEPT !.pc = "loaded", !.task = job.task]
         ELSE RestingPublisher(p)]
  /\ UNCHANGED <<job, expired, claimOld, lastLease, lastTask, broker, worker, request, faults>>

ApplyAsync(p) ==
  /\ publisher[p].pc = "loaded"
  /\ \/ /\ broker' = broker \cup {publisher[p].task}
        /\ publisher' = [publisher EXCEPT ![p].pc = "sent"]
        /\ UNCHANGED faults
     \/ /\ Fault("broker_down")
        /\ publisher' = [publisher EXCEPT ![p].pc = "refused"]
        /\ UNCHANGED broker
  /\ UNCHANGED <<job, expired, claimOld, lastLease, lastTask, worker, request>>

\* The unlocked SELECT that follows apply_async, whether it raised or not.
ReloadPublished(p) ==
  /\ publisher[p].pc \in {"sent", "refused"}
  /\ publisher' = [publisher EXCEPT ![p] =
       IF job.status # "queued" THEN RestingPublisher(p)
       ELSE [@ EXCEPT !.pc = IF publisher[p].pc = "sent" THEN "noting" ELSE "unsent",
                      !.snap = job]]
  /\ UNCHANGED <<job, expired, claimOld, lastLease, lastTask, broker, worker, request, faults>>

\* The commit that records the outcome of apply_async.
NotePublished(p) ==
  /\ publisher[p].pc \in {"noting", "unsent"}
  /\ LET read == publisher[p].snap
         outcome == IF publisher[p].pc = "noting" THEN "published" ELSE "publish_pending"
     IN  job' = Flush(job, read, [read EXCEPT !.stage = outcome, !.version = @ + 1])
  /\ publisher' = [publisher EXCEPT ![p] = RestingPublisher(p)]
  /\ UNCHANGED <<expired, claimOld, lastLease, lastTask, broker, worker, request, faults>>

\* A claim becomes two minutes old.
ClaimAges ==
  /\ job.stage = "publishing"
  /\ ~claimOld
  /\ claimOld' = TRUE
  /\ IF \E p \in Publishers : InFlight(p) THEN Fault("slow_publisher") ELSE UNCHANGED faults
  /\ UNCHANGED <<job, expired, lastLease, lastTask, broker, worker, publisher, request>>

PublisherDies(p) ==
  /\ \/ InFlight(p) /\ Fault("publisher_dies")
     \/ publisher[p].pc = "ready" /\ p \notin Dispatchers /\ Fault("request_dies")
  /\ publisher' = [publisher EXCEPT ![p] = RestingPublisher(p)]
  /\ UNCHANGED <<job, expired, claimOld, lastLease, lastTask, broker, worker, request>>

-----------------------------------------------------------------------------
(* Executing (jobs/tasks.py, execute_durable).                             *)

\* At-least-once delivery: the copy that is received may or may not be the last.
Receive(t) ==
  /\ t \in broker
  /\ broker' \in {broker, broker \ {t}}

\* Bug: a delivery does not look at the lease of the running one.
BugIgnored(t) == t # job.task \/ job.status \in Terminal

\* The answers of a delivery that starts nothing: an obsolete task id, a
\* terminal job, a job another delivery is running.
Ignored(t) ==
  \/ t # job.task
  \/ job.status \in Terminal
  \/ job.status = "running" /\ LeaseLive

IgnoreDelivery(w, t) ==
  /\ worker[w].pc = "idle"
  /\ Receive(t)
  /\ Ignored(t)
  /\ UNCHANGED <<job, expired, claimOld, lastLease, lastTask, worker, publisher,
                 request, faults>>

CancelDelivery(w, t) ==
  /\ worker[w].pc = "idle"
  /\ Receive(t)
  /\ ~Ignored(t)
  /\ job.cancel
  /\ job' = [job EXCEPT !.status = "cancelled", !.stage = "cancelled", !.lease = NoLease,
                        !.version = @ + 1]
  /\ UNCHANGED <<expired, claimOld, lastLease, lastTask, worker, publisher, request, faults>>

\* Bug: the lease is named after the Celery task instead of being fresh.
BugClaimDelivery(w, t) ==
  /\ worker[w].pc = "idle"
  /\ Receive(t)
  /\ ~Ignored(t)
  /\ ~job.cancel
  /\ lastLease' = job.task
  /\ job' = [job EXCEPT !.status = "running", !.stage = "started", !.lease = job.task,
                        !.attempts = @ + 1, !.version = @ + 1]
  /\ worker' = [worker EXCEPT ![w] = [pc |-> "claimed", task |-> t, lease |-> job.task]]
  /\ UNCHANGED <<expired, claimOld, lastTask, publisher, request, faults>>

ClaimDelivery(w, t) ==
  /\ worker[w].pc = "idle"
  /\ Receive(t)
  /\ ~Ignored(t)
  /\ ~job.cancel
  /\ lastLease' = lastLease + 1
  /\ job' = [job EXCEPT !.status = "running", !.stage = "started", !.lease = lastLease + 1,
                        !.attempts = @ + 1, !.version = @ + 1]
  /\ worker' = [worker EXCEPT ![w] = [pc |-> "claimed", task |-> t, lease |-> lastLease + 1]]
  /\ UNCHANGED <<expired, claimOld, lastTask, publisher, request, faults>>

\* Bug: the stage is written to the status column.
BugStartHandler(w) ==
  /\ worker[w].pc = "claimed"
  /\ Owns(w)
  /\ job' = [job EXCEPT !.status = "processing", !.version = @ + 1]
  /\ worker' = [worker EXCEPT ![w].pc = "handling"]
  /\ UNCHANGED <<expired, claimOld, lastLease, lastTask, broker, publisher, request, faults>>

StartHandler(w) ==
  /\ worker[w].pc = "claimed"
  /\ Owns(w)
  /\ job' = [job EXCEPT !.stage = "processing", !.version = @ + 1]
  /\ worker' = [worker EXCEPT ![w].pc = "handling"]
  /\ UNCHANGED <<expired, claimOld, lastLease, lastTask, broker, publisher, request, faults>>

LeaseLost(w) ==
  /\ Executing(w)
  /\ ~Owns(w)
  /\ worker' = [worker EXCEPT ![w] = IdleWorker]
  /\ UNCHANGED <<job, expired, claimOld, lastLease, lastTask, broker, publisher, request, faults>>

\* The handler has ended, or a checkpoint inside it stopped it, and the
\* worker still holds the row's lease: it commits the outcome and lets go.
Settle(w, row) ==
  /\ worker[w].pc = "handling"
  /\ Owns(w)
  /\ job' = [row EXCEPT !.lease = NoLease, !.version = @ + 1]
  /\ UNCHANGED <<expired, claimOld, lastLease, lastTask, broker, publisher, request, faults>>

Released(w) == worker' = [worker EXCEPT ![w] = IdleWorker]

\* Bug: a finished handler does not look at cancel_requested.
BugSucceed(w) ==
  /\ Settle(w, [job EXCEPT !.status = "succeeded", !.stage = "completed"])
  /\ Released(w)

Succeed(w) ==
  /\ ~job.cancel
  /\ Settle(w, [job EXCEPT !.status = "succeeded", !.stage = "completed"])
  /\ Released(w)

StopCancelled(w) ==
  /\ job.cancel
  /\ Settle(w, [job EXCEPT !.status = "cancelled", !.stage = "cancelled"])
  /\ Released(w)

FailPermanently(w) ==
  /\ Settle(w, [job EXCEPT !.status = "failed", !.stage = "failed", !.retryable = FALSE])
  /\ Released(w)

ExhaustRetries(w) ==
  /\ job.attempts >= MaxAttempts
  /\ Settle(w, [job EXCEPT !.status = "failed", !.stage = "retry_exhausted",
                           !.retryable = TRUE])
  /\ Released(w)

\* Bug: the comparison with max_attempts is off by one.
BugBackOff(w) ==
  /\ job.attempts <= MaxAttempts
  /\ Settle(w, [job EXCEPT !.status = "retrying", !.stage = "backoff"])
  /\ worker' = [worker EXCEPT ![w].pc = "resend", ![w].lease = NoLease]

BackOff(w) ==
  /\ job.attempts < MaxAttempts
  /\ Settle(w, [job EXCEPT !.status = "retrying", !.stage = "backoff"])
  /\ worker' = [worker EXCEPT ![w].pc = "resend", ![w].lease = NoLease]

\* task.retry: the same message, same task id, goes back to the broker.
ResendMessage(w) ==
  /\ worker[w].pc = "resend"
  /\ \/ broker' = broker \cup {worker[w].task} /\ UNCHANGED faults
     \/ Fault("lost_retry") /\ UNCHANGED broker
  /\ Released(w)
  /\ UNCHANGED <<job, expired, claimOld, lastLease, lastTask, publisher, request>>

WorkerDies(w) ==
  /\ \/ /\ worker[w].pc # "idle"
        /\ Fault("crash")
        /\ broker' = broker \cup {worker[w].task}
     \/ /\ Executing(w)
        /\ Fault("kill")
        /\ UNCHANGED broker
  /\ Released(w)
  /\ UNCHANGED <<job, expired, claimOld, lastLease, lastTask, publisher, request>>

LoseMessage(t) ==
  /\ t \in broker
  /\ Fault("lost_message")
  /\ broker' = broker \ {t}
  /\ UNCHANGED <<job, expired, claimOld, lastLease, lastTask, worker, publisher, request>>

-----------------------------------------------------------------------------
(* Leases and recovery (recover_stale_jobs).                               *)

Overrun == \E w \in Workers : Executing(w) /\ Owns(w)
Stalled == \/ \E p \in Publishers : InFlight(p)
           \/ \E r \in Requests : request[r].pc = "loaded"

\* CELERY_TASK_TIME_LIMIT + 60 s have passed since the claim.
LeaseExpires ==
  /\ LeaseLive
  /\ expired' = expired \cup {job.lease}
  /\ IF Overrun THEN Fault("overrun")
     ELSE IF Stalled THEN Fault("stall") ELSE UNCHANGED faults
  /\ UNCHANGED <<job, claimOld, lastLease, lastTask, broker, worker, publisher, request>>

\* Bug: the recovered row keeps the stage the lost worker left.
BugRecoverStaleJob ==
  /\ job.status = "running"
  /\ ~LeaseLive
  /\ lastTask' = lastTask + 1
  /\ job' = [job EXCEPT !.status = "queued", !.task = lastTask + 1, !.lease = NoLease,
                        !.version = @ + 1]
  /\ UNCHANGED <<expired, claimOld, lastLease, broker, worker, publisher, request, faults>>

RecoverStaleJob ==
  /\ job.status = "running"
  /\ ~LeaseLive
  /\ lastTask' = lastTask + 1
  /\ job' = [job EXCEPT !.status = "queued", !.stage = "publish_pending", !.task = lastTask + 1,
                        !.lease = NoLease, !.version = @ + 1]
  /\ UNCHANGED <<expired, claimOld, lastLease, broker, worker, publisher, request, faults>>

-----------------------------------------------------------------------------
(* The cancel and retry routes (jobs/routes.py).                           *)

\* The client reads the job and keeps its ETag.
GetJob(r) ==
  /\ request[r].pc = "idle"
  /\ request' = [request EXCEPT ![r].pc = "armed", ![r].etag = job.version]
  /\ UNCHANGED <<job, expired, claimOld, lastLease, lastTask, broker, worker, publisher, faults>>

Cancellable(row) == row.status \notin Terminal
Retryable(row) == row.status = "failed" /\ row.retryable

\* The route's SELECT and the checks of request_cancel and prepare_retry.
LoadForRequest(r) ==
  /\ request[r].pc = "armed"
  /\ LET accepted == /\ job.version = request[r].etag
                     /\ IF r \in Cancellers THEN Cancellable(job) ELSE Retryable(job)
     IN  request' = [request EXCEPT ![r] =
           IF accepted THEN [@ EXCEPT !.pc = "loaded", !.snap = job] ELSE AnsweredRequest]
  /\ UNCHANGED <<job, expired, claimOld, lastLease, lastTask, broker, worker, publisher, faults>>

CommitCancel(r) ==
  /\ r \in Cancellers
  /\ request[r].pc = "loaded"
  /\ LET read == request[r].snap
         asked == [read EXCEPT !.cancel = TRUE, !.version = @ + 1]
     IN  job' = Flush(job, read,
           IF read.status = "queued"
             THEN [asked EXCEPT !.status = "cancelled", !.stage = "cancelled"] ELSE asked)
  /\ request' = [request EXCEPT ![r] = AnsweredRequest]
  /\ UNCHANGED <<expired, claimOld, lastLease, lastTask, broker, worker, publisher, faults>>

CommitRetry(r) ==
  /\ r \in Retriers
  /\ request[r].pc = "loaded"
  /\ lastTask' = lastTask + 1
  /\ LET read == request[r].snap
     IN  job' = Flush(job, read,
           [read EXCEPT !.status = "queued", !.stage = "manual_retry", !.cancel = FALSE,
                        !.attempts = 0, !.task = lastTask + 1, !.lease = NoLease,
                        !.version = @ + 1])
  /\ request' = [request EXCEPT ![r] = AnsweredRequest]
  /\ publisher' = [publisher EXCEPT ![r].pc = "ready"]
  /\ UNCHANGED <<expired, claimOld, lastLease, broker, worker, faults>>

-----------------------------------------------------------------------------
PublisherStep(p) ==
  PublishJob(p) \/ DispatchQueuedJob(p) \/ LoadClaimed(p) \/ ApplyAsync(p)
    \/ ReloadPublished(p) \/ NotePublished(p)

WorkerStep(w) ==
  \/ \E t \in broker : IgnoreDelivery(w, t) \/ CancelDelivery(w, t) \/ ClaimDelivery(w, t)
  \/ StartHandler(w) \/ LeaseLost(w) \/ Succeed(w) \/ StopCancelled(w) \/ FailPermanently(w)
  \/ ExhaustRetries(w) \/ BackOff(w) \/ ResendMessage(w)

RequestStep(r) == GetJob(r) \/ LoadForRequest(r) \/ CommitCancel(r) \/ CommitRetry(r)

Environment ==
  \/ \E w \in Workers : WorkerDies(w)
  \/ \E p \in Publishers : PublisherDies(p)
  \/ \E t \in broker : LoseMessage(t)

Next ==
  \/ \E p \in Publishers : PublisherStep(p)
  \/ \E w \in Workers : WorkerStep(w)
  \/ \E r \in Requests : RequestStep(r)
  \/ ClaimAges \/ LeaseExpires \/ RecoverStaleJob
  \/ Environment

Spec == Init /\ [][Next]_vars

\* Celery keeps its workers and beat running, handlers end (or the hard time
\* limit ends them), clocks advance, and a request that was read is answered.
\* Nothing forces a client to send a request or a fault to happen.
Fairness ==
  /\ \A p \in Publishers : WF_vars(PublisherStep(p))
  /\ \A w \in Workers : WF_vars(WorkerStep(w))
  /\ \A r \in Requests : WF_vars(LoadForRequest(r) \/ CommitCancel(r) \/ CommitRetry(r))
  /\ WF_vars(ClaimAges) /\ WF_vars(LeaseExpires) /\ WF_vars(RecoverStaleJob)

FairSpec == Spec /\ Fairness

-----------------------------------------------------------------------------
(* Properties.                                                             *)

\* Every variable stays in its type.
TypeOK ==
  /\ job \in Row
  /\ expired \subseteq Nat
  /\ claimOld \in BOOLEAN
  /\ lastLease \in Nat
  /\ lastTask \in Nat
  /\ broker \subseteq Nat
  /\ worker \in [Workers -> WorkerState]
  /\ publisher \in [Publishers -> PublisherState]
  /\ request \in [Requests -> RequestState]
  /\ faults \in 0..MaxFaults

\* The row's lease, when it has one, is the last one issued, and no lease was
\* issued to two workers: the reason `_owned_lease` singles out one of them.
LeasesFenced ==
  /\ job.lease \in {NoLease, lastLease}
  /\ \A w \in Workers : Executing(w) => worker[w].lease \in 1..lastLease
  /\ \A v, w \in Workers :
       Executing(v) /\ Executing(w) /\ worker[v].lease = worker[w].lease => v = w

\* However stale the writes of publishers and routes, and however long a
\* worker outlives its lease: at most one worker can pass `_owned_lease`.
OneOwner ==
  \A v, w \in Workers :
    Executing(v) /\ Owns(v) /\ Executing(w) /\ Owns(w) => v = w

\* An outcome is written only under the newest lease ever issued: a worker
\* that was taken over can neither complete, nor fail, nor retry the job.
FencedOutcome ==
  [][\A w \in Workers :
       worker[w].pc = "handling" /\ worker'[w].pc # "handling" /\ job' # job
         => worker[w].lease = lastLease]_vars

\* While leases outlive the workers they were issued to, two deliveries never
\* run the handler at the same time.
HandlerExclusion ==
  \A v, w \in Workers : worker[v].pc = "handling" /\ worker[w].pc = "handling" => v = w

\* Why: the row keeps the live lease of a worker that executes, as running or
\* (after a stale cancel) as cancelled, and while a retry route sits between
\* its SELECT and its commit nothing executes.
ExecutionGuarded ==
  /\ \A w \in Workers :
       Executing(w) => Owns(w) /\ LeaseLive /\ job.status \in {"running", "cancelled"}
  /\ (\E r \in Retriers : request[r].pc = "loaded") =>
       job.status \in {"failed", "cancelled"} /\ \A w \in Workers : ~Executing(w)

\* Attempts exceed max_attempts only by the leases that ran out: a handler
\* that keeps failing is not run more often than the row allows.
AttemptsBounded == job.attempts <= MaxAttempts + Cardinality(expired)

\* From the commit of a cancellation until a manual retry clears it, no
\* delivery starts executing the job and no execution of it succeeds.
CancelIsHonoured ==
  [][job.cancel =>
       /\ lastLease' = lastLease
       /\ job.status # "succeeded" => job'.status # "succeeded"]_vars

\* A job that is not finished always has something that will move it on: a
\* message with its task id, a worker about to send one, a publisher at
\* work, a stage the dispatcher selects, or a lease that will run out.
NeverStranded ==
  \/ job.status \in Terminal \cup {"running"}
  \/ job.task \in broker
  \/ \E w \in Workers : worker[w].pc = "resend" /\ worker[w].task = job.task
  \/ /\ job.status = "queued"
     /\ \/ /\ job.stage \in {"queued", "publish_pending", "publishing"}
           /\ ~job.cancel
        \/ \E p \in Publishers :
             publisher[p].pc = "ready" /\ p \notin Dispatchers /\ Claimable(job, FALSE)

\* The job reaches a terminal status.
EventuallySettled == <>(job.status \in Terminal)

-----------------------------------------------------------------------------
(* The promise the job's handler relies on (FencedJob).                    *)

Executions == {worker[w].lease : w \in {v \in Workers : Executing(v)}}

Fenced == INSTANCE FencedJob WITH
  ended <- job.status \in Terminal,
  holder <- job.lease,
  issued <- lastLease,
  lapsed <- expired,
  executing <- Executions

\* The row, its messages, publishers and routes implement FencedJob: a delivery
\* starts executing only when no live lease stands, and whatever ends the job
\* or hands it on holds its lease.
RefinesFencedJob == Fenced!Spec
=============================================================================
