------------------------- MODULE BackgroundJobsProofs -------------------------
(***************************************************************************)
(* Type correctness of BackgroundJobs, the fencing of its execution        *)
(* leases, the bound on attempts, what a cancellation promises, and that   *)
(* it implements FencedJob when retries do not race each other: for any    *)
(* number of workers, dispatchers and requests, any bound on attempts and  *)
(* any mix of faults.  Last, that a job left alone is never stranded.      *)
(***************************************************************************)
EXTENDS BackgroundJobs, FiniteSetTheorems, TLAPS

-----------------------------------------------------------------------------
(* What a flush leaves in the row.                                         *)

\* The row written by a flush is a row (the UPDATE of _sessions_ that read
\* the row without locking it).
LEMMA FlushType ==
  ASSUME NEW row \in Row, NEW snap \in Row, NEW new \in Row
  PROVE  Flush(row, snap, new) \in Row
BY DEF Flush, Row

\* A flush changes the lease only if the object's lease was changed, and then
\* to the object's lease.
LEMMA FlushLease ==
  ASSUME NEW row \in Row, NEW snap \in Row, NEW new \in Row
  PROVE  Flush(row, snap, new).lease = IF new.lease = snap.lease THEN row.lease ELSE new.lease
BY DEF Flush, Row

-----------------------------------------------------------------------------
(* Type correctness.                                                       *)

\* The values the steps write are statuses and stages.
LEMMA WrittenValues ==
  /\ {"queued", "running", "retrying", "succeeded", "failed", "cancelled"} = Statuses
  /\ {"publishing", "published", "publish_pending", "manual_retry", "started", "processing",
      "backoff", "completed", "retry_exhausted", "failed", "cancelled"} \subseteq Stages
BY DEF Statuses, Stages

\* The counters of a row can be incremented.
LEMMA RowCounters ==
  ASSUME NEW row \in Row
  PROVE  row.version + 1 \in Nat /\ row.attempts + 1 \in Nat
BY DEF Row

LEMMA RestingTypes ==
  /\ NewRow \in Row
  /\ IdleWorker \in WorkerState
  /\ AnsweredRequest \in RequestState
  /\ \A p : RestingPublisher(p) \in PublisherState
<1>1. NewRow \in Row
  BY DEF NewRow, Row, Statuses, Stages, NoLease
<1> QED
  BY <1>1 DEF IdleWorker, WorkerState, AnsweredRequest, RequestState, RestingPublisher,
     PublisherState, NoLease

LEMMA TypeInit == Init => TypeOK
<1> SUFFICES ASSUME Init
             PROVE  TypeOK
  OBVIOUS
<1>1. publisher \in [Publishers -> PublisherState]
  BY RestingTypes DEF Init, PublisherState
<1>2. request \in [Requests -> RequestState]
  BY RestingTypes DEF Init, RequestState
<1>3. worker \in [Workers -> WorkerState]
  BY RestingTypes DEF Init
<1>4. faults \in 0..MaxFaults /\ lastLease \in Nat /\ lastTask \in Nat
  BY JobsAssumption DEF Init
<1> QED
  BY <1>1, <1>2, <1>3, <1>4, RestingTypes DEF Init, TypeOK

\* Moving a publisher to another control point keeps its type.
LEMMA PublisherMoves ==
  ASSUME TypeOK, NEW p \in Publishers, NEW c \in {"claimed", "sent", "refused", "ready"}
  PROVE  [publisher EXCEPT ![p].pc = c] \in [Publishers -> PublisherState]
BY DEF TypeOK, PublisherState

LEMMA ClaimForPublishType ==
  ASSUME TypeOK, NEW p \in Publishers, ClaimForPublish(p)
  PROVE  TypeOK'
<1>1. job' \in Row
  BY WrittenValues, RowCounters DEF TypeOK, ClaimForPublish, Row
<1> QED
  BY <1>1, PublisherMoves DEF TypeOK, ClaimForPublish

LEMMA PublisherType ==
  ASSUME TypeOK, NEW p \in Publishers, PublisherStep(p)
  PROVE  TypeOK'
<1>1. CASE PublishJob(p)
  <2>1. CASE ClaimForPublish(p)
    BY <2>1, ClaimForPublishType
  <2>2. CASE ~Claimable(job, FALSE)
    <3>1. publisher' = [publisher EXCEPT ![p] = RestingPublisher(p)]
      BY <1>1, <2>2 DEF PublishJob
    <3>2. publisher' \in [Publishers -> PublisherState]
      BY <3>1, RestingTypes DEF TypeOK
    <3> QED
      BY <1>1, <2>2, <3>2 DEF TypeOK, PublishJob
  <2> QED
    BY <1>1, <2>1, <2>2 DEF PublishJob
<1>2. CASE DispatchQueuedJob(p)
  BY <1>2, ClaimForPublishType DEF DispatchQueuedJob
<1>3. CASE LoadClaimed(p)
  <2>1. [publisher[p] EXCEPT !.pc = "loaded", !.task = job.task] \in PublisherState
    BY DEF TypeOK, PublisherState, Row
  <2> QED
    BY <1>3, <2>1, RestingTypes DEF TypeOK, LoadClaimed
<1>4. CASE ApplyAsync(p)
  <2>1. broker' \subseteq Nat
    BY <1>4 DEF TypeOK, ApplyAsync, PublisherState
  <2>2. publisher' \in [Publishers -> PublisherState]
    BY <1>4, PublisherMoves DEF ApplyAsync
  <2>3. faults' \in 0..MaxFaults
    BY <1>4, JobsAssumption DEF TypeOK, ApplyAsync, Fault
  <2> QED
    BY <1>4, <2>1, <2>2, <2>3 DEF TypeOK, ApplyAsync
<1>5. CASE ReloadPublished(p)
  <2>1. \A c \in {"noting", "unsent"} :
          [publisher[p] EXCEPT !.pc = c, !.snap = job] \in PublisherState
    BY DEF TypeOK, PublisherState
  <2> QED
    BY <1>5, <2>1, RestingTypes DEF TypeOK, ReloadPublished
<1>6. CASE NotePublished(p)
  <2> DEFINE read == publisher[p].snap
             outcome == IF publisher[p].pc = "noting" THEN "published" ELSE "publish_pending"
             new == [read EXCEPT !.stage = outcome, !.version = @ + 1]
  <2>1. read \in Row
    BY DEF TypeOK, PublisherState
  <2>2. new \in Row
    BY <2>1, WrittenValues, RowCounters DEF Row
  <2>3. Flush(job, read, new) \in Row
    BY <2>1, <2>2, FlushType DEF TypeOK
  <2> QED
    BY <1>6, <2>3, RestingTypes DEF TypeOK, NotePublished
<1> QED
  BY <1>1, <1>2, <1>3, <1>4, <1>5, <1>6 DEF PublisherStep

\* A worker handles the message of some task.
LEMMA MessageType ==
  ASSUME TypeOK, NEW w \in Workers
  PROVE  worker[w].task \in Nat
BY DEF TypeOK, WorkerState

\* A worker that settles the job leaves a row.
LEMMA SettledRow ==
  ASSUME NEW row \in Row
  PROVE  [row EXCEPT !.lease = NoLease, !.version = @ + 1] \in Row
BY RowCounters DEF Row, NoLease

LEMMA SettleType ==
  ASSUME TypeOK, NEW w \in Workers, NEW row \in Row, Settle(w, row),
         worker' \in [Workers -> WorkerState]
  PROVE  TypeOK'
BY SettledRow DEF TypeOK, Settle

LEMMA WorkerType ==
  ASSUME TypeOK, NEW w \in Workers, WorkerStep(w)
  PROVE  TypeOK'
<1>1. ASSUME NEW t \in broker, IgnoreDelivery(w, t)
      PROVE  TypeOK'
  BY <1>1 DEF TypeOK, IgnoreDelivery, Receive
<1>2. ASSUME NEW t \in broker, CancelDelivery(w, t)
      PROVE  TypeOK'
  <2>1. job' \in Row
    BY <1>2, WrittenValues, RowCounters DEF TypeOK, CancelDelivery, Row, NoLease
  <2> QED
    BY <1>2, <2>1 DEF TypeOK, CancelDelivery, Receive
<1>3. ASSUME NEW t \in broker, ClaimDelivery(w, t)
      PROVE  TypeOK'
  <2>1. lastLease + 1 \in Nat
    BY DEF TypeOK
  <2>2. job' \in Row
    BY <1>3, <2>1, WrittenValues, RowCounters DEF TypeOK, ClaimDelivery, Row
  <2>3. worker' \in [Workers -> WorkerState]
    BY <1>3, <2>1 DEF TypeOK, ClaimDelivery, WorkerState
  <2> QED
    BY <1>3, <2>1, <2>2, <2>3 DEF TypeOK, ClaimDelivery, Receive
<1>4. CASE StartHandler(w)
  <2>1. job' \in Row
    BY <1>4, WrittenValues, RowCounters DEF TypeOK, StartHandler, Row
  <2>2. worker' \in [Workers -> WorkerState]
    BY <1>4 DEF TypeOK, StartHandler, WorkerState
  <2> QED
    BY <1>4, <2>1, <2>2 DEF TypeOK, StartHandler
<1>5. CASE LeaseLost(w)
  BY <1>5, RestingTypes DEF TypeOK, LeaseLost
<1>6. ASSUME Released(w)
      PROVE  worker' \in [Workers -> WorkerState]
  BY <1>6, RestingTypes DEF TypeOK, Released
<1>7. \A s \in Statuses, g \in Stages : [job EXCEPT !.status = s, !.stage = g] \in Row
  BY DEF TypeOK, Row
<1>8. CASE Succeed(w)
  BY <1>6, <1>7, <1>8, SettleType, WrittenValues DEF Succeed
<1>9. CASE StopCancelled(w)
  BY <1>6, <1>7, <1>9, SettleType, WrittenValues DEF StopCancelled
<1>10. \A g \in Stages, b \in BOOLEAN :
         [job EXCEPT !.status = "failed", !.stage = g, !.retryable = b] \in Row
  BY WrittenValues DEF TypeOK, Row
<1>11. CASE FailPermanently(w)
  BY <1>6, <1>10, <1>11, SettleType, WrittenValues DEF FailPermanently
<1>12. CASE ExhaustRetries(w)
  BY <1>6, <1>10, <1>12, SettleType, WrittenValues DEF ExhaustRetries
<1>13. CASE BackOff(w)
  <2>1. worker' \in [Workers -> WorkerState]
    <3>1. [worker[w] EXCEPT !.pc = "resend", !.lease = NoLease] \in WorkerState
      BY DEF TypeOK, WorkerState, NoLease
    <3> QED
      BY <1>13, <3>1 DEF TypeOK, BackOff
  <2> QED
    BY <1>7, <1>13, <2>1, SettleType, WrittenValues DEF BackOff
<1>14. CASE ResendMessage(w)
  <2>1. broker' \subseteq Nat
    <3>1. broker \subseteq Nat /\ worker[w].task \in Nat
      BY MessageType DEF TypeOK
    <3>2. broker' = broker \/ broker' = broker \cup {worker[w].task}
      BY <1>14 DEF ResendMessage
    <3> QED
      BY <3>1, <3>2
  <2>2. faults' \in 0..MaxFaults
    BY <1>14, JobsAssumption DEF TypeOK, ResendMessage, Fault
  <2> QED
    BY <1>6, <1>14, <2>1, <2>2 DEF TypeOK, ResendMessage
<1> QED
  BY <1>1, <1>2, <1>3, <1>4, <1>5, <1>8, <1>9, <1>11, <1>12, <1>13, <1>14 DEF WorkerStep

LEMMA RequestType ==
  ASSUME TypeOK, NEW r \in Requests, RequestStep(r)
  PROVE  TypeOK'
<1> DEFINE read == request[r].snap
<1>1. read \in Row
  BY DEF TypeOK, RequestState
<1>2. CASE GetJob(r)
  <2>1. [request[r] EXCEPT !.pc = "armed", !.etag = job.version] \in RequestState
    BY DEF TypeOK, RequestState, Row
  <2> QED
    BY <1>2, <2>1 DEF TypeOK, GetJob
<1>3. CASE LoadForRequest(r)
  <2>1. [request[r] EXCEPT !.pc = "loaded", !.snap = job] \in RequestState
    BY DEF TypeOK, RequestState
  <2> QED
    BY <1>3, <2>1, RestingTypes DEF TypeOK, LoadForRequest
<1>4. CASE CommitCancel(r)
  <2> DEFINE asked == [read EXCEPT !.cancel = TRUE, !.version = @ + 1]
             new == IF read.status = "queued"
                      THEN [asked EXCEPT !.status = "cancelled", !.stage = "cancelled"] ELSE asked
  <2>1. asked \in Row
    BY <1>1, RowCounters DEF Row
  <2>2. new \in Row
    BY <2>1, WrittenValues DEF Row
  <2>3. Flush(job, read, new) \in Row
    BY <1>1, <2>2, FlushType DEF TypeOK
  <2> QED
    BY <1>4, <2>3, RestingTypes DEF TypeOK, CommitCancel
<1>5. CASE CommitRetry(r)
  <2> DEFINE new == [read EXCEPT !.status = "queued", !.stage = "manual_retry", !.cancel = FALSE,
                                 !.attempts = 0, !.task = lastTask + 1, !.lease = NoLease,
                                 !.version = @ + 1]
  <2>1. new \in Row
    <3>1. lastTask + 1 \in Nat
      BY DEF TypeOK
    <3> QED
      BY <1>1, <3>1, WrittenValues, RowCounters DEF Row, NoLease
  <2>2. Flush(job, read, new) \in Row
    BY <1>1, <2>1, FlushType DEF TypeOK
  <2>3. publisher' \in [Publishers -> PublisherState]
    BY <1>5, PublisherMoves DEF CommitRetry, Publishers
  <2> QED
    BY <1>5, <2>2, <2>3, RestingTypes DEF TypeOK, CommitRetry
<1> QED
  BY <1>2, <1>3, <1>4, <1>5 DEF RequestStep

LEMMA EnvironmentType ==
  ASSUME TypeOK, ClaimAges \/ LeaseExpires \/ RecoverStaleJob \/ Environment
  PROVE  TypeOK'
<1> USE JobsAssumption
<1>1. CASE ClaimAges
  BY <1>1 DEF TypeOK, ClaimAges, Fault
<1>2. CASE LeaseExpires
  <2>1. expired' \subseteq Nat
    <3>1. job.lease \in Nat
      BY DEF TypeOK, Row
    <3> QED
      BY <1>2, <3>1 DEF TypeOK, LeaseExpires
  <2>2. faults' \in 0..MaxFaults
    BY <1>2 DEF TypeOK, LeaseExpires, Fault
  <2> QED
    BY <1>2, <2>1, <2>2 DEF TypeOK, LeaseExpires
<1>3. CASE RecoverStaleJob
  <2>1. lastTask + 1 \in Nat
    BY DEF TypeOK
  <2>2. job' \in Row
    BY <1>3, <2>1, WrittenValues, RowCounters DEF TypeOK, RecoverStaleJob, Row, NoLease
  <2> QED
    BY <1>3, <2>1, <2>2 DEF TypeOK, RecoverStaleJob
<1>4. ASSUME NEW w \in Workers, WorkerDies(w)
      PROVE  TypeOK'
  <2>1. broker' \subseteq Nat
    <3>1. broker \subseteq Nat /\ worker[w].task \in Nat
      BY MessageType DEF TypeOK
    <3>2. broker' = broker \/ broker' = broker \cup {worker[w].task}
      BY <1>4 DEF WorkerDies
    <3> QED
      BY <3>1, <3>2
  <2>2. faults' \in 0..MaxFaults
    BY <1>4 DEF TypeOK, WorkerDies, Fault
  <2> QED
    BY <1>4, <2>1, <2>2, RestingTypes DEF TypeOK, WorkerDies, Released
<1>5. ASSUME NEW p \in Publishers, PublisherDies(p)
      PROVE  TypeOK'
  BY <1>5, RestingTypes DEF TypeOK, PublisherDies, Fault
<1>6. ASSUME NEW t \in broker, LoseMessage(t)
      PROVE  TypeOK'
  BY <1>6 DEF TypeOK, LoseMessage, Fault
<1> QED
  BY <1>1, <1>2, <1>3, <1>4, <1>5, <1>6 DEF Environment

LEMMA TypeStep == TypeOK /\ [Next]_vars => TypeOK'
<1>1. CASE UNCHANGED vars
  BY <1>1 DEF TypeOK, vars
<1> QED
  BY <1>1, PublisherType, WorkerType, RequestType, EnvironmentType DEF Next

\* Every reachable row, message, publisher, worker and request is well typed.
THEOREM TypeCorrect == Spec => []TypeOK
  BY TypeInit, TypeStep, PTL DEF Spec

-----------------------------------------------------------------------------
(* Fencing: stale writes never bring an old lease back.                    *)

\* What the three unlocked commits do to the lease and the status.
LEMMA NotePublishedWrites ==
  ASSUME TypeOK, NEW p \in Publishers, NotePublished(p)
  PROVE  job'.lease = job.lease /\ job'.status = job.status
<1> DEFINE read == publisher[p].snap
           outcome == IF publisher[p].pc = "noting" THEN "published" ELSE "publish_pending"
           new == [read EXCEPT !.stage = outcome, !.version = @ + 1]
<1>1. read \in Row /\ job \in Row
  BY DEF TypeOK, PublisherState
<1>2. new.lease = read.lease /\ new.status = read.status
  BY <1>1 DEF Row
<1>3. job' = Flush(job, read, new)
  BY DEF NotePublished
<1> QED
  BY <1>1, <1>2, <1>3 DEF Flush, Row

LEMMA CommitCancelWrites ==
  ASSUME TypeOK, NEW r \in Requests, CommitCancel(r)
  PROVE  job'.lease = job.lease /\ job'.status \in {job.status, "cancelled"}
<1> DEFINE read == request[r].snap
           asked == [read EXCEPT !.cancel = TRUE, !.version = @ + 1]
           new == IF read.status = "queued"
                    THEN [asked EXCEPT !.status = "cancelled", !.stage = "cancelled"] ELSE asked
<1>1. read \in Row /\ job \in Row
  BY DEF TypeOK, RequestState
<1>2. new.lease = read.lease /\ new.status \in {read.status, "cancelled"}
  BY <1>1 DEF Row
<1>3. job' = Flush(job, read, new)
  BY DEF CommitCancel
<1> QED
  BY <1>1, <1>2, <1>3 DEF Flush, Row

LEMMA CommitRetryWrites ==
  ASSUME TypeOK, NEW r \in Requests, CommitRetry(r)
  PROVE  job'.lease \in {job.lease, NoLease}
<1> DEFINE read == request[r].snap
           new == [read EXCEPT !.status = "queued", !.stage = "manual_retry", !.cancel = FALSE,
                               !.attempts = 0, !.task = lastTask + 1, !.lease = NoLease,
                               !.version = @ + 1]
<1>1. read \in Row /\ job \in Row
  BY DEF TypeOK, RequestState
<1>2. new.lease = NoLease
  BY <1>1 DEF Row
<1>3. job' = Flush(job, read, new)
  BY DEF CommitRetry
<1> QED
  BY <1>1, <1>2, <1>3 DEF Flush, Row

\* A step that issues no lease, leaves the row its lease or none, and lets no
\* worker start executing or change its lease, keeps the fence.
LEMMA FenceKept ==
  ASSUME TypeOK, LeasesFenced, lastLease' = lastLease, job'.lease \in {job.lease, NoLease},
         \A w \in Workers : Executing(w)' => Executing(w) /\ worker'[w].lease = worker[w].lease
  PROVE  LeasesFenced'
BY DEF LeasesFenced

LEMMA FenceSettle ==
  ASSUME TypeOK, LeasesFenced, NEW w \in Workers, NEW row \in Row, Settle(w, row),
         Released(w) \/ worker' = [worker EXCEPT ![w].pc = "resend", ![w].lease = NoLease]
  PROVE  LeasesFenced'
<1>1. job'.lease = NoLease /\ lastLease' = lastLease
  BY DEF Settle, Row
<1>2. \A v \in Workers : Executing(v)' => Executing(v) /\ worker'[v].lease = worker[v].lease
  BY DEF TypeOK, Executing, Released, IdleWorker, WorkerState
<1> QED
  BY <1>1, <1>2, FenceKept

LEMMA FencePublisher ==
  ASSUME TypeOK, LeasesFenced, NEW p \in Publishers, PublisherStep(p)
  PROVE  LeasesFenced'
<1>1. lastLease' = lastLease /\ worker' = worker
  BY DEF PublisherStep, PublishJob, DispatchQueuedJob, ClaimForPublish, LoadClaimed, ApplyAsync,
     ReloadPublished, NotePublished
<1>2. job'.lease = job.lease
  <2>1. CASE NotePublished(p)
    BY <2>1, NotePublishedWrites
  <2>2. ASSUME ClaimForPublish(p)
        PROVE  job'.lease = job.lease
    BY <2>2 DEF TypeOK, ClaimForPublish, Row
  <2> QED
    BY <2>1, <2>2 DEF PublisherStep, PublishJob, DispatchQueuedJob, LoadClaimed, ApplyAsync,
       ReloadPublished
<1> QED
  BY <1>1, <1>2, FenceKept DEF Executing

LEMMA FenceWorker ==
  ASSUME TypeOK, LeasesFenced, NEW w \in Workers, WorkerStep(w)
  PROVE  LeasesFenced'
<1>1. ASSUME NEW t \in broker, IgnoreDelivery(w, t)
      PROVE  LeasesFenced'
  BY <1>1, FenceKept DEF IgnoreDelivery, Executing
<1>2. ASSUME NEW t \in broker, CancelDelivery(w, t)
      PROVE  LeasesFenced'
  <2>1. job'.lease = NoLease
    BY <1>2 DEF TypeOK, CancelDelivery, Row
  <2> QED
    BY <1>2, <2>1, FenceKept DEF CancelDelivery, Executing
<1>3. ASSUME NEW t \in broker, ClaimDelivery(w, t)
      PROVE  LeasesFenced'
  <2>1. lastLease \in Nat /\ lastLease' = lastLease + 1 /\ job'.lease = lastLease + 1
    BY <1>3 DEF TypeOK, ClaimDelivery, Row
  <2>2. /\ worker'[w].lease = lastLease + 1
        /\ \A v \in Workers \ {w} : worker'[v] = worker[v]
    BY <1>3 DEF TypeOK, ClaimDelivery
  <2> QED
    BY <2>1, <2>2 DEF LeasesFenced, Executing
<1>4. CASE StartHandler(w)
  <2>1. job'.lease = job.lease /\ lastLease' = lastLease
    BY <1>4 DEF TypeOK, StartHandler, Row
  <2>2. \A v \in Workers : Executing(v)' => Executing(v) /\ worker'[v].lease = worker[v].lease
    BY <1>4 DEF TypeOK, StartHandler, Executing, WorkerState
  <2> QED
    BY <2>1, <2>2, FenceKept
<1>5. ASSUME Released(w), lastLease' = lastLease, job' = job
      PROVE  LeasesFenced'
  <2>1. \A v \in Workers : Executing(v)' => Executing(v) /\ worker'[v].lease = worker[v].lease
    BY <1>5 DEF TypeOK, Released, Executing, IdleWorker
  <2> QED
    BY <1>5, <2>1, FenceKept
<1>6. CASE LeaseLost(w) \/ ResendMessage(w)
  BY <1>5, <1>6 DEF LeaseLost, ResendMessage, Released
<1>7. \A s \in Statuses, g \in Stages : [job EXCEPT !.status = s, !.stage = g] \in Row
  BY DEF TypeOK, Row
<1>8. \A g \in Stages, b \in BOOLEAN :
        [job EXCEPT !.status = "failed", !.stage = g, !.retryable = b] \in Row
  BY WrittenValues DEF TypeOK, Row
<1>9. CASE Succeed(w) \/ StopCancelled(w) \/ BackOff(w)
  BY <1>7, <1>9, FenceSettle, WrittenValues DEF Succeed, StopCancelled, BackOff
<1>10. CASE FailPermanently(w) \/ ExhaustRetries(w)
  BY <1>8, <1>10, FenceSettle, WrittenValues DEF FailPermanently, ExhaustRetries
<1> QED
  BY <1>1, <1>2, <1>3, <1>4, <1>6, <1>9, <1>10 DEF WorkerStep

LEMMA FenceOthers ==
  ASSUME TypeOK, LeasesFenced,
         \/ \E r \in Requests : RequestStep(r)
         \/ ClaimAges \/ LeaseExpires \/ RecoverStaleJob \/ Environment
  PROVE  LeasesFenced'
<1>1. ASSUME NEW r \in Requests, RequestStep(r)
      PROVE  LeasesFenced'
  <2>1. lastLease' = lastLease /\ worker' = worker
    BY <1>1 DEF RequestStep, GetJob, LoadForRequest, CommitCancel, CommitRetry
  <2>2. job'.lease \in {job.lease, NoLease}
    BY <1>1, CommitCancelWrites, CommitRetryWrites DEF RequestStep, GetJob, LoadForRequest
  <2> QED
    BY <2>1, <2>2, FenceKept DEF Executing
<1>2. CASE ClaimAges \/ LeaseExpires
  BY <1>2, FenceKept DEF ClaimAges, LeaseExpires, Executing
<1>3. CASE RecoverStaleJob
  <2>1. job'.lease = NoLease
    BY <1>3 DEF TypeOK, RecoverStaleJob, Row
  <2> QED
    BY <1>3, <2>1, FenceKept DEF RecoverStaleJob, Executing
<1>4. ASSUME NEW w \in Workers, WorkerDies(w)
      PROVE  LeasesFenced'
  <2>1. \A v \in Workers : Executing(v)' => Executing(v) /\ worker'[v].lease = worker[v].lease
    BY <1>4 DEF TypeOK, WorkerDies, Released, Executing, IdleWorker
  <2> QED
    BY <1>4, <2>1, FenceKept DEF WorkerDies
<1>5. ASSUME \/ \E p \in Publishers : PublisherDies(p)
             \/ \E t \in broker : LoseMessage(t)
      PROVE  LeasesFenced'
  BY <1>5, FenceKept DEF PublisherDies, LoseMessage, Executing
<1> QED
  BY <1>1, <1>2, <1>3, <1>4, <1>5 DEF Environment

LEMMA FenceStep == TypeOK /\ LeasesFenced /\ [Next]_vars => LeasesFenced'
<1>1. ASSUME TypeOK, LeasesFenced, UNCHANGED vars
      PROVE  LeasesFenced'
  BY <1>1, FenceKept DEF vars, Executing
<1> QED
  BY <1>1, FencePublisher, FenceWorker, FenceOthers DEF Next

LEMMA FenceInit == Init => LeasesFenced
BY DEF Init, LeasesFenced, NewRow, Executing, IdleWorker, NoLease

\* In every behaviour the row's lease is the newest or none, and the workers
\* that execute hold different leases.
THEOREM Fencing == Spec => []LeasesFenced
  BY TypeInit, TypeStep, FenceInit, FenceStep, PTL DEF Spec

\* At most one worker can pass `_owned_lease`, in every behaviour: two
\* workers that own the row's lease have the same lease.
THEOREM SingleOwner == Spec => []OneOwner
<1>1. LeasesFenced => OneOwner
  BY DEF LeasesFenced, OneOwner, Owns
<1> QED
  BY <1>1, Fencing, PTL

LEMMA OwnerHoldsNewest ==
  ASSUME TypeOK, LeasesFenced, NEW w \in Workers, Executing(w), Owns(w)
  PROVE  worker[w].lease = lastLease
BY DEF TypeOK, LeasesFenced, Owns, NoLease

\* Only a worker's own steps and its death take it out of the handler, and of
\* these only a settlement, which it makes as the owner, changes the row.
LEMMA OutcomeStep ==
  ASSUME TypeOK, LeasesFenced, [Next]_vars, NEW w \in Workers,
         worker[w].pc = "handling", worker'[w].pc # "handling", job' # job
  PROVE  worker[w].lease = lastLease
<1>1. worker' # worker /\ job' # job
  OBVIOUS
<1>2. ASSUME NEW v \in Workers, WorkerStep(v)
      PROVE  worker[w].lease = lastLease
  <2>1. v = w
    <3> SUFFICES ASSUME v # w
                 PROVE  worker'[w] = worker[w]
      OBVIOUS
    <3> QED
      BY <1>2 DEF TypeOK, WorkerStep, IgnoreDelivery, CancelDelivery, ClaimDelivery,
         StartHandler, LeaseLost, Succeed, StopCancelled, FailPermanently, ExhaustRetries,
         BackOff, ResendMessage, Released
  <2>2. Owns(w)
    BY <1>2, <1>1, <2>1 DEF WorkerStep, IgnoreDelivery, CancelDelivery, ClaimDelivery,
       StartHandler, LeaseLost, Succeed, StopCancelled, FailPermanently, ExhaustRetries,
       BackOff, ResendMessage, Settle
  <2> QED
    BY <2>2, OwnerHoldsNewest DEF Executing
<1>3. ASSUME \E v \in Workers : WorkerDies(v)
      PROVE  job' = job
  BY <1>3 DEF WorkerDies
<1>4. ASSUME NEW p \in Publishers, PublisherStep(p)
      PROVE  worker' = worker
  BY <1>4 DEF PublisherStep, PublishJob, DispatchQueuedJob, ClaimForPublish, LoadClaimed,
     ApplyAsync, ReloadPublished, NotePublished
<1>5. ASSUME NEW r \in Requests, RequestStep(r)
      PROVE  worker' = worker
  BY <1>5 DEF RequestStep, GetJob, LoadForRequest, CommitCancel, CommitRetry
<1>6. ASSUME \/ ClaimAges \/ LeaseExpires \/ RecoverStaleJob
             \/ \E p \in Publishers : PublisherDies(p)
             \/ \E t \in broker : LoseMessage(t)
      PROVE  worker' = worker
  BY <1>6 DEF ClaimAges, LeaseExpires, RecoverStaleJob, PublisherDies, LoseMessage
<1>7. UNCHANGED vars => worker' = worker
  BY DEF vars
<1> QED
  BY <1>1, <1>2, <1>3, <1>4, <1>5, <1>6, <1>7 DEF Next, Environment

\* Every outcome of the job is written under the newest lease: a worker that
\* was taken over can neither complete, nor fail, nor retry it.
THEOREM OutcomesAreFenced == Spec => FencedOutcome
<1>1. TypeOK /\ LeasesFenced /\ [Next]_vars =>
        [\A w \in Workers :
           worker[w].pc = "handling" /\ worker'[w].pc # "handling" /\ job' # job
             => worker[w].lease = lastLease]_vars
  BY OutcomeStep
<1> QED
  BY <1>1, TypeCorrect, Fencing, PTL DEF Spec, FencedOutcome

-----------------------------------------------------------------------------
(* Mutual exclusion of the handler, when leases outlive workers and at most *)
(* one retry route can be between its SELECT and its commit.                *)

\* Only leases that were issued can have run out.
ExpiredIssued == expired \subseteq 1..lastLease

LEMMA ExpiredStep ==
  TypeOK /\ LeasesFenced /\ ExpiredIssued /\ [Next]_vars => ExpiredIssued'
<1> SUFFICES ASSUME TypeOK, LeasesFenced, ExpiredIssued, [Next]_vars
             PROVE  ExpiredIssued'
  OBVIOUS
<1>1. ASSUME expired' = expired, lastLease' \in {lastLease, lastLease + 1}
      PROVE  ExpiredIssued'
  BY <1>1 DEF TypeOK, ExpiredIssued
<1>2. CASE LeaseExpires
  <2>1. job.lease \in 1..lastLease
    BY <1>2 DEF TypeOK, LeasesFenced, LeaseExpires, LeaseLive, NoLease
  <2> QED
    BY <1>2, <2>1 DEF LeaseExpires, ExpiredIssued
<1>3. ASSUME NEW p \in Publishers, PublisherStep(p)
      PROVE  expired' = expired /\ lastLease' = lastLease
  BY <1>3 DEF PublisherStep, PublishJob, DispatchQueuedJob, ClaimForPublish, LoadClaimed,
     ApplyAsync, ReloadPublished, NotePublished
<1>4. ASSUME NEW w \in Workers, WorkerStep(w)
      PROVE  expired' = expired /\ lastLease' \in {lastLease, lastLease + 1}
  BY <1>4 DEF WorkerStep, IgnoreDelivery, CancelDelivery, ClaimDelivery, StartHandler, LeaseLost,
     Succeed, StopCancelled, FailPermanently, ExhaustRetries, BackOff, Settle, ResendMessage
<1>5. ASSUME NEW r \in Requests, RequestStep(r)
      PROVE  expired' = expired /\ lastLease' = lastLease
  BY <1>5 DEF RequestStep, GetJob, LoadForRequest, CommitCancel, CommitRetry
<1>6. ASSUME ClaimAges \/ RecoverStaleJob \/ Environment
      PROVE  expired' = expired /\ lastLease' = lastLease
  BY <1>6 DEF ClaimAges, RecoverStaleJob, Environment, WorkerDies, PublisherDies, LoseMessage
<1>7. UNCHANGED vars => expired' = expired /\ lastLease' = lastLease
  BY DEF vars
<1> QED
  BY <1>1, <1>2, <1>3, <1>4, <1>5, <1>6, <1>7 DEF Next

NoOverrun == "overrun" \notin Faults
OneRetrier == \A r, s \in Retriers : r = s

\* A step that starts and stops no execution, leaves the lease, the expired
\* leases and the loaded retries, and keeps a guarded status, keeps the guard.
LEMMA GuardKept ==
  ASSUME TypeOK, ExecutionGuarded, job'.lease = job.lease, expired' = expired,
         job'.status \in {job.status, "cancelled"},
         \A w \in Workers : Executing(w)' => Executing(w) /\ worker'[w].lease = worker[w].lease,
         \A r \in Retriers : request'[r].pc = "loaded" => request[r].pc = "loaded"
  PROVE  ExecutionGuarded'
BY DEF ExecutionGuarded, Owns, LeaseLive

\* When no worker is left executing and no retry is loaded, nothing is left
\* to guard.
LEMMA GuardVacuous ==
  ASSUME \A w \in Workers : ~Executing(w)', \A r \in Retriers : request'[r].pc # "loaded"
  PROVE  ExecutionGuarded'
BY DEF ExecutionGuarded

LEMMA GuardSettle ==
  ASSUME TypeOK, LeasesFenced, ExecutionGuarded, NEW w \in Workers, NEW row \in Row,
         Settle(w, row),
         Released(w) \/ worker' = [worker EXCEPT ![w].pc = "resend", ![w].lease = NoLease]
  PROVE  ExecutionGuarded'
<1>1. Executing(w) /\ Owns(w)
  BY DEF Settle, Executing
<1>2. \A v \in Workers \ {w} : ~Executing(v)
  BY <1>1 DEF ExecutionGuarded, LeasesFenced, Owns
<1>3. \A v \in Workers : ~Executing(v)'
  BY <1>2 DEF TypeOK, Executing, Released, IdleWorker, WorkerState
<1>4. \A r \in Retriers : request'[r].pc # "loaded"
  BY <1>1 DEF ExecutionGuarded, Settle
<1> QED
  BY <1>3, <1>4, GuardVacuous

LEMMA GuardPublisher ==
  ASSUME TypeOK, ExecutionGuarded, NEW p \in Publishers, PublisherStep(p)
  PROVE  ExecutionGuarded'
<1>1. expired' = expired /\ worker' = worker /\ request' = request
  BY DEF PublisherStep, PublishJob, DispatchQueuedJob, ClaimForPublish, LoadClaimed, ApplyAsync,
     ReloadPublished, NotePublished
<1>2. job'.lease = job.lease /\ job'.status = job.status
  <2>1. CASE NotePublished(p)
    BY <2>1, NotePublishedWrites
  <2>2. ASSUME ClaimForPublish(p)
        PROVE  job'.lease = job.lease /\ job'.status = job.status
    BY <2>2 DEF TypeOK, ClaimForPublish, Row
  <2> QED
    BY <2>1, <2>2 DEF PublisherStep, PublishJob, DispatchQueuedJob, LoadClaimed, ApplyAsync,
       ReloadPublished
<1> QED
  BY <1>1, <1>2, GuardKept DEF Executing

LEMMA GuardWorker ==
  ASSUME TypeOK, LeasesFenced, ExecutionGuarded, NEW w \in Workers, WorkerStep(w),
         lastLease + 1 \notin expired
  PROVE  ExecutionGuarded'
<1>1. ASSUME NEW t \in broker, IgnoreDelivery(w, t)
      PROVE  ExecutionGuarded'
  BY <1>1, GuardKept DEF IgnoreDelivery, Executing
<1>2. ASSUME NEW t \in broker, CancelDelivery(w, t) \/ ClaimDelivery(w, t)
      PROVE  /\ \A v \in Workers : ~Executing(v)
             /\ \A r \in Retriers : request[r].pc # "loaded"
  BY <1>2 DEF CancelDelivery, ClaimDelivery, Ignored, ExecutionGuarded, Terminal
<1>3. ASSUME NEW t \in broker, CancelDelivery(w, t)
      PROVE  ExecutionGuarded'
  BY <1>2, <1>3, GuardVacuous DEF CancelDelivery, Executing
<1>4. ASSUME NEW t \in broker, ClaimDelivery(w, t)
      PROVE  ExecutionGuarded'
  <2>1. job'.lease = lastLease + 1 /\ job'.status = "running"
    BY <1>4 DEF TypeOK, ClaimDelivery, Row
  <2>2. /\ worker'[w].lease = lastLease + 1
        /\ \A v \in Workers \ {w} : worker'[v] = worker[v]
        /\ expired' = expired /\ request' = request
    BY <1>4 DEF TypeOK, ClaimDelivery
  <2>3. lastLease + 1 # NoLease
    BY DEF TypeOK, NoLease
  <2>4. \A v \in Workers : Executing(v)' => v = w
    BY <1>2, <1>4, <2>2 DEF Executing
  <2> QED
    BY <1>2, <1>4, <2>1, <2>2, <2>3, <2>4 DEF ExecutionGuarded, Owns, LeaseLive
<1>5. CASE StartHandler(w)
  <2>1. job'.lease = job.lease /\ job'.status = job.status /\ expired' = expired
    BY <1>5 DEF TypeOK, StartHandler, Row
  <2>2. \A v \in Workers : Executing(v)' => Executing(v) /\ worker'[v].lease = worker[v].lease
    BY <1>5 DEF TypeOK, StartHandler, Executing, WorkerState
  <2> QED
    BY <1>5, <2>1, <2>2, GuardKept DEF StartHandler
<1>6. CASE LeaseLost(w) \/ ResendMessage(w)
  <2>1. \A v \in Workers : Executing(v)' => Executing(v) /\ worker'[v].lease = worker[v].lease
    BY <1>6 DEF TypeOK, LeaseLost, ResendMessage, Released, Executing, IdleWorker
  <2> QED
    BY <1>6, <2>1, GuardKept DEF LeaseLost, ResendMessage
<1>7. \A s \in Statuses, g \in Stages : [job EXCEPT !.status = s, !.stage = g] \in Row
  BY DEF TypeOK, Row
<1>8. \A g \in Stages, b \in BOOLEAN :
        [job EXCEPT !.status = "failed", !.stage = g, !.retryable = b] \in Row
  BY WrittenValues DEF TypeOK, Row
<1>9. CASE Succeed(w) \/ StopCancelled(w) \/ BackOff(w)
  BY <1>7, <1>9, GuardSettle, WrittenValues DEF Succeed, StopCancelled, BackOff
<1>10. CASE FailPermanently(w) \/ ExhaustRetries(w)
  BY <1>8, <1>10, GuardSettle, WrittenValues DEF FailPermanently, ExhaustRetries
<1> QED
  BY <1>1, <1>3, <1>4, <1>5, <1>6, <1>9, <1>10 DEF WorkerStep

LEMMA GuardRequest ==
  ASSUME OneRetrier, TypeOK, LeasesFenced, ExecutionGuarded,
         NEW r \in Requests, RequestStep(r)
  PROVE  ExecutionGuarded'
<1> USE JobsAssumption
<1>1. CASE GetJob(r)
  <2>1. \A s \in Requests : request'[s].pc = "loaded" => request[s].pc = "loaded"
    BY <1>1 DEF TypeOK, GetJob, RequestState
  <2> QED
    BY <1>1, <2>1, GuardKept DEF GetJob, Executing, Requests
<1>2. CASE LoadForRequest(r)
  <2>1. CASE r \in Retriers /\ request'[r].pc = "loaded"
    <3>1. job.status = "failed"
      BY <1>2, <2>1 DEF TypeOK, LoadForRequest, Retryable, AnsweredRequest
    <3>2. \A w \in Workers : ~Executing(w)
      BY <3>1 DEF ExecutionGuarded
    <3> QED
      BY <1>2, <3>1, <3>2 DEF ExecutionGuarded, LoadForRequest, Executing
  <2>2. CASE r \notin Retriers \/ request'[r].pc # "loaded"
    <3>1. \A s \in Retriers : request'[s].pc = "loaded" => request[s].pc = "loaded"
      BY <1>2, <2>2 DEF TypeOK, LoadForRequest
    <3> QED
      BY <1>2, <3>1, GuardKept DEF LoadForRequest, Executing
  <2> QED
    BY <2>1, <2>2
<1>3. CASE CommitCancel(r)
  <2>1. \A s \in Retriers : request'[s] = request[s]
    BY <1>3 DEF TypeOK, CommitCancel
  <2> QED
    BY <1>3, <2>1, CommitCancelWrites, GuardKept DEF CommitCancel, Executing
<1>4. CASE CommitRetry(r)
  <2>1. \A w \in Workers : ~Executing(w)'
    BY <1>4 DEF ExecutionGuarded, CommitRetry, Executing
  <2>2. \A s \in Retriers : request'[s].pc # "loaded"
    BY <1>4 DEF OneRetrier, TypeOK, CommitRetry, AnsweredRequest
  <2> QED
    BY <2>1, <2>2, GuardVacuous
<1> QED
  BY <1>1, <1>2, <1>3, <1>4 DEF RequestStep

LEMMA GuardOthers ==
  ASSUME NoOverrun, TypeOK, LeasesFenced, ExecutionGuarded,
         ClaimAges \/ LeaseExpires \/ RecoverStaleJob \/ Environment
  PROVE  ExecutionGuarded'
<1>1. CASE ClaimAges
  BY <1>1, GuardKept DEF ClaimAges, Executing
<1>2. CASE LeaseExpires
  <2>1. \A w \in Workers : ~Executing(w)
    BY <1>2 DEF LeaseExpires, Overrun, Fault, NoOverrun, ExecutionGuarded
  <2> QED
    BY <1>2, <2>1 DEF LeaseExpires, ExecutionGuarded, Executing
<1>3. CASE RecoverStaleJob
  BY <1>3, GuardVacuous DEF RecoverStaleJob, ExecutionGuarded, Executing
<1>4. ASSUME NEW w \in Workers, WorkerDies(w)
      PROVE  ExecutionGuarded'
  <2>1. \A v \in Workers : Executing(v)' => Executing(v) /\ worker'[v].lease = worker[v].lease
    BY <1>4 DEF TypeOK, WorkerDies, Released, Executing, IdleWorker
  <2> QED
    BY <1>4, <2>1, GuardKept DEF WorkerDies
<1>5. ASSUME \/ \E p \in Publishers : PublisherDies(p)
             \/ \E t \in broker : LoseMessage(t)
      PROVE  ExecutionGuarded'
  BY <1>5, GuardKept DEF PublisherDies, LoseMessage, Executing
<1> QED
  BY <1>1, <1>2, <1>3, <1>4, <1>5 DEF Environment

LEMMA GuardStep ==
  ASSUME NoOverrun, OneRetrier
  PROVE  TypeOK /\ LeasesFenced /\ ExpiredIssued /\ ExecutionGuarded /\ [Next]_vars
           => ExecutionGuarded'
<1> SUFFICES ASSUME TypeOK, LeasesFenced, ExpiredIssued, ExecutionGuarded, [Next]_vars
             PROVE  ExecutionGuarded'
  OBVIOUS
<1>1. lastLease + 1 \notin expired
  BY DEF TypeOK, ExpiredIssued
<1>2. CASE UNCHANGED vars
  BY <1>2, GuardKept DEF vars, Executing
<1> QED
  BY <1>1, <1>2, GuardPublisher, GuardWorker, GuardRequest, GuardOthers DEF Next

LEMMA GuardInit == Init => ExecutionGuarded /\ ExpiredIssued
BY JobsAssumption DEF Init, ExecutionGuarded, ExpiredIssued, Executing, IdleWorker,
   AnsweredRequest, Requests

\* While leases outlive the workers they were issued to and retries do not
\* race each other, two deliveries never run the handler at the same time,
\* whatever else is lost, repeated, cancelled or restarted.
THEOREM HandlerRunsAlone ==
  ASSUME NoOverrun, OneRetrier
  PROVE  Spec => []HandlerExclusion
<1>1. TypeOK /\ LeasesFenced /\ ExpiredIssued /\ ExecutionGuarded => HandlerExclusion
  BY DEF LeasesFenced, ExecutionGuarded, HandlerExclusion, Executing, Owns
<1>2. Spec => []ExpiredIssued
  BY GuardInit, ExpiredStep, TypeCorrect, Fencing, PTL DEF Spec
<1>3. Spec => []ExecutionGuarded
  BY <1>2, GuardInit, GuardStep, TypeCorrect, Fencing, PTL DEF Spec
<1> QED
  BY <1>1, <1>2, <1>3, TypeCorrect, Fencing, PTL

-----------------------------------------------------------------------------
(* Cancellations.                                                          *)

\* What the unlocked commits do to the columns that they do not name.
LEMMA NotePublishedKeeps ==
  ASSUME TypeOK, NEW p \in Publishers, NotePublished(p)
  PROVE  job'.attempts = job.attempts /\ job'.retryable = job.retryable
<1> DEFINE read == publisher[p].snap
           outcome == IF publisher[p].pc = "noting" THEN "published" ELSE "publish_pending"
           new == [read EXCEPT !.stage = outcome, !.version = @ + 1]
<1>1. read \in Row /\ job \in Row
  BY DEF TypeOK, PublisherState
<1>2. new.attempts = read.attempts /\ new.retryable = read.retryable
  BY <1>1 DEF Row
<1>3. job' = Flush(job, read, new)
  BY DEF NotePublished
<1> QED
  BY <1>1, <1>2, <1>3 DEF Flush, Row

LEMMA CommitCancelKeeps ==
  ASSUME TypeOK, NEW r \in Requests, CommitCancel(r)
  PROVE  job'.attempts = job.attempts /\ job'.retryable = job.retryable
<1> DEFINE read == request[r].snap
           asked == [read EXCEPT !.cancel = TRUE, !.version = @ + 1]
           new == IF read.status = "queued"
                    THEN [asked EXCEPT !.status = "cancelled", !.stage = "cancelled"] ELSE asked
<1>1. read \in Row /\ job \in Row
  BY DEF TypeOK, RequestState
<1>2. new.attempts = read.attempts /\ new.retryable = read.retryable
  BY <1>1 DEF Row
<1>3. job' = Flush(job, read, new)
  BY DEF CommitCancel
<1> QED
  BY <1>1, <1>2, <1>3 DEF Flush, Row

\* A retry queues the row, or leaves the status it has if it read it as queued,
\* and resets the attempts that it read.
LEMMA CommitRetrySpends ==
  ASSUME TypeOK, NEW r \in Requests, CommitRetry(r)
  PROVE  /\ job'.status \in {"queued", job.status}
         /\ request[r].snap.status # "queued" => job'.status = "queued"
         /\ request[r].snap.attempts # 0 => job'.attempts = 0
<1> DEFINE read == request[r].snap
           new == [read EXCEPT !.status = "queued", !.stage = "manual_retry", !.cancel = FALSE,
                               !.attempts = 0, !.task = lastTask + 1, !.lease = NoLease,
                               !.version = @ + 1]
<1>1. read \in Row /\ job \in Row
  BY DEF TypeOK, RequestState
<1>2. new.status = "queued" /\ new.attempts = 0
  BY <1>1 DEF Row
<1>3. job' = Flush(job, read, new)
  BY DEF CommitRetry
<1> QED
  BY <1>1, <1>2, <1>3 DEF Flush, Row

\* The only step that issues a lease and the only one that writes succeeded
\* look at cancel_requested in the transaction that writes.
LEMMA CancelStep ==
  ASSUME TypeOK, [Next]_vars, job.cancel
  PROVE  /\ lastLease' = lastLease
         /\ job.status # "succeeded" => job'.status # "succeeded"
<1>1. ASSUME NEW p \in Publishers, PublisherStep(p)
      PROVE  lastLease' = lastLease /\ job'.status = job.status
  <2>1. CASE NotePublished(p)
    BY <2>1, NotePublishedWrites DEF NotePublished
  <2>2. ASSUME ClaimForPublish(p)
        PROVE  lastLease' = lastLease /\ job'.status = job.status
    BY <2>2 DEF TypeOK, ClaimForPublish, Row
  <2> QED
    BY <1>1, <2>1, <2>2 DEF PublisherStep, PublishJob, DispatchQueuedJob, LoadClaimed,
       ApplyAsync, ReloadPublished
<1>2. ASSUME NEW w \in Workers, WorkerStep(w)
      PROVE  lastLease' = lastLease /\ (job'.status # "succeeded" \/ job'.status = job.status)
  <2>1. ASSUME NEW t \in broker, IgnoreDelivery(w, t) \/ CancelDelivery(w, t)
        PROVE  lastLease' = lastLease /\ job'.status \in {"cancelled", job.status}
    BY <2>1 DEF TypeOK, Row, IgnoreDelivery, CancelDelivery
  <2>2. CASE StartHandler(w) \/ LeaseLost(w) \/ ResendMessage(w)
    BY <2>2 DEF TypeOK, Row, StartHandler, LeaseLost, ResendMessage
  <2>3. CASE StopCancelled(w) \/ FailPermanently(w)
    BY <2>3 DEF TypeOK, Row, StopCancelled, FailPermanently, Settle
  <2>4. CASE ExhaustRetries(w) \/ BackOff(w)
    BY <2>4 DEF TypeOK, Row, ExhaustRetries, BackOff, Settle
  <2>5. \A t \in broker : ~ClaimDelivery(w, t)
    BY DEF ClaimDelivery
  <2>6. ~Succeed(w)
    BY DEF Succeed
  <2> QED
    BY <1>2, <2>1, <2>2, <2>3, <2>4, <2>5, <2>6 DEF WorkerStep
<1>3. ASSUME NEW r \in Requests, RequestStep(r)
      PROVE  lastLease' = lastLease /\ job'.status \in {job.status, "cancelled", "queued"}
  BY <1>3, CommitCancelWrites, CommitRetrySpends
     DEF RequestStep, GetJob, LoadForRequest, CommitCancel, CommitRetry
<1>4. ASSUME ClaimAges \/ LeaseExpires \/ RecoverStaleJob \/ Environment
      PROVE  lastLease' = lastLease /\ job'.status \in {job.status, "queued"}
  BY <1>4 DEF TypeOK, Row, ClaimAges, LeaseExpires, RecoverStaleJob, Environment, WorkerDies,
     PublisherDies, LoseMessage
<1>5. UNCHANGED vars => lastLease' = lastLease /\ job' = job
  BY DEF vars
<1> QED
  BY <1>1, <1>2, <1>3, <1>4, <1>5 DEF Next

\* Between the commit of a cancellation and the manual retry that clears it no
\* delivery is given the job and no execution of it succeeds, whatever stale
\* rows the other requests and publishers write.
THEOREM CancellationsAreHonoured == Spec => CancelIsHonoured
<1>1. TypeOK /\ [Next]_vars =>
        [job.cancel =>
           /\ lastLease' = lastLease
           /\ job.status # "succeeded" => job'.status # "succeeded"]_vars
  BY CancelStep
<1> QED
  BY <1>1, TypeCorrect, PTL DEF Spec, CancelIsHonoured

-----------------------------------------------------------------------------
(* Attempts.                                                               *)

\* A delivery may claim the row.
Startable == job.status \in {"queued", "retrying"} \/ (job.status = "running" /\ ~LeaseLive)

\* There is an attempt left: a lease that ran out gives one more.
Spare == job.attempts < MaxAttempts + Cardinality(expired)

\* The strengthening: a claimable row has an attempt left, and the row a retry
\* finds or has read has attempts to reset.
AttemptsCounted ==
  /\ IsFiniteSet(expired)
  /\ AttemptsBounded
  /\ Startable => Spare
  /\ job.status = "failed" /\ job.retryable => job.attempts # 0
  /\ \A r \in Retriers : request[r].pc = "loaded" =>
       request[r].snap.status = "failed" /\ request[r].snap.attempts # 0

\* The retries that are loaded were so before.
RetriesKept ==
  \A r \in Retriers : request'[r].pc = "loaded" =>
    request[r].pc = "loaded" /\ request'[r].snap = request[r].snap

\* A step that spends no attempt and makes nothing claimable or retryable.
LEMMA AttemptsKept ==
  ASSUME TypeOK, AttemptsCounted, RetriesKept, expired' = expired,
         job'.attempts = job.attempts, Startable' => Startable \/ Spare,
         job'.status = "failed" /\ job'.retryable
           => job.attempts # 0 \/ (job.status = "failed" /\ job.retryable)
  PROVE  AttemptsCounted'
<1>1. AttemptsBounded' /\ (Spare' <=> Spare)
  BY DEF AttemptsCounted, AttemptsBounded, Spare
<1> QED
  BY <1>1 DEF AttemptsCounted, RetriesKept

\* In particular a step that only moves an unfinished row to cancelled.
LEMMA AttemptsUntouched ==
  ASSUME TypeOK, AttemptsCounted, RetriesKept, expired' = expired,
         job'.attempts = job.attempts, job'.retryable = job.retryable, job'.lease = job.lease,
         job'.status \in {job.status, "cancelled"}
  PROVE  AttemptsCounted'
BY AttemptsKept DEF Startable, LeaseLive

LEMMA CountsPublisher ==
  ASSUME TypeOK, AttemptsCounted, NEW p \in Publishers, PublisherStep(p)
  PROVE  AttemptsCounted'
<1>1. expired' = expired /\ RetriesKept
  BY DEF PublisherStep, PublishJob, DispatchQueuedJob, ClaimForPublish, LoadClaimed, ApplyAsync,
     ReloadPublished, NotePublished, RetriesKept
<1>2. CASE NotePublished(p)
  BY <1>1, <1>2, NotePublishedWrites, NotePublishedKeeps, AttemptsUntouched
<1>3. ASSUME ClaimForPublish(p)
      PROVE  AttemptsCounted'
  BY <1>1, <1>3, AttemptsUntouched DEF TypeOK, ClaimForPublish, Row
<1>4. job' = job => AttemptsCounted'
  BY <1>1, AttemptsUntouched
<1> QED
  BY <1>2, <1>3, <1>4 DEF PublisherStep, PublishJob, DispatchQueuedJob, LoadClaimed, ApplyAsync,
     ReloadPublished

LEMMA CountsWorker ==
  ASSUME TypeOK, LeasesFenced, ExpiredIssued, AttemptsCounted, NEW w \in Workers, WorkerStep(w)
  PROVE  AttemptsCounted'
<1> USE JobsAssumption
<1>1. expired' = expired /\ RetriesKept
  BY DEF WorkerStep, IgnoreDelivery, CancelDelivery, ClaimDelivery, StartHandler, LeaseLost,
     Succeed, StopCancelled, FailPermanently, ExhaustRetries, BackOff, Settle, ResendMessage,
     RetriesKept
<1>2. Cardinality(expired) \in Nat
  BY FS_CardinalityType DEF AttemptsCounted
<1>3. ASSUME NEW t \in broker, CancelDelivery(w, t)
      PROVE  AttemptsCounted'
  <2>1. job'.status = "cancelled" /\ job'.attempts = job.attempts
    BY <1>3 DEF TypeOK, CancelDelivery, Row
  <2> QED
    BY <1>1, <2>1, AttemptsKept DEF Startable
<1>4. ASSUME NEW t \in broker, ClaimDelivery(w, t)
      PROVE  AttemptsCounted'
  <2>1. /\ job'.status = "running" /\ job'.attempts = job.attempts + 1
        /\ job'.lease = lastLease + 1
    BY <1>4 DEF TypeOK, ClaimDelivery, Row
  <2>2. Startable
    BY <1>4 DEF TypeOK, Row, Statuses, ClaimDelivery, Ignored, Terminal, Startable
  <2>3. job.attempts \in Nat /\ job'.attempts <= MaxAttempts + Cardinality(expired)
    BY <1>2, <2>1, <2>2 DEF AttemptsCounted, Spare, TypeOK, Row
  <2>4. ~Startable'
    BY <1>1, <2>1 DEF Startable, LeaseLive, ExpiredIssued, TypeOK, NoLease
  <2> QED
    BY <1>1, <2>1, <2>3, <2>4 DEF AttemptsCounted, AttemptsBounded, RetriesKept
<1>5. CASE StartHandler(w)
  BY <1>1, <1>5, AttemptsUntouched DEF TypeOK, StartHandler, Row
<1>6. job' = job => AttemptsCounted'
  BY <1>1, AttemptsUntouched
<1>7. CASE Succeed(w) \/ StopCancelled(w)
  <2>1. job'.status \in {"succeeded", "cancelled"} /\ job'.attempts = job.attempts
    BY <1>7 DEF TypeOK, Succeed, StopCancelled, Settle, Row
  <2> QED
    BY <1>1, <2>1, AttemptsKept DEF Startable
<1>8. CASE FailPermanently(w)
  <2>1. job'.status = "failed" /\ ~job'.retryable /\ job'.attempts = job.attempts
    BY <1>8 DEF TypeOK, FailPermanently, Settle, Row
  <2> QED
    BY <1>1, <2>1, AttemptsKept DEF Startable
<1>9. CASE ExhaustRetries(w)
  <2>1. job'.status = "failed" /\ job'.attempts = job.attempts /\ job.attempts # 0
    BY <1>9 DEF TypeOK, ExhaustRetries, Settle, Row
  <2> QED
    BY <1>1, <2>1, AttemptsKept DEF Startable
<1>10. CASE BackOff(w)
  <2>1. job'.status = "retrying" /\ job'.attempts = job.attempts
    BY <1>10 DEF TypeOK, BackOff, Settle, Row
  <2>2. Spare
    BY <1>2, <1>10 DEF TypeOK, Row, BackOff, Spare
  <2> QED
    BY <1>1, <2>1, <2>2, AttemptsKept
<1> QED
  BY <1>3, <1>4, <1>5, <1>6, <1>7, <1>8, <1>9, <1>10
     DEF WorkerStep, IgnoreDelivery, LeaseLost, ResendMessage

LEMMA CountsRequest ==
  ASSUME TypeOK, AttemptsCounted, NEW r \in Requests, RequestStep(r)
  PROVE  AttemptsCounted'
<1> USE JobsAssumption DEF Requests
<1>1. CASE GetJob(r)
  <2>1. RetriesKept
    BY <1>1 DEF TypeOK, GetJob, RequestState, RetriesKept
  <2> QED
    BY <1>1, <2>1, AttemptsUntouched DEF GetJob
<1>2. CASE LoadForRequest(r)
  <2>1. expired' = expired /\ job' = job
    BY <1>2 DEF LoadForRequest
  <2>2. CASE r \in Retriers /\ request'[r].pc = "loaded"
    <3>1. Retryable(job) /\ request'[r].snap = job
      BY <1>2, <2>2 DEF TypeOK, LoadForRequest, RequestState, AnsweredRequest
    <3>2. \A s \in Retriers \ {r} : request'[s] = request[s]
      BY <1>2 DEF TypeOK, LoadForRequest
    <3> QED
      BY <2>1, <3>1, <3>2
         DEF AttemptsCounted, AttemptsBounded, Spare, Startable, LeaseLive, Retryable
  <2>3. CASE r \notin Retriers \/ request'[r].pc # "loaded"
    <3>1. RetriesKept
      BY <1>2, <2>3 DEF TypeOK, LoadForRequest, RetriesKept
    <3> QED
      BY <2>1, <3>1, AttemptsUntouched
  <2> QED
    BY <2>2, <2>3
<1>3. CASE CommitCancel(r)
  <2>1. RetriesKept
    BY <1>3 DEF TypeOK, CommitCancel, RetriesKept
  <2> QED
    BY <1>3, <2>1, CommitCancelWrites, CommitCancelKeeps, AttemptsUntouched DEF CommitCancel
<1>4. CASE CommitRetry(r)
  <2>1. job'.status = "queued" /\ job'.attempts = 0 /\ expired' = expired
    BY <1>4, CommitRetrySpends DEF AttemptsCounted, CommitRetry
  <2>2. RetriesKept
    BY <1>4 DEF TypeOK, CommitRetry, AnsweredRequest, RetriesKept
  <2>3. Cardinality(expired) \in Nat
    BY FS_CardinalityType DEF AttemptsCounted
  <2>4. Spare' /\ AttemptsBounded'
    BY <2>1, <2>3 DEF Spare, AttemptsBounded
  <2> QED
    BY <2>1, <2>2, <2>4 DEF AttemptsCounted, RetriesKept
<1> QED
  BY <1>1, <1>2, <1>3, <1>4 DEF RequestStep

LEMMA CountsOthers ==
  ASSUME TypeOK, AttemptsCounted, ClaimAges \/ LeaseExpires \/ RecoverStaleJob \/ Environment
  PROVE  AttemptsCounted'
<1> USE JobsAssumption
<1>1. request' = request /\ RetriesKept
  BY DEF ClaimAges, LeaseExpires, RecoverStaleJob, Environment, WorkerDies, PublisherDies,
     LoseMessage, RetriesKept
<1>2. CASE ClaimAges \/ Environment
  BY <1>1, <1>2, AttemptsUntouched
     DEF ClaimAges, Environment, WorkerDies, PublisherDies, LoseMessage
<1>3. CASE LeaseExpires
  <2>1. /\ job' = job /\ expired' = expired \cup {job.lease} /\ job.lease \notin expired
    BY <1>3 DEF LeaseExpires, LeaseLive
  <2>2. /\ IsFiniteSet(expired') /\ Cardinality(expired') = Cardinality(expired) + 1
        /\ Cardinality(expired) \in Nat
    BY <2>1, FS_AddElement, FS_CardinalityType DEF AttemptsCounted
  <2>3. Spare' /\ AttemptsBounded'
    BY <2>1, <2>2 DEF TypeOK, Row, AttemptsCounted, AttemptsBounded, Spare
  <2> QED
    BY <1>1, <2>1, <2>2, <2>3 DEF AttemptsCounted
<1>4. CASE RecoverStaleJob
  <2>1. /\ job'.status = "queued" /\ job'.attempts = job.attempts /\ expired' = expired
    BY <1>4 DEF TypeOK, RecoverStaleJob, Row
  <2>2. Spare
    BY <1>4 DEF RecoverStaleJob, Startable, AttemptsCounted
  <2> QED
    BY <1>1, <2>1, <2>2, AttemptsKept
<1> QED
  BY <1>2, <1>3, <1>4

LEMMA CountsStep ==
  TypeOK /\ LeasesFenced /\ ExpiredIssued /\ AttemptsCounted /\ [Next]_vars => AttemptsCounted'
<1>1. ASSUME TypeOK, AttemptsCounted, UNCHANGED vars
      PROVE  AttemptsCounted'
  BY <1>1, AttemptsUntouched DEF vars, RetriesKept
<1> QED
  BY <1>1, CountsPublisher, CountsWorker, CountsRequest, CountsOthers DEF Next

LEMMA CountsInit == Init => AttemptsCounted
<1> SUFFICES ASSUME Init
             PROVE  AttemptsCounted
  OBVIOUS
<1>1. IsFiniteSet(expired) /\ Cardinality(expired) = 0
  BY FS_EmptySet DEF Init
<1> QED
  BY <1>1, JobsAssumption
     DEF Init, NewRow, AnsweredRequest, Requests, AttemptsCounted, AttemptsBounded, Spare

\* However deliveries, recoveries, cancellations and retries interleave, the row
\* is claimed max_attempts times and once more for each lease that ran out: the
\* comparison made when a handler fails bounds the claims made elsewhere.
THEOREM AttemptsAreBounded == Spec => []AttemptsBounded
<1>1. AttemptsCounted => AttemptsBounded
  BY DEF AttemptsCounted
<1>2. Spec => []ExpiredIssued
  BY GuardInit, ExpiredStep, TypeCorrect, Fencing, PTL DEF Spec
<1> QED
  BY <1>1, <1>2, CountsInit, CountsStep, TypeCorrect, Fencing, PTL DEF Spec

-----------------------------------------------------------------------------
(* The refinement: BackgroundJobs implements FencedJob.                    *)

\* The strengthening: a row that waits or has ended holds no lease (a stale
\* cancellation excepted), and nothing takes one while a retry that has read
\* the row is about to write it.
IdleUnleased ==
  /\ job.status \in {"queued", "retrying", "succeeded", "failed"} => job.lease = NoLease
  /\ \A r \in Retriers :
       request[r].pc = "loaded" => job.status \in {"failed", "cancelled"} /\ job.lease = NoLease

LEMMA UnleasedInit == Init => IdleUnleased
BY JobsAssumption DEF Init, IdleUnleased, NewRow, AnsweredRequest, Requests

\* A step that keeps the lease, keeps the status or cancels, and loads no retry.
LEMMA UnleasedKept ==
  ASSUME IdleUnleased, job'.lease = job.lease, job'.status \in {job.status, "cancelled"},
         \A r \in Retriers : request'[r].pc = "loaded" => request[r].pc = "loaded"
  PROVE  IdleUnleased'
BY DEF IdleUnleased

\* While a retry is loaded nobody owns the row, so nobody settles it.
LEMMA UnleasedSettle ==
  ASSUME TypeOK, LeasesFenced, IdleUnleased, NEW w \in Workers, NEW row \in Row, Settle(w, row)
  PROVE  IdleUnleased'
<1>1. job.lease # NoLease
  BY DEF Settle, LeasesFenced, Executing, Owns, NoLease, TypeOK
<1>2. job'.lease = NoLease /\ request' = request
  BY DEF Settle, Row
<1> QED
  BY <1>1, <1>2 DEF IdleUnleased

LEMMA UnleasedPublisher ==
  ASSUME TypeOK, IdleUnleased, NEW p \in Publishers, PublisherStep(p)
  PROVE  IdleUnleased'
<1>1. request' = request
  BY DEF PublisherStep, PublishJob, DispatchQueuedJob, ClaimForPublish, LoadClaimed, ApplyAsync,
     ReloadPublished, NotePublished
<1>2. job'.lease = job.lease /\ job'.status = job.status
  <2>1. CASE NotePublished(p)
    BY <2>1, NotePublishedWrites
  <2>2. ASSUME ClaimForPublish(p)
        PROVE  job'.lease = job.lease /\ job'.status = job.status
    BY <2>2 DEF TypeOK, ClaimForPublish, Row
  <2> QED
    BY <2>1, <2>2 DEF PublisherStep, PublishJob, DispatchQueuedJob, LoadClaimed, ApplyAsync,
       ReloadPublished
<1> QED
  BY <1>1, <1>2, UnleasedKept

\* The rows the six outcomes commit.
LEMMA OutcomeRows ==
  ASSUME TypeOK
  PROVE  /\ \A s \in Statuses, g \in Stages : [job EXCEPT !.status = s, !.stage = g] \in Row
         /\ \A g \in Stages, b \in BOOLEAN :
              [job EXCEPT !.status = "failed", !.stage = g, !.retryable = b] \in Row
BY WrittenValues DEF TypeOK, Row

Outcome(w) ==
  Succeed(w) \/ StopCancelled(w) \/ FailPermanently(w) \/ ExhaustRetries(w) \/ BackOff(w)

\* Every outcome is a Settle and stops the worker's execution.
LEMMA OutcomeSettles ==
  ASSUME TypeOK, NEW w \in Workers, Outcome(w)
  PROVE  /\ \E row \in Row : Settle(w, row)
         /\ ~Executing(w)'
         /\ \A v \in Workers \ {w} : worker'[v] = worker[v]
<1>1. /\ ~Executing(w)'
      /\ \A v \in Workers \ {w} : worker'[v] = worker[v]
  BY DEF TypeOK, Outcome, Succeed, StopCancelled, FailPermanently, ExhaustRetries, BackOff,
     Released, Executing, IdleWorker, WorkerState
<1>2. CASE Succeed(w) \/ StopCancelled(w) \/ BackOff(w)
  BY <1>1, <1>2, OutcomeRows, WrittenValues DEF Succeed, StopCancelled, BackOff
<1>3. CASE FailPermanently(w) \/ ExhaustRetries(w)
  BY <1>1, <1>3, OutcomeRows, WrittenValues DEF FailPermanently, ExhaustRetries
<1> QED
  BY <1>2, <1>3 DEF Outcome

LEMMA UnleasedWorker ==
  ASSUME TypeOK, LeasesFenced, IdleUnleased, NEW w \in Workers, WorkerStep(w)
  PROVE  IdleUnleased'
<1>1. ASSUME NEW t \in broker, IgnoreDelivery(w, t)
      PROVE  IdleUnleased'
  BY <1>1, UnleasedKept DEF IgnoreDelivery
<1>2. ASSUME NEW t \in broker, CancelDelivery(w, t) \/ ClaimDelivery(w, t)
      PROVE  IdleUnleased'
  <2>1. \A r \in Retriers : request[r].pc # "loaded"
    BY <1>2 DEF CancelDelivery, ClaimDelivery, Ignored, IdleUnleased, Terminal
  <2>2. job'.status \in {"cancelled", "running"} /\ request' = request
    BY <1>2 DEF TypeOK, CancelDelivery, ClaimDelivery, Row
  <2> QED
    BY <2>1, <2>2 DEF IdleUnleased
<1>3. CASE StartHandler(w)
  <2>1. job'.lease = job.lease /\ job'.status = job.status
    BY <1>3 DEF TypeOK, StartHandler, Row
  <2> QED
    BY <1>3, <2>1, UnleasedKept DEF StartHandler
<1>4. CASE LeaseLost(w) \/ ResendMessage(w)
  BY <1>4, UnleasedKept DEF LeaseLost, ResendMessage
<1>5. CASE Outcome(w)
  BY <1>5, OutcomeSettles, UnleasedSettle
<1> QED
  BY <1>1, <1>2, <1>3, <1>4, <1>5 DEF WorkerStep, Outcome

LEMMA UnleasedRequest ==
  ASSUME OneRetrier, TypeOK, IdleUnleased, NEW r \in Requests, RequestStep(r)
  PROVE  IdleUnleased'
<1> USE JobsAssumption
<1>1. CASE GetJob(r)
  <2>1. \A s \in Requests : request'[s].pc = "loaded" => request[s].pc = "loaded"
    BY <1>1 DEF TypeOK, GetJob, RequestState
  <2> QED
    BY <1>1, <2>1, UnleasedKept DEF GetJob, Requests
<1>2. CASE LoadForRequest(r)
  <2>1. CASE r \in Retriers /\ request'[r].pc = "loaded"
    <3>1. job.status = "failed"
      BY <1>2, <2>1 DEF TypeOK, LoadForRequest, Retryable, AnsweredRequest
    <3> QED
      BY <1>2, <3>1 DEF IdleUnleased, LoadForRequest
  <2>2. CASE r \notin Retriers \/ request'[r].pc # "loaded"
    <3>1. \A s \in Retriers : request'[s].pc = "loaded" => request[s].pc = "loaded"
      BY <1>2, <2>2 DEF TypeOK, LoadForRequest
    <3> QED
      BY <1>2, <3>1, UnleasedKept DEF LoadForRequest
  <2> QED
    BY <2>1, <2>2
<1>3. CASE CommitCancel(r)
  <2>1. \A s \in Retriers : request'[s] = request[s]
    BY <1>3 DEF TypeOK, CommitCancel
  <2> QED
    BY <1>3, <2>1, CommitCancelWrites, UnleasedKept
<1>4. CASE CommitRetry(r)
  <2>1. job'.lease = NoLease
    BY <1>4, CommitRetryWrites DEF CommitRetry, IdleUnleased
  <2>2. \A s \in Retriers : request'[s].pc # "loaded"
    BY <1>4 DEF OneRetrier, TypeOK, CommitRetry, AnsweredRequest
  <2> QED
    BY <2>1, <2>2 DEF IdleUnleased
<1> QED
  BY <1>1, <1>2, <1>3, <1>4 DEF RequestStep

LEMMA UnleasedStep ==
  ASSUME OneRetrier
  PROVE  TypeOK /\ LeasesFenced /\ IdleUnleased /\ [Next]_vars => IdleUnleased'
<1> SUFFICES ASSUME TypeOK, LeasesFenced, IdleUnleased, [Next]_vars
             PROVE  IdleUnleased'
  OBVIOUS
<1>1. CASE ClaimAges \/ LeaseExpires \/ Environment
  <2>1. job' = job /\ request' = request
    BY <1>1 DEF ClaimAges, LeaseExpires, Environment, WorkerDies, PublisherDies, LoseMessage
  <2> QED
    BY <2>1, UnleasedKept
<1>2. CASE RecoverStaleJob
  <2>1. job'.lease = NoLease /\ request' = request
    BY <1>2 DEF TypeOK, Row, RecoverStaleJob
  <2> QED
    BY <1>2, <2>1 DEF RecoverStaleJob, IdleUnleased
<1>3. CASE UNCHANGED vars
  BY <1>3, UnleasedKept DEF vars
<1> QED
  BY <1>1, <1>2, <1>3, UnleasedPublisher, UnleasedWorker, UnleasedRequest DEF Next

-----------------------------------------------------------------------------
(* Every step is a step of FencedJob, or a stutter.                        *)

\* The executions that go on when only the worker w changes what it does.
LEMMA ExecutionsChange ==
  ASSUME TypeOK, LeasesFenced, NEW w \in Workers,
         \A v \in Workers \ {w} : worker'[v] = worker[v]
  PROVE  /\ Executing(w) /\ ~Executing(w)' => Executions' = Executions \ {worker[w].lease}
         /\ ~Executing(w) /\ ~Executing(w)' => Executions' = Executions
         /\ ~Executing(w) /\ Executing(w)' => Executions' = Executions \union {worker'[w].lease}
         /\ Executing(w) /\ Executing(w)' /\ worker'[w].lease = worker[w].lease
              => Executions' = Executions
<1>1. \A v \in Workers \ {w} : Executing(v)' <=> Executing(v)
  BY DEF Executing
<1>2. \A v \in Workers \ {w} : Executing(v) /\ Executing(w) => worker[v].lease # worker[w].lease
  BY DEF LeasesFenced
<1> QED
  BY <1>1, <1>2 DEF Executions

LEMMA SameExecutions ==
  ASSUME worker' = worker
  PROVE  Executions' = Executions
BY DEF Executions, Executing

\* A step that ends the execution of w and nothing else.
LEMMA StepAbandons ==
  ASSUME TypeOK, LeasesFenced, NEW w \in Workers, Executing(w), ~Executing(w)',
         \A v \in Workers \ {w} : worker'[v] = worker[v],
         UNCHANGED <<job, lastLease, expired>>
  PROVE  Fenced!Next
<1>1. worker[w].lease \in Executions
  BY DEF Executions
<1>2. Executions' = Executions \ {worker[w].lease}
  BY ExecutionsChange
<1>3. Fenced!Abandon(worker[w].lease)
  BY <1>1, <1>2 DEF Fenced!Abandon
<1> QED
  BY <1>1, <1>3 DEF Fenced!Next

\* A step that changes nothing FencedJob sees.
LEMMA StepStutters ==
  ASSUME job'.lease = job.lease, job'.status \in Terminal <=> job.status \in Terminal,
         Executions' = Executions, UNCHANGED <<lastLease, expired>>
  PROVE  UNCHANGED Fenced!vars
<1>1. (job.status \in Terminal)' = (job.status \in Terminal)
  OBVIOUS
<1> QED
  BY <1>1 DEF Fenced!vars

LEMMA PublisherStutters ==
  ASSUME TypeOK, NEW p \in Publishers, PublisherStep(p)
  PROVE  UNCHANGED Fenced!vars
<1>1. expired' = expired /\ lastLease' = lastLease /\ worker' = worker
  BY DEF PublisherStep, PublishJob, DispatchQueuedJob, ClaimForPublish, LoadClaimed, ApplyAsync,
     ReloadPublished, NotePublished
<1>2. job'.lease = job.lease /\ job'.status = job.status
  <2>1. CASE NotePublished(p)
    BY <2>1, NotePublishedWrites
  <2>2. ASSUME ClaimForPublish(p)
        PROVE  job'.lease = job.lease /\ job'.status = job.status
    BY <2>2 DEF TypeOK, ClaimForPublish, Row
  <2> QED
    BY <2>1, <2>2 DEF PublisherStep, PublishJob, DispatchQueuedJob, LoadClaimed, ApplyAsync,
       ReloadPublished
<1> QED
  BY <1>1, <1>2, SameExecutions, StepStutters

\* A delivery that is not ignored finds the job open, and no live lease.
LEMMA DeliveryUnheld ==
  ASSUME TypeOK, IdleUnleased, NEW t \in broker, ~Ignored(t)
  PROVE  job.status \notin Terminal /\ Fenced!Unheld
<1>1. job.status \in {"queued", "running", "retrying"}
  BY DEF TypeOK, Row, Statuses, Ignored, Terminal
<1>2. CASE job.status = "running"
  BY <1>2 DEF Ignored, LeaseLive, NoLease, Fenced!Unheld, Fenced!None, Terminal
<1>3. CASE job.status \in {"queued", "retrying"}
  BY <1>3 DEF IdleUnleased, NoLease, Fenced!Unheld, Fenced!None, Terminal
<1> QED
  BY <1>1, <1>2, <1>3

LEMMA WorkerRefines ==
  ASSUME TypeOK, LeasesFenced, IdleUnleased, NEW w \in Workers, WorkerStep(w)
  PROVE  Fenced!Next \/ UNCHANGED Fenced!vars
<1>1. ASSUME NEW t \in broker, IgnoreDelivery(w, t)
      PROVE  UNCHANGED Fenced!vars
  BY <1>1, SameExecutions, StepStutters DEF IgnoreDelivery
<1>2. ASSUME NEW t \in broker, CancelDelivery(w, t)
      PROVE  Fenced!Next
  <2>1. job'.lease = Fenced!None /\ job'.status \in Terminal
    BY <1>2 DEF TypeOK, CancelDelivery, Row, NoLease, Fenced!None, Terminal
  <2>2. Fenced!Unheld
    BY <1>2, DeliveryUnheld DEF CancelDelivery
  <2>3. Executions' = Executions /\ lastLease' = lastLease /\ expired' = expired
    BY <1>2, SameExecutions DEF CancelDelivery
  <2>4. Fenced!Revoke
    BY <2>1, <2>2, <2>3 DEF Fenced!Revoke
  <2> QED
    BY <2>4 DEF Fenced!Next
<1>3. ASSUME NEW t \in broker, ClaimDelivery(w, t)
      PROVE  Fenced!Next
  <2>1. job'.lease = lastLease + 1 /\ job'.status \notin Terminal
    BY <1>3 DEF TypeOK, ClaimDelivery, Row, Terminal
  <2>2. job.status \notin Terminal /\ Fenced!Unheld
    BY <1>3, DeliveryUnheld DEF ClaimDelivery
  <2>3. /\ ~Executing(w) /\ Executing(w)' /\ worker'[w].lease = lastLease + 1
        /\ \A v \in Workers \ {w} : worker'[v] = worker[v]
    BY <1>3 DEF TypeOK, ClaimDelivery, Executing
  <2>4. Executions' = Executions \union {lastLease + 1}
    BY <2>3, ExecutionsChange
  <2>5. lastLease' = lastLease + 1 /\ expired' = expired
    BY <1>3 DEF ClaimDelivery
  <2>6. Fenced!Grant
    BY <2>1, <2>2, <2>4, <2>5 DEF Fenced!Grant
  <2> QED
    BY <2>6 DEF Fenced!Next
<1>4. CASE StartHandler(w)
  <2>1. job'.lease = job.lease /\ job'.status = job.status
    BY <1>4 DEF TypeOK, StartHandler, Row
  <2>2. /\ Executing(w) /\ Executing(w)' /\ worker'[w].lease = worker[w].lease
        /\ \A v \in Workers \ {w} : worker'[v] = worker[v]
    BY <1>4 DEF TypeOK, StartHandler, Executing, WorkerState
  <2>3. Executions' = Executions
    BY <2>2, ExecutionsChange
  <2> QED
    BY <1>4, <2>1, <2>3, StepStutters DEF StartHandler
<1>5. CASE LeaseLost(w)
  <2>1. ~Executing(w)' /\ \A v \in Workers \ {w} : worker'[v] = worker[v]
    BY <1>5 DEF TypeOK, LeaseLost, Executing, IdleWorker
  <2> QED
    BY <1>5, <2>1, StepAbandons DEF LeaseLost
<1>6. CASE Outcome(w)
  <2>1. PICK row \in Row : Settle(w, row)
    BY <1>6, OutcomeSettles
  <2>2. Executing(w) /\ worker[w].lease = job.lease
    BY <2>1 DEF Settle, Owns, Executing
  <2>3. job.lease \in Executions
    BY <2>2 DEF Executions
  <2>4. Executions' = Executions \ {job.lease}
    BY <1>6, <2>2, OutcomeSettles, ExecutionsChange
  <2>5. job'.lease = Fenced!None /\ lastLease' = lastLease /\ expired' = expired
    BY <2>1 DEF Settle, Row, NoLease, Fenced!None
  <2>6. (job.status \in Terminal)' \in BOOLEAN
    OBVIOUS
  <2>7. Fenced!Settle
    BY <2>3, <2>4, <2>5, <2>6 DEF Fenced!Settle
  <2> QED
    BY <2>7 DEF Fenced!Next
<1>7. CASE ResendMessage(w)
  <2>1. /\ ~Executing(w) /\ ~Executing(w)'
        /\ \A v \in Workers \ {w} : worker'[v] = worker[v]
    BY <1>7 DEF TypeOK, ResendMessage, Released, Executing, IdleWorker
  <2>2. Executions' = Executions
    BY <2>1, ExecutionsChange
  <2> QED
    BY <1>7, <2>2, StepStutters DEF ResendMessage
<1> QED
  BY <1>1, <1>2, <1>3, <1>4, <1>5, <1>6, <1>7 DEF WorkerStep, Outcome

LEMMA RequestRefines ==
  ASSUME TypeOK, IdleUnleased, NEW r \in Requests, RequestStep(r)
  PROVE  Fenced!Next \/ UNCHANGED Fenced!vars
<1>1. Executions' = Executions /\ lastLease' = lastLease /\ expired' = expired
  BY SameExecutions DEF RequestStep, GetJob, LoadForRequest, CommitCancel, CommitRetry
<1>2. CASE GetJob(r) \/ LoadForRequest(r)
  BY <1>1, <1>2, StepStutters DEF GetJob, LoadForRequest
<1>3. CASE CommitCancel(r)
  <2>1. job'.lease = job.lease /\ job'.status \in {job.status, "cancelled"}
    BY <1>3, CommitCancelWrites
  <2>2. CASE job'.status = job.status
    BY <1>1, <2>1, <2>2, StepStutters
  <2>3. CASE job'.status = "cancelled"
    <3>1. (job.status \in Terminal)' = TRUE
      BY <2>3 DEF Terminal
    <3>2. Fenced!Cancel
      BY <1>1, <2>1, <3>1 DEF Fenced!Cancel
    <3> QED
      BY <3>2 DEF Fenced!Next
  <2> QED
    BY <2>1, <2>2, <2>3
<1>4. CASE CommitRetry(r)
  <2>1. job.status \in Terminal /\ job.lease = Fenced!None
    BY <1>4 DEF CommitRetry, IdleUnleased, Terminal, NoLease, Fenced!None
  <2>2. job'.lease = job.lease
    BY <1>4, <2>1, CommitRetryWrites DEF NoLease, Fenced!None
  <2>3. job'.status \in {job.status, "queued"}
    BY <1>4 DEF TypeOK, CommitRetry, Flush, Row, RequestState
  <2>4. CASE job'.status = job.status
    BY <1>1, <2>2, <2>4, StepStutters
  <2>5. CASE job'.status = "queued"
    <3>1. (job.status \in Terminal)' = FALSE
      BY <2>5 DEF Terminal
    <3>2. Fenced!Reopen
      BY <1>1, <2>1, <2>2, <3>1 DEF Fenced!Reopen
    <3> QED
      BY <3>2 DEF Fenced!Next
  <2> QED
    BY <2>3, <2>4, <2>5
<1> QED
  BY <1>2, <1>3, <1>4 DEF RequestStep

LEMMA OthersRefine ==
  ASSUME TypeOK, LeasesFenced, ClaimAges \/ LeaseExpires \/ RecoverStaleJob \/ Environment
  PROVE  Fenced!Next \/ UNCHANGED Fenced!vars
<1>1. CASE ClaimAges
  BY <1>1, SameExecutions, StepStutters DEF ClaimAges
<1>2. CASE LeaseExpires
  <2>1. Executions' = Executions
    BY <1>2, SameExecutions DEF LeaseExpires
  <2>2. Fenced!Lapse
    BY <1>2, <2>1 DEF LeaseExpires, LeaseLive, NoLease, Fenced!Lapse, Fenced!None
  <2> QED
    BY <2>2 DEF Fenced!Next
<1>3. CASE RecoverStaleJob
  <2>1. /\ job'.lease = Fenced!None
        /\ job.status \notin Terminal /\ job'.status \notin Terminal
    BY <1>3 DEF TypeOK, Row, RecoverStaleJob, NoLease, Fenced!None, Terminal
  <2>2. Executions' = Executions /\ lastLease' = lastLease /\ expired' = expired
    BY <1>3, SameExecutions DEF RecoverStaleJob
  <2>3. Fenced!Unheld
    BY <1>3 DEF RecoverStaleJob, LeaseLive, NoLease, Fenced!Unheld, Fenced!None
  <2>4. (job.status \in Terminal)' \in {job.status \in Terminal, TRUE}
    <3>1. (job.status \in Terminal)' = (job.status \in Terminal)
      BY <2>1
    <3> QED
      BY <3>1, Zenon
  <2>5. Fenced!Revoke
    BY <2>1, <2>2, <2>3, <2>4 DEF Fenced!Revoke
  <2> QED
    BY <2>5 DEF Fenced!Next
<1>4. ASSUME NEW w \in Workers, WorkerDies(w)
      PROVE  Fenced!Next \/ UNCHANGED Fenced!vars
  <2>1. ~Executing(w)' /\ \A v \in Workers \ {w} : worker'[v] = worker[v]
    BY <1>4 DEF TypeOK, WorkerDies, Released, Executing, IdleWorker
  <2>2. CASE Executing(w)
    BY <1>4, <2>1, <2>2, StepAbandons DEF WorkerDies
  <2>3. CASE ~Executing(w)
    <3>1. Executions' = Executions
      BY <2>1, <2>3, ExecutionsChange
    <3> QED
      BY <1>4, <3>1, StepStutters DEF WorkerDies
  <2> QED
    BY <2>2, <2>3
<1>5. ASSUME \/ \E p \in Publishers : PublisherDies(p)
             \/ \E t \in broker : LoseMessage(t)
      PROVE  UNCHANGED Fenced!vars
  BY <1>5, SameExecutions, StepStutters DEF PublisherDies, LoseMessage
<1> QED
  BY <1>1, <1>2, <1>3, <1>4, <1>5 DEF Environment

LEMMA InitRefines == Init => Fenced!Init
<1> SUFFICES ASSUME Init
             PROVE  Fenced!Init
  OBVIOUS
<1>1. job.status \notin Terminal /\ job.lease = Fenced!None
  BY DEF Init, NewRow, NoLease, Terminal, Fenced!None
<1>2. Executions = {}
  BY DEF Init, Executions, Executing, IdleWorker
<1> QED
  BY <1>1, <1>2 DEF Init, Fenced!Init

\* A durable job keeps the promise FencedJob makes its handler: when no two
\* retries race, an execution is started only while no live lease stands and
\* only the holder of the last lease settles the job, whatever is lost,
\* repeated, cancelled, delayed or restarted.
THEOREM JobsAreFenced ==
  ASSUME OneRetrier
  PROVE  Spec => RefinesFencedJob
<1>1. Spec => []IdleUnleased
  BY UnleasedInit, UnleasedStep, TypeCorrect, Fencing, PTL DEF Spec
<1>2. TypeOK /\ LeasesFenced /\ IdleUnleased /\ [Next]_vars => [Fenced!Next]_Fenced!vars
  <2> SUFFICES ASSUME TypeOK, LeasesFenced, IdleUnleased, [Next]_vars
               PROVE  Fenced!Next \/ UNCHANGED Fenced!vars
    OBVIOUS
  <2>1. CASE UNCHANGED vars
    BY <2>1, SameExecutions, StepStutters DEF vars
  <2> QED
    BY <2>1, PublisherStutters, WorkerRefines, RequestRefines, OthersRefine DEF Next
<1> QED
  BY <1>1, <1>2, InitRefines, TypeCorrect, Fencing, PTL DEF Spec, RefinesFencedJob, Fenced!Spec
-----------------------------------------------------------------------------
(* A job without requests on it is never stranded, when the broker keeps   *)
(* its messages and no lease runs out under a worker or a publisher.       *)

Quiet ==
  /\ Requests = {}
  /\ Faults \cap {"lost_message", "lost_retry", "overrun", "stall"} = {}

\* The publishers that have read the task id, and those that have sent it.
Addressed(p) == publisher[p].pc \in {"loaded", "sent", "refused", "noting", "unsent"}
Announced(p) == publisher[p].pc \in {"sent", "noting"}

\* A copy of the job's message waits, or a worker is about to send it.
InHand == job.task \in broker
          \/ \E w \in Workers : worker[w].pc = "resend" /\ worker[w].task = job.task

\* The strengthening: what waits has a message or a stage the dispatcher
\* selects.  A publisher under way keeps the job from being recovered, so the
\* task id it has read stays the job's, and the stage it notes is true.
MovingOn ==
  /\ ~job.cancel
  /\ job.status = "retrying" => InHand
  /\ job.status = "queued" =>
       job.task \in broker \/ job.stage \in {"queued", "publish_pending", "publishing"}
  /\ \A p \in Publishers :
       /\ InFlight(p) => ~(job.status = "running" /\ ~LeaseLive)
       /\ Addressed(p) => publisher[p].task = job.task
       /\ Announced(p) /\ job.status = "queued" => job.task \in broker
  /\ \A w \in Workers : Executing(w) /\ Owns(w) => worker[w].task = job.task

\* What NotePublished may change of the columns the strengthening speaks of.
LEMMA NotePublishedStage ==
  ASSUME TypeOK, NEW p \in Publishers, NotePublished(p)
  PROVE  /\ job'.task = job.task /\ job'.cancel = job.cancel
         /\ job'.stage \in {job.stage, "publish_pending"}
              \cup (IF publisher[p].pc = "noting" THEN {"published"} ELSE {})
<1> DEFINE read == publisher[p].snap
           outcome == IF publisher[p].pc = "noting" THEN "published" ELSE "publish_pending"
           new == [read EXCEPT !.stage = outcome, !.version = @ + 1]
<1>1. read \in Row /\ job \in Row
  BY DEF TypeOK, PublisherState
<1>2. new.task = read.task /\ new.cancel = read.cancel /\ new.stage = outcome
  BY <1>1 DEF Row
<1>3. job' = Flush(job, read, new)
  BY DEF NotePublished
<1>4. /\ job'.task = job.task /\ job'.cancel = job.cancel
      /\ job'.stage \in {job.stage, outcome}
  BY <1>1, <1>2, <1>3 DEF Flush, Row
<1> QED
  BY <1>4

\* A step that changes neither the row nor what executes and loses no message.
LEMMA MovingKept ==
  ASSUME MovingOn, job' = job, broker \subseteq broker', expired' = expired,
         \A w \in Workers : worker'[w] = worker[w] \/ (worker[w].pc # "resend" /\ ~Executing(w)'),
         \A p \in Publishers : publisher'[p] = publisher[p] \/ ~InFlight(p)'
  PROVE  MovingOn'
<1>1. InHand => InHand'
  BY DEF InHand, Executing
<1>2. \A w \in Workers : Executing(w)' => worker'[w] = worker[w]
  OBVIOUS
<1>3. \A p \in Publishers : InFlight(p)' => publisher'[p] = publisher[p]
  OBVIOUS
<1>4. \A p \in Publishers : Addressed(p)' \/ Announced(p)' => InFlight(p)'
  BY DEF Addressed, Announced, InFlight
<1>5. \A p \in Publishers : InFlight(p)' =>
        InFlight(p) /\ (Addressed(p)' => Addressed(p)) /\ (Announced(p)' => Announced(p))
  BY <1>3 DEF Addressed, Announced, InFlight
<1>6. LeaseLive' <=> LeaseLive
  BY DEF LeaseLive
<1>7. \A w \in Workers : Executing(w)' /\ Owns(w)' => Executing(w) /\ Owns(w)
  BY <1>2 DEF Executing, Owns
<1> QED
  BY <1>1, <1>2, <1>3, <1>4, <1>5, <1>6, <1>7 DEF MovingOn

\* A publisher's step writes the stage alone.
LEMMA MovingPublished ==
  ASSUME MovingOn, UNCHANGED <<expired, worker>>, broker \subseteq broker',
         job'.status = job.status, job'.task = job.task, job'.cancel = job.cancel,
         job'.lease = job.lease,
         job'.status = "queued" =>
           job.task \in broker' \/ job'.stage \in {"queued", "publish_pending", "publishing"},
         NEW p \in Publishers,
         \A q \in Publishers \ {p} : publisher'[q] = publisher[q],
         InFlight(p)' => InFlight(p) \/ job.status = "queued",
         Addressed(p)' => publisher'[p].task = job.task,
         Announced(p)' /\ job.status = "queued" => job.task \in broker'
  PROVE  MovingOn'
<1>1. InHand => InHand'
  BY DEF InHand
<1>2. LeaseLive' <=> LeaseLive
  BY DEF LeaseLive
<1>3. \A q \in Publishers \ {p} :
        /\ InFlight(q)' <=> InFlight(q)
        /\ Addressed(q)' <=> Addressed(q)
        /\ Announced(q)' <=> Announced(q)
  BY DEF Addressed, Announced, InFlight
<1>4. \A q \in Publishers :
        /\ InFlight(q)' => ~(job'.status = "running" /\ ~LeaseLive')
        /\ Addressed(q)' => publisher'[q].task = job'.task
        /\ Announced(q)' /\ job'.status = "queued" => job'.task \in broker'
  BY <1>2, <1>3 DEF MovingOn
<1>5. \A w \in Workers : Executing(w)' /\ Owns(w)' => worker'[w].task = job'.task
  BY DEF MovingOn, Executing, Owns
<1> QED
  BY <1>1, <1>4, <1>5 DEF MovingOn

LEMMA MovingPublisher ==
  ASSUME TypeOK, MovingOn, NEW p \in Publishers, PublisherStep(p)
  PROVE  MovingOn'
<1>1. /\ UNCHANGED <<expired, worker>> /\ broker \subseteq broker'
      /\ \A q \in Publishers \ {p} : publisher'[q] = publisher[q]
  BY DEF TypeOK, PublisherStep, PublishJob, DispatchQueuedJob, ClaimForPublish, LoadClaimed,
     ApplyAsync, ReloadPublished, NotePublished
<1>2. ASSUME publisher'[p] = RestingPublisher(p)
      PROVE  ~InFlight(p)' /\ ~Addressed(p)' /\ ~Announced(p)'
  BY <1>2 DEF RestingPublisher, InFlight, Addressed, Announced
<1>3. ASSUME ClaimForPublish(p), job.status = "queued"
      PROVE  MovingOn'
  <2>1. /\ job'.status = job.status /\ job'.task = job.task /\ job'.cancel = job.cancel
        /\ job'.lease = job.lease /\ job'.stage = "publishing"
    BY <1>3 DEF TypeOK, Row, ClaimForPublish
  <2>2. ~Addressed(p)' /\ ~Announced(p)'
    BY <1>3 DEF TypeOK, PublisherState, ClaimForPublish, Addressed, Announced
  <2> QED
    BY <1>1, <1>3, <2>1, <2>2, MovingPublished
<1>4. ASSUME job' = job, publisher'[p] = RestingPublisher(p)
      PROVE  MovingOn'
  BY <1>1, <1>2, <1>4, MovingKept
<1>5. CASE LoadClaimed(p) /\ publisher'[p].pc = "loaded"
  <2>1. job' = job /\ publisher'[p].task = job.task /\ job.status = "queued"
    BY <1>5 DEF TypeOK, PublisherState, LoadClaimed, RestingPublisher
  <2>2. ~Announced(p)'
    BY <1>5 DEF Announced
  <2> QED
    BY <1>1, <2>1, <2>2, MovingPublished DEF MovingOn
<1>6. CASE ApplyAsync(p)
  <2>1. /\ job' = job /\ publisher'[p].task = publisher[p].task /\ publisher[p].task = job.task
        /\ InFlight(p)
    BY <1>6 DEF TypeOK, PublisherState, ApplyAsync, MovingOn, Addressed, InFlight
  <2>2. Announced(p)' => job.task \in broker'
    BY <1>6, <2>1 DEF TypeOK, PublisherState, ApplyAsync, Announced
  <2> QED
    BY <1>1, <2>1, <2>2, MovingPublished DEF MovingOn
<1>7. CASE ReloadPublished(p) /\ job.status = "queued"
  <2>1. /\ job' = job /\ publisher'[p].task = publisher[p].task /\ publisher[p].task = job.task
        /\ InFlight(p)
    BY <1>7 DEF TypeOK, PublisherState, ReloadPublished, MovingOn, Addressed, InFlight
  <2>2. publisher[p].pc = "refused" => publisher'[p].pc = "unsent"
    BY <1>7 DEF TypeOK, PublisherState, ReloadPublished
  <2>3. Announced(p)' => Announced(p)
    BY <1>7, <2>2 DEF ReloadPublished, Announced
  <2> QED
    BY <1>1, <1>7, <2>1, <2>3, MovingPublished DEF MovingOn
<1>8. CASE NotePublished(p)
  <2>1. publisher[p].pc = "noting" /\ job.status = "queued" => job.task \in broker
    BY DEF MovingOn, Announced
  <2>2. ~InFlight(p)' /\ ~Addressed(p)' /\ ~Announced(p)'
    BY <1>2, <1>8 DEF TypeOK, NotePublished
  <2> QED
    BY <1>1, <1>8, <2>1, <2>2, NotePublishedWrites, NotePublishedStage, MovingPublished DEF MovingOn
<1>9. PublishJob(p) => \/ ClaimForPublish(p) /\ job.status = "queued"
                       \/ job' = job /\ publisher'[p] = RestingPublisher(p)
  BY DEF TypeOK, PublishJob, Claimable
<1>10. DispatchQueuedJob(p) => ClaimForPublish(p) /\ job.status = "queued"
  BY DEF DispatchQueuedJob, Selected
<1>11. LoadClaimed(p) => \/ publisher'[p].pc = "loaded"
                         \/ job' = job /\ publisher'[p] = RestingPublisher(p)
  BY DEF TypeOK, PublisherState, LoadClaimed
<1>12. ReloadPublished(p) => \/ job.status = "queued"
                             \/ job' = job /\ publisher'[p] = RestingPublisher(p)
  BY DEF TypeOK, ReloadPublished
<1> QED
  BY <1>3, <1>4, <1>5, <1>6, <1>7, <1>8, <1>9, <1>10, <1>11, <1>12 DEF PublisherStep

\* A worker's step that keeps the task id and leaves the row out of the
\* statuses that wait.
LEMMA MovingWorked ==
  ASSUME MovingOn, UNCHANGED publisher, job'.task = job.task, job'.cancel = job.cancel,
         job'.status \notin {"queued", "retrying"},
         LeaseLive' \/ (job'.status = job.status /\ (LeaseLive' <=> LeaseLive)) \/ job'.status # "running",
         \A w \in Workers : Executing(w)' /\ Owns(w)' => worker'[w].task = job'.task
  PROVE  MovingOn'
<1>1. \A p \in Publishers :
        /\ InFlight(p)' <=> InFlight(p)
        /\ Addressed(p)' <=> Addressed(p)
  BY DEF Addressed, InFlight
<1> QED
  BY <1>1 DEF MovingOn

LEMMA MovingWorker ==
  ASSUME Quiet, TypeOK, LeasesFenced, ExpiredIssued, IdleUnleased, MovingOn,
         NEW w \in Workers, WorkerStep(w)
  PROVE  MovingOn'
<1>1. ASSUME NEW t \in broker, IgnoreDelivery(w, t)
      PROVE  MovingOn'
  <2>1. /\ job' = job /\ UNCHANGED <<expired, worker, publisher>>
        /\ broker' \in {broker, broker \ {t}}
    BY <1>1 DEF IgnoreDelivery, Receive
  <2>2. CASE t = job.task
    <3>1. job.status \notin {"queued", "retrying"}
      BY <1>1, <2>2 DEF IgnoreDelivery, Ignored, Terminal
    <3>2. LeaseLive' <=> LeaseLive
      BY <2>1 DEF LeaseLive
    <3> QED
      BY <2>1, <3>1, <3>2, MovingWorked DEF MovingOn, Executing, Owns
  <2>3. CASE t # job.task
    <3>1. job.task \in broker => job.task \in broker'
      BY <2>1, <2>3
    <3>2. InHand => InHand'
      BY <2>1, <3>1 DEF InHand
    <3> QED
      BY <2>1, <3>1, <3>2
         DEF MovingOn, InFlight, Addressed, Announced, LeaseLive, Executing, Owns
  <2> QED
    BY <2>2, <2>3
<1>2. \A t \in broker : ~CancelDelivery(w, t)
  BY DEF CancelDelivery, MovingOn
<1>3. ASSUME NEW t \in broker, ClaimDelivery(w, t)
      PROVE  MovingOn'
  <2>1. /\ job'.status = "running" /\ job'.lease = lastLease + 1
        /\ job'.task = job.task /\ job'.cancel = job.cancel
        /\ UNCHANGED <<expired, publisher>>
    BY <1>3 DEF TypeOK, Row, ClaimDelivery
  <2>2. LeaseLive'
    BY <2>1 DEF TypeOK, LeaseLive, ExpiredIssued, NoLease
  <2>3. /\ worker'[w].task = job.task
        /\ \A v \in Workers \ {w} : worker'[v] = worker[v]
    BY <1>3 DEF TypeOK, ClaimDelivery, Ignored
  <2>4. \A v \in Workers \ {w} : ~(Executing(v)' /\ Owns(v)')
    BY <2>1, <2>3 DEF TypeOK, LeasesFenced, Executing, Owns
  <2>5. \A v \in Workers : Executing(v)' /\ Owns(v)' => worker'[v].task = job'.task
    BY <2>1, <2>3, <2>4
  <2> QED
    BY <2>1, <2>2, <2>5, MovingWorked
<1>4. CASE StartHandler(w)
  <2>1. job.lease # NoLease
    BY <1>4 DEF StartHandler, Owns, LeasesFenced, Executing, NoLease
  <2>2. /\ job'.status = job.status /\ job'.lease = job.lease
        /\ job'.task = job.task /\ job'.cancel = job.cancel
        /\ UNCHANGED <<expired, publisher>>
    BY <1>4 DEF TypeOK, Row, StartHandler
  <2>3. job.status \notin {"queued", "retrying"}
    BY <2>1 DEF IdleUnleased
  <2>4. \A v \in Workers : /\ worker'[v].task = worker[v].task
                           /\ worker'[v].lease = worker[v].lease
                           /\ Executing(v)' => Executing(v)
    BY <1>4 DEF TypeOK, WorkerState, StartHandler, Executing
  <2>5. \A v \in Workers : Executing(v)' /\ Owns(v)' => worker'[v].task = job'.task
    BY <2>2, <2>4 DEF MovingOn, Owns
  <2>6. LeaseLive' <=> LeaseLive
    BY <2>2 DEF LeaseLive
  <2> QED
    BY <2>2, <2>3, <2>5, <2>6, MovingWorked
<1>5. ASSUME Outcome(w), job'.task = job.task, job'.cancel = job.cancel, job'.lease = NoLease
      PROVE  \A v \in Workers : ~(Executing(v)' /\ Owns(v)')
  <2>1. \A v \in Workers : Executing(v)' => Executing(v) /\ worker'[v].lease = worker[v].lease
    BY <1>5, OutcomeSettles DEF Executing
  <2> QED
    BY <1>5, <2>1 DEF LeasesFenced, Owns, NoLease
<1>6. CASE Succeed(w) \/ StopCancelled(w) \/ FailPermanently(w) \/ ExhaustRetries(w)
  <2>1. CASE Succeed(w) \/ StopCancelled(w)
    <3>1. /\ job'.status \in {"succeeded", "cancelled"} /\ job'.lease = NoLease
          /\ job'.task = job.task /\ job'.cancel = job.cancel /\ UNCHANGED publisher
      BY <2>1 DEF TypeOK, Row, Succeed, StopCancelled, Settle
    <3> QED
      BY <2>1, <3>1, <1>5, MovingWorked DEF Outcome
  <2>2. CASE FailPermanently(w) \/ ExhaustRetries(w)
    <3>1. /\ job'.status = "failed" /\ job'.lease = NoLease
          /\ job'.task = job.task /\ job'.cancel = job.cancel /\ UNCHANGED publisher
      BY <2>2 DEF TypeOK, Row, FailPermanently, ExhaustRetries, Settle
    <3> QED
      BY <2>2, <3>1, <1>5, MovingWorked DEF Outcome
  <2> QED
    BY <1>6, <2>1, <2>2
<1>7. CASE BackOff(w)
  <2>1. /\ job'.status = "retrying" /\ job'.lease = NoLease
        /\ job'.task = job.task /\ job'.cancel = job.cancel
        /\ UNCHANGED <<broker, expired, publisher>>
    BY <1>7 DEF TypeOK, Row, BackOff, Settle
  <2>2. worker[w].task = job.task
    BY <1>7 DEF BackOff, Settle, MovingOn, Executing
  <2>3. worker'[w].pc = "resend" /\ worker'[w].task = job.task
    BY <1>7, <2>2 DEF TypeOK, WorkerState, BackOff
  <2>4. InHand'
    BY <2>1, <2>3 DEF InHand
  <2>5. \A v \in Workers : ~(Executing(v)' /\ Owns(v)')
    BY <1>5, <1>7, <2>1 DEF Outcome
  <2> QED
    BY <2>1, <2>4, <2>5 DEF MovingOn, InFlight, Addressed, Announced
<1>8. CASE LeaseLost(w)
  <2>1. \A v \in Workers :
          worker'[v] = worker[v] \/ (worker[v].pc # "resend" /\ ~Executing(v)')
    BY <1>8 DEF TypeOK, LeaseLost, Released, Executing, IdleWorker
  <2> QED
    BY <1>8, <2>1, MovingKept DEF LeaseLost
<1>9. CASE ResendMessage(w)
  <2>1. /\ UNCHANGED <<job, expired, publisher>>
        /\ broker' = broker \cup {worker[w].task}
        /\ worker' = [worker EXCEPT ![w] = IdleWorker]
    BY <1>9 DEF ResendMessage, Released, Fault, Quiet
  <2>2. InHand => InHand'
    BY <2>1 DEF InHand, TypeOK
  <2>3. \A v \in Workers : Executing(v)' => worker'[v] = worker[v]
    BY <2>1 DEF TypeOK, Executing, IdleWorker
  <2> QED
    BY <2>1, <2>2, <2>3
       DEF MovingOn, InFlight, Addressed, Announced, LeaseLive, Executing, Owns
<1> QED
  BY <1>1, <1>2, <1>3, <1>4, <1>6, <1>7, <1>8, <1>9 DEF WorkerStep

LEMMA MovingOthers ==
  ASSUME Quiet, TypeOK, LeasesFenced, MovingOn,
         ClaimAges \/ LeaseExpires \/ RecoverStaleJob \/ Environment
  PROVE  MovingOn'
<1>1. CASE ClaimAges
  BY <1>1, MovingKept DEF ClaimAges
<1>2. CASE LeaseExpires
  <2>1. \A p \in Publishers : ~InFlight(p)
    BY <1>2 DEF LeaseExpires, Overrun, Stalled, Fault, Quiet
  <2>2. UNCHANGED <<job, broker, worker, publisher>>
    BY <1>2 DEF LeaseExpires
  <2>3. \A p \in Publishers : ~InFlight(p)'
    BY <2>1, <2>2 DEF InFlight
  <2>4. \A p \in Publishers : ~Addressed(p)' /\ ~Announced(p)'
    BY <2>3 DEF InFlight, Addressed, Announced
  <2> QED
    BY <2>2, <2>3, <2>4 DEF MovingOn, InHand, Executing, Owns
<1>3. CASE RecoverStaleJob
  <2>1. /\ job'.status = "queued" /\ job'.stage = "publish_pending" /\ job'.lease = NoLease
        /\ job'.cancel = job.cancel /\ UNCHANGED <<broker, expired, worker, publisher>>
    BY <1>3 DEF TypeOK, Row, RecoverStaleJob
  <2>2. \A p \in Publishers : ~InFlight(p)'
    BY <1>3, <2>1 DEF RecoverStaleJob, MovingOn, InFlight
  <2>3. \A p \in Publishers : ~Addressed(p)' /\ ~Announced(p)'
    BY <2>2 DEF InFlight, Addressed, Announced
  <2>4. \A w \in Workers : ~(Executing(w)' /\ Owns(w)')
    BY <2>1 DEF LeasesFenced, Executing, Owns, NoLease
  <2> QED
    BY <2>1, <2>2, <2>3, <2>4 DEF MovingOn
<1>4. ASSUME NEW w \in Workers, WorkerDies(w)
      PROVE  MovingOn'
  <2>1. /\ UNCHANGED <<job, expired, publisher>> /\ broker \subseteq broker'
        /\ worker' = [worker EXCEPT ![w] = IdleWorker]
        /\ worker[w].pc = "resend" => worker[w].task \in broker'
    BY <1>4 DEF WorkerDies, Released, Executing
  <2>2. InHand => InHand'
    BY <2>1 DEF InHand, TypeOK
  <2>3. \A v \in Workers : Executing(v)' => worker'[v] = worker[v]
    BY <2>1 DEF TypeOK, Executing, IdleWorker
  <2> QED
    BY <2>1, <2>2, <2>3
       DEF MovingOn, InFlight, Addressed, Announced, LeaseLive, Executing, Owns
<1>5. ASSUME NEW p \in Publishers, PublisherDies(p)
      PROVE  MovingOn'
  <2>1. \A q \in Publishers : publisher'[q] = publisher[q] \/ ~InFlight(q)'
    BY <1>5 DEF TypeOK, PublisherDies, RestingPublisher, InFlight
  <2> QED
    BY <1>5, <2>1, MovingKept DEF PublisherDies
<1>6. \A t \in broker : ~LoseMessage(t)
  BY DEF LoseMessage, Fault, Quiet
<1> QED
  BY <1>1, <1>2, <1>3, <1>4, <1>5, <1>6 DEF Environment

LEMMA MovingStep ==
  ASSUME Quiet
  PROVE  TypeOK /\ LeasesFenced /\ ExpiredIssued /\ IdleUnleased /\ MovingOn /\ [Next]_vars
           => MovingOn'
<1>1. ASSUME MovingOn, UNCHANGED vars
      PROVE  MovingOn'
  BY <1>1, MovingKept DEF vars
<1> QED
  BY <1>1, MovingPublisher, MovingWorker, MovingOthers DEF Quiet, Next

LEMMA MovingInit == Init => MovingOn
<1> SUFFICES ASSUME Init
             PROVE  MovingOn
  OBVIOUS
<1>1. \A p \in Publishers : publisher[p].pc \in {"ready", "done"}
  BY DEF Init, RestingPublisher
<1> QED
  BY <1>1 DEF Init, NewRow, IdleWorker, MovingOn, InFlight, Addressed, Announced, Executing

\* A job that nobody cancels or retries always has something that moves it on,
\* however workers and publishers crash and refuse, as long as the broker keeps
\* what it was given and leases outlive the workers and publishers under way:
\* for any number of them and of faults.
THEOREM NeverLeftStranded ==
  ASSUME Quiet
  PROVE  Spec => []NeverStranded
<1>1. TypeOK /\ MovingOn => NeverStranded
  BY DEF TypeOK, Row, Statuses, Terminal, MovingOn, InHand, NeverStranded
<1>2. Spec => []ExpiredIssued
  BY GuardInit, ExpiredStep, TypeCorrect, Fencing, PTL DEF Spec
<1>3. OneRetrier
  BY DEF Quiet, OneRetrier, Requests
<1>4. Spec => []IdleUnleased
  BY <1>3, UnleasedInit, UnleasedStep, TypeCorrect, Fencing, PTL DEF Spec
<1> QED
  BY <1>1, <1>2, <1>4, MovingInit, MovingStep, TypeCorrect, Fencing, PTL DEF Spec


=============================================================================
