---------------------------- MODULE CustomReports ----------------------------
(***************************************************************************)
(* A custom report, from the brief to the artefact a reader downloads      *)
(* (oracle/custom_reports.py, oracle/custom_report_lifecycle.py): durable  *)
(* jobs plan, write and review it, requests edit, reject and accept the    *)
(* plan, cancel the report and retry it.                                   *)
(*                                                                         *)
(* All of the report but its job lives in one column, options.  A handler  *)
(* and a request copy it when they load the row, without a lock, and write *)
(* the whole of it when they commit: a handler with the outcome of its     *)
(* job, after a call of the provider.  The version a client sends is that  *)
(* of the row its request loads: with another one the request ends there.  *)
(***************************************************************************)
EXTENDS Naturals, Sequences

CONSTANTS
  Workers,   \* Celery workers of the ai queue
  Clients,   \* users of the report, one request each at a time
  MaxPlans,  \* bound: plans accepted
  MaxFaults  \* bound: leases lost, failures and requests that try a job again

\* What an instance may choose.
ConstantsOK == MaxPlans \in Nat \ {0} /\ MaxFaults \in Nat

VARIABLES
  report,    \* the reports row
  frozen,    \* the accepted snapshots: whether the memory of each is durable
  approved,  \* the drafts that the review approved
  job,       \* the background_jobs rows, by idempotency key
  worker,    \* what each worker is doing
  request,   \* what the request of each client is doing
  calm,      \* TRUE: nobody acts on what is about to change, see Overtaken and Waits
  faults     \* faults met so far

vars == <<report, frozen, approved, job, worker, request, calm, faults>>

None == 0   \* no snapshot, no draft

Lives == {"brief_draft", "plan_proposed", "plan_accepted", "accepted_degraded",
          "generating", "reviewing", "ready", "failed", "cancelled"}

\* A key holds the hash of the snapshot the job is for.  The report is of one
\* generation_version.
Plan == <<"plan", None>>
Write(s) == <<"write", s>>
Review(s) == <<"review", s>>
Keys == {Plan} \cup ({"write", "review"} \X (1..MaxPlans))

\* A draft is named by the snapshot it was written from, an artefact by its draft
\* and the snapshot whose hash it carries; a fence_token by the job that has it.
Options == [life: Lives, planned: {"draft", "proposed", "accepted"}, proposed: BOOLEAN,
            snapshot: 0..MaxPlans, fence: 0..MaxPlans, draft: 0..MaxPlans,
            artifact: [snapshot: 0..MaxPlans, draft: 0..MaxPlans]]
Report == [options: Options, job: Keys]
\* dead: cancelled, or failed for good; exhausted: failed, and may be retried.
Job == [status: {"absent", "queued", "running", "succeeded", "exhausted", "dead"},
        lease: Nat, cancel: BOOLEAN]
WorkerState == [pc: {"idle", "loaded"}, job: Keys, lease: Nat, read: Options]
RequestKinds == {"edit", "reject", "accept", "cancel", "retry"}
Request == [pc: {"idle", "loaded"}, kind: RequestKinds, read: Report]

NewOptions ==
  [life |-> "brief_draft", planned |-> "draft", proposed |-> FALSE, snapshot |-> None,
   fence |-> None, draft |-> None, artifact |-> [snapshot |-> None, draft |-> None]]
NewReport == [options |-> NewOptions, job |-> Plan]
QueuedJob == [status |-> "queued", lease |-> 0, cancel |-> FALSE]
AbsentJob == [QueuedJob EXCEPT !.status = "absent"]
IdleWorker == [pc |-> "idle", job |-> Plan, lease |-> 0, read |-> NewOptions]
IdleRequest == [pc |-> "idle", kind |-> "edit", read |-> NewReport]

\* The brief and the job that plans it are committed together.
Init ==
  /\ report = NewReport
  /\ frozen = <<>> /\ approved = {}
  /\ job = [k \in Keys |-> IF k = Plan THEN QueuedJob ELSE AbsentJob]
  /\ worker = [w \in Workers |-> IdleWorker]
  /\ request = [r \in Clients |-> IdleRequest]
  /\ calm \in BOOLEAN /\ faults = 0

Fault == faults < MaxFaults /\ faults' = faults + 1

\* The columns a session writes: those that differ from what it loaded.
Flush(row, read, new) == [c \in DOMAIN row |-> IF new[c] = read[c] THEN row[c] ELSE new[c]]

\* An existing key keeps its job.
Staged(jobs, k) == IF jobs[k].status = "absent" THEN [jobs EXCEPT ![k] = QueuedJob] ELSE jobs

-----------------------------------------------------------------------------
(* The jobs.                                                               *)

\* A job with a cancellation ends at the claim; another one is given a lease, and
\* its handler copies the options.
Start(w, k) ==
  /\ worker[w].pc = "idle"
  /\ job[k].status = "queued"
  /\ IF job[k].cancel
       THEN job' = [job EXCEPT ![k].status = "dead"] /\ UNCHANGED worker
       ELSE /\ job' = [job EXCEPT ![k].status = "running", ![k].lease = @ + 1]
            /\ worker' = [worker EXCEPT ![w] = [pc |-> "loaded", job |-> k,
                 lease |-> job[k].lease + 1, read |-> report.options]]
  /\ UNCHANGED <<report, frozen, approved, request, calm, faults>>

OwnsJob(w) ==
  LET k == worker[w].job IN job[k].status = "running" /\ job[k].lease = worker[w].lease

\* The outcome and the handler's writes are one transaction: it is rolled back
\* unless the worker owns the job and nobody has cancelled it.
Commits(w) == worker[w].pc = "loaded" /\ OwnsJob(w) /\ ~job[worker[w].job].cancel

EndJob(w, jobs, status) ==
  /\ job' = [jobs EXCEPT ![worker[w].job].status = status]
  /\ worker' = [worker EXCEPT ![w] = IdleWorker]

\* The handler's copy, with what it has changed, becomes the row.
WriteReport(w, options, k) ==
  report' = Flush(report, [options |-> worker[w].read, job |-> worker[w].job],
                  [options |-> options, job |-> k])

\* Bug: a job does not compare its snapshot with the report's.
BugFenced(o, s) == o.fence \in {None, s}

\* The report is still the one the job was staged for.
Fenced(o, s) == o.snapshot = s /\ o.fence \in {None, s}

\* The handler finds something to do.
Needed(k, o) ==
  CASE k[1] = "plan"   -> ~(o.planned = "proposed" /\ o.proposed)
    [] k[1] = "write"  -> o.life \notin {"cancelled", "ready"} /\ Fenced(o, k[2])
    [] k[1] = "review" -> o.life \notin {"cancelled", "ready"} /\ Fenced(o, k[2])

Handles(w, kind) ==
  LET q == worker[w] IN q.job[1] = kind /\ Commits(w) /\ Needed(q.job, q.read)

\* process_custom_brief_plan looks at plan_status alone.
ProposePlan(w) ==
  /\ Handles(w, "plan")
  /\ WriteReport(w, [worker[w].read EXCEPT !.planned = "proposed", !.life = "plan_proposed",
                                           !.proposed = TRUE], Plan)
  /\ EndJob(w, job, "succeeded")
  /\ UNCHANGED <<frozen, approved, request, calm, faults>>

\* Bug: the report goes on naming the job that has written it.
BugReviewJob(s) == Write(s)

\* The job a report under review names.
ReviewJob(s) == Review(s)

\* The writer's output passed the allowlist: the draft and the job that reviews it.
WriteDraft(w) ==
  /\ Handles(w, "write")
  /\ LET s == worker[w].job[2]
     IN  /\ WriteReport(w, [worker[w].read EXCEPT !.draft = s, !.life = "reviewing"], ReviewJob(s))
         /\ EndJob(w, Staged(job, Review(s)), "succeeded")
  /\ UNCHANGED <<frozen, approved, request, calm, faults>>

\* The provider is not there or its output is refused, the draft cites what it may
\* not, it is missing, or the review did not approve it.
FailReport(w) ==
  /\ Handles(w, "write") \/ Handles(w, "review")
  /\ WriteReport(w, [worker[w].read EXCEPT !.life = "failed"], worker[w].job)
  /\ EndJob(w, job, "succeeded")
  /\ UNCHANGED <<frozen, approved, request, calm, faults>>

\* The review approved the draft: the artefact is made of it.
PublishArtifact(w) ==
  /\ Handles(w, "review")
  /\ LET o == worker[w].read
     IN  /\ o.draft # None
         /\ approved' = approved \cup {o.draft}
         /\ WriteReport(w, [o EXCEPT !.life = "ready",
              !.artifact = [snapshot |-> o.snapshot, draft |-> o.draft]], worker[w].job)
  /\ EndJob(w, job, "succeeded")
  /\ UNCHANGED <<frozen, request, calm, faults>>

\* The snapshot of the job is gone: a planner's late copy has none.
Unfrozen(k, o) == k[1] # "plan" /\ o.snapshot = None /\ o.life # "cancelled"

\* There is nothing to do: the report is done or cancelled, or has moved on.
Drop(w) ==
  /\ Commits(w)
  /\ LET q == worker[w] IN ~Needed(q.job, q.read) /\ ~Unfrozen(q.job, q.read)
  /\ EndJob(w, job, "succeeded")
  /\ UNCHANGED <<report, frozen, approved, request, calm, faults>>

\* The handler raises, as it does without its snapshot: nothing says so in the
\* report.  A temporary failure is tried again.
RaiseError(w) ==
  /\ Commits(w)
  /\ \/ \E status \in {"exhausted", "dead"} : EndJob(w, job, status) /\ UNCHANGED faults
     \/ Fault /\ EndJob(w, job, "queued")
  /\ UNCHANGED <<report, frozen, approved, request, calm>>

\* The transaction is rolled back.
RollBack(w) ==
  /\ worker[w].pc = "loaded"
  /\ ~Commits(w)
  /\ EndJob(w, job, IF OwnsJob(w) THEN "dead" ELSE job[worker[w].job].status)
  /\ UNCHANGED <<report, frozen, approved, request, calm, faults>>

\* Recovery queues the job of a lease that ran out; its worker may be alive.
LeaseExpires(k) ==
  /\ job[k].status = "running"
  /\ Fault
  /\ job' = [job EXCEPT ![k].status = "queued"]
  /\ \/ UNCHANGED worker
     \/ worker' = [w \in Workers |->
                    IF worker[w].job = k /\ OwnsJob(w) THEN IdleWorker ELSE worker[w]]
  /\ UNCHANGED <<report, frozen, approved, request, calm>>

\* The routes of the jobs.  A plan that comes after all is one of the things a
\* calm user does not ask for.
CancelJob(k) ==
  /\ job[k].status \in {"queued", "running"}
  /\ job' = [job EXCEPT ![k].cancel = TRUE,
                        ![k].status = IF @ = "queued" THEN "dead" ELSE @]
  /\ UNCHANGED <<report, frozen, approved, worker, request, calm, faults>>

RetryJob(k) ==
  /\ job[k].status = "exhausted"
  /\ calm => k # Plan
  /\ Fault
  /\ job' = [job EXCEPT ![k].status = "queued", ![k].cancel = FALSE]
  /\ UNCHANGED <<report, frozen, approved, worker, request, calm>>

-----------------------------------------------------------------------------
(* The requests.                                                           *)

\* The lives in which a request is not refused (_TRANSITIONS).
Allows(kind, life) ==
  CASE kind = "edit"   -> life \in {"brief_draft", "plan_proposed"}
    [] kind = "reject" -> life = "plan_proposed"
    [] kind = "accept" -> life = "plan_proposed"
    [] kind = "cancel" -> life \notin {"ready", "cancelled"}
    [] kind = "retry"  -> life = "failed"

\* A calm user edits a brief once its plan has been delivered.
Waits(kind) == calm /\ kind = "edit" /\ job[Plan].status # "succeeded"

Load(r, kind) ==
  /\ request[r].pc = "idle"
  /\ Allows(kind, report.options.life) /\ ~Waits(kind)
  /\ request' = [request EXCEPT ![r] = [pc |-> "loaded", kind |-> kind, read |-> report]]
  /\ UNCHANGED <<report, frozen, approved, job, worker, calm, faults>>

\* In a calm behaviour a request that another commit has overtaken dies.
Overtaken(r) == calm /\ report # request[r].read

Loaded(r, kind) == request[r].pc = "loaded" /\ request[r].kind = kind /\ ~Overtaken(r)

Answered(r) == request' = [request EXCEPT ![r] = IdleRequest]

Refused(r) == Answered(r) /\ UNCHANGED <<report, frozen, job>>

\* What the request r makes of the row it has loaded.
Commit(r, new) == report' = Flush(report, request[r].read, new)

With(r, options) == [request[r].read EXCEPT !.options = options]

EditPlan(r) ==
  /\ Loaded(r, "edit")
  /\ Commit(r, With(r, [request[r].read.options EXCEPT
       !.planned = "proposed", !.life = "plan_proposed", !.proposed = TRUE]))
  /\ Answered(r)
  /\ UNCHANGED <<frozen, approved, job, worker, calm, faults>>

RejectPlan(r) ==
  /\ Loaded(r, "reject")
  /\ Commit(r, With(r, [request[r].read.options EXCEPT
       !.planned = "draft", !.life = "brief_draft", !.proposed = FALSE]))
  /\ Answered(r)
  /\ UNCHANGED <<frozen, approved, job, worker, calm, faults>>

\* The job is staged with a fence of its own.  Under a key that exists already
\* the payload is another one, and stage_job raises: the request is rolled back.
StartGeneration(r, options) ==
  LET k == Write(options.snapshot)
  IN  IF job[k].status = "absent"
        THEN /\ job' = Staged(job, k)
             /\ Commit(r, [options |-> [options EXCEPT !.life = "generating",
                                                       !.fence = options.snapshot],
                           job |-> k])
        ELSE UNCHANGED <<report, job>>

\* The snapshot is frozen; without durable memory nothing is generated from it.
AcceptPlan(r, durable, start) ==
  /\ Loaded(r, "accept")
  /\ Len(frozen) < MaxPlans
  /\ LET accepted == [request[r].read.options EXCEPT
                        !.planned = "accepted", !.snapshot = Len(frozen) + 1,
                        !.life = IF durable THEN "plan_accepted" ELSE "accepted_degraded"]
     IN  /\ frozen' = Append(frozen, durable)
         /\ IF durable /\ start THEN StartGeneration(r, accepted)
            ELSE Commit(r, With(r, accepted)) /\ UNCHANGED job
  /\ Answered(r)
  /\ UNCHANGED <<approved, worker, calm, faults>>

\* The job the report names is asked to stop.
CancelReport(r) ==
  /\ Loaded(r, "cancel")
  /\ Commit(r, With(r, [request[r].read.options EXCEPT !.life = "cancelled"]))
  /\ job' = [job EXCEPT ![request[r].read.job].cancel = TRUE]
  /\ Answered(r)
  /\ UNCHANGED <<frozen, approved, worker, calm, faults>>

\* With a snapshot the generation is started again, otherwise the plan.
RetryReport(r) ==
  /\ Loaded(r, "retry")
  /\ LET o == request[r].read.options
     IN  IF o.snapshot = None
           THEN /\ Commit(r, With(r, [o EXCEPT !.life = "brief_draft", !.planned = "draft"]))
                /\ UNCHANGED job
           ELSE IF frozen[o.snapshot]
             THEN StartGeneration(r, [o EXCEPT !.life = "plan_accepted", !.planned = "accepted"])
             ELSE UNCHANGED <<report, job>>
  /\ Answered(r)
  /\ UNCHANGED <<frozen, approved, worker, calm, faults>>

RequestDies(r) ==
  /\ request[r].pc = "loaded" /\ Overtaken(r)
  /\ Answered(r)
  /\ UNCHANGED <<report, frozen, approved, job, worker, calm, faults>>

-----------------------------------------------------------------------------
WorkerStep(w) ==
  \/ \E k \in Keys : Start(w, k)
  \/ ProposePlan(w) \/ WriteDraft(w) \/ FailReport(w) \/ PublishArtifact(w)
  \/ Drop(w) \/ RaiseError(w) \/ RollBack(w)

RequestStep(r) ==
  \/ EditPlan(r) \/ RejectPlan(r) \/ CancelReport(r) \/ RetryReport(r) \/ RequestDies(r)
  \/ \E durable, start \in BOOLEAN : AcceptPlan(r, durable, start)

Next ==
  \/ \E w \in Workers : WorkerStep(w)
  \/ \E k \in Keys : LeaseExpires(k) \/ CancelJob(k) \/ RetryJob(k)
  \/ \E r \in Clients : RequestStep(r) \/ \E kind \in RequestKinds : Load(r, kind)

Spec == Init /\ [][Next]_vars

\* Users ask for a retry as long as the report has failed, and are answered.
FairSpec ==
  /\ Spec
  /\ \A r \in Clients : WF_vars(Load(r, "retry")) /\ WF_vars(RequestStep(r))

-----------------------------------------------------------------------------
(* Properties.                                                             *)

\* Every variable stays in its type.
TypeOK ==
  /\ report \in Report /\ frozen \in Seq(BOOLEAN) /\ Len(frozen) <= MaxPlans
  /\ approved \subseteq 1..MaxPlans /\ job \in [Keys -> Job]
  /\ worker \in [Workers -> WorkerState] /\ request \in [Clients -> Request]
  /\ calm \in BOOLEAN /\ faults \in 0..MaxFaults

\* What a reader can download was made of the draft that was written from the
\* snapshot whose hash it carries, the review approved that draft, and the memory
\* of the snapshot was durable (process_custom_brief_review,
\* get_downloadable_artifact), whatever copies of the options are written late.
DownloadsAreReviewed ==
  LET o == report.options
  IN  o.life = "ready" =>
        /\ o.artifact = [snapshot |-> o.snapshot, draft |-> o.snapshot]
        /\ o.snapshot \in DOMAIN frozen /\ frozen[o.snapshot]
        /\ o.artifact.draft \in approved

\* As long as users are calm, a report that is ready or cancelled stays so
\* (_TRANSITIONS): the cancellation reaches the job that would go on with the
\* report, and no other job writes it.
SettledStaysSettled ==
  [][calm /\ report.options.life \in {"ready", "cancelled"} =>
       report'.options.life = report.options.life]_vars

\* A report that has failed is generated again when that is asked for ("Resume
\* generation with same frozen snapshot", retry_report), if nobody interferes.
RetriesResume ==
  calm => (report.options.life = "failed" ~> report.options.life # "failed")
=============================================================================
