---------------------------- MODULE ReportWorkflow ----------------------------
(***************************************************************************)
(* The reports of one dossier and template (reporting/service.py): their   *)
(* generation by durable jobs, and the requests that revise, review and    *)
(* publish them.                                                           *)
(*                                                                         *)
(* A request loads the report without a lock and commits later; its commit *)
(* writes the columns that differ from what it loaded.  Publication locks  *)
(* and reads again, and is one step.  The version a client sends is that   *)
(* of the row the request loads: with another one the request ends there.  *)
(***************************************************************************)
EXTENDS Naturals, Sequences, FiniteSets

CONSTANTS
  Workers,         \* Celery workers that generate reports
  Clients,         \* reviewers, editors and publishers, one request each at a time
  MaxRequests,     \* bound: requests made to the reports
  MaxGenerations,  \* bound: reports of the template
  MaxRevisions,    \* bound: revisions of a report
  MaxFaults        \* bound: leases lost and manual retries in one behaviour

\* What an instance may choose.
ConstantsOK ==
  /\ MaxRequests \in Nat /\ MaxGenerations \in Nat \ {0}
  /\ MaxRevisions \in Nat \ {0} /\ MaxFaults \in Nat

VARIABLES
  report,    \* the reports rows, by generation_version
  revision,  \* the report_revisions rows of each report, by revision_no
  job,       \* the oracle.report.generate job of each report
  worker,    \* the report each worker generates
  request,   \* what the request of each client is doing
  made,      \* requests made so far
  faults     \* faults met so far

vars == <<report, revision, job, worker, request, made, faults>>

None == 0  \* no report, no revision

\* shown is the revision whose title and content the row holds.
Report == [status: {"draft", "generating", "ready", "reviewed", "published", "superseded", "failed"},
           shown: Nat]
\* approved: report_reviews holds an approval of this revision.
Revision == [status: {"ready", "reviewed", "published", "superseded"}, approved: BOOLEAN]
Job == [status: {"queued", "running", "ended"}, lease: Nat]
WorkerState == [report: Nat, lease: Nat]
RequestKinds == {"revise", "approve", "request_changes", "publish"}
Request == [pc: {"idle", "loaded"}, kind: RequestKinds, report: Nat,
            row: Report, latest: Nat, revision: Revision]

NewReport == [status |-> "draft", shown |-> None]
NewRevision == [status |-> "ready", approved |-> FALSE]
NewJob == [status |-> "queued", lease |-> 0]
IdleWorker == [report |-> None, lease |-> 0]
IdleRequest == [pc |-> "idle", kind |-> "publish", report |-> None,
                row |-> NewReport, latest |-> None, revision |-> NewRevision]

Init ==
  /\ report = <<NewReport>> /\ revision = <<<<>>>> /\ job = <<NewJob>>
  /\ worker = [w \in Workers |-> IdleWorker]
  /\ request = [r \in Clients |-> IdleRequest]
  /\ made = 0 /\ faults = 0

Fault == faults < MaxFaults /\ faults' = faults + 1

Latest(g) == Len(revision[g])

\* The columns an unlocked session writes: those that differ from what it loaded.
Flush(row, read, new) == [c \in DOMAIN row |-> IF new[c] = read[c] THEN row[c] ELSE new[c]]

-----------------------------------------------------------------------------
(* Generation.                                                             *)

\* Each request has a key of its own; a generation is numbered under a lock.
CreateReportRequest ==
  /\ Len(report) < MaxGenerations
  /\ report' = Append(report, NewReport)
  /\ revision' = Append(revision, <<>>)
  /\ job' = Append(job, NewJob)
  /\ UNCHANGED <<worker, request, made, faults>>

Processable(g) == report[g].status \in {"draft", "generating", "failed"}

\* A report that is done answers with the revision it has.
StartGeneration(w, g) ==
  /\ worker[w] = IdleWorker
  /\ job[g].status = "queued"
  /\ LET lease == job[g].lease + 1
     IN  IF Processable(g)
           THEN /\ report' = [report EXCEPT ![g].status = "generating"]
                /\ worker' = [worker EXCEPT ![w] = [report |-> g, lease |-> lease]]
                /\ job' = [job EXCEPT ![g] = [status |-> "running", lease |-> lease]]
           ELSE /\ job' = [job EXCEPT ![g] = [status |-> "ended", lease |-> lease]]
                /\ UNCHANGED <<report, worker>>
  /\ UNCHANGED <<revision, request, made, faults>>

OwnsJob(w) ==
  LET g == worker[w].report
  IN  job[g].status = "running" /\ job[g].lease = worker[w].lease

EndJob(w) ==
  /\ job' = IF OwnsJob(w) THEN [job EXCEPT ![worker[w].report].status = "ended"] ELSE job
  /\ worker' = [worker EXCEPT ![w] = IdleWorker]

\* The lease is compared again, under a lock, once the artefacts are rendered.
FinishGeneration(w) ==
  /\ worker[w] # IdleWorker
  /\ OwnsJob(w)
  /\ LET g == worker[w].report
     IN  /\ report[g].status = "generating"
         /\ revision' = [revision EXCEPT ![g] = Append(@, NewRevision)]
         /\ report' = [report EXCEPT ![g] = [status |-> "ready", shown |-> 1]]
  /\ EndJob(w)
  /\ UNCHANGED <<request, made, faults>>

\* ReportLeaseLost: only the artefacts are taken back.
LoseLease(w) ==
  /\ worker[w] # IdleWorker
  /\ ~OwnsJob(w)
  /\ EndJob(w)
  /\ UNCHANGED <<report, revision, request, made, faults>>

\* The agent, the validation or the renderer failed, or the report is not being
\* generated any more: whoever owns the job, the report is failed.
FailGeneration(w) ==
  /\ worker[w] # IdleWorker
  /\ LET g == worker[w].report
     IN  report' = IF Processable(g) THEN [report EXCEPT ![g].status = "failed"] ELSE report
  /\ EndJob(w)
  /\ UNCHANGED <<revision, request, made, faults>>

\* Recovery queues the job of a lease that ran out; its worker may be alive.
LeaseExpires(g) ==
  /\ job[g].status = "running"
  /\ Fault
  /\ job' = [job EXCEPT ![g].status = "queued"]
  /\ \/ UNCHANGED worker
     \/ worker' = [w \in Workers |->
                    IF worker[w].report = g /\ OwnsJob(w) THEN IdleWorker ELSE worker[w]]
  /\ UNCHANGED <<report, revision, request, made>>

\* The retry route of the jobs takes a failed job.
RetryJob(g) ==
  /\ job[g].status = "ended" /\ report[g].status = "failed"
  /\ Fault
  /\ job' = [job EXCEPT ![g].status = "queued"]
  /\ UNCHANGED <<report, revision, worker, request, made>>

-----------------------------------------------------------------------------
(* Requests.                                                               *)

\* Revisions and reviews are for reports that are ready or reviewed; a review
\* names the latest revision.
Load(r, g, kind) ==
  /\ request[r].pc = "idle"
  /\ made < MaxRequests /\ made' = made + 1
  /\ report[g].status \in IF kind = "publish" THEN {"reviewed"} ELSE {"ready", "reviewed"}
  /\ request' = [request EXCEPT ![r] = [pc |-> "loaded", kind |-> kind, report |-> g,
       row |-> report[g], latest |-> Latest(g), revision |-> revision[g][Latest(g)]]]
  /\ UNCHANGED <<report, revision, job, worker, faults>>

Loaded(r, kinds) == request[r].pc = "loaded" /\ request[r].kind \in kinds

Answered(r) == request' = [request EXCEPT ![r] = IdleRequest]

\* The number of the new revision is unique: of two editors one fails, and takes
\* its artefacts back.
CreateHumanRevision(r) ==
  /\ Loaded(r, {"revise"})
  /\ LET q == request[r]
         g == q.report
         k == q.latest + 1
         new == Flush(report[g], q.row, [status |-> "ready", shown |-> k])
     IN  IF Latest(g) = q.latest /\ k <= MaxRevisions
           THEN /\ revision' = [revision EXCEPT ![g] =
                     Append([@ EXCEPT ![q.latest].status = "superseded"], NewRevision)]
                /\ report' = [report EXCEPT ![g] = new]
           ELSE UNCHANGED <<revision, report>>
  /\ Answered(r)
  /\ UNCHANGED <<job, worker, made, faults>>

ReviewReport(r) ==
  /\ Loaded(r, {"approve", "request_changes"})
  /\ LET q == request[r]
         g == q.report
         decided == IF q.kind = "approve" THEN "reviewed" ELSE "ready"
         approval == q.revision.approved \/ q.kind = "approve"
     IN  /\ report' = [report EXCEPT ![g] =
              Flush(@, q.row, [q.row EXCEPT !.status = decided])]
         /\ revision' = [revision EXCEPT ![g][q.latest] =
              Flush(@, q.revision, [status |-> decided, approved |-> approval])]
  /\ Answered(r)
  /\ UNCHANGED <<job, worker, made, faults>>

Newer(g) == \E h \in (g + 1)..Len(report) : report[h].status \in {"reviewed", "published"}

Publishable(g) ==
  /\ report[g].status = "reviewed"
  /\ ~Newer(g)
  /\ revision[g][Latest(g)].status = "reviewed"

\* Bug: the report published before is left as it is.
BugPublished(g, h) == IF h = g THEN "published" ELSE report[h].status

\* What publishing g makes of report h.
Published(g, h) ==
  IF h = g THEN "published"
  ELSE IF report[h].status = "published" THEN "superseded" ELSE report[h].status

\* The advisory lock and the row's lock make it one step.
PublishReport(r) ==
  /\ Loaded(r, {"publish"})
  /\ LET g == request[r].report
     IN  IF Publishable(g)
           THEN /\ report' = [h \in DOMAIN report |-> [report[h] EXCEPT !.status = Published(g, h)]]
                /\ revision' = [h \in DOMAIN revision |->
                     IF Published(g, h) = report[h].status THEN revision[h]
                     ELSE [revision[h] EXCEPT ![Latest(h)].status = Published(g, h)]]
           ELSE UNCHANGED <<report, revision>>
  /\ Answered(r)
  /\ UNCHANGED <<job, worker, made, faults>>

-----------------------------------------------------------------------------
WorkerStep(w) ==
  \/ \E g \in DOMAIN job : StartGeneration(w, g)
  \/ FinishGeneration(w) \/ LoseLease(w) \/ FailGeneration(w)

Next ==
  \/ CreateReportRequest
  \/ \E w \in Workers : WorkerStep(w)
  \/ \E g \in DOMAIN job : LeaseExpires(g) \/ RetryJob(g)
  \/ \E r \in Clients :
       \/ \E g \in DOMAIN report, kind \in RequestKinds : Load(r, g, kind)
       \/ CreateHumanRevision(r) \/ ReviewReport(r) \/ PublishReport(r)

Spec == Init /\ [][Next]_vars

-----------------------------------------------------------------------------
(* Properties.                                                             *)

\* Every variable stays in its type.
TypeOK ==
  /\ report \in Seq(Report) /\ revision \in Seq(Seq(Revision)) /\ job \in Seq(Job)
  /\ worker \in [Workers -> WorkerState] /\ request \in [Clients -> Request]
  /\ made \in 0..MaxRequests /\ faults \in 0..MaxFaults

\* One report of the template is published at most, whichever requests race.
OnePublished ==
  Cardinality({g \in DOMAIN report : report[g].status = "published"}) <= 1

\* What was published had an approval of its own: an approval that lands on the
\* report after a newer revision does not publish that revision.
PublishedIsApproved ==
  \A g \in DOMAIN revision : \A k \in DOMAIN revision[g] :
    revision[g][k].status \in {"reviewed", "published"} => revision[g][k].approved

\* A published report shows the revision that was published ("Solo informes no
\* publicados admiten revisión in-place", create_human_revision).
PublishedUnchanged ==
  \A g \in DOMAIN report :
    report[g].status = "published" => revision[g][report[g].shown].status = "published"
=============================================================================
