------------------------- MODULE ReportWorkflowProofs -------------------------
(***************************************************************************)
(* Theorems about ReportWorkflow: one report of the template is published  *)
(* and what is published was approved, for every number of workers,        *)
(* clients, reports, revisions, requests and faults.                       *)
(***************************************************************************)
EXTENDS ReportWorkflow, FiniteSetTheorems, TLAPS

\* The three tables have a row for each generation, and a report has revisions
\* once it was generated.
RowsMatch ==
  /\ Len(revision) = Len(report) /\ Len(job) = Len(report)
  /\ \A g \in DOMAIN report :
       report[g].status \in {"draft", "generating", "failed"} <=> Len(revision[g]) = 0

\* A worker that is busy generates a report there is.
WorkersMatch ==
  \A w \in Workers : worker[w] # IdleWorker => worker[w].report \in DOMAIN report

\* A request that has loaded names a revision there is, read when it was ready or
\* reviewed, and an approval it has seen is still there.
RequestsMatch ==
  \A r \in Clients : request[r].pc = "loaded" =>
    LET q == request[r]
    IN  /\ q.report \in DOMAIN report /\ q.latest \in DOMAIN revision[q.report]
        /\ q.revision.approved => revision[q.report][q.latest].approved

SinglePublished ==
  \A g, h \in DOMAIN report : report[g].status = "published" /\ report[h].status = "published" => g = h

Inv ==
  /\ TypeOK /\ RowsMatch /\ WorkersMatch /\ RequestsMatch
  /\ SinglePublished /\ PublishedIsApproved

-----------------------------------------------------------------------------
(* Sequences and rows.                                                     *)

LEMMA Replaced ==
  ASSUME NEW S, NEW s \in Seq(S), NEW i \in DOMAIN s, NEW x \in S
  PROVE  LET t == [s EXCEPT ![i] = x]
         IN  /\ t \in Seq(S) /\ Len(t) = Len(s) /\ DOMAIN t = DOMAIN s /\ t[i] = x
             /\ \A j \in DOMAIN s : j # i => t[j] = s[j]
OBVIOUS

LEMMA Mapped ==
  ASSUME NEW S, NEW s \in Seq(S), NEW t, t = [i \in DOMAIN s |-> t[i]],
         \A i \in DOMAIN s : t[i] \in S
  PROVE  t \in Seq(S) /\ Len(t) = Len(s) /\ DOMAIN t = DOMAIN s
OBVIOUS

LEMMA Appended ==
  ASSUME NEW S, NEW s \in Seq(S), NEW x \in S
  PROVE  LET t == Append(s, x)
         IN  /\ t \in Seq(S) /\ Len(t) = Len(s) + 1 /\ DOMAIN t = DOMAIN s \cup {Len(s) + 1}
             /\ t[Len(s) + 1] = x /\ \A j \in DOMAIN s : t[j] = s[j]
OBVIOUS

LEMMA FlushedReport ==
  ASSUME NEW row \in Report, NEW read \in Report, NEW new \in Report
  PROVE  /\ Flush(row, read, new) \in Report
         /\ Flush(row, read, new).status = IF new.status = read.status THEN row.status ELSE new.status
BY DEF Flush, Report

LEMMA FlushedRevision ==
  ASSUME NEW row \in Revision, NEW read \in Revision, NEW new \in Revision
  PROVE  /\ Flush(row, read, new) \in Revision
         /\ Flush(row, read, new).status = IF new.status = read.status THEN row.status ELSE new.status
         /\ Flush(row, read, new).approved
              = IF new.approved = read.approved THEN row.approved ELSE new.approved
BY DEF Flush, Revision

LEMMA Fields ==
  ASSUME TypeOK
  PROVE  /\ \A g \in DOMAIN report : report[g] \in Report
         /\ \A g \in DOMAIN revision : revision[g] \in Seq(Revision)
         /\ \A g \in DOMAIN revision : \A k \in DOMAIN revision[g] : revision[g][k] \in Revision
         /\ \A g \in DOMAIN job : job[g] \in Job
         /\ \A r \in Clients : /\ request[r].row \in Report /\ request[r].revision \in Revision
                               /\ request[r].latest \in Nat /\ request[r].report \in Nat
                               /\ request[r].kind \in RequestKinds
BY DEF TypeOK, Request

LEMMA NewRows ==
  /\ NewReport \in Report /\ NewRevision \in Revision /\ NewJob \in Job
  /\ IdleWorker \in WorkerState /\ IdleRequest \in Request
BY DEF NewReport, Report, NewRevision, Revision, NewJob, Job, IdleWorker, WorkerState,
       IdleRequest, Request, RequestKinds, None

LEMMA FaultType == ASSUME ConstantsOK, TypeOK, Fault PROVE faults' \in 0..MaxFaults
BY DEF ConstantsOK, TypeOK, Fault

LEMMA InvInit == ConstantsOK /\ Init => Inv
<1> SUFFICES ASSUME ConstantsOK, Init PROVE Inv OBVIOUS
<1>1. report \in Seq(Report) /\ Len(report) = 1 /\ DOMAIN report = {1} /\ report[1] = NewReport
  BY NewRows DEF Init
<1>2. revision \in Seq(Seq(Revision)) /\ Len(revision) = 1 /\ revision[1] = <<>> /\ DOMAIN revision = {1}
  BY DEF Init
<1>3. job \in Seq(Job) /\ Len(job) = 1 BY NewRows DEF Init
<1>4. worker \in [Workers -> WorkerState] /\ request \in [Clients -> Request]
  BY NewRows DEF Init
<1>5. made \in 0..MaxRequests /\ faults \in 0..MaxFaults BY DEF Init, ConstantsOK
<1>6. TypeOK BY <1>1, <1>2, <1>3, <1>4, <1>5 DEF TypeOK
<1>7. RowsMatch BY <1>1, <1>2, <1>3 DEF RowsMatch, NewReport
<1>8. WorkersMatch /\ RequestsMatch BY DEF Init, WorkersMatch, RequestsMatch, IdleRequest
<1>9. SinglePublished BY <1>1 DEF SinglePublished
<1>10. PublishedIsApproved BY <1>2 DEF PublishedIsApproved
<1> QED BY <1>6, <1>7, <1>8, <1>9, <1>10 DEF Inv

-----------------------------------------------------------------------------
(* Steps.                                                                  *)

\* What a step may do to the tables: keep their lengths and every approval,
\* and add revisions.
LEMMA TablesChange ==
  ASSUME Inv,
         report' \in Seq(Report), Len(report') = Len(report),
         revision' \in Seq(Seq(Revision)), Len(revision') = Len(revision),
         job' \in Seq(Job), Len(job') = Len(job),
         \A g \in DOMAIN report :
           report'[g].status \in {"draft", "generating", "failed"} <=> Len(revision'[g]) = 0,
         \A g \in DOMAIN revision : \A k \in DOMAIN revision[g] :
           k \in DOMAIN revision'[g] /\ (revision[g][k].approved => revision'[g][k].approved),
         SinglePublished', PublishedIsApproved',
         worker' \in [Workers -> WorkerState],
         \A w \in Workers : worker'[w] # IdleWorker => worker'[w].report \in DOMAIN report,
         request' \in [Clients -> Request],
         \A r \in Clients : request'[r].pc = "loaded" => request'[r] = request[r],
         made' \in 0..MaxRequests, faults' \in 0..MaxFaults
  PROVE  Inv'
<1> USE DEF Inv
<1>1. DOMAIN report' = DOMAIN report /\ DOMAIN revision = DOMAIN report
  BY DEF TypeOK, RowsMatch
<1>2. TypeOK' BY DEF TypeOK
<1>3. RowsMatch' BY <1>1 DEF RowsMatch
<1>4. WorkersMatch' BY <1>1 DEF WorkersMatch
<1>5. RequestsMatch' BY <1>1 DEF RequestsMatch
<1> QED BY <1>2, <1>3, <1>4, <1>5

\* Reports keep the place they have unless they are published anew.
LEMMA StillSingle ==
  ASSUME SinglePublished, DOMAIN report' = DOMAIN report,
         \A g \in DOMAIN report : report'[g].status = "published" => report[g].status = "published"
  PROVE  SinglePublished'
BY DEF SinglePublished

\* A step that leaves reports and revisions alone.
LEMMA QuietStep ==
  ASSUME Inv, UNCHANGED <<report, revision>>, job' \in Seq(Job), Len(job') = Len(job),
         worker' \in [Workers -> WorkerState],
         \A w \in Workers : worker'[w] # IdleWorker => worker'[w].report \in DOMAIN report,
         request' \in [Clients -> Request],
         \A r \in Clients : request'[r].pc = "loaded" => request'[r] = request[r],
         made' \in 0..MaxRequests, faults' \in 0..MaxFaults
  PROVE  Inv'
<1>1. SinglePublished' BY StillSingle DEF Inv
<1>2. PublishedIsApproved' BY DEF Inv, PublishedIsApproved
<1> QED BY <1>1, <1>2, TablesChange DEF Inv, TypeOK, RowsMatch

LEMMA CreateKeeps == ASSUME Inv, CreateReportRequest PROVE Inv'
<1> USE DEF Inv
<1> DEFINE n == Len(report) + 1
<1>1. /\ report' \in Seq(Report) /\ Len(report') = n /\ DOMAIN report' = DOMAIN report \cup {n}
      /\ report'[n] = NewReport /\ \A g \in DOMAIN report : report'[g] = report[g]
  <2>1. report' = Append(report, NewReport) /\ report \in Seq(Report) BY DEF CreateReportRequest, TypeOK
  <2> QED BY <2>1, NewRows, Appended
<1>2. /\ revision' \in Seq(Seq(Revision)) /\ Len(revision') = n
      /\ DOMAIN revision' = DOMAIN revision \cup {n} /\ DOMAIN revision = DOMAIN report
      /\ revision'[n] = <<>> /\ \A g \in DOMAIN revision : revision'[g] = revision[g]
  <2>1. revision' = Append(revision, <<>>) /\ revision \in Seq(Seq(Revision)) /\ <<>> \in Seq(Revision)
    BY DEF CreateReportRequest, TypeOK
  <2>2. Len(revision) = Len(report) BY DEF RowsMatch
  <2> QED BY <2>1, <2>2, Appended DEF TypeOK
<1>3. job' \in Seq(Job) /\ Len(job') = n
  <2>1. job' = Append(job, NewJob) /\ job \in Seq(Job) BY DEF CreateReportRequest, TypeOK
  <2> QED BY <2>1, NewRows, Appended DEF RowsMatch
<1>4. UNCHANGED <<worker, request, made, faults>> BY DEF CreateReportRequest
<1>5. n \notin DOMAIN report BY DEF TypeOK
<1> HIDE DEF n
<1>6. TypeOK' BY <1>1, <1>2, <1>3, <1>4 DEF TypeOK
<1>7. RowsMatch'
  <2>1. \A g \in DOMAIN report' :
          report'[g].status \in {"draft", "generating", "failed"} <=> Len(revision'[g]) = 0
    BY <1>1, <1>2 DEF RowsMatch, NewReport
  <2> QED BY <1>1, <1>2, <1>3, <2>1 DEF RowsMatch
<1>8. WorkersMatch' BY <1>1, <1>4 DEF WorkersMatch
<1>9. RequestsMatch' BY <1>1, <1>2, <1>4 DEF RequestsMatch
<1>10. SinglePublished' BY <1>1 DEF SinglePublished, NewReport
<1>11. PublishedIsApproved' BY <1>2 DEF PublishedIsApproved
<1> QED BY <1>6, <1>7, <1>8, <1>9, <1>10, <1>11

\* What EndJob leaves.
LEMMA EndedJob ==
  ASSUME Inv, NEW w \in Workers, worker[w] # IdleWorker, EndJob(w)
  PROVE  /\ job' \in Seq(Job) /\ Len(job') = Len(job)
         /\ worker' \in [Workers -> WorkerState]
         /\ \A v \in Workers : worker'[v] # IdleWorker => worker'[v].report \in DOMAIN report
<1> USE DEF Inv
<1> DEFINE g == worker[w].report
<1>1. g \in DOMAIN job /\ job \in Seq(Job) BY DEF WorkersMatch, RowsMatch, TypeOK
<1>2. job' \in Seq(Job) /\ Len(job') = Len(job)
  <2>1. CASE OwnsJob(w)
    <3> DEFINE row == [job[g] EXCEPT !.status = "ended"]
    <3>1. job[g] \in Job BY <1>1
    <3>2. row \in Job BY ONLY <3>1 DEF Job
    <3>3. job' = [job EXCEPT ![g] = row] BY <2>1 DEF EndJob
    <3> HIDE DEF row, g
    <3> QED BY <1>1, <3>2, <3>3, Replaced
  <2>2. CASE ~OwnsJob(w) BY <2>2, <1>1 DEF EndJob
  <2> QED BY <2>1, <2>2
<1>3. /\ worker' \in [Workers -> WorkerState]
      /\ \A v \in Workers : worker'[v] = IdleWorker \/ worker'[v] = worker[v]
  BY NewRows DEF EndJob, TypeOK
<1> QED BY <1>2, <1>3 DEF WorkersMatch

\* A report that is not published gets another status that is not "published".
LEMMA StatusKeeps ==
  ASSUME Inv, NEW g \in DOMAIN report, NEW row \in Report, report' = [report EXCEPT ![g] = row],
         row.status # "published" \/ report[g].status = "published"
  PROVE  /\ report' \in Seq(Report) /\ Len(report') = Len(report) /\ SinglePublished'
         /\ DOMAIN report' = DOMAIN report /\ report'[g] = row
         /\ \A h \in DOMAIN report : h # g => report'[h] = report[h]
<1>1. report \in Seq(Report) BY DEF Inv, TypeOK
<1>2. /\ report' \in Seq(Report) /\ Len(report') = Len(report) /\ DOMAIN report' = DOMAIN report
      /\ report'[g] = row /\ \A h \in DOMAIN report : h # g => report'[h] = report[h]
  BY <1>1, Replaced
<1>3. SinglePublished' BY <1>2, StillSingle DEF Inv
<1> QED BY <1>2, <1>3

LEMMA StartKeeps ==
  ASSUME Inv, NEW w \in Workers, NEW g \in DOMAIN job, StartGeneration(w, g)
  PROVE  Inv'
<1> USE DEF Inv
<1>1. /\ g \in DOMAIN report /\ job \in Seq(Job) /\ job[g].lease + 1 \in Nat
      /\ g \in Nat /\ DOMAIN revision = DOMAIN report
  BY Fields DEF RowsMatch, TypeOK, Job
<1>2. UNCHANGED <<revision, request, made, faults>> BY DEF StartGeneration
<1>3. CASE Processable(g)
  <2>1. /\ report' = [report EXCEPT ![g].status = "generating"]
        /\ worker' = [worker EXCEPT ![w] = [report |-> g, lease |-> job[g].lease + 1]]
        /\ job' = [job EXCEPT ![g] = [status |-> "running", lease |-> job[g].lease + 1]]
    BY <1>3 DEF StartGeneration
  <2> DEFINE row == [report[g] EXCEPT !.status = "generating"]
             task == [status |-> "running", lease |-> job[g].lease + 1]
             busy == [report |-> g, lease |-> job[g].lease + 1]
  <2>2. report[g] \in Report BY <1>1, Fields
  <2>3. row \in Report /\ row.status = "generating" BY ONLY <2>2 DEF Report
  <2>4. task \in Job /\ busy \in WorkerState BY <1>1 DEF Job, WorkerState
  <2>5. report' = [report EXCEPT ![g] = row] BY <2>1
  <2> HIDE DEF row, task
  <2>6. /\ report' \in Seq(Report) /\ Len(report') = Len(report) /\ SinglePublished'
        /\ DOMAIN report' = DOMAIN report /\ report'[g] = row
        /\ \A h \in DOMAIN report : h # g => report'[h] = report[h]
    BY <1>1, <2>3, <2>5, StatusKeeps
  <2>7. job' \in Seq(Job) /\ Len(job') = Len(job) BY <1>1, <2>1, <2>4, Replaced DEF task
  <2>8. /\ worker' \in [Workers -> WorkerState]
        /\ \A v \in Workers : worker'[v] # IdleWorker => worker'[v].report \in DOMAIN report
    BY <1>1, <2>1, <2>4 DEF WorkersMatch, TypeOK
  <2>9. \A h \in DOMAIN report :
          report'[h].status \in {"draft", "generating", "failed"} <=> Len(revision'[h]) = 0
    BY <1>2, <1>3, <2>3, <2>6 DEF RowsMatch, Processable
  <2>10. PublishedIsApproved' BY <1>2 DEF PublishedIsApproved
  <2> QED BY <1>2, <2>6, <2>7, <2>8, <2>9, <2>10, TablesChange DEF TypeOK
<1>4. CASE ~Processable(g)
  <2>1. /\ job' = [job EXCEPT ![g] = [status |-> "ended", lease |-> job[g].lease + 1]]
        /\ UNCHANGED <<report, worker>>
    BY <1>4 DEF StartGeneration
  <2>2. [status |-> "ended", lease |-> job[g].lease + 1] \in Job BY <1>1 DEF Job
  <2>3. job' \in Seq(Job) /\ Len(job') = Len(job) BY <1>1, <2>1, <2>2, Replaced
  <2> QED BY <1>2, <2>1, <2>3, QuietStep DEF TypeOK, WorkersMatch
<1> QED BY <1>3, <1>4

LEMMA FinishKeeps ==
  ASSUME Inv, NEW w \in Workers, FinishGeneration(w)
  PROVE  Inv'
<1> USE DEF Inv
<1> DEFINE g == worker[w].report
           row == [status |-> "ready", shown |-> 1]
           list == Append(revision[g], NewRevision)
<1>1. g \in DOMAIN report /\ g \in DOMAIN revision /\ DOMAIN revision = DOMAIN report
  BY DEF FinishGeneration, WorkersMatch, RowsMatch, TypeOK
<1>2. /\ report[g].status = "generating" /\ EndJob(w) /\ worker[w] # IdleWorker
      /\ revision' = [revision EXCEPT ![g] = list] /\ report' = [report EXCEPT ![g] = row]
      /\ UNCHANGED <<request, made, faults>>
  BY DEF FinishGeneration
<1>3. row \in Report /\ row.status = "ready" BY DEF Report
<1>4. revision[g] \in Seq(Revision) BY <1>1, Fields
<1>5. /\ list \in Seq(Revision) /\ Len(list) = Len(revision[g]) + 1
      /\ DOMAIN list = DOMAIN revision[g] \cup {Len(revision[g]) + 1}
      /\ list[Len(revision[g]) + 1] = NewRevision
      /\ \A k \in DOMAIN revision[g] : list[k] = revision[g][k]
  BY <1>4, NewRows, Appended
<1>6. /\ job' \in Seq(Job) /\ Len(job') = Len(job)
      /\ worker' \in [Workers -> WorkerState]
      /\ \A v \in Workers : worker'[v] # IdleWorker => worker'[v].report \in DOMAIN report
  BY <1>2, EndedJob
<1> HIDE DEF list, row, g
<1>7. /\ report' \in Seq(Report) /\ Len(report') = Len(report) /\ SinglePublished'
      /\ DOMAIN report' = DOMAIN report /\ report'[g] = row
      /\ \A h \in DOMAIN report : h # g => report'[h] = report[h]
  BY <1>1, <1>2, <1>3, StatusKeeps
<1>8. /\ revision' \in Seq(Seq(Revision)) /\ Len(revision') = Len(revision)
      /\ DOMAIN revision' = DOMAIN revision /\ revision'[g] = list
      /\ \A h \in DOMAIN revision : h # g => revision'[h] = revision[h]
  <2>1. revision \in Seq(Seq(Revision)) BY DEF TypeOK
  <2> QED BY <1>1, <1>2, <1>5, <2>1, Replaced
<1>9. \A h \in DOMAIN report :
        report'[h].status \in {"draft", "generating", "failed"} <=> Len(revision'[h]) = 0
  <2>1. Len(list) # 0 BY <1>4, <1>5
  <2> QED BY <1>1, <1>3, <1>7, <1>8, <2>1 DEF RowsMatch
<1>10. PublishedIsApproved'
  <2>1. \A k \in DOMAIN list : list[k].status \in {"reviewed", "published"} => list[k].approved
    <3>1. \A k \in DOMAIN revision[g] :
            revision[g][k].status \in {"reviewed", "published"} => revision[g][k].approved
      BY <1>1 DEF PublishedIsApproved
    <3>2. NewRevision.status = "ready" BY DEF NewRevision
    <3> QED BY <1>5, <3>1, <3>2
  <2> QED BY <1>1, <1>8, <2>1 DEF PublishedIsApproved
<1>11. \A h \in DOMAIN revision : \A k \in DOMAIN revision[h] :
         k \in DOMAIN revision'[h] /\ (revision[h][k].approved => revision'[h][k].approved)
  BY <1>5, <1>8
<1>12. request' \in [Clients -> Request] /\ made' \in 0..MaxRequests /\ faults' \in 0..MaxFaults
       /\ request' = request
  BY <1>2 DEF TypeOK
<1> QED BY <1>6, <1>7, <1>8, <1>9, <1>10, <1>11, <1>12, TablesChange

LEMMA FailKeeps ==
  ASSUME Inv, NEW w \in Workers, FailGeneration(w)
  PROVE  Inv'
<1> USE DEF Inv
<1> DEFINE g == worker[w].report
           row == [report[g] EXCEPT !.status = "failed"]
<1>1. g \in DOMAIN report /\ DOMAIN revision = DOMAIN report
  BY DEF FailGeneration, WorkersMatch, RowsMatch, TypeOK
<1>2. /\ EndJob(w) /\ worker[w] # IdleWorker /\ UNCHANGED <<revision, request, made, faults>>
      /\ report' = IF Processable(g) THEN [report EXCEPT ![g].status = "failed"] ELSE report
  BY DEF FailGeneration
<1>3. /\ job' \in Seq(Job) /\ Len(job') = Len(job)
      /\ worker' \in [Workers -> WorkerState]
      /\ \A v \in Workers : worker'[v] # IdleWorker => worker'[v].report \in DOMAIN report
  BY <1>2, EndedJob
<1>4. request' \in [Clients -> Request] /\ made' \in 0..MaxRequests /\ faults' \in 0..MaxFaults
      /\ request' = request
  BY <1>2 DEF TypeOK
<1>5. CASE Processable(g)
  <2>1. report[g] \in Report BY <1>1, Fields
  <2>2. row \in Report /\ row.status = "failed" BY ONLY <2>1 DEF Report
  <2>3. report' = [report EXCEPT ![g] = row] BY <1>2, <1>5
  <2> HIDE DEF row, g
  <2>4. /\ report' \in Seq(Report) /\ Len(report') = Len(report) /\ SinglePublished'
        /\ DOMAIN report' = DOMAIN report /\ report'[g] = row
        /\ \A h \in DOMAIN report : h # g => report'[h] = report[h]
    BY <1>1, <2>2, <2>3, StatusKeeps
  <2>5. \A h \in DOMAIN report :
          report'[h].status \in {"draft", "generating", "failed"} <=> Len(revision'[h]) = 0
    BY <1>1, <1>2, <1>5, <2>2, <2>4 DEF RowsMatch, Processable
  <2>6. PublishedIsApproved' BY <1>2 DEF PublishedIsApproved
  <2> QED BY <1>2, <1>3, <1>4, <2>4, <2>5, <2>6, TablesChange DEF TypeOK
<1>6. CASE ~Processable(g)
  <2>1. report' = report BY <1>2, <1>6
  <2> QED BY <1>2, <1>3, <1>4, <2>1, QuietStep
<1> QED BY <1>5, <1>6

\* Leases, retries and requests that only load.
LEMMA OthersKeep ==
  ASSUME ConstantsOK, Inv
  PROVE  /\ \A w \in Workers : LoseLease(w) => Inv'
         /\ \A g \in DOMAIN job : LeaseExpires(g) \/ RetryJob(g) => Inv'
         /\ UNCHANGED vars => Inv'
<1> USE DEF Inv
<1>1. ASSUME NEW w \in Workers, LoseLease(w)
      PROVE  Inv'
  <2>1. /\ job' \in Seq(Job) /\ Len(job') = Len(job)
        /\ worker' \in [Workers -> WorkerState]
        /\ \A v \in Workers : worker'[v] # IdleWorker => worker'[v].report \in DOMAIN report
    BY <1>1, EndedJob DEF LoseLease
  <2> QED BY <1>1, <2>1, QuietStep DEF LoseLease, TypeOK
<1>2. ASSUME NEW g \in DOMAIN job, LeaseExpires(g) \/ RetryJob(g)
      PROVE  Inv'
  <2> DEFINE task == [job[g] EXCEPT !.status = "queued"]
  <2>1. job[g] \in Job /\ job \in Seq(Job) BY Fields DEF TypeOK
  <2>2. task \in Job BY ONLY <2>1 DEF Job
  <2>3. job' = [job EXCEPT ![g] = task] /\ UNCHANGED <<report, revision, request, made>> /\ Fault
    BY <1>2 DEF LeaseExpires, RetryJob
  <2> HIDE DEF task
  <2>4. job' \in Seq(Job) /\ Len(job') = Len(job) BY <2>1, <2>2, <2>3, Replaced
  <2>5. /\ worker' \in [Workers -> WorkerState]
        /\ \A v \in Workers : worker'[v] = IdleWorker \/ worker'[v] = worker[v]
    BY <1>2, NewRows DEF LeaseExpires, RetryJob, TypeOK
  <2>6. faults' \in 0..MaxFaults BY <2>3, FaultType
  <2> QED BY <2>3, <2>4, <2>5, <2>6, QuietStep DEF TypeOK, WorkersMatch
<1>3. CASE UNCHANGED vars
  <2>1. UNCHANGED <<report, revision, job, worker, request, made, faults>> BY <1>3 DEF vars
  <2> QED BY <2>1, QuietStep DEF TypeOK, WorkersMatch
<1> QED BY <1>1, <1>2, <1>3

LEMMA LoadKeeps ==
  ASSUME ConstantsOK, Inv, NEW r \in Clients, NEW g \in DOMAIN report, NEW kind \in RequestKinds, Load(r, g, kind)
  PROVE  Inv'
<1> USE DEF Inv
<1> DEFINE q == [pc |-> "loaded", kind |-> kind, report |-> g, row |-> report[g],
                 latest |-> Latest(g), revision |-> revision[g][Latest(g)]]
<1>1. /\ request' = [request EXCEPT ![r] = q] /\ made < MaxRequests /\ made' = made + 1
      /\ UNCHANGED <<report, revision, job, worker, faults>>
      /\ report[g].status \in {"ready", "reviewed"}
  BY DEF Load
<1>2. g \in DOMAIN revision /\ revision[g] \in Seq(Revision) /\ Len(revision[g]) # 0 /\ g \in Nat
  <2>1. g \in DOMAIN revision /\ g \in Nat BY DEF RowsMatch, TypeOK
  <2>2. revision[g] \in Seq(Revision) BY <2>1, Fields
  <2>3. Len(revision[g]) # 0 BY <1>1 DEF RowsMatch
  <2> QED BY <2>1, <2>2, <2>3
<1>3. Latest(g) \in DOMAIN revision[g] /\ Latest(g) \in Nat BY <1>2 DEF Latest
<1>4. q \in Request
  <2>1. report[g] \in Report /\ revision[g][Latest(g)] \in Revision BY <1>2, <1>3, Fields
  <2> QED BY <1>2, <1>3, <2>1 DEF Request
<1>5. /\ request' \in [Clients -> Request] /\ request'[r] = q
      /\ \A s \in Clients : s # r => request'[s] = request[s]
  BY <1>1, <1>4 DEF TypeOK
<1>6. made' \in 0..MaxRequests BY <1>1 DEF TypeOK, ConstantsOK
<1>7. /\ q.report = g /\ q.latest = Latest(g) /\ q.revision = revision[g][Latest(g)]
  OBVIOUS
<1> HIDE DEF q
<1>8. TypeOK' BY <1>1, <1>5, <1>6 DEF TypeOK
<1>9. RowsMatch' /\ WorkersMatch' BY <1>1 DEF RowsMatch, WorkersMatch
<1>10. RequestsMatch' BY <1>1, <1>2, <1>3, <1>5, <1>7 DEF RequestsMatch
<1>11. SinglePublished' /\ PublishedIsApproved' BY <1>1 DEF SinglePublished, PublishedIsApproved
<1> QED BY <1>8, <1>9, <1>10, <1>11

\* An answered request leaves the others as they are.
LEMMA AnsweredRequest ==
  ASSUME Inv, NEW r \in Clients, Answered(r)
  PROVE  /\ request' \in [Clients -> Request]
         /\ \A s \in Clients : request'[s].pc = "loaded" => request'[s] = request[s]
BY NewRows DEF Inv, TypeOK, Answered, IdleRequest

\* What a request that has loaded knows.
LEMMA LoadedRequest ==
  ASSUME Inv, NEW r \in Clients, NEW kinds, Loaded(r, kinds)
  PROVE  LET q == request[r]
             g == q.report
         IN  /\ g \in DOMAIN report /\ g \in DOMAIN revision /\ report[g] \in Report
             /\ q.latest \in DOMAIN revision[g] /\ revision[g] \in Seq(Revision)
             /\ revision[g][q.latest] \in Revision /\ Len(revision[g]) # 0
             /\ q.row \in Report /\ q.revision \in Revision
             /\ q.revision.approved => revision[g][q.latest].approved
             /\ report[g].status \notin {"draft", "generating", "failed"}
<1> USE DEF Inv
<1> DEFINE q == request[r]
           g == q.report
<1>1. /\ g \in DOMAIN report /\ q.latest \in DOMAIN revision[g]
      /\ q.revision.approved => revision[g][q.latest].approved
  BY DEF Loaded, RequestsMatch
<1>2. g \in DOMAIN revision BY <1>1 DEF RowsMatch, TypeOK
<1>3. revision[g] \in Seq(Revision) /\ report[g] \in Report /\ q.row \in Report /\ q.revision \in Revision
  BY <1>1, <1>2, Fields
<1>4. revision[g][q.latest] \in Revision BY <1>1, <1>2, Fields
<1>5. Len(revision[g]) # 0 BY <1>1, <1>3
<1>6. report[g].status \notin {"draft", "generating", "failed"} BY <1>1, <1>5 DEF RowsMatch
<1> QED BY <1>1, <1>2, <1>3, <1>4, <1>5, <1>6

\* One report that has revisions gets another row and another list of revisions,
\* which keeps the approvals and is not published by it.
LEMMA EditKeeps ==
  ASSUME Inv, NEW g \in DOMAIN report, report[g].status \notin {"draft", "generating", "failed"},
         NEW row \in Report, row.status \notin {"draft", "generating", "failed"},
         row.status = "published" => report[g].status = "published",
         NEW list \in Seq(Revision), Len(list) # 0,
         \A k \in DOMAIN revision[g] :
           k \in DOMAIN list /\ (revision[g][k].approved => list[k].approved),
         \A k \in DOMAIN list : list[k].status \in {"reviewed", "published"} => list[k].approved,
         report' = [report EXCEPT ![g] = row], revision' = [revision EXCEPT ![g] = list],
         UNCHANGED <<job, worker, made, faults>>,
         request' \in [Clients -> Request],
         \A s \in Clients : request'[s].pc = "loaded" => request'[s] = request[s]
  PROVE  Inv'
<1> USE DEF Inv
<1>1. g \in DOMAIN revision /\ DOMAIN revision = DOMAIN report BY DEF RowsMatch, TypeOK
<1>2. /\ report' \in Seq(Report) /\ Len(report') = Len(report) /\ SinglePublished'
      /\ DOMAIN report' = DOMAIN report /\ report'[g] = row
      /\ \A h \in DOMAIN report : h # g => report'[h] = report[h]
  BY StatusKeeps
<1>3. /\ revision' \in Seq(Seq(Revision)) /\ Len(revision') = Len(revision)
      /\ DOMAIN revision' = DOMAIN revision /\ revision'[g] = list
      /\ \A h \in DOMAIN revision : h # g => revision'[h] = revision[h]
  <2>1. revision \in Seq(Seq(Revision)) BY DEF TypeOK
  <2> QED BY <1>1, <2>1, Replaced
<1>4. \A h \in DOMAIN report :
        report'[h].status \in {"draft", "generating", "failed"} <=> Len(revision'[h]) = 0
  BY <1>1, <1>2, <1>3 DEF RowsMatch
<1>5. PublishedIsApproved' BY <1>1, <1>3 DEF PublishedIsApproved
<1>6. \A h \in DOMAIN revision : \A k \in DOMAIN revision[h] :
        k \in DOMAIN revision'[h] /\ (revision[h][k].approved => revision'[h][k].approved)
  BY <1>1, <1>3
<1>7. /\ job' \in Seq(Job) /\ Len(job') = Len(job) /\ worker' \in [Workers -> WorkerState]
      /\ \A v \in Workers : worker'[v] # IdleWorker => worker'[v].report \in DOMAIN report
      /\ made' \in 0..MaxRequests /\ faults' \in 0..MaxFaults
  BY DEF TypeOK, WorkersMatch
<1> QED BY <1>2, <1>3, <1>4, <1>5, <1>6, <1>7, TablesChange

LEMMA ReviseKeeps ==
  ASSUME Inv, NEW r \in Clients, CreateHumanRevision(r)
  PROVE  Inv'
<1> DEFINE q == request[r]
           g == q.report
           k == q.latest + 1
           row == Flush(report[g], q.row, [status |-> "ready", shown |-> k])
           old == [revision[g][q.latest] EXCEPT !.status = "superseded"]
           past == [revision[g] EXCEPT ![q.latest] = old]
           list == Append(past, NewRevision)
<1>1. /\ g \in DOMAIN report /\ g \in DOMAIN revision /\ report[g] \in Report
      /\ q.latest \in DOMAIN revision[g] /\ revision[g] \in Seq(Revision)
      /\ revision[g][q.latest] \in Revision
      /\ q.row \in Report /\ report[g].status \notin {"draft", "generating", "failed"}
  BY LoadedRequest DEF CreateHumanRevision
<1>2. /\ request' \in [Clients -> Request]
      /\ \A s \in Clients : request'[s].pc = "loaded" => request'[s] = request[s]
  BY AnsweredRequest DEF CreateHumanRevision
<1>3. UNCHANGED <<job, worker, made, faults>> BY DEF CreateHumanRevision
<1>4. CASE UNCHANGED <<revision, report>>
  BY <1>2, <1>3, <1>4, QuietStep DEF Inv, TypeOK, WorkersMatch
<1>5. CASE ~UNCHANGED <<revision, report>>
  <2>1. revision' = [revision EXCEPT ![g] = list] /\ report' = [report EXCEPT ![g] = row]
    BY <1>5 DEF CreateHumanRevision
  <2>2. row \in Report /\ row.status \in {"ready", report[g].status}
    <3>1. [status |-> "ready", shown |-> k] \in Report
      <4>1. k \in Nat BY Fields DEF Inv
      <4> QED BY <4>1 DEF Report
    <3> QED BY <1>1, <3>1, FlushedReport
  <2>3. old \in Revision /\ old.status = "superseded" /\ old.approved = revision[g][q.latest].approved
    BY ONLY <1>1 DEF Revision
  <2> HIDE DEF old
  <2>4. /\ past \in Seq(Revision) /\ DOMAIN past = DOMAIN revision[g] /\ past[q.latest] = old
        /\ \A j \in DOMAIN revision[g] : j # q.latest => past[j] = revision[g][j]
        /\ Len(past) = Len(revision[g])
    BY <1>1, <2>3, Replaced
  <2> HIDE DEF past
  <2>5. /\ list \in Seq(Revision) /\ DOMAIN list = DOMAIN past \cup {Len(past) + 1}
        /\ list[Len(past) + 1] = NewRevision /\ Len(list) = Len(past) + 1
        /\ \A j \in DOMAIN past : list[j] = past[j]
    BY <2>4, NewRows, Appended
  <2>6. Len(list) # 0 BY <2>4, <2>5
  <2> HIDE DEF list, row, g, q
  <2>7. \A j \in DOMAIN revision[g] :
          j \in DOMAIN list /\ (revision[g][j].approved => list[j].approved)
    BY <2>3, <2>4, <2>5
  <2>8. \A j \in DOMAIN list : list[j].status \in {"reviewed", "published"} => list[j].approved
    <3>1. \A j \in DOMAIN revision[g] :
            revision[g][j].status \in {"reviewed", "published"} => revision[g][j].approved
      BY <1>1 DEF Inv, PublishedIsApproved
    <3>2. NewRevision.status = "ready" BY DEF NewRevision
    <3> QED BY <2>3, <2>4, <2>5, <3>1, <3>2
  <2>9. row.status \notin {"draft", "generating", "failed"}
        /\ (row.status = "published" => report[g].status = "published")
    BY <1>1, <2>2
  <2> QED BY <1>1, <1>2, <1>3, <2>1, <2>2, <2>5, <2>6, <2>7, <2>8, <2>9, EditKeeps
<1> QED BY <1>4, <1>5

LEMMA ReviewKeeps ==
  ASSUME Inv, NEW r \in Clients, ReviewReport(r)
  PROVE  Inv'
<1> DEFINE q == request[r]
           g == q.report
           decided == IF q.kind = "approve" THEN "reviewed" ELSE "ready"
           approval == q.revision.approved \/ q.kind = "approve"
           read == [status |-> decided, approved |-> approval]
           row == Flush(report[g], q.row, [q.row EXCEPT !.status = decided])
           new == Flush(revision[g][q.latest], q.revision, read)
           list == [revision[g] EXCEPT ![q.latest] = new]
<1>1. /\ g \in DOMAIN report /\ g \in DOMAIN revision /\ report[g] \in Report
      /\ q.latest \in DOMAIN revision[g] /\ revision[g] \in Seq(Revision) /\ Len(revision[g]) # 0
      /\ revision[g][q.latest] \in Revision /\ q.row \in Report /\ q.revision \in Revision
      /\ q.revision.approved => revision[g][q.latest].approved
      /\ report[g].status \notin {"draft", "generating", "failed"}
  BY LoadedRequest DEF ReviewReport
<1>2. /\ request' \in [Clients -> Request]
      /\ \A s \in Clients : request'[s].pc = "loaded" => request'[s] = request[s]
  BY AnsweredRequest DEF ReviewReport
<1>3. UNCHANGED <<job, worker, made, faults>> BY DEF ReviewReport
<1>4. revision' = [revision EXCEPT ![g] = list] /\ report' = [report EXCEPT ![g] = row]
  BY <1>1 DEF ReviewReport
<1>5. decided \in {"ready", "reviewed"} /\ approval \in BOOLEAN
      /\ (decided = "reviewed" => approval = TRUE) /\ (q.revision.approved => approval = TRUE)
  BY <1>1 DEF Revision
<1> HIDE DEF decided, approval
<1>6. row \in Report /\ row.status \in {decided, report[g].status}
  <2> DEFINE to == [q.row EXCEPT !.status = decided]
  <2>1. to \in Report /\ to.status = decided BY <1>1, <1>5 DEF Report
  <2>2. row = Flush(report[g], q.row, to) OBVIOUS
  <2> HIDE DEF to, row, g, q
  <2>3. /\ Flush(report[g], q.row, to) \in Report
        /\ Flush(report[g], q.row, to).status
             = IF to.status = q.row.status THEN report[g].status ELSE to.status
    BY <1>1, <2>1, FlushedReport
  <2> QED BY <2>1, <2>2, <2>3
<1>7. read \in Revision /\ read.status = decided /\ read.approved = approval
  BY <1>5 DEF Revision
<1> HIDE DEF read
<1>8. /\ new \in Revision
      /\ new.status = IF decided = q.revision.status THEN revision[g][q.latest].status ELSE decided
      /\ new.approved = IF approval = q.revision.approved THEN revision[g][q.latest].approved ELSE approval
  BY <1>1, <1>7, FlushedRevision
<1>9. revision[g][q.latest].status \in {"reviewed", "published"} => revision[g][q.latest].approved
  BY <1>1 DEF Inv, PublishedIsApproved
<1>10. /\ revision[g][q.latest].approved => new.approved
       /\ new.status \in {"reviewed", "published"} => new.approved
  <2>1. q.revision.approved \in BOOLEAN /\ revision[g][q.latest].approved \in BOOLEAN
    BY <1>1 DEF Revision
  <2> QED BY <1>1, <1>5, <1>8, <1>9, <2>1
<1> HIDE DEF new
<1>11. /\ list \in Seq(Revision) /\ DOMAIN list = DOMAIN revision[g] /\ list[q.latest] = new
       /\ \A j \in DOMAIN revision[g] : j # q.latest => list[j] = revision[g][j]
       /\ Len(list) = Len(revision[g])
  BY <1>1, <1>8, Replaced
<1> HIDE DEF list, row, g, q
<1>12. \A j \in DOMAIN revision[g] :
         j \in DOMAIN list /\ (revision[g][j].approved => list[j].approved)
  BY <1>10, <1>11
<1>13. \A j \in DOMAIN list : list[j].status \in {"reviewed", "published"} => list[j].approved
  <2>1. \A j \in DOMAIN revision[g] :
          revision[g][j].status \in {"reviewed", "published"} => revision[g][j].approved
    BY <1>1 DEF Inv, PublishedIsApproved
  <2> QED BY <1>10, <1>11, <2>1
<1>14. row.status \notin {"draft", "generating", "failed"}
       /\ (row.status = "published" => report[g].status = "published")
  BY <1>1, <1>5, <1>6
<1>15. Len(list) # 0 BY <1>1, <1>11
<1> QED BY <1>1, <1>2, <1>3, <1>4, <1>6, <1>11, <1>12, <1>13, <1>14, <1>15, EditKeeps

\* What publishing a report makes of every other.
LEMMA PublishedRows ==
  ASSUME Inv, NEW g \in DOMAIN report, report[g].status = "reviewed", NEW h \in DOMAIN report
  PROVE  /\ [report[h] EXCEPT !.status = Published(g, h)] \in Report
         /\ [report[h] EXCEPT !.status = Published(g, h)].status = Published(g, h)
         /\ Published(g, h) = "published" => h = g
         /\ Published(g, h) # report[h].status => /\ report[h].status \in {"reviewed", "published"}
                                                 /\ Published(g, h) \in {"published", "superseded"}
<1>1. report[h] \in Report BY Fields DEF Inv
<1>2. /\ Published(g, h) = "published" => h = g
      /\ Published(g, h) # report[h].status => /\ report[h].status \in {"reviewed", "published"}
                                              /\ Published(g, h) \in {"published", "superseded"}
  BY DEF Published
<1>3. Published(g, h) = report[h].status \/ Published(g, h) \in {"published", "superseded"}
  BY <1>2
<1> QED BY <1>1, <1>2, <1>3 DEF Report

\* The same of its revisions: only the latest one changes, and none becomes
\* published that was not reviewed.
LEMMA PublishedRevisions ==
  ASSUME Inv, NEW g \in DOMAIN report, Publishable(g), NEW h \in DOMAIN revision,
         NEW list, list = IF Published(g, h) = report[h].status THEN revision[h]
                          ELSE [revision[h] EXCEPT ![Latest(h)].status = Published(g, h)]
  PROVE  /\ list \in Seq(Revision) /\ Len(list) = Len(revision[h])
         /\ \A k \in DOMAIN revision[h] :
              k \in DOMAIN list /\ (revision[h][k].approved => list[k].approved)
         /\ \A k \in DOMAIN list : list[k].status \in {"reviewed", "published"} => list[k].approved
<1> USE DEF Inv
<1>1. h \in DOMAIN report /\ revision[h] \in Seq(Revision) BY Fields DEF RowsMatch, TypeOK
<1>2. \A k \in DOMAIN revision[h] :
        revision[h][k].status \in {"reviewed", "published"} => revision[h][k].approved
  BY DEF PublishedIsApproved
<1>3. CASE Published(g, h) = report[h].status BY <1>1, <1>2, <1>3
<1>4. CASE Published(g, h) # report[h].status
  <2> DEFINE n == Latest(h)
             row == [revision[h][n] EXCEPT !.status = Published(g, h)]
  <2>1. /\ report[h].status \in {"reviewed", "published"}
        /\ Published(g, h) \in {"published", "superseded"}
        /\ Published(g, h) = "published" => h = g
    BY <1>1, <1>4, PublishedRows DEF Publishable
  <2>2. Len(revision[h]) # 0 BY <1>1, <2>1 DEF RowsMatch
  <2>3. n \in DOMAIN revision[h] BY <1>1, <2>2 DEF Latest
  <2>4. revision[h][n] \in Revision BY <1>1, <2>3
  <2>5. row \in Revision /\ row.status = Published(g, h) /\ row.approved = revision[h][n].approved
    BY ONLY <2>1, <2>4 DEF Revision
  <2>6. Published(g, h) = "published" => revision[h][n].approved
    BY <1>2, <2>1, <2>3 DEF Publishable
  <2>7. list = [revision[h] EXCEPT ![n] = row] BY <1>4
  <2> HIDE DEF row, n
  <2>8. /\ list \in Seq(Revision) /\ Len(list) = Len(revision[h]) /\ DOMAIN list = DOMAIN revision[h]
        /\ list[n] = row /\ \A k \in DOMAIN revision[h] : k # n => list[k] = revision[h][k]
    <3>1. revision[h] \in Seq(Revision) /\ n \in DOMAIN revision[h] /\ row \in Revision
      BY <1>1, <2>3, <2>5
    <3> QED BY ONLY <3>1, <2>7, Replaced
  <2>9. \A k \in DOMAIN list : list[k].status \in {"reviewed", "published"} => list[k].approved
    BY <1>2, <2>1, <2>5, <2>6, <2>8
  <2> QED BY <2>5, <2>8, <2>9
<1> QED BY <1>3, <1>4

LEMMA PublishKeeps ==
  ASSUME Inv, NEW r \in Clients, PublishReport(r)
  PROVE  Inv'
<1> USE DEF Inv
<1> DEFINE g == request[r].report
<1>1. g \in DOMAIN report BY LoadedRequest DEF PublishReport
<1>2. /\ request' \in [Clients -> Request]
      /\ \A s \in Clients : request'[s].pc = "loaded" => request'[s] = request[s]
  BY AnsweredRequest DEF PublishReport
<1>3. UNCHANGED <<job, worker, made, faults>> BY DEF PublishReport
<1>4. CASE ~Publishable(g)
  <2>1. UNCHANGED <<report, revision>> BY <1>4 DEF PublishReport
  <2> QED BY <1>2, <1>3, <2>1, QuietStep DEF TypeOK, WorkersMatch
<1>5. CASE Publishable(g)
  <2>1. /\ report' = [h \in DOMAIN report |-> [report[h] EXCEPT !.status = Published(g, h)]]
        /\ revision' = [h \in DOMAIN revision |->
             IF Published(g, h) = report[h].status THEN revision[h]
             ELSE [revision[h] EXCEPT ![Latest(h)].status = Published(g, h)]]
    BY <1>5 DEF PublishReport
  <2> HIDE DEF g
  <2>2. report[g].status = "reviewed" BY <1>5 DEF Publishable
  <2>3. \A h \in DOMAIN report :
          /\ report'[h] \in Report /\ report'[h].status = Published(g, h)
          /\ Published(g, h) = "published" => h = g
          /\ Published(g, h) # report[h].status => /\ report[h].status \in {"reviewed", "published"}
                                                  /\ Published(g, h) \in {"published", "superseded"}
    BY <1>1, <2>1, <2>2, PublishedRows
  <2>4. report' \in Seq(Report) /\ Len(report') = Len(report) /\ DOMAIN report' = DOMAIN report
    <3>1. report' = [h \in DOMAIN report |-> report'[h]] BY <2>1
    <3> QED BY <2>3, <3>1, Mapped DEF TypeOK
  <2>5. \A h \in DOMAIN revision :
          /\ revision'[h] \in Seq(Revision) /\ Len(revision'[h]) = Len(revision[h])
          /\ \A k \in DOMAIN revision[h] :
               k \in DOMAIN revision'[h] /\ (revision[h][k].approved => revision'[h][k].approved)
          /\ \A k \in DOMAIN revision'[h] :
               revision'[h][k].status \in {"reviewed", "published"} => revision'[h][k].approved
    <3> SUFFICES ASSUME NEW h \in DOMAIN revision
                 PROVE  /\ revision'[h] \in Seq(Revision) /\ Len(revision'[h]) = Len(revision[h])
                        /\ \A k \in DOMAIN revision[h] :
                             /\ k \in DOMAIN revision'[h]
                             /\ revision[h][k].approved => revision'[h][k].approved
                        /\ \A k \in DOMAIN revision'[h] :
                             revision'[h][k].status \in {"reviewed", "published"}
                               => revision'[h][k].approved
      OBVIOUS
    <3>1. revision'[h] = IF Published(g, h) = report[h].status THEN revision[h]
                         ELSE [revision[h] EXCEPT ![Latest(h)].status = Published(g, h)]
      BY <2>1
    <3> QED BY <1>1, <1>5, <3>1, PublishedRevisions
  <2>6. revision' \in Seq(Seq(Revision)) /\ Len(revision') = Len(revision)
        /\ DOMAIN revision' = DOMAIN revision /\ DOMAIN revision = DOMAIN report
    <3>1. revision' = [h \in DOMAIN revision |-> revision'[h]] /\ revision \in Seq(Seq(Revision))
      BY <2>1 DEF TypeOK
    <3>2. revision' \in Seq(Seq(Revision)) /\ Len(revision') = Len(revision)
          /\ DOMAIN revision' = DOMAIN revision
      BY <2>5, <3>1, Mapped
    <3> QED BY <3>2 DEF RowsMatch, TypeOK
  <2>7. SinglePublished' BY <2>3, <2>4 DEF SinglePublished
  <2>8. PublishedIsApproved' BY <2>5, <2>6 DEF PublishedIsApproved
  <2>9. \A h \in DOMAIN report :
          report'[h].status \in {"draft", "generating", "failed"} <=> Len(revision'[h]) = 0
    BY <2>3, <2>5, <2>6 DEF RowsMatch
  <2> QED BY <1>2, <1>3, <2>4, <2>5, <2>6, <2>7, <2>8, <2>9, TablesChange DEF TypeOK, WorkersMatch
<1> QED BY <1>4, <1>5

-----------------------------------------------------------------------------
(* Theorems.                                                               *)

LEMMA InvStep == ConstantsOK /\ Inv /\ [Next]_vars => Inv'
<1> SUFFICES ASSUME ConstantsOK, Inv, [Next]_vars PROVE Inv' OBVIOUS
<1>1. CASE CreateReportRequest BY <1>1, CreateKeeps
<1>2. CASE \E w \in Workers : WorkerStep(w)
  <2>1. PICK w \in Workers : WorkerStep(w) BY <1>2
  <2>2. CASE \E g \in DOMAIN job : StartGeneration(w, g) BY <2>2, StartKeeps
  <2>3. CASE FinishGeneration(w) BY <2>3, FinishKeeps
  <2>4. CASE LoseLease(w) BY <2>4, OthersKeep
  <2>5. CASE FailGeneration(w) BY <2>5, FailKeeps
  <2> QED BY <2>1, <2>2, <2>3, <2>4, <2>5 DEF WorkerStep
<1>3. CASE \E g \in DOMAIN job : LeaseExpires(g) \/ RetryJob(g) BY <1>3, OthersKeep
<1>4. ASSUME NEW r \in Clients,
             \/ \E g \in DOMAIN report, kind \in RequestKinds : Load(r, g, kind)
             \/ CreateHumanRevision(r) \/ ReviewReport(r) \/ PublishReport(r)
      PROVE  Inv'
  <2>1. CASE \E g \in DOMAIN report, kind \in RequestKinds : Load(r, g, kind) BY <2>1, LoadKeeps
  <2>2. CASE CreateHumanRevision(r) BY <2>2, ReviseKeeps
  <2>3. CASE ReviewReport(r) BY <2>3, ReviewKeeps
  <2>4. CASE PublishReport(r) BY <2>4, PublishKeeps
  <2> QED BY <1>4, <2>1, <2>2, <2>3, <2>4
<1>5. CASE UNCHANGED vars BY <1>5, OthersKeep
<1> QED BY <1>1, <1>2, <1>3, <1>4, <1>5 DEF Next

LEMMA InvAlways == ConstantsOK => (Spec => []Inv)
<1> SUFFICES ASSUME ConstantsOK PROVE Spec => []Inv OBVIOUS
<1>1. Init => Inv BY InvInit
<1>2. Inv /\ [Next]_vars => Inv' BY InvStep
<1> QED BY <1>1, <1>2, PTL DEF Spec

\* The rows of reports and revisions, the jobs, the workers and the requests stay
\* in their types: a report that is read has the revision the code indexes.
THEOREM TypeCorrect == ConstantsOK => (Spec => []TypeOK)
<1> SUFFICES ASSUME ConstantsOK PROVE Spec => []TypeOK OBVIOUS
<1>1. Inv => TypeOK BY DEF Inv
<1> QED BY <1>1, InvAlways, PTL

\* publish_report: two publications of one template, or a publication that races
\* with a generation, never leave two reports published.
THEOREM OneReportPublished == ConstantsOK => (Spec => []OnePublished)
<1> SUFFICES ASSUME ConstantsOK PROVE Spec => []OnePublished OBVIOUS
<1>1. ASSUME Inv PROVE OnePublished
  <2> DEFINE S == {g \in DOMAIN report : report[g].status = "published"}
  <2>1. CASE S = {}
    <3>1. Cardinality(S) = 0 BY <2>1, FS_EmptySet
    <3> QED BY <3>1 DEF OnePublished
  <2>2. CASE S # {}
    <3>1. PICK g \in S : TRUE BY <2>2
    <3>2. S = {g} BY <1>1, <3>1 DEF Inv, SinglePublished
    <3>3. Cardinality(S) = 1 BY <3>2, FS_Singleton
    <3> QED BY <3>3 DEF OnePublished
  <2> QED BY <2>1, <2>2
<1> QED BY <1>1, InvAlways, PTL

\* review_report and publish_report: an approval that was read stale never
\* publishes, or leaves reviewed, a revision nobody approved.
THEOREM PublicationIsApproved == ConstantsOK => (Spec => []PublishedIsApproved)
<1> SUFFICES ASSUME ConstantsOK PROVE Spec => []PublishedIsApproved OBVIOUS
<1>1. Inv => PublishedIsApproved BY DEF Inv
<1> QED BY <1>1, InvAlways, PTL
=============================================================================
