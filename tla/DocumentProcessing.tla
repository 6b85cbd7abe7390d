-------------------------- MODULE DocumentProcessing --------------------------
(***************************************************************************)
(* One uploaded document: the durable jobs that scan, parse and chunk its  *)
(* versions (documents/service.py, process_document), the recovery of      *)
(* attempts whose lease ran out and the retention task (documents/tasks.py)*)
(* and the routes that delete or reprocess it (documents/routes.py).       *)
(*                                                                         *)
(* The scanner and the parser run between transactions.  A transaction     *)
(* that locks what it reads is one step; the recovery and the routes read  *)
(* the document without a lock and are two, and their commit writes the    *)
(* columns that differ from what they read.                                *)
(***************************************************************************)
EXTENDS Naturals, Sequences, FiniteSets

CONSTANTS
  Workers,      \* Celery workers of the documents queue
  Requests,     \* requests to delete or reprocess the document
  MaxVersions,  \* bound: versions of the document
  Faults,       \* the kinds of fault this instance may meet
  MaxFaults     \* bound: how many faults may happen in one behaviour

(***************************************************************************)
(* "crash"  a worker dies; its job is queued again once its lease ran out  *)
(* "slow"   the scan or the parse outlasts the lease of its attempt        *)
(***************************************************************************)
FaultKinds == {"crash", "slow"}

ASSUME DocumentAssumption ==
  /\ MaxVersions \in Nat \ {0}
  /\ Faults \subseteq FaultKinds /\ MaxFaults \in Nat

VARIABLES
  doc,       \* the documents row
  infected,  \* what the scanner says of the stored object
  version,   \* the document_versions rows, by version number
  attempt,   \* the document_processing_attempts rows, in order of creation
  job,       \* the oracle.document.process jobs, in order of creation
  worker,    \* what each worker is doing
  recovery,  \* recover_expired_document_attempts, between its reads and its commit
  request,   \* what each request is doing
  faults     \* faults met so far

vars == <<doc, infected, version, attempt, job, worker, recovery, request, faults>>

None == 0   \* no version, no attempt

\* deletedAt stands for deleted_at, purged for the mark purge_due_documents leaves.
Doc == [status: {"queued", "processing", "ready", "failed", "quarantined", "deleted"},
        current: Nat, deletedAt: BOOLEAN, stored: BOOLEAN]
Version == [status: {"queued", "scanning", "ready", "failed", "quarantined", "purged"},
            token: Nat, chunks: Nat]
Attempt == [status: {"scanning", "parsing", "chunking", "succeeded", "failed", "abandoned"},
            version: Nat, job: Nat, expired: BOOLEAN]
Job == [version: Nat, status: {"queued", "running", "ended"}]
WorkerState == [pc: {"idle", "scanning", "infected", "parsing", "chunking"},
                job: Nat, attempt: Nat]
Recovery == [pc: {"idle", "read"}, attempt: Nat, doc: Doc]
RequestState == [pc: {"idle", "read", "done"}, kind: {"delete", "reprocess"},
                 doc: Doc, next: Nat]

NewDoc == [status |-> "queued", current |-> 1, deletedAt |-> FALSE, stored |-> TRUE]
NewVersion == [status |-> "queued", token |-> None, chunks |-> None]
NewJob(v) == [version |-> v, status |-> "queued"]
IdleWorker == [pc |-> "idle", job |-> None, attempt |-> None]
IdleRecovery == [pc |-> "idle", attempt |-> None, doc |-> NewDoc]
IdleRequest == [pc |-> "idle", kind |-> "delete", doc |-> NewDoc, next |-> None]

\* upload_document has committed the document, its first version and its job.
Init ==
  /\ doc = NewDoc
  /\ infected \in BOOLEAN
  /\ version = <<NewVersion>>
  /\ attempt = <<>>
  /\ job = <<NewJob(1)>>
  /\ worker = [w \in Workers |-> IdleWorker]
  /\ recovery = IdleRecovery
  /\ request = [r \in Requests |-> IdleRequest]
  /\ faults = 0

-----------------------------------------------------------------------------
(* Helpers.                                                                *)

Fault(kind) ==
  /\ kind \in Faults
  /\ faults < MaxFaults
  /\ faults' = faults + 1

Active(a) == attempt[a].status \in {"scanning", "parsing", "chunking"}

\* The columns an unlocked session writes: those that differ from what it read.
Flush(row, snap, new) == [c \in DOMAIN row |-> IF new[c] = snap[c] THEN row[c] ELSE new[c]]

\* Bug: the table has no such constraint.
BugCheckHolds(row) == TRUE

\* The constraint document_deleted_state: a commit that breaks it fails.
CheckHolds(row) == (row.status = "deleted") <=> row.deletedAt

-----------------------------------------------------------------------------
(* A delivery of the job (process_document).                               *)

EndJob(w) ==
  /\ job' = [job EXCEPT ![worker[w].job].status = "ended"]
  /\ worker' = [worker EXCEPT ![w] = IdleWorker]

\* The last attempt of the job on its version; None if there is none.
LastAttempt(j) ==
  LET mine == {a \in DOMAIN attempt : attempt[a].job = j}
  IN  IF mine = {} THEN None ELSE CHOOSE a \in mine : \A b \in mine : b <= a

InProgress(j) ==
  LET a == LastAttempt(j)
  IN  a # None /\ attempt[a].status \notin {"succeeded", "failed", "abandoned"}
               /\ ~attempt[a].expired

\* The answers that start nothing: the document is deleted, the version is
\* not the current one, is ready, or an attempt of this job is under way.
Refuse(w, j) ==
  /\ worker[w].pc = "idle"
  /\ job[j].status = "queued"
  /\ \/ doc.status = "deleted"
     \/ doc.current # job[j].version
     \/ version[job[j].version].status = "ready"
     \/ LastAttempt(j) # None /\ attempt[LastAttempt(j)].status = "succeeded"
     \/ InProgress(j)
  /\ job' = [job EXCEPT ![j].status = "ended"]
  /\ UNCHANGED <<doc, infected, version, attempt, worker, recovery, request, faults>>

Startable(j) ==
  LET a == LastAttempt(j)
  IN  /\ doc.status # "deleted"
      /\ doc.current = job[j].version
      /\ version[job[j].version].status # "ready"
      /\ ~InProgress(j)
      /\ a # None => attempt[a].status # "succeeded"

\* The attempt still owns its version.
Held(a) == version[attempt[a].version].token = a

\* The recovery holds the row of the attempt that the job would abandon, or that
\* of the version it would write.
Locked(j) ==
  LET a == recovery.attempt
  IN  /\ recovery.pc = "read"
      /\ \/ a = LastAttempt(j)
         \/ attempt[a].version = job[j].version /\ Held(a)

\* The recovery will write the document of the attempt's version as well.
Live ==
  LET a == recovery.attempt
      v == attempt[a].version
  IN  Held(a) /\ recovery.doc.current = v /\ recovery.doc.status # "deleted"

\* The job holds the document's lock.  When it waits for a recovery that waits
\* for the document, PostgreSQL ends one of the two transactions.
Start(w, j) ==
  /\ worker[w].pc = "idle"
  /\ job[j].status = "queued"
  /\ Startable(j)
  /\ IF Locked(j) THEN Live /\ recovery' = IdleRecovery ELSE UNCHANGED recovery
  /\ LET last == LastAttempt(j)
         v == job[j].version
         new == [status |-> "scanning", version |-> v, job |-> j, expired |-> FALSE]
         left == [a \in DOMAIN attempt |->
                    IF a = last THEN [attempt[a] EXCEPT !.status = "abandoned"] ELSE attempt[a]]
     IN  /\ attempt' = Append(left, new)
         /\ version' = [version EXCEPT ![v].status = "scanning", ![v].token = Len(attempt) + 1]
         /\ worker' = [worker EXCEPT ![w] =
              [pc |-> "scanning", job |-> j, attempt |-> Len(attempt) + 1]]
  /\ doc' = [doc EXCEPT !.status = "processing"]
  /\ job' = [job EXCEPT ![j].status = "running"]
  /\ UNCHANGED <<infected, request, faults>>

\* The job is the one that PostgreSQL ends: it fails for good.
StartDeadlocks(w, j) ==
  /\ worker[w].pc = "idle"
  /\ job[j].status = "queued"
  /\ Startable(j)
  /\ Locked(j) /\ Live
  /\ job' = [job EXCEPT ![j].status = "ended"]
  /\ UNCHANGED <<doc, infected, version, attempt, worker, recovery, request, faults>>

\* Bug: the lease is not compared.
BugRenewable(w, status) == attempt[worker[w].attempt].status = status

\* _renew_attempt: the attempt is still this execution's and its lease runs.
Renewable(w, status) ==
  LET a == worker[w].attempt
  IN  attempt[a].status = status /\ ~attempt[a].expired

\* The scan has ended.
Scanned(w) ==
  /\ worker[w].pc = "scanning"
  /\ Renewable(w, "scanning")
  /\ attempt' = [attempt EXCEPT ![worker[w].attempt].status = "parsing"]
  /\ worker' = [worker EXCEPT ![w].pc = IF infected THEN "infected" ELSE "parsing"]
  /\ UNCHANGED <<doc, infected, version, job, recovery, request, faults>>

Parsed(w) ==
  /\ worker[w].pc = "parsing"
  /\ Renewable(w, "parsing")
  /\ attempt' = [attempt EXCEPT ![worker[w].attempt].status = "chunking"]
  /\ worker' = [worker EXCEPT ![w].pc = "chunking"]
  /\ UNCHANGED <<doc, infected, version, job, recovery, request, faults>>

\* Every phase ends without an effect when the lease was lost, and the job
\* succeeds with an answer that says it was ignored.
LoseLease(w) ==
  /\ \/ worker[w].pc = "scanning" /\ ~Renewable(w, "scanning")
     \/ worker[w].pc \in {"infected", "parsing"} /\ ~Renewable(w, "parsing")
     \/ worker[w].pc = "chunking" /\ ~Renewable(w, "chunking")
  /\ EndJob(w)
  /\ UNCHANGED <<doc, infected, version, attempt, recovery, request, faults>>

\* Bug: the current version is not compared.
BugFenced(w) == version[job[worker[w].job].version].token # None

\* The version is still the document's and this execution's.
Fenced(w) ==
  LET v == job[worker[w].job].version
  IN  doc.current = v /\ version[v].token = worker[w].attempt

\* Bug: only the version is quarantined.
BugQuarantine(w) ==
  /\ worker[w].pc = "infected"
  /\ Renewable(w, "parsing")
  /\ version' = [version EXCEPT ![job[worker[w].job].version].status = "quarantined"]
  /\ attempt' = [attempt EXCEPT ![worker[w].attempt].status = "failed"]
  /\ EndJob(w)
  /\ UNCHANGED <<doc, infected, recovery, request, faults>>

Quarantine(w) ==
  /\ worker[w].pc = "infected"
  /\ Renewable(w, "parsing")
  /\ LET new == [doc EXCEPT !.status = "quarantined"]
         v == job[worker[w].job].version
     IN  IF Fenced(w) /\ CheckHolds(new)
           THEN /\ doc' = new
                /\ version' = [version EXCEPT ![v].status = "quarantined"]
                /\ attempt' = [attempt EXCEPT ![worker[w].attempt].status = "failed"]
           ELSE UNCHANGED <<doc, version, attempt>>
  /\ EndJob(w)
  /\ UNCHANGED <<infected, recovery, request, faults>>

\* The last transaction replaces the chunks, or finds that it was fenced off.
\* A deleted document fails its commit.
Settle(w) ==
  /\ worker[w].pc = "chunking"
  /\ Renewable(w, "chunking")
  /\ LET a == worker[w].attempt
         v == job[worker[w].job].version
         new == [doc EXCEPT !.status = "ready"]
     IN  IF ~Fenced(w) THEN /\ attempt' = [attempt EXCEPT ![a].status = "abandoned"]
                            /\ UNCHANGED <<doc, version>>
         ELSE IF CheckHolds(new)
           THEN /\ doc' = new
                /\ version' = [version EXCEPT ![v] = [status |-> "ready", token |-> None, chunks |-> a]]
                /\ attempt' = [attempt EXCEPT ![a].status = "succeeded"]
         ELSE UNCHANGED <<doc, version, attempt>>
  /\ EndJob(w)
  /\ UNCHANGED <<infected, recovery, request, faults>>

\* Scanner, storage or parser failed.  The version is failed by whoever holds
\* its token, the attempt only while its lease runs; it waits for a recovery that
\* holds the version.
Fail(w) ==
  /\ worker[w].pc \in {"scanning", "parsing"}
  /\ recovery.attempt # worker[w].attempt
  /\ LET a == worker[w].attempt
         v == job[worker[w].job].version
         new == IF Fenced(w) /\ doc.status # "quarantined"
                  THEN [doc EXCEPT !.status = "failed"] ELSE doc
     IN  IF CheckHolds(new)
           THEN /\ doc' = new
                /\ version' = IF ~Fenced(w) \/ version[v].status = "quarantined" THEN version
                     ELSE [version EXCEPT ![v].status = "failed", ![v].token = None]
                /\ attempt' = IF ~Active(a) \/ attempt[a].expired THEN attempt
                     ELSE [attempt EXCEPT ![a].status = "failed"]
           ELSE UNCHANGED <<doc, version, attempt>>
  /\ EndJob(w)
  /\ UNCHANGED <<infected, recovery, request, faults>>

\* The job's own lease is left to BackgroundJobs: the job is queued again.  An
\* exception process_document does not catch leaves the same rows behind, and
\* fails the job.
WorkerDies(w) ==
  /\ worker[w].pc # "idle"
  /\ Fault("crash")
  /\ \E s \in {"queued", "ended"} : job' = [job EXCEPT ![worker[w].job].status = s]
  /\ worker' = [worker EXCEPT ![w] = IdleWorker]
  /\ UNCHANGED <<doc, infected, version, attempt, recovery, request>>

LeaseExpires(a) ==
  /\ Active(a) /\ ~attempt[a].expired
  /\ attempt' = [attempt EXCEPT ![a].expired = TRUE]
  /\ IF \E w \in Workers : worker[w].attempt = a THEN Fault("slow") ELSE UNCHANGED faults
  /\ UNCHANGED <<doc, infected, version, job, worker, recovery, request>>

-----------------------------------------------------------------------------
(* The hourly task: expired attempts, retention.                           *)

\* The attempt is locked and abandoned, and its version, if it still holds this
\* attempt's token, is written as soon as it is read: both rows stay locked.  The
\* document is read without a lock.
ReadExpired(a) ==
  /\ recovery.pc = "idle"
  /\ Active(a) /\ attempt[a].expired
  /\ recovery' = [pc |-> "read", attempt |-> a, doc |-> doc]
  /\ UNCHANGED <<doc, infected, version, attempt, job, worker, request, faults>>

\* Bug: the version is queued again, without a job.
BugRecover ==
  /\ recovery.pc = "read"
  /\ LET a == recovery.attempt
         v == attempt[a].version
     IN  /\ attempt' = [attempt EXCEPT ![a].status = "abandoned"]
         /\ version' = IF Held(a) THEN [version EXCEPT ![v].status = "queued", ![v].token = None]
                       ELSE version
  /\ recovery' = IdleRecovery
  /\ UNCHANGED <<doc, infected, job, worker, request, faults>>

Recover ==
  /\ recovery.pc = "read"
  /\ LET a == recovery.attempt
         v == attempt[a].version
         read == recovery.doc
         new == IF Live THEN Flush(doc, read, [read EXCEPT !.status = "queued"]) ELSE doc
     IN  IF CheckHolds(new)
           THEN /\ attempt' = [attempt EXCEPT ![a].status = "abandoned"]
                /\ version' = IF Held(a)
                     THEN [version EXCEPT ![v].status = "queued", ![v].token = None] ELSE version
                /\ doc' = new
                /\ job' = IF Live THEN Append(job, NewJob(v)) ELSE job
           ELSE UNCHANGED <<attempt, version, doc, job>>
  /\ recovery' = IdleRecovery
  /\ UNCHANGED <<infected, worker, request, faults>>

\* Thirty days after the deletion, when whatever was under way is long over.
Purge ==
  /\ doc.status = "deleted" /\ doc.stored
  /\ \A a \in DOMAIN attempt : ~Active(a)
  /\ \A r \in Requests : request[r].pc # "read"
  /\ doc' = [doc EXCEPT !.stored = FALSE]
  /\ version' = [v \in DOMAIN version |-> [version[v] EXCEPT !.status = "purged"]]
  /\ UNCHANGED <<infected, attempt, job, worker, recovery, request, faults>>

-----------------------------------------------------------------------------
(* The routes.                                                             *)

\* _document does not lock.  A quarantined document is not reprocessed.
ReadForRequest(r, kind) ==
  /\ request[r].pc = "idle"
  /\ doc.status # "deleted"
  /\ kind = "reprocess" => doc.status # "quarantined" /\ Len(version) < MaxVersions
  /\ request' = [request EXCEPT ![r] =
       [pc |-> "read", kind |-> kind, doc |-> doc, next |-> Len(version) + 1]]
  /\ UNCHANGED <<doc, infected, version, attempt, job, worker, recovery, faults>>

Answered(r) == request' = [request EXCEPT ![r] = [IdleRequest EXCEPT !.pc = "done"]]

CommitDelete(r) ==
  /\ request[r].pc = "read" /\ request[r].kind = "delete"
  /\ LET read == request[r].doc
     IN  doc' = Flush(doc, read, [read EXCEPT !.status = "deleted", !.deletedAt = TRUE])
  /\ Answered(r)
  /\ UNCHANGED <<infected, version, attempt, job, worker, recovery, faults>>

\* The commit fails on a version number that is taken and on a deleted document.
CommitReprocess(r) ==
  /\ request[r].pc = "read" /\ request[r].kind = "reprocess"
  /\ LET read == request[r].doc
         new == Flush(doc, read, [read EXCEPT !.status = "queued", !.current = request[r].next])
     IN  IF request[r].next \notin DOMAIN version /\ CheckHolds(new)
           THEN /\ doc' = new
                /\ version' = Append(version, NewVersion)
                /\ job' = Append(job, NewJob(request[r].next))
           ELSE UNCHANGED <<doc, version, job>>
  /\ Answered(r)
  /\ UNCHANGED <<infected, attempt, worker, recovery, faults>>

-----------------------------------------------------------------------------
WorkerStep(w) ==
  \/ \E j \in DOMAIN job : Refuse(w, j) \/ Start(w, j) \/ StartDeadlocks(w, j)
  \/ Scanned(w) \/ Parsed(w) \/ LoseLease(w) \/ Quarantine(w) \/ Settle(w) \/ Fail(w)

RecoveryStep == (\E a \in DOMAIN attempt : ReadExpired(a)) \/ Recover

Next ==
  \/ \E w \in Workers : WorkerStep(w) \/ WorkerDies(w)
  \/ \E a \in DOMAIN attempt : LeaseExpires(a)
  \/ RecoveryStep \/ Purge
  \/ \E r \in Requests :
       \/ \E kind \in {"delete", "reprocess"} : ReadForRequest(r, kind)
       \/ CommitDelete(r) \/ CommitReprocess(r)

Spec == Init /\ [][Next]_vars

\* Workers run and their scans and parses end, leases run out, the hourly task
\* runs, and a request that has read the document is answered.
FairSpec ==
  /\ Spec
  /\ \A w \in Workers : WF_vars(WorkerStep(w))
  /\ WF_vars(\E a \in DOMAIN attempt : LeaseExpires(a))
  /\ WF_vars(RecoveryStep)
  /\ \A r \in Requests : WF_vars(CommitDelete(r) \/ CommitReprocess(r))

-----------------------------------------------------------------------------
(* Properties.                                                             *)

\* Every variable stays in its type, and the row never breaks its constraint.
TypeOK ==
  /\ doc \in Doc /\ (doc.status = "deleted") = doc.deletedAt
  /\ infected \in BOOLEAN
  /\ version \in Seq(Version) /\ attempt \in Seq(Attempt) /\ job \in Seq(Job)
  /\ worker \in [Workers -> WorkerState]
  /\ recovery \in Recovery
  /\ request \in [Requests -> RequestState]
  /\ faults \in 0..MaxFaults

\* A ready version has the chunks of an attempt of its own that succeeded, and
\* no version of an infected file is ever ready: whatever is retried,
\* recovered, reprocessed or comes back late.
ReadyIsEarned ==
  \A v \in DOMAIN version :
    /\ version[v].status = "ready" =>
         /\ version[v].chunks # None
         /\ attempt[version[v].chunks].status = "succeeded"
         /\ attempt[version[v].chunks].version = v
    /\ infected => version[v].chunks = None

\* A deleted document stays deleted: attempts that were under way, recoveries
\* and reprocess requests that read it before cannot bring it back.
DeletedIsFinal == [][doc.status = "deleted" => doc'.status = "deleted"]_vars

\* A version that became ready keeps its chunks until retention purges it, and a
\* document turns ready only with its current version: a late attempt, a recovery
\* or a reprocess can neither fail it nor replace what it was cut into.
ReadyIsFinal ==
  [][\A v \in DOMAIN version :
       /\ version[v].status = "ready" =>
            \/ version'[v].status = "purged" /\ doc.status = "deleted"
            \/ version'[v] = version[v]
       /\ doc.status # "ready" /\ doc'.status = "ready"
            => version'[doc'.current].status = "ready"]_vars

\* Deleted and ready are final, each in its way: whoever read the rows before and
\* commits late, an attempt, a recovery, a reprocess.
EndsAreFinal == DeletedIsFinal /\ ReadyIsFinal

\* A recovery took the document for that of a version replaced meanwhile: its
\* job is the last one, for a version that is not current any more.
Overtaken == doc.status = "queued" /\ job[Len(job)].version # doc.current

\* When nothing is under way any more, the document shows what became of its
\* current version (Overtaken apart).
StatusAtRest ==
  (/\ \A j \in DOMAIN job : job[j].status = "ended"
   /\ \A a \in DOMAIN attempt : ~Active(a)
   /\ \A r \in Requests : request[r].pc # "read"
   /\ recovery.pc = "idle")
    => doc.status \in {"deleted", version[doc.current].status} \/ Overtaken

\* Whichever worker dies or is too slow, the current version of a document is
\* ready, failed or quarantined in the end, unless it is replaced or deleted.
VersionsEnd ==
  \A v \in 1..MaxVersions :
    (doc.current = v) ~>
      \/ doc.current # v
      \/ doc.status = "deleted"
      \/ version[v].status \in {"ready", "failed", "quarantined"}
=============================================================================
