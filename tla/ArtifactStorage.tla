---------------------------- MODULE ArtifactStorage ----------------------------
(***************************************************************************)
(* The object store of one tenant and the three kinds of row that point    *)
(* into it: uploaded documents (documents/service.py), report artefacts    *)
(* (reporting/service.py) and data exports (reporting/exports.py).  An     *)
(* object is written before the row that names it is committed and deleted *)
(* before, or without, the row that forgets it; beat compares the two.     *)
(*                                                                         *)
(* A document or an artefact has one key; an export has a key for every    *)
(* lease of its job.                                                       *)
(***************************************************************************)
EXTENDS Naturals, FiniteSets, FiniteSetsExt

CONSTANTS
  Documents,    \* uploads of documents
  Artifacts,    \* report artefacts, each rendered by one transaction
  Exports,      \* data_exports rows
  Size,         \* the bytes of each document
  Quota,        \* DOCUMENT_TENANT_QUOTA_BYTES
  PurgeBatch,   \* documents purged by one tick (100)
  MaxLeases,    \* bound: leases of an export's job
  Faults,       \* the kinds of fault of this instance
  MaxFaults     \* bound: faults in one behaviour

(***************************************************************************)
(* "crash"      a process dies between the store and the database          *)
(* "no_publish" publish_job raises after the upload was committed          *)
(* "overrun"    the job's lease runs out under a live execution            *)
(***************************************************************************)
FaultKinds == {"crash", "no_publish", "overrun"}

\* What an instance may choose.  The keys of documents, artefacts and exports are
\* different.
ConstantsOK ==
  /\ Size \in [Documents -> Nat \ {0}] /\ Quota \in Nat
  /\ PurgeBatch \in Nat /\ MaxLeases \in Nat /\ MaxFaults \in Nat
  /\ Faults \subseteq FaultKinds /\ IsFiniteSet(Documents)
  /\ Documents \cap Artifacts = {}
  /\ (Documents \cup Artifacts) \cap (Exports \X (1..MaxLeases)) = {}

VARIABLES
  object,    \* what the store holds under each key, by its age
  writer,    \* the request or job that writes each document or artefact
  doc,       \* the status of each documents row
  export,    \* the data_exports rows
  job,       \* the job of each export: its last lease, and whether it is live
  run,       \* the executions of each export, by lease
  cleaner,   \* reconcile_storage_orphans
  faults     \* faults met so far

vars == <<object, writer, doc, export, job, run, cleaner, faults>>

Owners == Documents \union Artifacts
Leases == 1..MaxLeases
Keys == Owners \union (Exports \X Leases)

DocStatuses == {"none", "queued", "ready", "failed", "deleted"}
Export == [status: {"queued", "generating", "ready", "failed", "expired", "purged"},
           key: 0..MaxLeases, over: BOOLEAN]
Job == [lease: 0..MaxLeases, live: BOOLEAN]
Cleaner == [pc: {"idle", "deleting"}, orphans: SUBSET Keys]

Init ==
  /\ object = [k \in Keys |-> "absent"]
  /\ writer = [o \in Owners |-> "idle"]
  /\ doc = [d \in Documents |-> "none"]
  /\ export = [e \in Exports |-> [status |-> "queued", key |-> 0, over |-> FALSE]]
  /\ job = [e \in Exports |-> [lease |-> 0, live |-> FALSE]]
  /\ run = [x \in Exports \X Leases |-> "none"]
  /\ cleaner = [pc |-> "idle", orphans |-> {}]
  /\ faults = 0

Fault(kind) == kind \in Faults /\ faults < MaxFaults /\ faults' = faults + 1

Put(k) == object' = [object EXCEPT ![k] = "fresh"]
Delete(k) == object' = [object EXCEPT ![k] = "absent"]

-----------------------------------------------------------------------------
(* Documents and report artefacts.                                         *)

Live(d) == doc[d] \notin {"none", "deleted"}
Used == SumFunctionOnSet(Size, {d \in Documents : Live(d)})

\* Bug: the quota is read without the tenant's advisory lock.
BugQuotaAllows(d) == Used + Size[d] <= Quota

\* The lock is held from the sum to the commit.
QuotaAllows(d) ==
  /\ \A e \in Documents : writer[e] # "stored"
  /\ Used + Size[d] <= Quota

StoreObject(o) ==
  /\ writer[o] = "idle"
  /\ o \in Documents => QuotaAllows(o)
  /\ Put(o)
  /\ writer' = [writer EXCEPT ![o] = "stored"]
  /\ UNCHANGED <<doc, export, job, run, cleaner, faults>>

CommitObject(o) ==
  /\ writer[o] = "stored"
  /\ writer' = [writer EXCEPT ![o] = "committed"]
  /\ doc' = IF o \in Documents THEN [doc EXCEPT ![o] = "queued"] ELSE doc
  /\ UNCHANGED <<object, export, job, run, cleaner, faults>>

\* Anything raises before the commit: rolled back, and the object taken back.
TakeBack(o) ==
  /\ writer[o] = "stored"
  /\ Delete(o)
  /\ writer' = [writer EXCEPT ![o] = "failed"]
  /\ UNCHANGED <<doc, export, job, run, cleaner, faults>>

PublishUpload(d) ==
  /\ writer[d] = "committed"
  /\ writer' = [writer EXCEPT ![d] = "accepted"]
  /\ UNCHANGED <<object, doc, export, job, run, cleaner, faults>>

\* The same handler takes back the object of a document that is committed.
PublishFails(d) ==
  /\ writer[d] = "committed"
  /\ Fault("no_publish")
  /\ Delete(d)
  /\ writer' = [writer EXCEPT ![d] = "failed"]
  /\ UNCHANGED <<doc, export, job, run, cleaner>>

WriterDies(o) ==
  /\ writer[o] \in {"stored", "committed"}
  /\ Fault("crash")
  /\ writer' = [writer EXCEPT ![o] = IF @ = "stored" THEN "failed" ELSE "accepted"]
  /\ UNCHANGED <<object, doc, export, job, run, cleaner>>

\* The job that processes the document, first or again (DocumentProcessing).
ProcessDocument(d) ==
  /\ Live(d)
  /\ doc' = [doc EXCEPT ![d] = IF object[d] = "absent" THEN "failed" ELSE "ready"]
  /\ UNCHANGED <<object, writer, export, job, run, cleaner, faults>>

DeleteDocument(d) ==
  /\ Live(d)
  /\ doc' = [doc EXCEPT ![d] = "deleted"]
  /\ UNCHANGED <<object, writer, export, job, run, cleaner, faults>>

\* Thirty days after the deletion.
Purgeable(d) == doc[d] = "deleted"

\* A batch in no order; what was purged before is selected again.
PurgeDocuments ==
  LET due == {d \in Documents : Purgeable(d)}
  IN  /\ \E batch \in SUBSET due :
           /\ Cardinality(batch) = PurgeBatch \/ (batch = due /\ Cardinality(due) < PurgeBatch)
           /\ object' = [k \in Keys |-> IF k \in batch THEN "absent" ELSE object[k]]
      /\ UNCHANGED <<writer, doc, export, job, run, cleaner, faults>>

-----------------------------------------------------------------------------
(* Exports.                                                                *)

Startable(e) == ~job[e].live /\ job[e].lease < MaxLeases

\* A delivery of the job that finds the export not done.
StartExport(e) ==
  /\ Startable(e)
  /\ export[e].status \in {"queued", "generating", "failed"}
  /\ export' = [export EXCEPT ![e].status = "generating"]
  /\ job' = [job EXCEPT ![e] = [lease |-> @.lease + 1, live |-> TRUE]]
  /\ run' = [run EXCEPT ![<<e, job[e].lease + 1>>] = "generating"]
  /\ UNCHANGED <<object, writer, doc, cleaner, faults>>

\* The permission was revoked.
RefuseExport(e) ==
  /\ Startable(e)
  /\ export[e].status \in {"queued", "generating", "failed"}
  /\ export' = [export EXCEPT ![e].status = "failed"]
  /\ job' = [job EXCEPT ![e].lease = @ + 1]
  /\ UNCHANGED <<object, writer, doc, run, cleaner, faults>>

StoreExport(e, l) ==
  /\ run[<<e, l>>] = "generating"
  /\ Put(<<e, l>>)
  /\ run' = [run EXCEPT ![<<e, l>>] = "stored"]
  /\ UNCHANGED <<writer, doc, export, job, cleaner, faults>>

OwnsJob(e, l) == job[e] = [lease |-> l, live |-> TRUE]

JobEnds(e, l) == job' = IF OwnsJob(e, l) THEN [job EXCEPT ![e].live = FALSE] ELSE job

FinishExport(e, l) ==
  /\ run[<<e, l>>] = "stored"
  /\ OwnsJob(e, l)
  /\ export[e].status = "generating"
  /\ export' = [export EXCEPT ![e].status = "ready", ![e].key = l]
  /\ JobEnds(e, l)
  /\ run' = [run EXCEPT ![<<e, l>>] = "none"]
  /\ UNCHANGED <<object, writer, doc, cleaner, faults>>

\* The key is made of the export and the lease.
OwnObject(e, l) == <<e, l>>

LoseLease(e, l) ==
  /\ run[<<e, l>>] = "stored"
  /\ ~OwnsJob(e, l)
  /\ Delete(OwnObject(e, l))
  /\ run' = [run EXCEPT ![<<e, l>>] = "none"]
  /\ UNCHANGED <<writer, doc, export, job, cleaner, faults>>

\* Not fenced: a stale execution can fail the export of its successor.
FailExport(e, l) ==
  /\ run[<<e, l>>] # "none"
  /\ IF run[<<e, l>>] = "stored" THEN Delete(OwnObject(e, l)) ELSE UNCHANGED object
  /\ export' = IF export[e].status \in {"queued", "generating", "failed"}
                 THEN [export EXCEPT ![e].status = "failed"] ELSE export
  /\ JobEnds(e, l)
  /\ run' = [run EXCEPT ![<<e, l>>] = "none"]
  /\ UNCHANGED <<writer, doc, cleaner, faults>>

ExecutionDies(e, l) ==
  /\ run[<<e, l>>] # "none"
  /\ Fault("crash")
  /\ run' = [run EXCEPT ![<<e, l>>] = "none"]
  /\ UNCHANGED <<object, writer, doc, export, job, cleaner>>

LeaseExpires(e) ==
  /\ job[e].live
  /\ IF run[<<e, job[e].lease>>] # "none" THEN Fault("overrun") ELSE UNCHANGED faults
  /\ job' = [job EXCEPT ![e].live = FALSE]
  /\ UNCHANGED <<object, writer, doc, export, run, cleaner>>

\* EXPORT_TTL_HOURS after it was ready.
ExportAges(e) ==
  /\ export[e].status = "ready" /\ ~export[e].over
  /\ export' = [export EXCEPT ![e].over = TRUE]
  /\ UNCHANGED <<object, writer, doc, job, run, cleaner, faults>>

\* A link asked too late.  The row is not locked: over a purge that commits
\* first, the CHECK of the table refuses the write.
RequestLink(e) ==
  /\ export[e].status = "ready" /\ export[e].over
  /\ export' = [export EXCEPT ![e].status = "expired"]
  /\ UNCHANGED <<object, writer, doc, job, run, cleaner, faults>>

PurgeExport(e) ==
  /\ export[e].status \in {"ready", "expired"} /\ export[e].over
  /\ Delete(<<e, export[e].key>>)
  /\ export' = [export EXCEPT ![e] = [@ EXCEPT !.status = "purged", !.key = 0]]
  /\ UNCHANGED <<writer, doc, job, run, cleaner, faults>>

-----------------------------------------------------------------------------
(* Time and reconcile_storage_orphans.                                     *)

Named(e) == {<<e, l>> : l \in {export[e].key} \ {0}}

\* Bug: an export keeps all its keys from deletion, those of lost leases too.
BugReferencedPrefix ==
  {a \in Artifacts : writer[a] \in {"committed", "accepted"}}
    \union {d \in Documents : doc[d] # "none"} \union (Exports \X Leases)

\* The keys the rows of the three tables name; a deleted document keeps its own.
Referenced ==
  {a \in Artifacts : writer[a] \in {"committed", "accepted"}}
    \union {d \in Documents : doc[d] # "none"}
    \union UNION {Named(e) : e \in Exports}

\* Bug: the modification time is not looked at.
BugOrphans == {k \in Keys : object[k] # "absent"} \ Referenced

\* Older than a day when the task begins, and not named by a row it reads.
Orphans == {k \in Keys : object[k] = "old"} \ Referenced

ReadReferences ==
  /\ cleaner.pc = "idle"
  /\ cleaner' = [pc |-> "deleting", orphans |-> Orphans]
  /\ UNCHANGED <<object, writer, doc, export, job, run, faults>>

DeleteOrphan(k) ==
  /\ k \in cleaner.orphans
  /\ Delete(k)
  /\ cleaner' = [cleaner EXCEPT !.orphans = @ \ {k}]
  /\ UNCHANGED <<writer, doc, export, job, run, faults>>

EndReconcile ==
  /\ cleaner.pc = "deleting" /\ cleaner.orphans = {}
  /\ cleaner' = [cleaner EXCEPT !.pc = "idle"]
  /\ UNCHANGED <<object, writer, doc, export, job, run, faults>>

\* A day passes: no request and no lease lasts that long between its write to
\* the store and its commit.
ObjectAges(k) ==
  /\ object[k] = "fresh"
  /\ IF k \in Owners THEN writer[k] # "stored" ELSE run[k] # "stored"
  /\ object' = [object EXCEPT ![k] = "old"]
  /\ UNCHANGED <<writer, doc, export, job, run, cleaner, faults>>

-----------------------------------------------------------------------------
WriterStep(o) ==
  \/ StoreObject(o) \/ CommitObject(o) \/ TakeBack(o)
  \/ o \in Documents /\ (PublishUpload(o) \/ PublishFails(o))
  \/ WriterDies(o)

Execution(e, l) == StoreExport(e, l) \/ FinishExport(e, l) \/ LoseLease(e, l) \/ FailExport(e, l)

Reconcile == ReadReferences \/ EndReconcile \/ \E k \in Keys : DeleteOrphan(k)

Next ==
  \/ \E o \in Owners : WriterStep(o)
  \/ \E d \in Documents : ProcessDocument(d) \/ DeleteDocument(d)
  \/ PurgeDocuments
  \/ \E e \in Exports :
       \/ StartExport(e) \/ RefuseExport(e)
       \/ LeaseExpires(e) \/ ExportAges(e) \/ RequestLink(e) \/ PurgeExport(e)
  \/ \E e \in Exports, l \in Leases : Execution(e, l) \/ ExecutionDies(e, l)
  \/ Reconcile
  \/ \E k \in Keys : ObjectAges(k)

Spec == Init /\ [][Next]_vars

\* What has begun to write ends, time passes, and beat runs the purges every hour
\* and the reconciliation with them.  Nobody has to upload, export or delete.  That the
\* purge reaches every document needs a batch no smaller than the deleted ones.
Progress ==
  /\ \A o \in Owners : WF_vars(CommitObject(o) \/ TakeBack(o))
  /\ \A e \in Exports, l \in Leases : WF_vars(Execution(e, l))
  /\ \A e \in Exports : WF_vars(ExportAges(e)) /\ WF_vars(PurgeExport(e))
  /\ WF_vars(PurgeDocuments)
  /\ \A k \in Keys : WF_vars(ObjectAges(k))

FairSpec == Spec /\ Progress /\ WF_vars(Reconcile)

-----------------------------------------------------------------------------
(* Properties.                                                             *)

\* Every variable stays in its type, and an export's row keeps its constraint
\* data_export_artifact_state.
TypeOK ==
  /\ object \in [Keys -> {"absent", "fresh", "old"}]
  /\ writer \in [Owners -> {"idle", "stored", "committed", "accepted", "failed"}]
  /\ doc \in [Documents -> DocStatuses] /\ export \in [Exports -> Export]
  /\ job \in [Exports -> Job] /\ run \in [Exports \X Leases -> {"none", "generating", "stored"}]
  /\ cleaner \in Cleaner /\ faults \in 0..MaxFaults
  /\ \A e \in Exports : (export[e].key # 0) = (export[e].status \in {"ready", "expired"})

\* What a row offers can be read: the object of a live document whose upload
\* was not answered with an error, of a committed artefact and of a ready
\* export is in the store, whoever reconciles, retries or gives up meanwhile.
Readable ==
  /\ \A d \in Documents : Live(d) /\ writer[d] # "failed" => object[d] # "absent"
  /\ \A a \in Artifacts : writer[a] \in {"committed", "accepted"} => object[a] # "absent"
  /\ \A e \in Exports :
       export[e].status \in {"ready", "expired"} => object[<<e, export[e].key>>] # "absent"

\* Uploads that race stay within the tenant's quota together.
QuotaKept == Used <= Quota

\* Nothing stays in the store for ever without a live document or an artefact
\* that needs it: deleted documents, expired exports, objects of dead writers.
NothingLingers ==
  /\ \A o \in Owners :
       (object[o] # "absent" /\ (writer[o] = "failed" \/ (o \in Documents /\ doc[o] = "deleted")))
         ~> (object[o] = "absent")
  /\ \A e \in Exports, l \in Leases : (object[<<e, l>>] # "absent") ~> (object[<<e, l>>] = "absent")
=============================================================================
