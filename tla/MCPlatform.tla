------------------------------ MODULE MCPlatform ------------------------------
(***************************************************************************)
(* The outbox, the agents, the object store and the custom reports side by *)
(* side.  They share no row with each other, so a behaviour belongs to one *)
(* of them: focus says to which, and the variables of the others keep      *)
(* their initial values.  Uploads and exports are two halves of            *)
(* ArtifactStorage that meet in its cleaner; artefacts are written as      *)
(* documents are, and go with the exports.  The outbox' variables are      *)
(* SignalOutbox's own, the rest are instances.                             *)
(***************************************************************************)
EXTENDS SignalOutbox, TLC

CONSTANTS
  Foci,                            \* the components of this instance
  Jobs, MaxExecutions, AgentAttempts, MaxConcurrency, DailyLimit,
  HardBudget, Reservation, Costs, AgentFaults, MaxAgentFaults,
  Documents, Artifacts, Exports, Size, Quota, PurgeBatch, MaxLeases,
  StorageFaults, MaxStorageFaults,
  MaxPlans, MaxReportFaults

VARIABLES
  focus,
  aJob, audit, ledger, attempt, artifact, aRun, aFaults,
  object, writer, doc, export, sJob, sRun, cleaner, sFaults,
  report, frozen, approved, rJob, rWorker, request, calm, rFaults

Agents == INSTANCE AIExecutionProofs WITH
  MaxAttempts <- AgentAttempts, Faults <- AgentFaults, MaxFaults <- MaxAgentFaults,
  job <- aJob, run <- aRun, faults <- aFaults

Storage == INSTANCE ArtifactStorage WITH
  Faults <- StorageFaults, MaxFaults <- MaxStorageFaults,
  job <- sJob, run <- sRun, faults <- sFaults

Reports == INSTANCE CustomReports WITH
  MaxFaults <- MaxReportFaults, job <- rJob, worker <- rWorker, faults <- rFaults

\* The size of the documents of the instances.
OneByteEach == [d \in Documents |-> 1]

AllFoci == {"outbox", "agents", "uploads", "exports", "reports"}

ASSUME PlatformAssumption ==
  /\ Foci \subseteq AllFoci
  /\ Agents!ConstantsOK /\ Storage!ConstantsOK /\ Reports!ConstantsOK

agentVars == <<aJob, audit, ledger, attempt, artifact, aRun, aFaults>>
storageVars == <<object, writer, doc, export, sJob, sRun, cleaner, sFaults>>
reportVars == <<report, frozen, approved, rJob, rWorker, request, calm, rFaults>>
allVars == <<focus, vars, agentVars, storageVars, reportVars>>

PlatformInit ==
  /\ focus \in Foci
  /\ Init /\ Agents!Init /\ Storage!Init /\ Reports!Init
  /\ focus # "outbox" => broker = {}
  /\ focus # "reports" => calm

OutboxNext ==
  focus = "outbox" /\ Next /\ UNCHANGED <<focus, agentVars, storageVars, reportVars>>

AgentsNext ==
  focus = "agents" /\ Agents!Next /\ UNCHANGED <<focus, vars, storageVars, reportVars>>

UploadsNext ==
  /\ focus = "uploads" /\ Storage!Next
  /\ \A a \in Artifacts : writer'[a] = writer[a]
  /\ sJob' = sJob /\ export' = export
  /\ UNCHANGED <<focus, vars, agentVars, reportVars>>

ExportsNext ==
  /\ focus = "exports" /\ Storage!Next
  /\ \A d \in Documents : writer'[d] = writer[d]
  /\ UNCHANGED <<focus, vars, agentVars, reportVars>>

ReportsNext ==
  focus = "reports" /\ Reports!Next /\ UNCHANGED <<focus, vars, agentVars, storageVars>>

PlatformNext == OutboxNext \/ AgentsNext \/ UploadsNext \/ ExportsNext \/ ReportsNext

PlatformSpec == PlatformInit /\ [][PlatformNext]_allVars

StoreMoves == focus \in {"uploads", "exports"}

\* The fairness of the component a behaviour belongs to (FairSpec of each).
Fairness ==
  /\ \A w \in Workers : WF_vars(focus = "outbox" /\ WorkerStep(w))
  /\ \A e \in Events :
       /\ WF_vars(focus = "outbox" /\ BackoffEnds(e))
       /\ WF_vars(focus = "outbox" /\ ClaimAges(e))
       /\ WF_vars(focus = "outbox" /\ ReconcileOutbox(e))
  /\ \A x \in Agents!Executions :
       /\ WF_agentVars(focus = "agents" /\ Agents!ExecutionStep(x))
       /\ WF_agentVars(focus = "agents" /\ \E j \in Jobs : Agents!Deliver(x, j))
  /\ \A x \in Agents!Executions, k \in Agents!Kinds :
       /\ WF_agentVars(focus = "agents" /\ Agents!LeaseExpires(x, k))
       /\ WF_agentVars(focus = "agents" /\ Agents!RecoverAttempt(x, k))
  /\ \A j \in Jobs : WF_agentVars(focus = "agents" /\ Agents!RecoverJob(j))
  /\ \A o \in Storage!Owners :
       WF_storageVars(StoreMoves /\ (Storage!CommitObject(o) \/ Storage!TakeBack(o)))
  /\ \A e \in Exports, l \in Storage!Leases : WF_storageVars(StoreMoves /\ Storage!Execution(e, l))
  /\ \A e \in Exports :
       /\ WF_storageVars(StoreMoves /\ Storage!ExportAges(e))
       /\ WF_storageVars(StoreMoves /\ Storage!PurgeExport(e))
  /\ WF_storageVars(StoreMoves /\ Storage!PurgeDocuments)
  /\ \A k \in Storage!Keys : WF_storageVars(StoreMoves /\ Storage!ObjectAges(k))
  /\ WF_storageVars(StoreMoves /\ Storage!Reconcile)

FairPlatformSpec == PlatformSpec /\ Fairness

\* The workers are interchangeable, which is sound for a safety run.
WorkerSymmetry == Permutations(Workers)

-----------------------------------------------------------------------------
\* Every event that is staged is delivered or fails, whichever messages are lost
\* and whichever workers die (integrations/tasks.py, reconcile_outbox).
OutboxDelivers == focus = "outbox" => DeliveriesEnd

\* No more executions run or are counted in a day than the policy allows
\* (ai/service.py, _enforce_quota), although the slot lock covers one job only.
ConcurrencyKept == Agents!ConcurrencyKept

\* Every job ends, and no reservation outlives its execution for good
\* (recover_stale_ai_executions, recover_stale_jobs).
AgentsEnd == focus = "agents" => Agents!JobsEnd /\ Agents!ReservationsEnd

\* Rows and objects stay in their types, an export's row keeps the constraint of
\* its table, and the object of what a row offers is in the store, whoever
\* reconciles, retries or gives up meanwhile (reconcile_storage_orphans,
\* process_export).
Readable == Storage!TypeOK /\ Storage!Readable

\* Uploads that race stay within the tenant's quota together (create_upload).
QuotaKept == Storage!QuotaKept

\* Nothing stays in the store for ever without a row that needs it
\* (reconcile_storage_orphans, purge_due_documents, purge_expired_exports).
NothingLingers == StoreMoves => Storage!NothingLingers

\* What a reader can download was written from the snapshot it names, whose
\* memory is durable, and approved (get_downloadable_artifact).
DownloadsAreReviewed == Reports!DownloadsAreReviewed

\* With calm users a report that is ready or cancelled stays so (_TRANSITIONS).
SettledStaysSettled == Reports!SettledStaysSettled
=============================================================================
