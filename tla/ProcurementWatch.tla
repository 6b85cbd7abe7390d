-------------------------- MODULE ProcurementWatch --------------------------
(***************************************************************************)
(* The watch of one saved tender search (oracle/procurement_search_watch): *)
(* a schedule stages a scan job whenever it is due (jobs/tasks,            *)
(* dispatch_due_jobs), the scan compares what Signal Avanza lists with     *)
(* what Oracle has seen and notifies what is new, and requests save,       *)
(* configure and delete the search meanwhile.                              *)
(*                                                                         *)
(* A scan holds the row of the watch from its first read to its commit,    *)
(* Signal's answers included; a save holds the row of the profile in the   *)
(* same way.  What needs a row that is held waits.                         *)
(***************************************************************************)
EXTENDS Naturals, Sequences, FiniteSets

CONSTANTS
  Workers,      \* Celery workers of the signals queue
  Jobs,         \* bound: scan jobs that have not ended, one slot each
  MaxFolders,   \* bound: tenders (folder_id) of the search, a page of results each
  MaxChanges,   \* bound: tenders published or changed at Signal
  MaxSearches,  \* bound: searches created at Signal
  MaxAttempts,  \* attempts a failing job is given (3)
  TenantBound,  \* is flask.g.active_tenant_id set where the scan runs?
  MaxFaults     \* bound: crashes, failures and expired leases in one behaviour

\* What an instance may choose.
ConstantsOK ==
  /\ MaxFolders \in Nat \ {0} /\ MaxChanges \in Nat /\ MaxSearches \in Nat
  /\ MaxAttempts \in Nat \ {0} /\ TenantBound \in BOOLEAN /\ MaxFaults \in Nat

VARIABLES
  signal,    \* Signal Avanza: its live searches and the edition of each tender
  profile,   \* tender_search_id of the profile, or None
  watch,     \* the procurement_search_watches row
  schedule,  \* is the job_schedules row of the watch enabled?
  item,      \* procurement_search_watch_items: the edition Oracle has seen
  job,       \* the background_jobs rows of the scans
  worker,    \* what each worker is doing
  save,      \* the request that saves the profile's search
  deleting,  \* the searches deleted at Signal whose watch is not retired yet
  noticed,   \* the editions recorded while notifications were on
  told,      \* the editions notified, in order
  faults     \* faults met so far

vars == <<signal, profile, watch, schedule, item, job, worker, save, deleting, noticed, told, faults>>

None == 0
Folders == 1..MaxFolders
Searches == 1..MaxSearches
Editions == 1..MaxChanges
\* An edition stands for the hash of the material fields; None: not listed, not seen.
Edition == Editions \union {None}
Snapshot == [Folders -> Edition]

Signal == [made: 0..MaxSearches, live: SUBSET Searches, edition: Snapshot]
\* old: retired for WATCH_RETENTION_DAYS.
Watch == [status: {"none", "alive", "retired"}, search: Searches \union {None},
          enabled: BOOLEAN, notify: BOOLEAN, old: BOOLEAN]
\* note: what was notified under the deduplication key of the job.
Job == [status: {"none", "queued", "running"}, attempts: Nat, owner: Workers \union {None},
        note: Snapshot]
Worker == [pc: {"idle", "begun", "scanning", "scanned"}, job: Jobs \union {None},
           pages: 0..MaxFolders, read: Snapshot, outcome: {"none", "succeeded", "retry", "failed"}]
Save == [pc: {"idle", "called"}, search: Searches \union {None}]

Nothing == [f \in Folders |-> None]
NoJob == [status |-> "none", attempts |-> 0, owner |-> None, note |-> Nothing]
IdleWorker == [pc |-> "idle", job |-> None, pages |-> 0, read |-> Nothing, outcome |-> "none"]
IdleSave == [pc |-> "idle", search |-> None]

Init ==
  /\ signal = [made |-> 0, live |-> {}, edition |-> Nothing]
  /\ profile = None
  /\ watch = [status |-> "none", search |-> None, enabled |-> FALSE, notify |-> FALSE, old |-> FALSE]
  /\ schedule = FALSE
  /\ item = Nothing
  /\ job = [j \in Jobs |-> NoJob]
  /\ worker = [w \in Workers |-> IdleWorker]
  /\ save = IdleSave
  /\ deleting = {}
  /\ noticed = [f \in Folders |-> {}]
  /\ told = [f \in Folders |-> <<>>]
  /\ faults = 0

Fault == faults < MaxFaults /\ faults' = faults + 1

\* SELECT ... FOR UPDATE of the watch, held while Signal is asked.
WatchLocked == \E w \in Workers : worker[w].pc = "scanning"

-----------------------------------------------------------------------------
(* Signal and the clock.                                                   *)

\* Editions are numbered in the order in which Signal publishes them.
Publish(f) ==
  /\ \E n \in Editions :
       /\ \A g \in Folders : signal.edition[g] < n
       /\ \A m \in 1..(n - 1) : \E g \in Folders : signal.edition[g] >= m
       /\ signal' = [signal EXCEPT !.edition[f] = n]
  /\ UNCHANGED <<profile, watch, schedule, item, job, worker, save, deleting, noticed, told, faults>>

\* No job lasts for 90 days.
Age ==
  /\ watch.status = "retired" /\ ~watch.old
  /\ \A j \in Jobs : job[j] = NoJob
  /\ \A w \in Workers : worker[w] = IdleWorker
  /\ watch' = [watch EXCEPT !.old = TRUE]
  /\ UNCHANGED <<signal, profile, schedule, item, job, worker, save, deleting, noticed, told, faults>>

-----------------------------------------------------------------------------
(* The schedule and its jobs.                                              *)

\* The job and the next occurrence are committed together, at whatever time the
\* cadence makes the next one due.
DispatchDueJobs ==
  /\ schedule
  /\ \E j \in Jobs :
       /\ job[j].status = "none" /\ \A w \in Workers : worker[w].job # j
       /\ job' = [job EXCEPT ![j] = [NoJob EXCEPT !.status = "queued"]]
  /\ UNCHANGED <<signal, profile, watch, schedule, item, worker, save, deleting, noticed, told, faults>>

Begin(w, j) ==
  /\ worker[w].pc = "idle"
  /\ job[j].status = "queued"
  /\ job' = [job EXCEPT ![j].status = "running", ![j].owner = w, ![j].attempts = @ + 1]
  /\ worker' = [worker EXCEPT ![w] = [IdleWorker EXCEPT !.pc = "begun", !.job = j]]
  /\ UNCHANGED <<signal, profile, watch, schedule, item, save, deleting, noticed, told, faults>>

Scanned(w, outcome) ==
  worker' = [worker EXCEPT ![w].pc = "scanned", ![w].outcome = outcome]

\* A retired watch is not found, which fails the job; a disabled one is no work.
LockWatch(w) ==
  /\ worker[w].pc = "begun"
  /\ ~WatchLocked
  /\ \/ watch.status # "alive" /\ Scanned(w, "failed")
     \/ watch.status = "alive" /\ ~watch.enabled /\ Scanned(w, "succeeded")
     \/ /\ watch.status = "alive" /\ watch.enabled
        /\ worker' = [worker EXCEPT ![w].pc = "scanning"]
  /\ UNCHANGED <<signal, profile, watch, schedule, item, job, save, deleting, noticed, told, faults>>

\* Signal answers the searches it has; run_tender_search looks for the tenant in
\* flask.g before it asks.
Answers == TenantBound /\ watch.search \in signal.live

ReadPage(w) ==
  /\ worker[w].pc = "scanning" /\ worker[w].pages < MaxFolders
  /\ Answers
  /\ LET f == worker[w].pages + 1
     IN  worker' = [worker EXCEPT ![w].pages = f, ![w].read[f] = signal.edition[f]]
  /\ UNCHANGED <<signal, profile, watch, schedule, item, job, save, deleting, noticed, told, faults>>

\* The error is committed and the row released; whether it may be retried is
\* Signal's word, and no for a search it does not have or an unbound tenant.
ScanFails(w) ==
  /\ worker[w].pc = "scanning" /\ worker[w].pages < MaxFolders
  /\ IF Answers THEN Fault ELSE UNCHANGED faults
  /\ \E outcome \in IF Answers THEN {"retry", "failed"} ELSE {"failed"} : Scanned(w, outcome)
  /\ UNCHANGED <<signal, profile, watch, schedule, item, job, save, deleting, noticed, told>>

\* Bug: what has been seen before is not compared.
BugNews(w) == {f \in Folders : worker[w].read[f] # None /\ item[f] = None}

\* Tenders not seen before, or with another hash.
News(w) == {f \in Folders : worker[w].read[f] \notin {None, item[f]}}

\* The title and body of the notification.
Note(w) == [f \in Folders |-> IF f \in News(w) THEN worker[w].read[f] ELSE None]

\* Bug: a key that is taken is taken for the same notification.
BugClashes(w) == FALSE

\* create_notification: the job's key belongs to a notification already, and that
\* one said something else.
Clashes(w) ==
  /\ watch.notify /\ News(w) # {}
  /\ job[worker[w].job].note \notin {Nothing, Note(w)}

\* Items and notification are one transaction; the outcome of the job is another.
CommitScan(w) ==
  /\ worker[w].pc = "scanning" /\ worker[w].pages = MaxFolders
  /\ ~Clashes(w)
  /\ LET j == worker[w].job
         new == watch.notify /\ News(w) # {} /\ job[j].note = Nothing
     IN  /\ item' = [f \in Folders |-> IF f \in News(w) THEN worker[w].read[f] ELSE item[f]]
         /\ job' = IF new THEN [job EXCEPT ![j].note = Note(w)] ELSE job
         /\ told' = [f \in Folders |->
              IF new /\ f \in News(w) THEN Append(told[f], worker[w].read[f]) ELSE told[f]]
         /\ noticed' = [f \in Folders |->
              noticed[f] \union IF watch.notify /\ f \in News(w) THEN {worker[w].read[f]} ELSE {}]
  /\ Scanned(w, "succeeded")
  /\ UNCHANGED <<signal, profile, watch, schedule, save, deleting, faults>>

\* NotificationError: everything is rolled back and the job fails; the next scan
\* has a key of its own.
ScanClashes(w) ==
  /\ worker[w].pc = "scanning" /\ worker[w].pages = MaxFolders
  /\ Clashes(w)
  /\ Scanned(w, "failed")
  /\ UNCHANGED <<signal, profile, watch, schedule, item, job, save, deleting, noticed, told, faults>>

\* execute_durable: only the owner of the lease writes the outcome.
EndJob(w) ==
  /\ worker[w].pc = "scanned"
  /\ LET j == worker[w].job
         again == worker[w].outcome = "retry" /\ job[j].attempts < MaxAttempts
     IN  job' = IF job[j].owner # w THEN job
                ELSE [job EXCEPT ![j] = IF again THEN [@ EXCEPT !.status = "queued", !.owner = None]
                                        ELSE NoJob]
  /\ worker' = [worker EXCEPT ![w] = IdleWorker]
  /\ UNCHANGED <<signal, profile, watch, schedule, item, save, deleting, noticed, told, faults>>

WorkerDies(w) ==
  /\ worker[w].pc # "idle"
  /\ Fault
  /\ worker' = [worker EXCEPT ![w] = IdleWorker]
  /\ UNCHANGED <<signal, profile, watch, schedule, item, job, save, deleting, noticed, told>>

Abandoned(j) == job[j].status = "running" /\ worker[job[j].owner].job # j

\* recover_stale_jobs; a lease that ends before its worker does is a fault.
RecoverJob(j) ==
  /\ job[j].status = "running"
  /\ IF Abandoned(j) THEN UNCHANGED faults ELSE Fault
  /\ job' = [job EXCEPT ![j].status = "queued", ![j].owner = None]
  /\ UNCHANGED <<signal, profile, watch, schedule, item, worker, save, deleting, noticed, told>>

-----------------------------------------------------------------------------
(* The requests.                                                           *)

Configure(enabled, notify) ==
  /\ ~WatchLocked
  /\ watch.status = "alive"
  /\ watch' = [watch EXCEPT !.enabled = enabled, !.notify = enabled /\ notify]
  /\ schedule' = enabled
  /\ UNCHANGED <<signal, profile, item, job, worker, save, deleting, noticed, told, faults>>

\* The profile's row is locked, then Signal is asked to change its search, or to
\* create one.
SaveCalls ==
  /\ save.pc = "idle"
  /\ IF profile # None
       THEN /\ profile \in signal.live
            /\ save' = [pc |-> "called", search |-> profile]
            /\ UNCHANGED signal
       ELSE /\ signal.made < MaxSearches
            /\ LET s == signal.made + 1
               IN  /\ signal' = [signal EXCEPT !.made = s, !.live = @ \union {s}]
                   /\ save' = [pc |-> "called", search |-> s]
  /\ UNCHANGED <<profile, watch, schedule, item, job, worker, deleting, noticed, told, faults>>

\* A watch that is alive keeps its state, a retired one comes back with its memory,
\* and neither begins enabled.
SaveCommits ==
  /\ save.pc = "called"
  /\ ~WatchLocked
  /\ profile' = save.search
  /\ IF watch.status = "alive" THEN UNCHANGED <<watch, schedule>>
     ELSE /\ watch' = [status |-> "alive", search |-> save.search, enabled |-> FALSE,
                       notify |-> FALSE, old |-> FALSE]
          /\ schedule' = FALSE
  /\ save' = IdleSave
  /\ UNCHANGED <<signal, item, job, worker, deleting, noticed, told, faults>>

\* The answer or the request is lost: a search that was created stays at Signal.
SaveFails ==
  /\ save.pc = "called"
  /\ Fault
  /\ save' = IdleSave
  /\ UNCHANGED <<signal, profile, watch, schedule, item, job, worker, deleting, noticed, told>>

\* Nothing of Oracle is locked while Signal deletes.
DeleteAtSignal(s) ==
  /\ s \in signal.live
  /\ signal' = [signal EXCEPT !.live = @ \ {s}]
  /\ deleting' = deleting \union {s}
  /\ UNCHANGED <<profile, watch, schedule, item, job, worker, save, noticed, told, faults>>

Watches(s) == watch.status = "alive" /\ watch.search = s

\* Bug: the schedule of a retired watch goes on.
BugScheduled(s) == schedule

Scheduled(s) == schedule /\ ~Watches(s)

\* Profile, watch and schedule are locked in this order and commit together.
Retire(s) ==
  /\ s \in deleting
  /\ profile = s => save.pc = "idle"
  /\ Watches(s) => ~WatchLocked
  /\ profile' = IF profile = s THEN None ELSE profile
  /\ watch' = IF Watches(s)
                THEN [watch EXCEPT !.status = "retired", !.enabled = FALSE, !.notify = FALSE]
                ELSE watch
  /\ schedule' = Scheduled(s)
  /\ deleting' = deleting \ {s}
  /\ UNCHANGED <<signal, item, job, worker, save, noticed, told, faults>>

\* The request dies between Signal and its own transaction.
DeleteDies(s) ==
  /\ s \in deleting
  /\ Fault
  /\ deleting' = deleting \ {s}
  /\ UNCHANGED <<signal, profile, watch, schedule, item, job, worker, save, noticed, told>>

\* The memory of a watch that is not alive any more goes after 90 days, and what
\* was told with it.
PurgeMemory ==
  /\ watch.status = "retired" /\ watch.old
  /\ item # Nothing
  /\ item' = Nothing
  /\ noticed' = [f \in Folders |-> {}]
  /\ told' = [f \in Folders |-> <<>>]
  /\ UNCHANGED <<signal, profile, watch, schedule, job, worker, save, deleting, faults>>

-----------------------------------------------------------------------------
WorkerStep(w) ==
  \/ \E j \in Jobs : Begin(w, j)
  \/ LockWatch(w) \/ ReadPage(w) \/ CommitScan(w) \/ ScanClashes(w) \/ EndJob(w)

Next ==
  \/ Age \/ DispatchDueJobs \/ PurgeMemory
  \/ \E f \in Folders : Publish(f)
  \/ \E w \in Workers : WorkerStep(w) \/ ScanFails(w) \/ WorkerDies(w)
  \/ \E j \in Jobs : RecoverJob(j)
  \/ \E enabled, notify \in BOOLEAN : Configure(enabled, notify)
  \/ SaveCalls \/ SaveCommits \/ SaveFails
  \/ \E s \in Searches : DeleteAtSignal(s) \/ Retire(s) \/ DeleteDies(s)

Spec == Init /\ [][Next]_vars

\* Beat goes on, workers finish what they begin, and what a dead one has left is
\* recovered.  No request has to come or to end.
Fairness ==
  /\ WF_vars(DispatchDueJobs)
  /\ \A w \in Workers : WF_vars(WorkerStep(w) \/ (~Answers /\ ScanFails(w)))
  /\ \A j \in Jobs : WF_vars(Abandoned(j) /\ RecoverJob(j))

FairSpec == Spec /\ Fairness

-----------------------------------------------------------------------------
(* Properties.                                                             *)

\* Every variable stays in its type.
TypeOK ==
  /\ signal \in Signal
  /\ profile \in Searches \union {None} /\ watch \in Watch /\ schedule \in BOOLEAN
  /\ item \in Snapshot /\ job \in [Jobs -> Job] /\ worker \in [Workers -> Worker]
  /\ save \in Save /\ deleting \subseteq Searches
  /\ noticed \in [Folders -> SUBSET Editions] /\ told \in [Folders -> Seq(Editions)]
  /\ faults \in 0..MaxFaults

\* "una ejecución interrumpida a mitad no pierde ni duplica": whatever is retried,
\* recovered, reconfigured or deleted under a scan, each edition that was recorded
\* with notifications on was notified once, and in the order of its publication.
NewsToldOnce ==
  \A f \in Folders :
    /\ {told[f][i] : i \in DOMAIN told[f]} = noticed[f]
    /\ \A i \in 2..Len(told[f]) : told[f][i - 1] < told[f][i]

\* A profile has a search exactly when its watch is alive, the watch's own, and
\* beat works for a watch exactly when its owner wants it to.
LinksAgree ==
  /\ profile = IF watch.status = "alive" THEN watch.search ELSE None
  /\ schedule = (watch.status = "alive" /\ watch.enabled)

\* Watched, and Signal has the search.
Watching == watch.status = "alive" /\ watch.enabled /\ watch.search \in signal.live

\* Whatever fails, a watch that stays enabled ends up with all that Signal lists.
ScansCatchUp == (<>[]Watching) => <>[](item = signal.edition)
=============================================================================
