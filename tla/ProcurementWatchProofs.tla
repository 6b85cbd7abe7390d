------------------------ MODULE ProcurementWatchProofs ------------------------
(***************************************************************************)
(* Theorems about ProcurementWatch: what is new is told once, and profile, *)
(* watch and schedule agree, for every number of workers, jobs, tenders,   *)
(* changes, searches, attempts and faults, whether or not the scans know   *)
(* their tenant.                                                           *)
(***************************************************************************)
EXTENDS ProcurementWatch, TLAPS

\* One scan holds the watch, and it has a job.
ScansHold ==
  /\ \A w \in Workers : worker[w].pc # "idle" => worker[w].job \in Jobs
  /\ \A v, w \in Workers : worker[v].pc = "scanning" /\ worker[w].pc = "scanning" => v = w

\* What a scan has read is not older than what Oracle has seen.
ReadSound ==
  /\ \A f \in Folders : item[f] <= signal.edition[f]
  /\ \A w \in Workers :
       /\ worker[w].pc = "begun" => worker[w].pages = 0 /\ worker[w].read = Nothing
       /\ worker[w].pc = "scanning" => \A f \in Folders :
            IF f <= worker[w].pages
              THEN item[f] <= worker[w].read[f] /\ worker[w].read[f] <= signal.edition[f]
              ELSE worker[w].read[f] = None

\* What was told was seen, and so was what stands under the key of a job.
ToldSound ==
  /\ \A f \in Folders : \A n \in noticed[f] : n <= item[f]
  /\ \A j \in Jobs : \A f \in Folders : job[j].note[f] <= item[f]

\* Nothing is left of the work of a watch that was retired 90 days ago.
OldIsIdle ==
  watch.old => /\ watch.status = "retired"
               /\ \A j \in Jobs : job[j] = NoJob
               /\ \A w \in Workers : worker[w].pc = "idle"

\* A save holds the profile whose search it has.
SaveSound ==
  save.pc = "called" => save.search \in Searches /\ profile \in {None, save.search}

AliveHasSearch == watch.status = "alive" => watch.search \in Searches

MemoryInv == ScansHold /\ ReadSound /\ ToldSound /\ NewsToldOnce /\ OldIsIdle
LinksInv == LinksAgree /\ SaveSound /\ AliveHasSearch
Inv == TypeOK /\ MemoryInv /\ LinksInv

-----------------------------------------------------------------------------
(* Types.                                                                  *)

LEMMA Bounds ==
  ASSUME ConstantsOK
  PROVE  /\ MaxFolders \in Nat /\ MaxChanges \in Nat /\ MaxSearches \in Nat /\ MaxFaults \in Nat
         /\ None \in Edition /\ Editions \subseteq Edition /\ Edition \subseteq Nat
         /\ \A n \in Edition : n # None => n \in Editions
         /\ None \notin Searches /\ Nothing \in Snapshot
BY DEF ConstantsOK, None, Edition, Editions, Searches, Nothing, Snapshot

LEMMA NewRows ==
  ASSUME ConstantsOK
  PROVE  NoJob \in Job /\ IdleWorker \in Worker /\ IdleSave \in Save
BY Bounds DEF NoJob, Job, IdleWorker, Worker, IdleSave, Save

LEMMA WorkerFields ==
  ASSUME TypeOK, NEW w \in Workers
  PROVE  /\ worker[w] \in Worker /\ worker[w].job \in Jobs \union {None}
         /\ worker[w].pages \in 0..MaxFolders /\ worker[w].read \in Snapshot
BY DEF TypeOK, Worker

LEMMA JobFields ==
  ASSUME TypeOK, NEW j \in Jobs
  PROVE  /\ job[j] \in Job /\ job[j].note \in Snapshot /\ job[j].attempts \in Nat
         /\ job[j].owner \in Workers \union {None}
BY DEF TypeOK, Job

LEMMA SignalFields ==
  ASSUME TypeOK
  PROVE  /\ signal.made \in 0..MaxSearches /\ signal.live \subseteq Searches
         /\ signal.edition \in Snapshot
BY DEF TypeOK, Signal

LEMMA SnapshotValues ==
  ASSUME ConstantsOK, NEW s \in Snapshot, NEW f \in Folders
  PROVE  s[f] \in Edition /\ s[f] \in Nat /\ (s[f] # None => s[f] \in Editions)
BY Bounds DEF Snapshot

LEMMA FaultType == ASSUME ConstantsOK, TypeOK, Fault PROVE faults' \in 0..MaxFaults
BY Bounds DEF TypeOK, Fault

LEMMA ScannedType ==
  ASSUME TypeOK, NEW w \in Workers, NEW outcome \in {"succeeded", "retry", "failed"},
         Scanned(w, outcome)
  PROVE  /\ worker' \in [Workers -> Worker]
         /\ \A v \in Workers : v # w => worker'[v] = worker[v]
         /\ worker'[w].pc = "scanned" /\ worker'[w].job = worker[w].job
<1>1. worker[w] \in Worker /\ worker \in [Workers -> Worker] BY DEF TypeOK
<1>2. [worker[w] EXCEPT !.pc = "scanned", !.outcome = outcome] \in Worker BY <1>1 DEF Worker
<1>3. worker' = [worker EXCEPT ![w] = [worker[w] EXCEPT !.pc = "scanned", !.outcome = outcome]]
  BY <1>1 DEF Scanned
<1> QED BY <1>1, <1>2, <1>3 DEF Worker

LEMMA InvInit == ConstantsOK /\ Init => Inv
<1> SUFFICES ASSUME ConstantsOK, Init PROVE Inv OBVIOUS
<1>1. TypeOK
  <2>1. signal \in Signal BY Bounds DEF Init, Signal
  <2>2. watch \in Watch BY Bounds DEF Init, Watch
  <2>3. told \in [Folders -> Seq(Editions)] /\ noticed \in [Folders -> SUBSET Editions]
    BY DEF Init
  <2>4. faults \in 0..MaxFaults BY Bounds DEF Init
  <2> QED BY <2>1, <2>2, <2>3, <2>4, Bounds, NewRows DEF Init, TypeOK
<1>2. \A w \in Workers : worker[w].pc = "idle" BY DEF Init, IdleWorker
<1>3. ScansHold BY <1>2 DEF ScansHold
<1>4. ReadSound BY <1>2, Bounds DEF Init, ReadSound, Nothing, None
<1>5. ToldSound BY Bounds DEF Init, ToldSound, Nothing, NoJob, None
<1>6. NewsToldOnce BY DEF Init, NewsToldOnce
<1>7. OldIsIdle /\ LinksInv BY DEF Init, OldIsIdle, LinksInv, LinksAgree, SaveSound, AliveHasSearch, IdleSave
<1> QED BY <1>1, <1>3, <1>4, <1>5, <1>6, <1>7 DEF Inv, MemoryInv

-----------------------------------------------------------------------------
(* What steps leave alone.                                                 *)

LEMMA LinksKept ==
  ASSUME LinksInv, UNCHANGED <<profile, watch, schedule, save>>
  PROVE  LinksInv'
BY DEF LinksInv, LinksAgree, SaveSound, AliveHasSearch

\* A step that records nothing, and begins no scan.
LEMMA MemoryKept ==
  ASSUME Inv, UNCHANGED <<item, noticed, told>>, signal'.edition = signal.edition,
         \A j \in Jobs : job'[j].note \in {job[j].note, Nothing},
         \A v \in Workers :
           \/ worker'[v] = worker[v]
           \/ worker[v].pc # "idle" /\ worker'[v].pc = "scanned" /\ worker'[v].job = worker[v].job
           \/ worker'[v].pc = "idle",
         ConstantsOK
  PROVE  ScansHold' /\ ReadSound' /\ ToldSound' /\ NewsToldOnce'
<1> USE DEF Inv, MemoryInv
<1>1. ScansHold' BY DEF ScansHold
<1>2. ReadSound' BY DEF ReadSound
<1>3. ToldSound'
  <2>1. item \in Snapshot BY DEF TypeOK
  <2>2. \A f \in Folders : Nothing[f] <= item[f] BY <2>1, SnapshotValues DEF Nothing, None
  <2> QED BY <2>2 DEF ToldSound
<1>4. NewsToldOnce' BY DEF NewsToldOnce
<1> QED BY <1>1, <1>2, <1>3, <1>4

\* Who works, and what a job is for, has no watch of 90 days ago.
LEMMA NotOld ==
  ASSUME Inv
  PROVE  /\ watch.status # "retired" => ~watch.old
         /\ \A w \in Workers : worker[w].pc # "idle" => ~watch.old
         /\ \A j \in Jobs : job[j].status # "none" => ~watch.old
         /\ schedule => ~watch.old
<1>1. NoJob.status = "none" BY DEF NoJob
<1>2. OldIsIdle /\ LinksAgree BY DEF Inv, MemoryInv, LinksInv
<1>3. schedule => watch.status = "alive" BY <1>2 DEF LinksAgree
<1> QED BY <1>1, <1>2, <1>3 DEF OldIsIdle

LEMMA YoungStays == ASSUME ~watch.old, UNCHANGED watch PROVE OldIsIdle'
BY DEF OldIsIdle

\* What the steps of requests leave of the scans' work.
LEMMA RequestKeeps ==
  ASSUME ConstantsOK, Inv, UNCHANGED <<item, noticed, told, job, worker>>,
         signal'.edition = signal.edition
  PROVE  ScansHold' /\ ReadSound' /\ ToldSound' /\ NewsToldOnce'
BY MemoryKept

-----------------------------------------------------------------------------
(* Signal and the clock.                                                   *)

LEMMA PublishKeeps ==
  ASSUME ConstantsOK, Inv, NEW f \in Folders, Publish(f)
  PROVE  Inv'
<1> USE DEF Inv
<1>1. PICK n \in Editions :
        /\ \A g \in Folders : signal.edition[g] < n
        /\ signal' = [signal EXCEPT !.edition[f] = n]
  BY DEF Publish
<1>2. signal \in Signal /\ signal.edition \in Snapshot BY SignalFields DEF TypeOK
<1>3. signal' = [signal EXCEPT !.edition = [signal.edition EXCEPT ![f] = n]] BY <1>1, <1>2
<1>4. [signal.edition EXCEPT ![f] = n] \in Snapshot BY <1>2, Bounds DEF Snapshot
<1>5. signal' \in Signal /\ signal'.edition = [signal.edition EXCEPT ![f] = n]
  BY <1>2, <1>3, <1>4 DEF Signal
<1>6. TypeOK' BY <1>5 DEF Publish, TypeOK
<1>7. \A g \in Folders : signal.edition[g] <= signal'.edition[g]
  BY <1>1, <1>2, <1>5, SnapshotValues, Bounds DEF Snapshot, Editions
<1>8. ReadSound'
  <2>1. item \in Snapshot /\ signal'.edition \in Snapshot BY <1>4, <1>5 DEF TypeOK
  <2>2. \A g \in Folders : item[g] \in Nat /\ signal.edition[g] \in Nat /\ signal'.edition[g] \in Nat
    BY <2>1, <1>2, SnapshotValues
  <2>3. UNCHANGED <<item, worker>> /\ ReadSound BY DEF Publish, MemoryInv
  <2>4. \A w \in Workers : \A g \in Folders : worker[w].read[g] \in Nat
    BY WorkerFields, SnapshotValues
  <2> QED BY <1>7, <2>2, <2>3, <2>4 DEF ReadSound
<1>9. MemoryInv'
  BY <1>8 DEF Publish, MemoryInv, ScansHold, ToldSound, NewsToldOnce, OldIsIdle
<1>10. LinksInv' BY LinksKept DEF Publish
<1> QED BY <1>6, <1>9, <1>10

LEMMA AgeKeeps == ASSUME ConstantsOK, Inv, Age PROVE Inv'
<1> USE DEF Inv, Age
<1>1. TypeOK' BY DEF TypeOK, Watch
<1>2. watch' = [watch EXCEPT !.old = TRUE] /\ watch \in Watch BY DEF TypeOK
<1>3. OldIsIdle' BY <1>2 DEF OldIsIdle, IdleWorker, Watch
<1>4. MemoryInv' BY <1>3, RequestKeeps DEF MemoryInv
<1>5. LinksInv' BY <1>2 DEF LinksInv, LinksAgree, SaveSound, AliveHasSearch, Watch
<1> QED BY <1>1, <1>4, <1>5

-----------------------------------------------------------------------------
(* The jobs.                                                               *)

\* A step of jobs and workers that records nothing.
LEMMA WorkKeeps ==
  ASSUME ConstantsOK, Inv, ~watch.old,
         UNCHANGED <<signal, profile, watch, schedule, item, save, deleting, noticed, told>>,
         job' \in [Jobs -> Job], worker' \in [Workers -> Worker], faults' \in 0..MaxFaults,
         ScansHold', ReadSound', ToldSound'
  PROVE  Inv'
<1>1. TypeOK' BY DEF Inv, TypeOK
<1>2. NewsToldOnce' BY DEF Inv, MemoryInv, NewsToldOnce
<1>3. OldIsIdle' BY YoungStays
<1>4. LinksInv' BY LinksKept DEF Inv
<1> QED BY <1>1, <1>2, <1>3, <1>4 DEF Inv, MemoryInv

LEMMA DispatchKeeps == ASSUME ConstantsOK, Inv, DispatchDueJobs PROVE Inv'
<1> USE DEF Inv, DispatchDueJobs
<1>1. PICK j \in Jobs : job' = [job EXCEPT ![j] = [NoJob EXCEPT !.status = "queued"]] OBVIOUS
<1>2. /\ [NoJob EXCEPT !.status = "queued"] \in Job
      /\ [NoJob EXCEPT !.status = "queued"].note = Nothing
  BY NewRows DEF Job, NoJob
<1>3. job \in [Jobs -> Job] BY DEF TypeOK
<1>4. job' \in [Jobs -> Job] /\ \A i \in Jobs : job'[i].note \in {job[i].note, Nothing}
  BY <1>1, <1>2, <1>3
<1>5. ScansHold' /\ ReadSound' /\ ToldSound' BY <1>4, MemoryKept
<1>6. ~watch.old BY NotOld
<1>7. worker' \in [Workers -> Worker] /\ faults' \in 0..MaxFaults BY DEF TypeOK
<1> QED BY <1>4, <1>5, <1>6, <1>7, WorkKeeps

LEMMA BeginKeeps ==
  ASSUME ConstantsOK, Inv, NEW w \in Workers, NEW j \in Jobs, Begin(w, j)
  PROVE  Inv'
<1>0. TypeOK BY DEF Inv
<1> DEFINE row == [job[j] EXCEPT !.status = "running", !.owner = w, !.attempts = job[j].attempts + 1]
           at == [IdleWorker EXCEPT !.pc = "begun", !.job = j]
<1>1. row \in Job /\ row.note = job[j].note
  <2>1. job[j] \in Job /\ job[j].attempts + 1 \in Nat BY <1>0, JobFields
  <2>2. \A r \in Job, n \in Nat :
          LET q == [r EXCEPT !.status = "running", !.owner = w, !.attempts = n]
          IN  q \in Job /\ q.note = r.note
    BY DEF Job
  <2> QED BY <2>1, <2>2
<1>2. at \in Worker /\ at.pc = "begun" /\ at.job = j /\ at.pages = 0 /\ at.read = Nothing
  BY NewRows DEF Worker, IdleWorker
<1>3. job \in [Jobs -> Job] /\ worker \in [Workers -> Worker] BY <1>0 DEF TypeOK
<1>4. job' = [job EXCEPT ![j] = row] /\ worker' = [worker EXCEPT ![w] = at] BY <1>3 DEF Begin
<1> HIDE DEF row, at
<1>5. job' \in [Jobs -> Job] /\ \A i \in Jobs : job'[i].note = job[i].note BY <1>1, <1>3, <1>4
<1>6. /\ worker' \in [Workers -> Worker] /\ worker'[w] = at
      /\ \A v \in Workers : v # w => worker'[v] = worker[v]
  BY <1>2, <1>3, <1>4
<1> USE DEF Inv, Begin
<1>7. ScansHold' BY <1>2, <1>6 DEF MemoryInv, ScansHold
<1>8. ReadSound' BY <1>2, <1>6 DEF MemoryInv, ReadSound
<1>9. ToldSound' BY <1>5 DEF MemoryInv, ToldSound
<1>10. ~watch.old BY NotOld
<1>11. faults' \in 0..MaxFaults BY DEF TypeOK
<1> QED BY <1>5, <1>6, <1>7, <1>8, <1>9, <1>10, <1>11, WorkKeeps

-----------------------------------------------------------------------------
(* The scans.                                                              *)

\* A handler that is over without having recorded anything.
LEMMA ScannedKeeps ==
  ASSUME ConstantsOK, Inv, NEW w \in Workers, NEW outcome \in {"succeeded", "retry", "failed"},
         worker[w].pc # "idle", Scanned(w, outcome), faults' \in 0..MaxFaults,
         UNCHANGED <<signal, profile, watch, schedule, item, job, save, deleting, noticed, told>>
  PROVE  Inv'
<1>1. TypeOK BY DEF Inv
<1>2. /\ worker' \in [Workers -> Worker]
      /\ \A v \in Workers : v # w => worker'[v] = worker[v]
      /\ worker'[w].pc = "scanned" /\ worker'[w].job = worker[w].job
  BY <1>1, ScannedType
<1>3. \A v \in Workers :
        \/ worker'[v] = worker[v]
        \/ worker[v].pc # "idle" /\ worker'[v].pc = "scanned" /\ worker'[v].job = worker[v].job
  BY <1>2
<1>4. ScansHold' /\ ReadSound' /\ ToldSound' BY <1>3, MemoryKept
<1>5. ~watch.old BY NotOld
<1>6. job' \in [Jobs -> Job] BY <1>1 DEF TypeOK
<1> QED BY <1>2, <1>4, <1>5, <1>6, WorkKeeps

LEMMA LockKeeps == ASSUME ConstantsOK, Inv, NEW w \in Workers, LockWatch(w) PROVE Inv'
<1>1. TypeOK /\ worker \in [Workers -> Worker] /\ faults' \in 0..MaxFaults
  BY DEF Inv, TypeOK, LockWatch
<1>2. UNCHANGED <<signal, profile, watch, schedule, item, job, save, deleting, noticed, told>>
  BY DEF LockWatch
<1>3. worker[w].pc = "begun" BY DEF LockWatch
<1>4. CASE \E outcome \in {"failed", "succeeded"} : Scanned(w, outcome)
  BY <1>1, <1>2, <1>3, <1>4, ScannedKeeps
<1>5. CASE worker' = [worker EXCEPT ![w].pc = "scanning"]
  <2> DEFINE at == [worker[w] EXCEPT !.pc = "scanning"]
  <2>1. /\ at \in Worker /\ at.pc = "scanning" /\ at.job = worker[w].job
        /\ at.pages = worker[w].pages /\ at.read = worker[w].read
    BY <1>1 DEF Worker
  <2>2. worker' = [worker EXCEPT ![w] = at] BY <1>1, <1>5
  <2> HIDE DEF at
  <2>3. /\ worker' \in [Workers -> Worker] /\ worker'[w] = at
        /\ \A v \in Workers : v # w => worker'[v] = worker[v]
    BY <1>1, <2>1, <2>2
  <2>4. \A v \in Workers : worker[v].pc # "scanning" BY DEF LockWatch, WatchLocked
  <2>5. ScansHold' BY <1>3, <2>1, <2>3, <2>4 DEF Inv, MemoryInv, ScansHold
  <2>6. worker[w].pages = 0 /\ worker[w].read = Nothing
    BY <1>3 DEF Inv, MemoryInv, ReadSound
  <2>7. \A f \in Folders : ~(f <= 0) /\ Nothing[f] = None BY Bounds DEF Folders, Nothing
  <2>8. ReadSound'
    BY <1>2, <2>1, <2>3, <2>4, <2>6, <2>7 DEF Inv, MemoryInv, ReadSound
  <2>9. ToldSound' BY <1>2 DEF Inv, MemoryInv, ToldSound
  <2>10. ~watch.old BY <1>3, NotOld
  <2>11. job' \in [Jobs -> Job] BY <1>1, <1>2 DEF TypeOK
  <2> QED BY <1>1, <1>2, <2>3, <2>5, <2>8, <2>9, <2>10, <2>11, WorkKeeps
<1> QED BY <1>4, <1>5 DEF LockWatch

LEMMA ReadPageKeeps == ASSUME ConstantsOK, Inv, NEW w \in Workers, ReadPage(w) PROVE Inv'
<1>1. TypeOK /\ worker \in [Workers -> Worker] /\ faults' \in 0..MaxFaults
  BY DEF Inv, TypeOK, ReadPage
<1>2. UNCHANGED <<signal, profile, watch, schedule, item, job, save, deleting, noticed, told>>
  BY DEF ReadPage
<1>3. worker[w].pc = "scanning" /\ worker[w].pages < MaxFolders BY DEF ReadPage
<1> DEFINE f == worker[w].pages + 1
           seen == [worker[w].read EXCEPT ![f] = signal.edition[f]]
           at == [worker[w] EXCEPT !.pages = f, !.read = seen]
<1>4. f \in Folders /\ f \in 0..MaxFolders BY <1>1, <1>3, Bounds, WorkerFields DEF Folders
<1>5. seen \in Snapshot
  <2>1. \A q \in Snapshot, n \in Folders, e \in Edition : [q EXCEPT ![n] = e] \in Snapshot
    BY DEF Snapshot
  <2>2. worker[w].read \in Snapshot /\ signal.edition[f] \in Edition
    BY <1>1, <1>4, WorkerFields, SignalFields DEF Snapshot
  <2> QED BY <1>4, <2>1, <2>2
<1>6. /\ at \in Worker /\ at.pc = "scanning" /\ at.job = worker[w].job
      /\ at.pages = f /\ at.read = seen
  <2>1. worker[w] \in Worker BY <1>1
  <2>2. PICK n \in 0..MaxFolders : n = f BY <1>4
  <2>3. PICK q \in Snapshot : q = seen BY <1>5
  <2> HIDE DEF seen, f
  <2>4. PICK r \in Worker : r = worker[w] BY <2>1
  <2>5. PICK x : x = [r EXCEPT !.pages = n, !.read = q] OBVIOUS
  <2>6. x \in Worker /\ x.pages = n /\ x.read = q /\ x.pc = r.pc /\ x.job = r.job
    BY <2>5 DEF Worker
  <2>7. x = at BY <2>2, <2>3, <2>4, <2>5
  <2> QED BY <1>3, <2>2, <2>3, <2>4, <2>6, <2>7
<1>7. worker' = [worker EXCEPT ![w] = at] BY <1>1 DEF ReadPage
<1>8. \A g \in Folders : seen[g] = IF g = f THEN signal.edition[f] ELSE worker[w].read[g]
  BY <1>1, <1>4, WorkerFields DEF Snapshot
<1> HIDE DEF seen, at
<1>9. /\ worker' \in [Workers -> Worker] /\ worker'[w] = at
      /\ \A v \in Workers : v # w => worker'[v] = worker[v]
  BY <1>1, <1>6, <1>7
<1>10. ScansHold' BY <1>3, <1>6, <1>9 DEF Inv, MemoryInv, ScansHold
<1>11. item \in Snapshot /\ signal.edition \in Snapshot BY <1>1, SignalFields DEF TypeOK
<1>12. \A g \in Folders : item[g] \in Nat /\ signal.edition[g] \in Nat
  BY <1>11, SnapshotValues
<1>13. \A g \in Folders : IF g <= f THEN item[g] <= seen[g] /\ seen[g] <= signal.edition[g]
                                     ELSE seen[g] = None
  <2> SUFFICES ASSUME NEW g \in Folders
               PROVE  IF g <= f THEN item[g] <= seen[g] /\ seen[g] <= signal.edition[g]
                                ELSE seen[g] = None
    OBVIOUS
  <2>1. /\ item[g] <= signal.edition[g]
        /\ IF g <= worker[w].pages
             THEN item[g] <= worker[w].read[g] /\ worker[w].read[g] <= signal.edition[g]
             ELSE worker[w].read[g] = None
    BY <1>3 DEF Inv, MemoryInv, ReadSound
  <2>2. f \in Nat /\ g \in Nat /\ worker[w].pages \in Nat
    BY <1>1, Bounds, WorkerFields DEF Folders
  <2> QED BY <1>4, <1>8, <1>12, <2>1, <2>2
<1>14. ReadSound'
  <2>1. at.pc = "scanning" /\ at.pages = f /\ at.read = seen BY <1>6
  <2> QED BY <1>2, <1>9, <1>13, <2>1 DEF Inv, MemoryInv, ReadSound
<1>15. ToldSound' BY <1>2 DEF Inv, MemoryInv, ToldSound
<1>16. ~watch.old BY <1>3, NotOld
<1>17. job' \in [Jobs -> Job] BY <1>1, <1>2 DEF TypeOK
<1> QED BY <1>1, <1>2, <1>9, <1>10, <1>14, <1>15, <1>16, <1>17, WorkKeeps

LEMMA ScanFailsKeeps == ASSUME ConstantsOK, Inv, NEW w \in Workers, ScanFails(w) PROVE Inv'
<1>1. TypeOK BY DEF Inv
<1>2. faults' \in 0..MaxFaults
  <2>1. CASE Fault BY <1>1, <2>1, FaultType
  <2>2. CASE UNCHANGED faults BY <1>1, <2>2 DEF TypeOK
  <2> QED BY <2>1, <2>2 DEF ScanFails
<1>3. PICK outcome \in {"retry", "failed"} : Scanned(w, outcome) BY DEF ScanFails
<1>4. /\ UNCHANGED <<signal, profile, watch, schedule, item, job, save, deleting, noticed, told>>
      /\ worker[w].pc # "idle"
  BY DEF ScanFails
<1> QED BY <1>2, <1>3, <1>4, ScannedKeeps

LEMMA ScanClashesKeeps == ASSUME ConstantsOK, Inv, NEW w \in Workers, ScanClashes(w) PROVE Inv'
<1>1. faults' \in 0..MaxFaults BY DEF Inv, TypeOK, ScanClashes
<1>2. /\ UNCHANGED <<signal, profile, watch, schedule, item, job, save, deleting, noticed, told>>
      /\ worker[w].pc # "idle" /\ Scanned(w, "failed")
  BY DEF ScanClashes
<1> QED BY <1>1, <1>2, ScannedKeeps

\* News is newer than what was seen, and nothing stands under the job's key yet.
LEMMA NewsIsNewer ==
  ASSUME ConstantsOK, Inv, NEW w \in Workers, worker[w].pc = "scanning",
         worker[w].pages = MaxFolders
  PROVE  /\ worker[w].job \in Jobs /\ News(w) \subseteq Folders
         /\ \A f \in Folders : /\ item[f] <= worker[w].read[f]
                             /\ worker[w].read[f] <= signal.edition[f]
                             /\ worker[w].read[f] \in Nat /\ item[f] \in Nat
         /\ \A f \in News(w) : item[f] < worker[w].read[f] /\ worker[w].read[f] \in Editions
         /\ watch.notify /\ News(w) # {} /\ ~Clashes(w) => job[worker[w].job].note = Nothing
<1>1. TypeOK /\ ScansHold /\ ReadSound /\ ToldSound BY DEF Inv, MemoryInv
<1>2. worker[w].job \in Jobs /\ News(w) \subseteq Folders BY <1>1 DEF ScansHold, News
<1>3. worker[w].read \in Snapshot /\ item \in Snapshot BY <1>1, WorkerFields DEF TypeOK
<1>4. \A f \in Folders : worker[w].read[f] \in Nat /\ item[f] \in Nat BY <1>3, SnapshotValues
<1>5. \A f \in Folders : f <= MaxFolders BY Bounds DEF Folders
<1>6. \A f \in Folders :
        item[f] <= worker[w].read[f] /\ worker[w].read[f] <= signal.edition[f]
  BY <1>1, <1>5 DEF ReadSound
<1>7. \A f \in News(w) : item[f] < worker[w].read[f] /\ worker[w].read[f] \in Editions
  BY <1>2, <1>3, <1>4, <1>6, SnapshotValues DEF News
<1>8. ASSUME watch.notify, News(w) # {}, ~Clashes(w)
      PROVE  job[worker[w].job].note = Nothing
  <2> DEFINE j == worker[w].job
  <2>1. SUFFICES ASSUME job[j].note # Nothing PROVE FALSE OBVIOUS
  <2>2. job[j].note = Note(w) BY <1>8, <2>1 DEF Clashes
  <2>3. PICK f \in News(w) : TRUE BY <1>8
  <2>4. f \in Folders /\ Note(w)[f] = worker[w].read[f] BY <1>2, <2>3 DEF Note
  <2>5. job[j].note[f] <= item[f] BY <1>1, <1>2, <2>4 DEF ToldSound
  <2> QED BY <1>4, <1>7, <2>2, <2>3, <2>4, <2>5
<1> QED BY <1>2, <1>4, <1>6, <1>7, <1>8

\* One more edition is told, later than all of them.
LEMMA ToldGrows ==
  ASSUME NEW s \in Seq(Editions), NEW n \in Editions, NEW seen \in Nat, seen < n,
         \A i \in DOMAIN s : s[i] <= seen,
         \A i \in 2..Len(s) : s[i - 1] < s[i], Editions \subseteq Nat
  PROVE  /\ Append(s, n) \in Seq(Editions)
         /\ {Append(s, n)[i] : i \in DOMAIN Append(s, n)} = {s[i] : i \in DOMAIN s} \union {n}
         /\ \A i \in 2..Len(Append(s, n)) : Append(s, n)[i - 1] < Append(s, n)[i]
<1> DEFINE t == Append(s, n)
<1>1. /\ t \in Seq(Editions) /\ Len(s) \in Nat /\ Len(t) = Len(s) + 1
      /\ DOMAIN s = 1..Len(s) /\ DOMAIN t = 1..(Len(s) + 1)
  OBVIOUS
<1>2. \A i \in DOMAIN s : t[i] = s[i] /\ s[i] \in Nat
  <2>1. \A i \in 1..Len(s) : t[i] = s[i] OBVIOUS
  <2>2. \A i \in 1..Len(s) : s[i] \in Editions OBVIOUS
  <2> QED BY <1>1, <2>1, <2>2
<1>3. t[Len(s) + 1] = n OBVIOUS
<1> HIDE DEF t
<1>4. {t[i] : i \in DOMAIN t} = {s[i] : i \in DOMAIN s} \union {n}
  <2>1. DOMAIN t = DOMAIN s \union {Len(s) + 1} BY <1>1
  <2> QED BY <1>2, <1>3, <2>1
<1>5. \A i \in 2..Len(t) : t[i - 1] < t[i]
  <2> SUFFICES ASSUME NEW i \in 2..Len(t) PROVE t[i - 1] < t[i] OBVIOUS
  <2>1. i - 1 \in DOMAIN s BY <1>1
  <2>2. CASE i \in 2..Len(s)
    <3>1. i \in DOMAIN s BY <1>1, <2>2
    <3> QED BY <1>2, <2>1, <2>2, <3>1
  <2>3. CASE i = Len(s) + 1
    <3>1. t[i - 1] <= seen /\ t[i - 1] \in Nat BY <1>2, <2>1
    <3> QED BY <1>3, <2>3, <3>1
  <2> QED BY <1>1, <2>2, <2>3
<1> QED BY <1>1, <1>4, <1>5 DEF t

LEMMA CommitScanKeeps == ASSUME ConstantsOK, Inv, NEW w \in Workers, CommitScan(w) PROVE Inv'
<1> DEFINE j == worker[w].job
           telling == watch.notify /\ News(w) # {}
<1>1. TypeOK /\ item \in Snapshot /\ job \in [Jobs -> Job] /\ faults' \in 0..MaxFaults
  BY DEF Inv, TypeOK, CommitScan
<1>2. /\ UNCHANGED <<signal, profile, watch, schedule, save, deleting>>
      /\ worker[w].pc = "scanning" /\ worker[w].pages = MaxFolders /\ ~Clashes(w)
      /\ Scanned(w, "succeeded")
  BY DEF CommitScan
<1>3. /\ j \in Jobs /\ News(w) \subseteq Folders
      /\ \A f \in Folders : /\ item[f] <= worker[w].read[f]
                           /\ worker[w].read[f] <= signal.edition[f]
                           /\ worker[w].read[f] \in Nat /\ item[f] \in Nat
      /\ \A f \in News(w) : item[f] < worker[w].read[f] /\ worker[w].read[f] \in Editions
      /\ telling => job[j].note = Nothing
  BY <1>2, NewsIsNewer
<1>4. /\ item' = [f \in Folders |-> IF f \in News(w) THEN worker[w].read[f] ELSE item[f]]
      /\ job' = IF telling THEN [job EXCEPT ![j].note = Note(w)] ELSE job
      /\ told' = [f \in Folders |->
           IF telling /\ f \in News(w) THEN Append(told[f], worker[w].read[f]) ELSE told[f]]
      /\ noticed' = [f \in Folders |->
           noticed[f] \union IF watch.notify /\ f \in News(w) THEN {worker[w].read[f]} ELSE {}]
  BY <1>3 DEF CommitScan
<1> HIDE DEF j
<1>5. \A f \in News(w) : watch.notify => telling OBVIOUS
<1> HIDE DEF telling
<1>6. /\ worker' \in [Workers -> Worker]
      /\ \A v \in Workers : v # w => worker'[v] = worker[v]
      /\ worker'[w].pc = "scanned" /\ worker'[w].job = worker[w].job
  BY <1>1, <1>2, ScannedType
<1>7. item' \in Snapshot /\ \A f \in Folders : item[f] <= item'[f] /\ item'[f] <= signal.edition[f]
  <2>1. item' \in Snapshot BY <1>1, <1>3, <1>4, Bounds DEF Snapshot
  <2>2. \A f \in Folders : item'[f] = IF f \in News(w) THEN worker[w].read[f] ELSE item[f] BY <1>4
  <2>3. ReadSound BY DEF Inv, MemoryInv
  <2> QED BY <1>3, <2>1, <2>2, <2>3 DEF ReadSound
<1>8. job' \in [Jobs -> Job] /\ \A i \in Jobs : \A f \in Folders : job'[i].note[f] <= item'[f]
  <2>1. ToldSound BY DEF Inv, MemoryInv
  <2>2. \A i \in Jobs : job[i].note \in Snapshot BY <1>1, JobFields
  <2>3. \A i \in Jobs, f \in Folders : job[i].note[f] \in Nat BY <2>2, SnapshotValues
  <2>4. \A f \in Folders : item'[f] \in Nat BY <1>7, SnapshotValues
  <2>5. \A i \in Jobs, f \in Folders : job[i].note[f] <= item'[f]
    BY <1>3, <1>7, <2>1, <2>3, <2>4 DEF ToldSound
  <2>6. CASE ~telling BY <1>1, <1>4, <2>5, <2>6
  <2>7. CASE telling
    <3>1. Note(w) \in Snapshot BY <1>3, Bounds DEF Note, Snapshot
    <3>2. \A f \in Folders : Note(w)[f] <= item'[f]
      <4>1. \A f \in Folders : Note(w)[f] = IF f \in News(w) THEN worker[w].read[f] ELSE None
        BY DEF Note
      <4>2. \A f \in Folders : item'[f] = IF f \in News(w) THEN worker[w].read[f] ELSE item[f]
        BY <1>4
      <4> QED BY <1>3, <4>1, <4>2 DEF None
    <3>3. [job[j] EXCEPT !.note = Note(w)] \in Job /\ [job[j] EXCEPT !.note = Note(w)].note = Note(w)
      BY <1>1, <1>3, <3>1 DEF Job
    <3>4. job' = [job EXCEPT ![j] = [job[j] EXCEPT !.note = Note(w)]] BY <1>1, <1>3, <1>4, <2>7
    <3> QED BY <1>1, <1>3, <2>5, <3>2, <3>3, <3>4
  <2> QED BY <2>6, <2>7
<1>9. \A f \in Folders :
        /\ noticed'[f] \in SUBSET Editions /\ told'[f] \in Seq(Editions)
        /\ \A n \in noticed'[f] : n <= item'[f]
        /\ {told'[f][i] : i \in DOMAIN told'[f]} = noticed'[f]
        /\ \A i \in 2..Len(told'[f]) : told'[f][i - 1] < told'[f][i]
  <2> SUFFICES ASSUME NEW f \in Folders
               PROVE  /\ noticed'[f] \in SUBSET Editions /\ told'[f] \in Seq(Editions)
                      /\ \A n \in noticed'[f] : n <= item'[f]
                      /\ {told'[f][i] : i \in DOMAIN told'[f]} = noticed'[f]
                      /\ \A i \in 2..Len(told'[f]) : told'[f][i - 1] < told'[f][i]
    OBVIOUS
  <2>1. /\ noticed[f] \in SUBSET Editions /\ told[f] \in Seq(Editions)
        /\ \A n \in noticed[f] : n <= item[f]
        /\ {told[f][i] : i \in DOMAIN told[f]} = noticed[f]
        /\ \A i \in 2..Len(told[f]) : told[f][i - 1] < told[f][i]
    BY DEF Inv, TypeOK, MemoryInv, ToldSound, NewsToldOnce
  <2>2. Editions \subseteq Nat /\ item'[f] \in Nat BY <1>7, Bounds, SnapshotValues
  <2>3. CASE watch.notify /\ f \in News(w)
    <3> DEFINE e == worker[w].read[f]
    <3>1. /\ told'[f] = Append(told[f], e) /\ noticed'[f] = noticed[f] \union {e}
          /\ item'[f] = e
      BY <1>4, <1>5, <2>3
    <3>2. e \in Editions /\ item[f] < e /\ item[f] \in Nat BY <1>3, <2>3
    <3> HIDE DEF e
    <3>3. \A n \in noticed'[f] : n <= item'[f]
      <4>1. \A n \in noticed[f] : n \in Nat /\ n <= item[f] BY <2>1, <2>2
      <4>2. e \in Nat BY <2>2, <3>2
      <4>3. \A n \in noticed[f] : n <= e BY <3>2, <4>1, <4>2
      <4> QED BY <3>1, <4>2, <4>3
    <3>4. \A i \in DOMAIN told[f] : told[f][i] <= item[f] BY <2>1
    <3>5. /\ told'[f] \in Seq(Editions)
          /\ {told'[f][i] : i \in DOMAIN told'[f]} = {told[f][i] : i \in DOMAIN told[f]} \union {e}
          /\ \A i \in 2..Len(told'[f]) : told'[f][i - 1] < told'[f][i]
      <4>1. PICK s \in Seq(Editions) : s = told[f] BY <2>1
      <4>2. PICK n \in Editions : n = e BY <3>2
      <4>3. PICK seen \in Nat : seen = item[f] BY <3>2
      <4>4. /\ seen < n /\ Editions \subseteq Nat
            /\ \A i \in DOMAIN s : s[i] <= seen
            /\ \A i \in 2..Len(s) : s[i - 1] < s[i]
        BY <2>1, <2>2, <3>2, <3>4, <4>1, <4>2, <4>3
      <4> DEFINE t == Append(s, n)
      <4>5. /\ t \in Seq(Editions) /\ {t[i] : i \in DOMAIN t} = {s[i] : i \in DOMAIN s} \union {n}
            /\ \A i \in 2..Len(t) : t[i - 1] < t[i]
        BY <4>4, ToldGrows
      <4>6. told'[f] = t BY <3>1, <4>1, <4>2
      <4> HIDE DEF t
      <4> QED BY <4>1, <4>2, <4>5, <4>6
    <3> QED BY <2>1, <3>1, <3>2, <3>3, <3>5
  <2>4. CASE ~(watch.notify /\ f \in News(w))
    <3>1. telling /\ f \in News(w) => watch.notify BY DEF telling
    <3>2. told'[f] = told[f] /\ noticed'[f] = noticed[f] BY <1>4, <2>4, <3>1
    <3>3. item[f] <= item'[f] /\ item[f] \in Nat BY <1>3, <1>7
    <3>4. \A n \in noticed[f] : n \in Nat /\ n <= item[f] BY <2>1, <2>2
    <3>5. \A n \in noticed[f] : n <= item'[f] BY <2>2, <3>3, <3>4
    <3> QED BY <2>1, <3>2, <3>5
  <2> QED BY <2>3, <2>4
<1>10. TypeOK'
  <2>1. noticed' \in [Folders -> SUBSET Editions] /\ told' \in [Folders -> Seq(Editions)]
    BY <1>4, <1>9
  <2> QED BY <1>1, <1>2, <1>6, <1>7, <1>8, <2>1 DEF TypeOK
<1>11. ScansHold' BY <1>2, <1>6 DEF Inv, MemoryInv, ScansHold
<1>12. ReadSound'
  <2>1. \A v \in Workers : v # w => worker[v].pc # "scanning"
    BY <1>2 DEF Inv, MemoryInv, ScansHold
  <2> QED BY <1>2, <1>6, <1>7, <2>1 DEF Inv, MemoryInv, ReadSound
<1>13. ToldSound' BY <1>8, <1>9 DEF ToldSound
<1>14. NewsToldOnce' BY <1>9 DEF NewsToldOnce
<1>15. OldIsIdle'
  <2>1. ~watch.old BY <1>2, NotOld
  <2> QED BY <1>2, <2>1, YoungStays
<1>16. LinksInv' BY <1>2, LinksKept DEF Inv
<1> QED BY <1>10, <1>11, <1>12, <1>13, <1>14, <1>15, <1>16 DEF Inv, MemoryInv

\* What ends the work of a worker, or gives its job to nobody.
LEMMA LeavesKeep ==
  ASSUME ConstantsOK, Inv, ~watch.old,
         UNCHANGED <<signal, profile, watch, schedule, item, save, deleting, noticed, told>>,
         job' \in [Jobs -> Job], \A i \in Jobs : job'[i].note \in {job[i].note, Nothing},
         worker' \in [Workers -> Worker],
         \A v \in Workers : worker'[v] = worker[v] \/ worker'[v].pc = "idle",
         faults' \in 0..MaxFaults
  PROVE  Inv'
<1>1. ScansHold' /\ ReadSound' /\ ToldSound' BY MemoryKept
<1> QED BY <1>1, WorkKeeps

LEMMA RowIdle ==
  ASSUME ConstantsOK, TypeOK, NEW w \in Workers, worker' = [worker EXCEPT ![w] = IdleWorker]
  PROVE  /\ worker' \in [Workers -> Worker]
         /\ \A v \in Workers : worker'[v] = worker[v] \/ worker'[v].pc = "idle"
<1>1. worker \in [Workers -> Worker] BY DEF TypeOK
<1>2. IdleWorker \in Worker /\ IdleWorker.pc = "idle" BY NewRows DEF IdleWorker
<1> QED BY <1>1, <1>2

\* A job that waits again.
LEMMA RowQueued ==
  ASSUME NEW r \in Job
  PROVE  /\ [r EXCEPT !.status = "queued", !.owner = None] \in Job
         /\ [r EXCEPT !.status = "queued", !.owner = None].note = r.note
BY DEF Job, None

LEMMA EndJobKeeps == ASSUME ConstantsOK, Inv, NEW w \in Workers, EndJob(w) PROVE Inv'
<1> DEFINE j == worker[w].job
<1>1. TypeOK /\ job \in [Jobs -> Job] /\ faults' \in 0..MaxFaults BY DEF Inv, TypeOK, EndJob
<1>2. worker[w].pc # "idle" /\ worker' = [worker EXCEPT ![w] = IdleWorker] BY DEF EndJob
<1>3. j \in Jobs BY <1>2 DEF Inv, MemoryInv, ScansHold
<1>4. job' \in [Jobs -> Job] /\ \A i \in Jobs : job'[i].note \in {job[i].note, Nothing}
  <2>1. job' = job \/ \E r \in {[job[j] EXCEPT !.status = "queued", !.owner = None], NoJob} :
                        job' = [job EXCEPT ![j] = r]
    BY DEF EndJob
  <2>2. [job[j] EXCEPT !.status = "queued", !.owner = None] \in Job
        /\ [job[j] EXCEPT !.status = "queued", !.owner = None].note = job[j].note
    BY <1>1, <1>3, RowQueued
  <2>3. NoJob \in Job /\ NoJob.note = Nothing BY NewRows DEF NoJob
  <2>4. ASSUME NEW r \in Job, r.note \in {job[j].note, Nothing}, job' = [job EXCEPT ![j] = r]
        PROVE  job' \in [Jobs -> Job] /\ \A i \in Jobs : job'[i].note \in {job[i].note, Nothing}
    <3> HIDE DEF j
    <3> QED BY <1>1, <1>3, <2>4
  <2> QED BY <1>1, <2>1, <2>2, <2>3, <2>4
<1>5. ~watch.old BY <1>2, NotOld
<1>6. UNCHANGED <<signal, profile, watch, schedule, item, save, deleting, noticed, told>>
  BY DEF EndJob
<1>7. /\ worker' \in [Workers -> Worker]
      /\ \A v \in Workers : worker'[v] = worker[v] \/ worker'[v].pc = "idle"
  BY <1>1, <1>2, RowIdle
<1> QED BY <1>1, <1>4, <1>5, <1>6, <1>7, LeavesKeep

LEMMA WorkerDiesKeeps == ASSUME ConstantsOK, Inv, NEW w \in Workers, WorkerDies(w) PROVE Inv'
<1>1. TypeOK /\ job' \in [Jobs -> Job] BY DEF Inv, TypeOK, WorkerDies
<1>2. /\ UNCHANGED <<signal, profile, watch, schedule, item, job, save, deleting, noticed, told>>
      /\ worker[w].pc # "idle" /\ Fault /\ worker' = [worker EXCEPT ![w] = IdleWorker]
  BY DEF WorkerDies
<1>3. ~watch.old BY <1>2, NotOld
<1>4. faults' \in 0..MaxFaults BY <1>1, <1>2, FaultType
<1>5. /\ worker' \in [Workers -> Worker]
      /\ \A v \in Workers : worker'[v] = worker[v] \/ worker'[v].pc = "idle"
  BY <1>1, <1>2, RowIdle
<1> QED BY <1>1, <1>2, <1>3, <1>4, <1>5, LeavesKeep

LEMMA RecoverJobKeeps == ASSUME ConstantsOK, Inv, NEW j \in Jobs, RecoverJob(j) PROVE Inv'
<1>1. TypeOK /\ job \in [Jobs -> Job] /\ worker' \in [Workers -> Worker]
  BY DEF Inv, TypeOK, RecoverJob
<1>2. /\ UNCHANGED <<signal, profile, watch, schedule, item, worker, save, deleting, noticed, told>>
      /\ job[j].status = "running"
      /\ job' = [job EXCEPT ![j] = [job[j] EXCEPT !.status = "queued", !.owner = None]]
  BY <1>1 DEF RecoverJob
<1>3. ~watch.old BY <1>2, NotOld
<1>4. faults' \in 0..MaxFaults
  <2>1. CASE Fault BY <1>1, <2>1, FaultType
  <2>2. CASE UNCHANGED faults BY <1>1, <2>2 DEF TypeOK
  <2> QED BY <2>1, <2>2 DEF RecoverJob
<1>5. job' \in [Jobs -> Job] /\ \A i \in Jobs : job'[i].note \in {job[i].note, Nothing}
  <2>1. /\ [job[j] EXCEPT !.status = "queued", !.owner = None] \in Job
        /\ [job[j] EXCEPT !.status = "queued", !.owner = None].note = job[j].note
    BY <1>1, RowQueued
  <2> QED BY <1>1, <1>2, <2>1
<1> QED BY <1>1, <1>2, <1>3, <1>4, <1>5, LeavesKeep

-----------------------------------------------------------------------------
(* The requests.                                                           *)

\* A step of a request: it leaves the scans' work alone.
LEMMA RequestStep ==
  ASSUME ConstantsOK, Inv, TypeOK', LinksInv', signal'.edition = signal.edition,
         UNCHANGED <<item, job, worker, noticed, told>>,
         watch' = watch \/ ~watch'.old
  PROVE  Inv'
<1>1. ScansHold' /\ ReadSound' /\ ToldSound' /\ NewsToldOnce' BY RequestKeeps
<1>2. OldIsIdle' BY DEF Inv, MemoryInv, OldIsIdle
<1> QED BY <1>1, <1>2 DEF Inv, MemoryInv

LEMMA ConfigureKeeps ==
  ASSUME ConstantsOK, Inv, NEW enabled \in BOOLEAN, NEW notify \in BOOLEAN,
         Configure(enabled, notify)
  PROVE  Inv'
<1>1. TypeOK /\ watch \in Watch /\ watch.status = "alive" BY DEF Inv, TypeOK, Configure
<1>2. watch' = [watch EXCEPT !.enabled = enabled, !.notify = enabled /\ notify] BY DEF Configure
<1>3. /\ watch' \in Watch /\ watch'.old = watch.old /\ watch'.status = watch.status
      /\ watch'.search = watch.search /\ watch'.enabled = enabled
  BY <1>1, <1>2 DEF Watch
<1>4. UNCHANGED <<signal, profile, item, job, worker, save, deleting, noticed, told, faults>>
      /\ schedule' = enabled
  BY DEF Configure
<1>5. TypeOK' BY <1>1, <1>3, <1>4 DEF TypeOK
<1>6. LinksInv' BY <1>1, <1>3, <1>4 DEF Inv, LinksInv, LinksAgree, SaveSound, AliveHasSearch
<1>7. ~watch'.old BY <1>1, <1>3, NotOld
<1> QED BY <1>4, <1>5, <1>6, <1>7, RequestStep

LEMMA SaveCallsKeeps == ASSUME ConstantsOK, Inv, SaveCalls PROVE Inv'
<1>1. TypeOK /\ signal \in Signal BY DEF Inv, TypeOK
<1>2. UNCHANGED <<profile, watch, schedule, item, job, worker, deleting, noticed, told, faults>>
  BY DEF SaveCalls
<1>3. /\ signal' \in Signal /\ signal'.edition = signal.edition
      /\ save' \in Save
      /\ save'.pc = "called" => save'.search \in Searches /\ profile \in {None, save'.search}
  <2>1. CASE profile # None
    <3>1. profile \in Searches BY <1>1, <2>1 DEF TypeOK
    <3>2. UNCHANGED signal /\ save' = [pc |-> "called", search |-> profile]
      BY <2>1 DEF SaveCalls
    <3> QED BY <1>1, <3>1, <3>2 DEF Save
  <2>2. CASE profile = None
    <3>1. PICK s : /\ s = signal.made + 1 /\ signal.made < MaxSearches
                   /\ signal' = [signal EXCEPT !.made = s, !.live = signal.live \union {s}]
                   /\ save' = [pc |-> "called", search |-> s]
      BY <2>2 DEF SaveCalls
    <3>2. s \in 0..MaxSearches /\ s \in Searches BY <1>1, <3>1, Bounds, SignalFields DEF Searches
    <3>3. signal' \in Signal /\ signal'.edition = signal.edition
      BY <1>1, <3>1, <3>2 DEF Signal
    <3> QED BY <2>2, <3>1, <3>2, <3>3 DEF Save
  <2> QED BY <2>1, <2>2
<1>4. TypeOK' BY <1>1, <1>2, <1>3 DEF TypeOK
<1>5. LinksInv' BY <1>2, <1>3 DEF Inv, LinksInv, LinksAgree, SaveSound, AliveHasSearch
<1> QED BY <1>2, <1>3, <1>4, <1>5, RequestStep

LEMMA SaveCommitsKeeps == ASSUME ConstantsOK, Inv, SaveCommits PROVE Inv'
<1>1. TypeOK /\ IdleSave \in Save /\ IdleSave.pc = "idle" BY NewRows DEF Inv, IdleSave
<1>2. /\ save.search \in Searches /\ profile \in {None, save.search}
      /\ LinksAgree
  BY DEF SaveCommits, Inv, LinksInv, SaveSound
<1>3. /\ UNCHANGED <<signal, item, job, worker, deleting, noticed, told, faults>>
      /\ profile' = save.search /\ save' = IdleSave
  BY DEF SaveCommits
<1>4. CASE watch.status = "alive"
  <2>1. UNCHANGED <<watch, schedule>> BY <1>4 DEF SaveCommits
  <2>2. TypeOK' BY <1>1, <1>2, <1>3, <2>1 DEF TypeOK
  <2>3. watch.search = save.search
    <3>1. profile = watch.search BY <1>2, <1>4 DEF LinksAgree
    <3>2. watch.search \in Searches BY <1>4 DEF Inv, LinksInv, AliveHasSearch
    <3> QED BY <1>2, <3>1, <3>2, Bounds
  <2>4. LinksInv' BY <1>1, <1>2, <1>3, <1>4, <2>1, <2>3 DEF LinksInv, LinksAgree, SaveSound, AliveHasSearch
  <2> QED BY <1>3, <2>1, <2>2, <2>4, RequestStep
<1>5. CASE watch.status # "alive"
  <2>1. /\ watch' = [status |-> "alive", search |-> save.search, enabled |-> FALSE,
                     notify |-> FALSE, old |-> FALSE]
        /\ schedule' = FALSE
    BY <1>5 DEF SaveCommits
  <2>2. TypeOK' BY <1>1, <1>2, <1>3, <2>1 DEF TypeOK, Watch
  <2>3. LinksInv' BY <1>1, <1>2, <1>3, <2>1 DEF LinksInv, LinksAgree, SaveSound, AliveHasSearch
  <2> QED BY <1>3, <2>1, <2>2, <2>3, RequestStep
<1> QED BY <1>4, <1>5

LEMMA SaveFailsKeeps == ASSUME ConstantsOK, Inv, SaveFails PROVE Inv'
<1>1. TypeOK /\ IdleSave \in Save /\ IdleSave.pc = "idle" BY NewRows DEF Inv, IdleSave
<1>2. /\ UNCHANGED <<signal, profile, watch, schedule, item, job, worker, deleting, noticed, told>>
      /\ save' = IdleSave /\ Fault
  BY DEF SaveFails
<1>3. faults' \in 0..MaxFaults BY <1>1, <1>2, FaultType
<1>4. TypeOK' BY <1>1, <1>2, <1>3 DEF TypeOK
<1>5. LinksInv' BY <1>1, <1>2 DEF Inv, LinksInv, LinksAgree, SaveSound, AliveHasSearch
<1> QED BY <1>2, <1>4, <1>5, RequestStep

LEMMA DeleteAtSignalKeeps ==
  ASSUME ConstantsOK, Inv, NEW s \in Searches, DeleteAtSignal(s)
  PROVE  Inv'
<1>1. TypeOK /\ signal \in Signal BY DEF Inv, TypeOK
<1>2. /\ UNCHANGED <<profile, watch, schedule, item, job, worker, save, noticed, told, faults>>
      /\ signal' = [signal EXCEPT !.live = signal.live \ {s}]
      /\ deleting' = deleting \union {s}
  BY DEF DeleteAtSignal
<1>3. signal' \in Signal /\ signal'.edition = signal.edition BY <1>1, <1>2 DEF Signal
<1>4. TypeOK' BY <1>1, <1>2, <1>3 DEF TypeOK
<1>5. LinksInv' BY <1>2, LinksKept DEF Inv
<1> QED BY <1>2, <1>3, <1>4, <1>5, RequestStep

LEMMA DeleteDiesKeeps ==
  ASSUME ConstantsOK, Inv, NEW s \in Searches, DeleteDies(s)
  PROVE  Inv'
<1>1. TypeOK BY DEF Inv
<1>2. /\ UNCHANGED <<signal, profile, watch, schedule, item, job, worker, save, noticed, told>>
      /\ deleting' = deleting \ {s} /\ Fault
  BY DEF DeleteDies
<1>3. faults' \in 0..MaxFaults BY <1>1, <1>2, FaultType
<1>4. TypeOK' BY <1>1, <1>2, <1>3 DEF TypeOK
<1>5. LinksInv' BY <1>2, LinksKept DEF Inv
<1> QED BY <1>2, <1>4, <1>5, RequestStep

\* A search whose profile waits for a save is not retired; the rest agrees because
\* a profile has the search of its watch.
LEMMA RetireKeeps == ASSUME ConstantsOK, Inv, NEW s \in Searches, Retire(s) PROVE Inv'
<1>1. TypeOK /\ watch \in Watch /\ LinksInv BY DEF Inv, TypeOK
<1>2. /\ UNCHANGED <<signal, item, job, worker, save, noticed, told, faults>>
      /\ profile = s => save.pc = "idle"
      /\ profile' = IF profile = s THEN None ELSE profile
      /\ deleting' = deleting \ {s} /\ schedule' = Scheduled(s)
  BY DEF Retire
<1>3. s # None BY Bounds
<1>4. CASE Watches(s)
  <2>1. watch' = [watch EXCEPT !.status = "retired", !.enabled = FALSE, !.notify = FALSE]
    BY <1>4 DEF Retire
  <2>2. watch' \in Watch /\ watch'.status = "retired" /\ watch'.old = watch.old
    BY <1>1, <2>1 DEF Watch
  <2>3. watch.status = "alive" /\ profile = s
    BY <1>1, <1>4 DEF Watches, LinksInv, LinksAgree
  <2>4. profile' = None /\ schedule' = FALSE BY <1>2, <1>4, <2>3 DEF Scheduled
  <2>5. TypeOK' BY <1>1, <1>2, <2>2, <2>4 DEF TypeOK
  <2>6. LinksInv' BY <1>2, <2>2, <2>3, <2>4 DEF LinksInv, LinksAgree, SaveSound, AliveHasSearch
  <2>7. ~watch'.old BY <2>2, <2>3, NotOld
  <2> QED BY <1>2, <2>5, <2>6, <2>7, RequestStep
<1>5. CASE ~Watches(s)
  <2>1. watch' = watch BY <1>5 DEF Retire
  <2>2. schedule' = schedule BY <1>1, <1>2, <1>5 DEF Scheduled, TypeOK
  <2>3. profile # s BY <1>1, <1>3, <1>5 DEF Watches, LinksInv, LinksAgree
  <2>4. profile' = profile BY <1>2, <2>3
  <2>5. TypeOK' BY <1>1, <1>2, <2>1, <2>2, <2>4 DEF TypeOK
  <2>6. LinksInv' BY <1>1, <1>2, <2>1, <2>2, <2>4, LinksKept
  <2> QED BY <1>2, <2>1, <2>5, <2>6, RequestStep
<1> QED BY <1>4, <1>5

\* The memory goes when nothing is left that could compare with it.
LEMMA PurgeMemoryKeeps == ASSUME ConstantsOK, Inv, PurgeMemory PROVE Inv'
<1>1. TypeOK /\ OldIsIdle /\ watch.old BY DEF Inv, MemoryInv, PurgeMemory
<1>2. /\ UNCHANGED <<signal, profile, watch, schedule, job, worker, save, deleting, faults>>
      /\ item' = Nothing /\ noticed' = [f \in Folders |-> {}] /\ told' = [f \in Folders |-> <<>>]
  BY DEF PurgeMemory
<1>3. \A w \in Workers : worker[w].pc = "idle" BY <1>1 DEF OldIsIdle
<1>4. \A j \in Jobs : job[j].note = Nothing BY <1>1 DEF OldIsIdle, NoJob
<1>5. TypeOK'
  <2>1. noticed' \in [Folders -> SUBSET Editions] /\ told' \in [Folders -> Seq(Editions)]
    BY <1>2
  <2> QED BY <1>1, <1>2, <2>1, Bounds DEF TypeOK
<1>6. ScansHold' BY <1>2, <1>3 DEF ScansHold
<1>7. ReadSound'
  <2>1. signal.edition \in Snapshot BY <1>1, SignalFields
  <2>2. \A f \in Folders : signal.edition[f] \in Nat BY <2>1, SnapshotValues
  <2> QED BY <1>2, <1>3, <2>2 DEF ReadSound, Nothing, None
<1>8. ToldSound' BY <1>2, <1>4 DEF ToldSound, Nothing, None
<1>9. NewsToldOnce' BY <1>2 DEF NewsToldOnce
<1>10. OldIsIdle' BY <1>1, <1>2 DEF OldIsIdle
<1>11. LinksInv' BY <1>2, LinksKept DEF Inv
<1> QED BY <1>5, <1>6, <1>7, <1>8, <1>9, <1>10, <1>11 DEF Inv, MemoryInv

-----------------------------------------------------------------------------
(* The theorems.                                                           *)

LEMMA InvStep == ASSUME ConstantsOK PROVE Inv /\ [Next]_vars => Inv'
<1> SUFFICES ASSUME Inv, [Next]_vars PROVE Inv' OBVIOUS
<1>1. CASE UNCHANGED vars
  BY <1>1 DEF vars, Inv, TypeOK, MemoryInv, ScansHold, ReadSound, ToldSound, NewsToldOnce,
              OldIsIdle, LinksInv, LinksAgree, SaveSound, AliveHasSearch
<1>2. CASE Age \/ DispatchDueJobs \/ PurgeMemory
  BY <1>2, AgeKeeps, DispatchKeeps, PurgeMemoryKeeps
<1>3. CASE \E f \in Folders : Publish(f) BY <1>3, PublishKeeps
<1>4. CASE \E w \in Workers : WorkerStep(w) \/ ScanFails(w) \/ WorkerDies(w)
  <2>1. PICK w \in Workers : WorkerStep(w) \/ ScanFails(w) \/ WorkerDies(w) BY <1>4
  <2> QED
    BY <2>1, BeginKeeps, LockKeeps, ReadPageKeeps, CommitScanKeeps, ScanClashesKeeps,
       EndJobKeeps, ScanFailsKeeps, WorkerDiesKeeps
    DEF WorkerStep
<1>5. CASE \E j \in Jobs : RecoverJob(j) BY <1>5, RecoverJobKeeps
<1>6. CASE \E enabled, notify \in BOOLEAN : Configure(enabled, notify) BY <1>6, ConfigureKeeps
<1>7. CASE SaveCalls \/ SaveCommits \/ SaveFails
  BY <1>7, SaveCallsKeeps, SaveCommitsKeeps, SaveFailsKeeps
<1>8. CASE \E s \in Searches : DeleteAtSignal(s) \/ Retire(s) \/ DeleteDies(s)
  BY <1>8, DeleteAtSignalKeeps, RetireKeeps, DeleteDiesKeeps
<1> QED BY <1>1, <1>2, <1>3, <1>4, <1>5, <1>6, <1>7, <1>8 DEF Next

\* Every behaviour keeps the types and the inductive invariant of scans, memory
\* and links.
THEOREM InvAlways == ASSUME ConstantsOK PROVE Spec => []Inv
BY InvInit, InvStep, PTL DEF Spec

\* Every variable stays in its type.
THEOREM TypeCorrect == ASSUME ConstantsOK PROVE Spec => []TypeOK
<1>1. Inv => TypeOK BY DEF Inv
<1> QED BY <1>1, InvAlways, PTL

\* scan_watch neither loses nor repeats: whatever is retried, recovered, reconfigured,
\* retired or saved again under a scan, every edition recorded while the watch
\* notified was notified once and in order.
THEOREM NewsAreToldOnce == ASSUME ConstantsOK PROVE Spec => []NewsToldOnce
<1>1. Inv => NewsToldOnce BY DEF Inv, MemoryInv
<1> QED BY <1>1, InvAlways, PTL

\* Save, configure and delete, in any interleaving with each other and with the
\* scans, leave the profile, its watch and the schedule in agreement.
THEOREM LinksAlwaysAgree == ASSUME ConstantsOK PROVE Spec => []LinksAgree
<1>1. Inv => LinksAgree BY DEF Inv, LinksInv
<1> QED BY <1>1, InvAlways, PTL

=============================================================================
