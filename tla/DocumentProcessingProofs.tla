----------------------- MODULE DocumentProcessingProofs -----------------------
(***************************************************************************)
(* Theorems about DocumentProcessing: a ready version was earned and stays *)
(* ready, a deleted document stays deleted, and at rest the document shows *)
(* what became of its current version, for every number of workers,        *)
(* requests, versions and faults.                                          *)
(***************************************************************************)
EXTENDS DocumentProcessing, WellFoundedInduction, TLAPS

\* Jobs and attempts are for versions there are.
VersionsNamed ==
  /\ \A j \in DOMAIN job : job[j].version \in DOMAIN version
  /\ \A a \in DOMAIN attempt : attempt[a].version \in DOMAIN version

\* A busy worker has a job and an attempt on its version; it parses what the
\* scanner found clean.
WorkerSound(w) ==
  worker[w].pc # "idle" =>
    /\ worker[w].job \in DOMAIN job /\ worker[w].attempt \in DOMAIN attempt
    /\ attempt[worker[w].attempt].version = job[worker[w].job].version
    /\ worker[w].pc \in {"parsing", "chunking"} => ~infected

\* The recovery holds an attempt that will not succeed any more.
RecoverySound ==
  recovery.pc = "read" =>
    /\ recovery.attempt \in DOMAIN attempt
    /\ attempt[recovery.attempt].expired
    /\ attempt[recovery.attempt].status # "succeeded"

\* A request has read a document that was not deleted, and the next version.
RequestSound(r) ==
  request[r].pc = "read" =>
    /\ request[r].doc.status # "deleted" /\ ~request[r].doc.deletedAt
    /\ request[r].next \in 1..(Len(version) + 1)

\* Nobody owns a version that is ready, and its chunks are those of an attempt.
ReadyIsFree ==
  \A v \in DOMAIN version : version[v].status = "ready" =>
    version[v].token = None /\ version[v].chunks \in DOMAIN attempt

Inv ==
  /\ TypeOK /\ VersionsNamed
  /\ \A w \in Workers : WorkerSound(w)
  /\ RecoverySound
  /\ \A r \in Requests : RequestSound(r)
  /\ ReadyIsFree /\ ReadyIsEarned

\* What no step may do.
Kept ==
  /\ doc.status = "deleted" => doc'.status = "deleted"
  /\ \A v \in DOMAIN version :
       /\ version[v].status = "ready" =>
            \/ version'[v].status = "purged" /\ doc.status = "deleted"
            \/ version'[v] = version[v]
       /\ doc.status # "ready" /\ doc'.status = "ready"
            => version'[doc'.current].status = "ready"

-----------------------------------------------------------------------------
(* Rows.                                                                   *)

LEMMA Replaced ==
  ASSUME NEW S, NEW s \in Seq(S), NEW i \in DOMAIN s, NEW x \in S
  PROVE  LET t == [s EXCEPT ![i] = x]
         IN  /\ t \in Seq(S) /\ Len(t) = Len(s) /\ DOMAIN t = DOMAIN s /\ t[i] = x
             /\ \A j \in DOMAIN s : j # i => t[j] = s[j]
OBVIOUS

LEMMA Mapped ==
  ASSUME NEW S, NEW s \in Seq(S), NEW t, t = [i \in DOMAIN s |-> t[i]],
         \A i \in DOMAIN s : t[i] \in S
  PROVE  t \in Seq(S) /\ Len(t) = Len(s) /\ DOMAIN t = DOMAIN s
OBVIOUS

LEMMA Appended ==
  ASSUME NEW S, NEW s \in Seq(S), NEW x \in S
  PROVE  LET t == Append(s, x)
         IN  /\ t \in Seq(S) /\ Len(t) = Len(s) + 1 /\ DOMAIN t = DOMAIN s \cup {Len(s) + 1}
             /\ t[Len(s) + 1] = x /\ \A j \in DOMAIN s : t[j] = s[j]
OBVIOUS

LEMMA FlushedDoc ==
  ASSUME NEW row \in Doc, NEW read \in Doc, NEW new \in Doc
  PROVE  LET d == Flush(row, read, new)
         IN  /\ d \in Doc
             /\ d.status = IF new.status = read.status THEN row.status ELSE new.status
             /\ d.deletedAt = IF new.deletedAt = read.deletedAt THEN row.deletedAt ELSE new.deletedAt
BY DEF Flush, Doc

LEMMA Fields ==
  ASSUME TypeOK
  PROVE  /\ \A v \in DOMAIN version : version[v] \in Version
         /\ \A a \in DOMAIN attempt : attempt[a] \in Attempt /\ a \in Nat /\ a # None
         /\ \A j \in DOMAIN job : job[j] \in Job
         /\ \A w \in Workers : worker[w] \in WorkerState
         /\ \A r \in Requests : request[r] \in RequestState
         /\ Len(version) \in Nat /\ DOMAIN version = 1..Len(version)
BY DEF TypeOK, None

LEMMA NewRows ==
  /\ NewDoc \in Doc /\ NewVersion \in Version /\ \A v \in Nat : NewJob(v) \in Job
  /\ IdleWorker \in WorkerState /\ IdleRecovery \in Recovery /\ IdleRequest \in RequestState
BY DEF NewDoc, Doc, NewVersion, Version, NewJob, Job, IdleWorker, WorkerState, IdleRecovery,
       Recovery, IdleRequest, RequestState, None

LEMMA FaultType == ASSUME TypeOK, NEW kind, Fault(kind) PROVE faults' \in 0..MaxFaults
BY DocumentAssumption DEF TypeOK, Fault

LEMMA InvInit == Init => Inv
<1> SUFFICES ASSUME Init PROVE Inv OBVIOUS
<1>1. doc \in Doc /\ doc.status = "queued" /\ doc.deletedAt = FALSE /\ infected \in BOOLEAN
  BY NewRows DEF Init, NewDoc
<1>2. version \in Seq(Version) /\ DOMAIN version = {1} /\ version[1] = NewVersion
  BY NewRows DEF Init
<1>3. attempt \in Seq(Attempt) /\ DOMAIN attempt = {} BY DEF Init
<1>4. job \in Seq(Job) /\ DOMAIN job = {1} /\ job[1].version = 1
  <2>1. NewJob(1) \in Job /\ NewJob(1).version = 1 BY NewRows DEF NewJob
  <2> QED BY <2>1 DEF Init
<1>5. worker \in [Workers -> WorkerState] /\ \A w \in Workers : worker[w].pc = "idle"
  BY NewRows DEF Init, IdleWorker
<1>6. recovery \in Recovery /\ recovery.pc = "idle" BY NewRows DEF Init, IdleRecovery
<1>7. request \in [Requests -> RequestState] /\ \A r \in Requests : request[r].pc = "idle"
  BY NewRows DEF Init, IdleRequest
<1>8. faults \in 0..MaxFaults BY DocumentAssumption DEF Init
<1>9. TypeOK BY <1>1, <1>2, <1>3, <1>4, <1>5, <1>6, <1>7, <1>8 DEF TypeOK
<1>10. VersionsNamed BY <1>2, <1>3, <1>4 DEF VersionsNamed
<1>11. ReadyIsFree /\ ReadyIsEarned BY <1>2 DEF ReadyIsFree, ReadyIsEarned, NewVersion
<1> QED BY <1>5, <1>6, <1>7, <1>9, <1>10, <1>11 DEF Inv, WorkerSound, RecoverySound, RequestSound

-----------------------------------------------------------------------------
(* What steps do to the tables.                                            *)

VersionsGrow ==
  version' \in Seq(Version) /\ Len(version) <= Len(version')

AttemptsGrow ==
  /\ attempt' \in Seq(Attempt)
  /\ \A a \in DOMAIN attempt :
       /\ a \in DOMAIN attempt' /\ attempt'[a].version = attempt[a].version
       /\ attempt[a].status = "succeeded" => attempt'[a].status = "succeeded"
       /\ attempt[a].expired =>
            attempt'[a].expired /\ (attempt'[a].status = "succeeded" => attempt[a].status = "succeeded")
  /\ \A a \in DOMAIN attempt' : attempt'[a].version \in DOMAIN version'

JobsGrow ==
  /\ job' \in Seq(Job)
  /\ \A j \in DOMAIN job : j \in DOMAIN job' /\ job'[j].version = job[j].version
  /\ \A j \in DOMAIN job' : job'[j].version \in DOMAIN version'

WorkersSound ==
  /\ worker' \in [Workers -> WorkerState]
  /\ \A w \in Workers : worker'[w] = worker[w] \/ WorkerSound(w)'

RequestsSound ==
  /\ request' \in [Requests -> RequestState]
  /\ \A r \in Requests : request'[r] = request[r] \/ RequestSound(r)'

LEMMA Change ==
  ASSUME Inv, UNCHANGED infected, doc' \in Doc, CheckHolds(doc'),
         VersionsGrow, AttemptsGrow, JobsGrow, WorkersSound, RequestsSound,
         recovery' \in Recovery, recovery' = recovery \/ RecoverySound', faults' \in 0..MaxFaults,
         ReadyIsFree', ReadyIsEarned'
  PROVE  Inv'
<1> USE DEF Inv
<1>1. TypeOK'
  BY DEF TypeOK, CheckHolds, VersionsGrow, AttemptsGrow, JobsGrow, WorkersSound, RequestsSound, Doc
<1>2. VersionsNamed' BY DEF VersionsNamed, AttemptsGrow, JobsGrow
<1>3. \A w \in Workers : WorkerSound(w)'
  <2> SUFFICES ASSUME NEW w \in Workers, worker'[w] = worker[w] PROVE WorkerSound(w)'
    BY DEF WorkersSound
  <2>1. WorkerSound(w) OBVIOUS
  <2> QED BY <2>1 DEF WorkerSound, AttemptsGrow, JobsGrow
<1>4. RecoverySound'
  <2>1. CASE recovery' = recovery BY <2>1 DEF RecoverySound, AttemptsGrow
  <2> QED BY <2>1
<1>5. \A r \in Requests : RequestSound(r)'
  <2> SUFFICES ASSUME NEW r \in Requests, request'[r] = request[r] PROVE RequestSound(r)'
    BY DEF RequestsSound
  <2>1. RequestSound(r) OBVIOUS
  <2>2. Len(version) \in Nat /\ Len(version') \in Nat /\ Len(version) <= Len(version')
    BY Fields DEF VersionsGrow
  <2> QED BY <2>1, <2>2 DEF RequestSound
<1> QED BY <1>1, <1>2, <1>3, <1>4, <1>5

\* Versions that keep their chunks, none of which becomes ready.
LEMMA VersionsKept ==
  ASSUME Inv, UNCHANGED infected, AttemptsGrow, version' \in Seq(Version),
         \A v \in DOMAIN version' :
           \/ version'[v] = NewVersion
           \/ /\ v \in DOMAIN version /\ version'[v].chunks = version[v].chunks
              /\ version'[v].status = "ready" => version'[v] = version[v]
  PROVE  ReadyIsFree' /\ ReadyIsEarned'
<1> USE DEF Inv
<1>1. NewVersion.status # "ready" /\ NewVersion.chunks = None BY DEF NewVersion
<1>2. ReadyIsFree' BY <1>1 DEF ReadyIsFree, AttemptsGrow
<1>3. ReadyIsEarned'
  <2> SUFFICES ASSUME NEW v \in DOMAIN version'
               PROVE  /\ version'[v].status = "ready" =>
                           /\ version'[v].chunks # None
                           /\ attempt'[version'[v].chunks].status = "succeeded"
                           /\ attempt'[version'[v].chunks].version = v
                      /\ infected => version'[v].chunks = None
    BY DEF ReadyIsEarned
  <2>1. CASE version'[v] = NewVersion BY <1>1, <2>1
  <2>2. CASE v \in DOMAIN version /\ version'[v].chunks = version[v].chunks
             /\ (version'[v].status = "ready" => version'[v] = version[v])
    <3>1. infected => version'[v].chunks = None BY <2>2 DEF ReadyIsEarned
    <3>2. CASE version'[v].status = "ready"
      <4> DEFINE a == version[v].chunks
      <4>1. a # None /\ attempt[a].status = "succeeded" /\ attempt[a].version = v
        BY <2>2, <3>2 DEF ReadyIsEarned
      <4>2. a \in DOMAIN attempt BY <2>2, <3>2 DEF ReadyIsFree
      <4> QED BY <2>2, <3>1, <4>1, <4>2 DEF AttemptsGrow
    <3> QED BY <3>1, <3>2
  <2> QED BY <2>1, <2>2
<1> QED BY <1>2, <1>3

LEMMA Same ==
  ASSUME Inv
  PROVE  /\ UNCHANGED version => VersionsGrow
         /\ UNCHANGED attempt /\ VersionsGrow => AttemptsGrow
         /\ UNCHANGED job /\ VersionsGrow => JobsGrow
         /\ UNCHANGED worker => WorkersSound
         /\ UNCHANGED request => RequestsSound
         /\ UNCHANGED recovery => recovery' \in Recovery
         /\ UNCHANGED faults => faults' \in 0..MaxFaults
         /\ UNCHANGED doc => doc' \in Doc /\ CheckHolds(doc')
<1> USE DEF Inv
<1>1. UNCHANGED version => VersionsGrow BY Fields DEF VersionsGrow, TypeOK
<1>2. VersionsGrow => \A v \in DOMAIN version : v \in DOMAIN version'
  <2> SUFFICES ASSUME VersionsGrow PROVE \A v \in DOMAIN version : v \in DOMAIN version'
    OBVIOUS
  <2>1. /\ DOMAIN version = 1..Len(version) /\ Len(version) \in Nat
        /\ DOMAIN version' = 1..Len(version') /\ Len(version') \in Nat
        /\ Len(version) <= Len(version')
    BY Fields DEF VersionsGrow
  <2> QED BY <2>1
<1>3. UNCHANGED attempt /\ VersionsGrow => AttemptsGrow
  BY <1>2 DEF AttemptsGrow, TypeOK, VersionsNamed
<1>4. UNCHANGED job /\ VersionsGrow => JobsGrow BY <1>2 DEF JobsGrow, TypeOK, VersionsNamed
<1>5. UNCHANGED worker => WorkersSound BY DEF WorkersSound, TypeOK
<1>6. UNCHANGED request => RequestsSound BY DEF RequestsSound, TypeOK
<1>7. /\ UNCHANGED recovery => recovery' \in Recovery
      /\ UNCHANGED faults => faults' \in 0..MaxFaults
  BY DEF TypeOK
<1>8. UNCHANGED doc => doc' \in Doc /\ CheckHolds(doc') BY DEF TypeOK, CheckHolds
<1> QED BY <1>1, <1>3, <1>4, <1>5, <1>6, <1>7, <1>8

LEMMA QuietChange ==
  ASSUME Inv, UNCHANGED <<doc, infected, version>>, AttemptsGrow, JobsGrow, WorkersSound,
         RequestsSound, recovery' \in Recovery, recovery' = recovery \/ RecoverySound',
         faults' \in 0..MaxFaults
  PROVE  Inv' /\ Kept
<1>1. VersionsGrow /\ doc' \in Doc /\ CheckHolds(doc') BY Same
<1>2. ReadyIsFree' /\ ReadyIsEarned' BY VersionsKept DEF Inv, TypeOK
<1>3. Inv' BY <1>1, <1>2, Change
<1>4. Kept BY DEF Kept
<1> QED BY <1>3, <1>4

LEMMA OneAttempt ==
  ASSUME Inv, VersionsGrow, NEW a \in DOMAIN attempt, NEW row \in Attempt,
         row.version = attempt[a].version,
         attempt[a].status # "succeeded",
         attempt[a].expired => row.expired /\ row.status # "succeeded",
         attempt' = [attempt EXCEPT ![a] = row]
  PROVE  AttemptsGrow /\ attempt'[a] = row
<1>1. attempt \in Seq(Attempt) BY DEF Inv, TypeOK
<1>2. /\ attempt' \in Seq(Attempt) /\ DOMAIN attempt' = DOMAIN attempt /\ attempt'[a] = row
      /\ \A b \in DOMAIN attempt : b # a => attempt'[b] = attempt[b]
  BY <1>1, Replaced
<1>3. \A b \in DOMAIN attempt : attempt[b].version \in DOMAIN version'
  <2>1. /\ DOMAIN version = 1..Len(version) /\ Len(version) \in Nat
        /\ DOMAIN version' = 1..Len(version') /\ Len(version') \in Nat
        /\ Len(version) <= Len(version')
    BY Fields DEF VersionsGrow, Inv
  <2> QED BY <2>1 DEF Inv, VersionsNamed
<1> QED BY <1>2, <1>3 DEF AttemptsGrow

LEMMA OneJob ==
  ASSUME Inv, VersionsGrow, NEW j \in DOMAIN job, NEW status \in {"queued", "running", "ended"},
         job' = [job EXCEPT ![j].status = status]
  PROVE  JobsGrow
<1> DEFINE row == [job[j] EXCEPT !.status = status]
<1>1. job \in Seq(Job) /\ job[j] \in Job BY DEF Inv, TypeOK
<1>2. row \in Job /\ row.version = job[j].version BY <1>1 DEF Job
<1>3. job' = [job EXCEPT ![j] = row] OBVIOUS
<1> HIDE DEF row
<1>4. /\ job' \in Seq(Job) /\ DOMAIN job' = DOMAIN job /\ job'[j] = row
      /\ \A k \in DOMAIN job : k # j => job'[k] = job[k]
  BY <1>1, <1>2, <1>3, Replaced
<1>5. \A k \in DOMAIN job : job[k].version \in DOMAIN version'
  <2>1. /\ DOMAIN version = 1..Len(version) /\ Len(version) \in Nat
        /\ DOMAIN version' = 1..Len(version') /\ Len(version') \in Nat
        /\ Len(version) <= Len(version')
    BY Fields DEF VersionsGrow, Inv
  <2> QED BY <2>1 DEF Inv, VersionsNamed
<1> QED BY <1>2, <1>4, <1>5 DEF JobsGrow

\* One worker changes.
LEMMA OneWorker ==
  ASSUME Inv, NEW w \in Workers, NEW q \in WorkerState, worker' = [worker EXCEPT ![w] = q],
         WorkerSound(w)'
  PROVE  WorkersSound
BY DEF WorkersSound, Inv, TypeOK

LEMMA IdleWorkers ==
  ASSUME Inv, NEW w \in Workers, worker' = [worker EXCEPT ![w] = IdleWorker]
  PROVE  WorkersSound
<1>1. worker'[w].pc = "idle" BY DEF IdleWorker, Inv, TypeOK
<1> QED BY <1>1, NewRows, OneWorker DEF WorkerSound

\* A worker's delivery ends.
LEMMA EndedJob ==
  ASSUME Inv, VersionsGrow, NEW w \in Workers, worker[w].pc # "idle", EndJob(w)
  PROVE  JobsGrow /\ WorkersSound
<1>1. worker[w].job \in DOMAIN job BY DEF Inv, WorkerSound
<1>2. JobsGrow BY <1>1, OneJob DEF EndJob
<1> QED BY <1>2, IdleWorkers DEF EndJob

LEMMA AppendedJob ==
  ASSUME Inv, VersionsGrow, NEW v \in Nat, v \in DOMAIN version', job' = Append(job, NewJob(v))
  PROVE  JobsGrow
<1>1. job \in Seq(Job) /\ NewJob(v) \in Job /\ NewJob(v).version = v
  BY NewRows DEF Inv, TypeOK, NewJob
<1>2. /\ job' \in Seq(Job) /\ DOMAIN job' = DOMAIN job \cup {Len(job) + 1}
      /\ job'[Len(job) + 1] = NewJob(v) /\ \A j \in DOMAIN job : job'[j] = job[j]
  BY <1>1, Appended
<1>3. \A j \in DOMAIN job : job[j].version \in DOMAIN version'
  <2>1. /\ DOMAIN version = 1..Len(version) /\ Len(version) \in Nat
        /\ DOMAIN version' = 1..Len(version') /\ Len(version') \in Nat
        /\ Len(version) <= Len(version')
    BY Fields DEF VersionsGrow, Inv
  <2> QED BY <2>1 DEF Inv, VersionsNamed
<1> QED BY <1>1, <1>2, <1>3 DEF JobsGrow

LEMMA IdleRecoveries == IdleRecovery \in Recovery /\ (recovery' = IdleRecovery => RecoverySound')
BY NewRows DEF RecoverySound, IdleRecovery

-----------------------------------------------------------------------------
(* The steps of a worker.                                                  *)

\* Deliveries that start nothing, and phases that find their lease lost.
LEMMA RefuseKeeps ==
  ASSUME Inv, NEW w \in Workers, NEW j \in DOMAIN job, Refuse(w, j) \/ StartDeadlocks(w, j)
  PROVE  Inv' /\ Kept
<1>1. /\ UNCHANGED <<doc, infected, version, attempt, worker, recovery, request, faults>>
      /\ job' = [job EXCEPT ![j].status = "ended"]
  BY DEF Refuse, StartDeadlocks
<1>2. VersionsGrow /\ AttemptsGrow /\ WorkersSound /\ RequestsSound /\ recovery' \in Recovery
      /\ faults' \in 0..MaxFaults
  BY <1>1, Same
<1>3. JobsGrow BY <1>1, <1>2, OneJob
<1> QED BY <1>1, <1>2, <1>3, QuietChange

LEMMA LoseLeaseKeeps ==
  ASSUME Inv, NEW w \in Workers, LoseLease(w)
  PROVE  Inv' /\ Kept
<1>1. /\ UNCHANGED <<doc, infected, version, attempt, recovery, request, faults>>
      /\ EndJob(w) /\ worker[w].pc # "idle"
  BY DEF LoseLease
<1>2. VersionsGrow /\ AttemptsGrow /\ RequestsSound /\ recovery' \in Recovery
      /\ faults' \in 0..MaxFaults
  BY <1>1, Same
<1>3. JobsGrow /\ WorkersSound BY <1>1, <1>2, EndedJob
<1> QED BY <1>1, <1>2, <1>3, QuietChange

LEMMA DiesKeeps ==
  ASSUME Inv, NEW w \in Workers, WorkerDies(w)
  PROVE  Inv' /\ Kept
<1>1. /\ UNCHANGED <<doc, infected, version, attempt, recovery, request>>
      /\ worker[w].pc # "idle" /\ Fault("crash")
      /\ worker' = [worker EXCEPT ![w] = IdleWorker]
      /\ \E s \in {"queued", "ended"} : job' = [job EXCEPT ![worker[w].job].status = s]
  BY DEF WorkerDies
<1>2. VersionsGrow /\ AttemptsGrow /\ RequestsSound /\ recovery' \in Recovery
  BY <1>1, Same
<1>3. faults' \in 0..MaxFaults BY <1>1, FaultType DEF Inv
<1>4. worker[w].job \in DOMAIN job BY <1>1 DEF Inv, WorkerSound
<1>5. JobsGrow BY <1>1, <1>2, <1>4, OneJob
<1>6. WorkersSound BY <1>1, IdleWorkers
<1> QED BY <1>1, <1>2, <1>3, <1>5, <1>6, QuietChange

\* A phase ends: the attempt moves on with its worker.
LEMMA PhaseKeeps ==
  ASSUME Inv, NEW w \in Workers, Scanned(w) \/ Parsed(w)
  PROVE  Inv' /\ Kept
<1> USE DEF Inv
<1> DEFINE a == worker[w].attempt
<1>1. PICK status \in {"parsing", "chunking"}, pc \in {"infected", "parsing", "chunking"} :
        /\ attempt' = [attempt EXCEPT ![a].status = status]
        /\ worker' = [worker EXCEPT ![w].pc = pc]
        /\ pc # "infected" => ~infected
        /\ worker[w].pc # "idle"
        /\ attempt[a].status # "succeeded"
  BY DEF Scanned, Parsed, Renewable, WorkerSound
<1>2. UNCHANGED <<doc, infected, version, job, recovery, request, faults>> BY DEF Scanned, Parsed
<1>3. /\ a \in DOMAIN attempt /\ attempt[a] \in Attempt /\ worker[w] \in WorkerState
      /\ worker[w].job \in DOMAIN job /\ attempt[a].version = job[worker[w].job].version
  BY <1>1, Fields DEF WorkerSound
<1> DEFINE row == [attempt[a] EXCEPT !.status = status]
           q == [worker[w] EXCEPT !.pc = pc]
<1>4. /\ row \in Attempt /\ row.version = attempt[a].version /\ row.status # "succeeded"
      /\ row.expired = attempt[a].expired
  <2> HIDE DEF a
  <2> QED BY ONLY <1>1, <1>3 DEF Attempt
<1>5. q \in WorkerState /\ q.pc = pc /\ q.job = worker[w].job /\ q.attempt = worker[w].attempt
  BY ONLY <1>1, <1>3 DEF WorkerState
<1>6. attempt' = [attempt EXCEPT ![a] = row] /\ worker' = [worker EXCEPT ![w] = q]
  BY <1>1
<1> HIDE DEF row, q
<1>7. VersionsGrow /\ RequestsSound /\ recovery' \in Recovery /\ faults' \in 0..MaxFaults
  BY <1>2, Same
<1>8. AttemptsGrow /\ attempt'[a] = row
  <2>1. attempt[a].expired => row.expired /\ row.status # "succeeded" BY <1>4
  <2> HIDE DEF a, Inv
  <2> QED BY <1>1, <1>3, <1>4, <1>6, <1>7, <2>1, OneAttempt
<1>9. JobsGrow BY <1>2, <1>7, Same
<1>10. WorkersSound
  <2>1. worker'[w] = q BY <1>6 DEF TypeOK
  <2>2. a \in DOMAIN attempt' BY <1>3, <1>8 DEF AttemptsGrow
  <2>3. WorkerSound(w)' BY <1>1, <1>2, <1>3, <1>4, <1>5, <1>8, <2>1, <2>2 DEF WorkerSound
  <2> QED BY <1>5, <1>6, <2>3, OneWorker
<1> QED BY <1>2, <1>7, <1>8, <1>9, <1>10, QuietChange

LEMMA LeaseKeeps ==
  ASSUME Inv, NEW a \in DOMAIN attempt, LeaseExpires(a)
  PROVE  Inv' /\ Kept
<1> USE DEF Inv
<1>1. /\ attempt' = [attempt EXCEPT ![a].expired = TRUE] /\ attempt[a].status # "succeeded"
      /\ UNCHANGED <<doc, infected, version, job, worker, recovery, request>>
      /\ Fault("slow") \/ UNCHANGED faults
  BY DEF LeaseExpires, Active
<1> DEFINE row == [attempt[a] EXCEPT !.expired = TRUE]
<1>2. attempt[a] \in Attempt BY Fields
<1>3. /\ row \in Attempt /\ row.version = attempt[a].version /\ row.status = attempt[a].status
      /\ row.expired
  BY ONLY <1>2 DEF Attempt
<1>4. attempt' = [attempt EXCEPT ![a] = row] BY <1>1
<1> HIDE DEF row
<1>5. VersionsGrow /\ RequestsSound /\ WorkersSound /\ recovery' \in Recovery BY <1>1, Same
<1>6. AttemptsGrow BY <1>1, <1>3, <1>4, <1>5, OneAttempt
<1>7. JobsGrow BY <1>1, <1>5, Same
<1>8. faults' \in 0..MaxFaults BY <1>1, Same, FaultType
<1> QED BY <1>1, <1>5, <1>6, <1>7, <1>8, QuietChange

LEMMA ReadExpiredKeeps ==
  ASSUME Inv, NEW a \in DOMAIN attempt, ReadExpired(a)
  PROVE  Inv' /\ Kept
<1> USE DEF Inv
<1>1. /\ recovery' = [pc |-> "read", attempt |-> a, doc |-> doc]
      /\ attempt[a].status # "succeeded" /\ attempt[a].expired
      /\ UNCHANGED <<doc, infected, version, attempt, job, worker, request, faults>>
  BY DEF ReadExpired, Active
<1>2. VersionsGrow /\ RequestsSound /\ WorkersSound /\ faults' \in 0..MaxFaults BY <1>1, Same
<1>3. AttemptsGrow /\ JobsGrow BY <1>1, <1>2, Same
<1>4. recovery' \in Recovery BY <1>1, Fields DEF Recovery, TypeOK
<1>5. RecoverySound' BY <1>1 DEF RecoverySound
<1> QED BY <1>1, <1>2, <1>3, <1>4, <1>5, QuietChange

LEMMA ReadForRequestKeeps ==
  ASSUME Inv, NEW r \in Requests, NEW kind \in {"delete", "reprocess"}, ReadForRequest(r, kind)
  PROVE  Inv' /\ Kept
<1> USE DEF Inv
<1> DEFINE q == [pc |-> "read", kind |-> kind, doc |-> doc, next |-> Len(version) + 1]
<1>1. /\ request' = [request EXCEPT ![r] = q] /\ doc.status # "deleted"
      /\ UNCHANGED <<doc, infected, version, attempt, job, worker, recovery, faults>>
  BY DEF ReadForRequest
<1>2. VersionsGrow /\ WorkersSound /\ recovery' \in Recovery /\ faults' \in 0..MaxFaults
  BY <1>1, Same
<1>3. AttemptsGrow /\ JobsGrow BY <1>1, <1>2, Same
<1>4. Len(version) \in Nat /\ doc \in Doc /\ doc.deletedAt = FALSE
  BY <1>1, Fields DEF TypeOK, Doc
<1>5. q \in RequestState BY <1>4 DEF RequestState
<1>6. q.doc = doc /\ q.next \in 1..(Len(version) + 1) BY <1>4
<1> HIDE DEF q
<1>7. RequestsSound
  <2>1. request' \in [Requests -> RequestState] /\ request'[r] = q
        /\ \A t \in Requests : t # r => request'[t] = request[t]
    BY <1>1, <1>5 DEF TypeOK
  <2>2. RequestSound(r)' BY <1>1, <1>4, <1>6, <2>1 DEF RequestSound
  <2> QED BY <2>1, <2>2 DEF RequestsSound
<1> QED BY <1>1, <1>2, <1>3, <1>7, QuietChange

-----------------------------------------------------------------------------
(* The steps that write the document or its versions.                      *)

LEMMA KeptIf ==
  ASSUME doc.status = "deleted" => doc'.status = "deleted",
         doc'.status = "ready" => doc.status = "ready",
         \A v \in DOMAIN version : version[v].status = "ready" => version'[v] = version[v]
  PROVE  Kept
BY DEF Kept

\* One version that is not ready is written, and does not become ready by it.
LEMMA OneVersion ==
  ASSUME Inv, NEW v \in DOMAIN version, NEW row \in Version, version' = [version EXCEPT ![v] = row]
  PROVE  /\ VersionsGrow /\ version' \in Seq(Version) /\ version'[v] = row
         /\ DOMAIN version' = DOMAIN version
         /\ \A u \in DOMAIN version : u # v => version'[u] = version[u]
<1>1. version \in Seq(Version) BY DEF Inv, TypeOK
<1>2. /\ version' \in Seq(Version) /\ Len(version') = Len(version) /\ version'[v] = row
      /\ DOMAIN version' = DOMAIN version
      /\ \A u \in DOMAIN version : u # v => version'[u] = version[u]
  BY <1>1, Replaced
<1>3. Len(version) <= Len(version') BY <1>1, <1>2
<1> QED BY <1>2, <1>3 DEF VersionsGrow

\* A version that an execution or a recovery owns is not ready.
LEMMA OwnedVersion ==
  ASSUME Inv, NEW a \in DOMAIN attempt, NEW v \in DOMAIN version, version[v].token = a
  PROVE  version[v].status # "ready"
BY Fields DEF Inv, ReadyIsFree

LEMMA BusyWorker ==
  ASSUME Inv, NEW w \in Workers, worker[w].pc # "idle"
  PROVE  LET a == worker[w].attempt
             v == job[worker[w].job].version
         IN  /\ a \in DOMAIN attempt /\ attempt[a] \in Attempt /\ attempt[a].version = v
             /\ v \in DOMAIN version /\ version[v] \in Version
             /\ Fenced(w) => doc.current = v /\ version[v].status # "ready"
<1> DEFINE a == worker[w].attempt
           v == job[worker[w].job].version
<1>1. a \in DOMAIN attempt /\ attempt[a].version = v /\ worker[w].job \in DOMAIN job
  BY DEF Inv, WorkerSound
<1>2. v \in DOMAIN version BY <1>1 DEF Inv, VersionsNamed
<1>3. attempt[a] \in Attempt /\ version[v] \in Version BY <1>1, <1>2, Fields DEF Inv
<1>4. Fenced(w) => doc.current = v /\ version[v].token = a BY DEF Fenced
<1> HIDE DEF a, v
<1>5. version[v].token = a => version[v].status # "ready" BY <1>1, <1>2, OwnedVersion
<1> QED BY <1>1, <1>2, <1>3, <1>4, <1>5 DEF a, v

\* The documents row with another status keeps its constraint only while it is
\* not deleted.
LEMMA OtherStatus ==
  ASSUME Inv, NEW status \in {"queued", "processing", "ready", "failed", "quarantined"}
  PROVE  LET new == [doc EXCEPT !.status = status]
         IN  /\ new \in Doc /\ new.status = status /\ new.current = doc.current
             /\ CheckHolds(new) <=> doc.status # "deleted"
BY DEF Inv, TypeOK, Doc, CheckHolds

LEMMA StartKeeps ==
  ASSUME Inv, NEW w \in Workers, NEW j \in DOMAIN job, Start(w, j)
  PROVE  Inv' /\ Kept
<1> DEFINE last == LastAttempt(j)
           v == job[j].version
           n == Len(attempt) + 1
           new == [status |-> "scanning", version |-> v, job |-> j, expired |-> FALSE]
           left == [a \in DOMAIN attempt |->
                      IF a = last THEN [attempt[a] EXCEPT !.status = "abandoned"] ELSE attempt[a]]
           row == [version[v] EXCEPT !.status = "scanning", !.token = n]
           q == [pc |-> "scanning", job |-> j, attempt |-> n]
           d == [doc EXCEPT !.status = "processing"]
<1>1. /\ attempt' = Append(left, new) /\ version' = [version EXCEPT ![v] = row]
      /\ worker' = [worker EXCEPT ![w] = q] /\ doc' = d
      /\ job' = [job EXCEPT ![j].status = "running"]
      /\ UNCHANGED <<infected, request, faults>>
      /\ recovery' = IdleRecovery \/ recovery' = recovery
      /\ doc.status # "deleted" /\ version[v].status # "ready"
      /\ last # None => attempt[last].status # "succeeded"
  BY DEF Start, Startable
<1>2. /\ v \in DOMAIN version /\ version[v] \in Version /\ v \in Nat /\ j \in Nat
      /\ attempt \in Seq(Attempt) /\ n \in Nat /\ n # None /\ n \notin DOMAIN attempt
      /\ version \in Seq(Version)
  BY Fields DEF Inv, TypeOK, VersionsNamed, Job, None
<1>3. new \in Attempt /\ new.version = v BY <1>2 DEF Attempt
<1>4. row \in Version /\ row.status = "scanning" /\ row.chunks = version[v].chunks
  <2> HIDE DEF v, n
  <2> QED BY ONLY <1>2 DEF Version
<1>5. q \in WorkerState BY <1>2 DEF WorkerState
<1>6. d \in Doc /\ d.status = "processing" /\ CheckHolds(d) BY <1>1, OtherStatus
<1>7. \A a \in DOMAIN attempt :
        /\ left[a] \in Attempt /\ left[a].version = attempt[a].version
        /\ left[a].expired = attempt[a].expired
        /\ \/ left[a].status = attempt[a].status
           \/ attempt[a].status # "succeeded" /\ left[a].status = "abandoned"
  <2> SUFFICES ASSUME NEW a \in DOMAIN attempt
               PROVE  /\ left[a] \in Attempt /\ left[a].version = attempt[a].version
                      /\ left[a].expired = attempt[a].expired
                      /\ \/ left[a].status = attempt[a].status
                         \/ attempt[a].status # "succeeded" /\ left[a].status = "abandoned"
    OBVIOUS
  <2>1. attempt[a] \in Attempt /\ a # None BY Fields DEF Inv
  <2>2. CASE a = last
    <3>1. left[a] = [attempt[a] EXCEPT !.status = "abandoned"] /\ attempt[a].status # "succeeded"
      BY <1>1, <2>1, <2>2
    <3> HIDE DEF left
    <3> QED BY <2>1, <3>1 DEF Attempt
  <2>3. CASE a # last
    <3>1. left[a] = attempt[a]
      <4> HIDE DEF last
      <4> QED BY <2>3
    <3> HIDE DEF left
    <3> QED BY <2>1, <3>1
  <2> QED BY <2>2, <2>3
<1>8. left \in Seq(Attempt) /\ Len(left) = Len(attempt) /\ DOMAIN left = DOMAIN attempt
  <2>1. left = [a \in DOMAIN attempt |-> left[a]] OBVIOUS
  <2> HIDE DEF left
  <2> QED BY <1>2, <1>7, <2>1, Mapped
<1> HIDE DEF left, new, row, q, d, last, v
<1>9. /\ VersionsGrow /\ version' \in Seq(Version) /\ version'[v] = row
      /\ DOMAIN version' = DOMAIN version
      /\ \A u \in DOMAIN version : u # v => version'[u] = version[u]
  BY <1>1, <1>2, <1>4, OneVersion
<1>10. /\ attempt' \in Seq(Attempt) /\ DOMAIN attempt' = DOMAIN attempt \cup {n}
       /\ attempt'[n] = new /\ \A a \in DOMAIN attempt : attempt'[a] = left[a]
  BY <1>1, <1>3, <1>8, Appended
<1> HIDE DEF n
<1>11. AttemptsGrow
  <2>1. \A a \in DOMAIN attempt : attempt[a].version \in DOMAIN version'
    BY <1>9 DEF Inv, VersionsNamed
  <2> QED BY <1>2, <1>3, <1>7, <1>9, <1>10, <2>1 DEF AttemptsGrow
<1>12. JobsGrow BY <1>1, <1>9, OneJob
<1>13. WorkersSound
  <2>1. worker'[w] = q /\ q.job = j /\ q.attempt = n /\ q.pc = "scanning"
    BY <1>1 DEF Inv, TypeOK, q
  <2>2. job'[j].version = v /\ j \in DOMAIN job' BY <1>12 DEF JobsGrow, v
  <2>3. WorkerSound(w)' BY <1>3, <1>10, <2>1, <2>2 DEF WorkerSound
  <2> QED BY <1>1, <1>5, <2>3, OneWorker
<1>14. /\ RequestsSound /\ faults' \in 0..MaxFaults /\ recovery' \in Recovery
       /\ recovery' = recovery \/ RecoverySound'
  BY <1>1, Same, IdleRecoveries
<1>15. ReadyIsFree' /\ ReadyIsEarned'
  BY <1>1, <1>2, <1>4, <1>9, <1>11, VersionsKept
<1>16. Inv' BY <1>1, <1>6, <1>9, <1>11, <1>12, <1>13, <1>14, <1>15, Change
<1>17. Kept BY <1>1, <1>2, <1>6, <1>9, KeptIf
<1> QED BY <1>16, <1>17

LEMMA QuarantineKeeps ==
  ASSUME Inv, NEW w \in Workers, Quarantine(w)
  PROVE  Inv' /\ Kept
<1> DEFINE a == worker[w].attempt
           v == job[worker[w].job].version
           new == [doc EXCEPT !.status = "quarantined"]
           failed == [attempt[a] EXCEPT !.status = "failed"]
           row == [version[v] EXCEPT !.status = "quarantined"]
<1>1. /\ UNCHANGED <<infected, recovery, request, faults>> /\ EndJob(w)
      /\ worker[w].pc # "idle" /\ attempt[a].status = "parsing" /\ ~attempt[a].expired
  BY DEF Quarantine, Renewable
<1>2. /\ a \in DOMAIN attempt /\ attempt[a] \in Attempt
      /\ v \in DOMAIN version /\ version[v] \in Version
      /\ Fenced(w) => version[v].status # "ready"
  BY <1>1, BusyWorker
<1>3. /\ RequestsSound /\ faults' \in 0..MaxFaults /\ recovery' \in Recovery BY <1>1, Same
<1>4. CASE UNCHANGED <<doc, version, attempt>>
  <2>1. VersionsGrow /\ AttemptsGrow BY <1>4, Same
  <2>2. JobsGrow /\ WorkersSound BY <1>1, <2>1, EndedJob
  <2> QED BY <1>1, <1>3, <1>4, <2>1, <2>2, QuietChange
<1>5. CASE ~UNCHANGED <<doc, version, attempt>>
  <2>1. /\ doc' = new /\ version' = [version EXCEPT ![v] = row] /\ CheckHolds(new) /\ Fenced(w)
        /\ attempt' = [attempt EXCEPT ![a] = failed]
    BY <1>5 DEF Quarantine
  <2>2. new \in Doc /\ new.status = "quarantined" /\ doc.status # "deleted"
    BY <2>1, OtherStatus
  <2> HIDE DEF a, v
  <2>3. failed \in Attempt /\ failed.version = attempt[a].version BY ONLY <1>2 DEF Attempt
  <2>4. row \in Version /\ row.status = "quarantined" /\ row.chunks = version[v].chunks
    BY ONLY <1>2 DEF Version
  <2> HIDE DEF new, failed, row
  <2>5. /\ VersionsGrow /\ version' \in Seq(Version) /\ version'[v] = row
        /\ DOMAIN version' = DOMAIN version
        /\ \A u \in DOMAIN version : u # v => version'[u] = version[u]
    BY <1>2, <2>1, <2>4, OneVersion
  <2>6. AttemptsGrow BY <1>1, <1>2, <2>1, <2>3, <2>5, OneAttempt
  <2>7. JobsGrow /\ WorkersSound BY <1>1, <2>5, EndedJob
  <2>8. ReadyIsFree' /\ ReadyIsEarned' BY <1>1, <1>2, <2>4, <2>5, <2>6, VersionsKept
  <2>9. Inv' BY <1>1, <1>3, <2>1, <2>2, <2>5, <2>6, <2>7, <2>8, Change
  <2>10. Kept BY <1>2, <2>1, <2>2, <2>5, KeptIf
  <2> QED BY <2>9, <2>10
<1> QED BY <1>4, <1>5

LEMMA SettleKeeps ==
  ASSUME Inv, NEW w \in Workers, Settle(w)
  PROVE  Inv' /\ Kept
<1> DEFINE a == worker[w].attempt
           v == job[worker[w].job].version
           new == [doc EXCEPT !.status = "ready"]
           row == [status |-> "ready", token |-> None, chunks |-> a]
<1>1. /\ UNCHANGED <<infected, recovery, request, faults>> /\ EndJob(w)
      /\ worker[w].pc = "chunking" /\ attempt[a].status = "chunking" /\ ~attempt[a].expired
  BY DEF Settle, Renewable
<1>2. /\ a \in DOMAIN attempt /\ attempt[a] \in Attempt /\ attempt[a].version = v
      /\ v \in DOMAIN version /\ version[v] \in Version
      /\ Fenced(w) => doc.current = v /\ version[v].status # "ready"
  BY <1>1, BusyWorker
<1>3. /\ RequestsSound /\ faults' \in 0..MaxFaults /\ recovery' \in Recovery BY <1>1, Same
<1>4. CASE UNCHANGED <<doc, version, attempt>>
  <2>1. VersionsGrow /\ AttemptsGrow BY <1>4, Same
  <2>2. JobsGrow /\ WorkersSound BY <1>1, <2>1, EndedJob
  <2> QED BY <1>1, <1>3, <1>4, <2>1, <2>2, QuietChange
<1>5. CASE ~Fenced(w)
  <2> DEFINE left == [attempt[a] EXCEPT !.status = "abandoned"]
  <2>1. attempt' = [attempt EXCEPT ![a] = left] /\ UNCHANGED <<doc, version>>
    BY <1>5 DEF Settle
  <2> HIDE DEF a, v
  <2>2. left \in Attempt /\ left.version = attempt[a].version BY ONLY <1>2 DEF Attempt
  <2> HIDE DEF left
  <2>3. VersionsGrow BY <2>1, Same
  <2>4. AttemptsGrow BY <1>1, <1>2, <2>1, <2>2, <2>3, OneAttempt
  <2>5. JobsGrow /\ WorkersSound BY <1>1, <2>3, EndedJob
  <2> QED BY <1>1, <1>3, <2>1, <2>4, <2>5, QuietChange
<1>6. CASE Fenced(w) /\ ~UNCHANGED <<doc, version, attempt>>
  <2> DEFINE done == [attempt[a] EXCEPT !.status = "succeeded"]
  <2>1. /\ doc' = new /\ version' = [version EXCEPT ![v] = row] /\ CheckHolds(new)
        /\ attempt' = [attempt EXCEPT ![a] = done]
    BY <1>6 DEF Settle
  <2>2. /\ new \in Doc /\ new.status = "ready" /\ doc.status # "deleted"
        /\ new.current = doc.current
    BY <2>1, OtherStatus
  <2>3. ~infected BY <1>1 DEF Inv, WorkerSound
  <2>4. a \in Nat /\ a # None BY <1>2, Fields DEF Inv
  <2> HIDE DEF a, v
  <2>5. done \in Attempt /\ done.version = attempt[a].version /\ done.status = "succeeded"
    BY ONLY <1>2 DEF Attempt
  <2>6. row \in Version /\ row.status = "ready" /\ row.chunks = a /\ row.token = None
    BY <2>4 DEF Version, None
  <2> HIDE DEF new, done, row
  <2>7. /\ VersionsGrow /\ version' \in Seq(Version) /\ version'[v] = row
        /\ DOMAIN version' = DOMAIN version
        /\ \A u \in DOMAIN version : u # v => version'[u] = version[u]
    BY <1>2, <2>1, <2>6, OneVersion
  <2>8. AttemptsGrow /\ attempt'[a] = done BY <1>1, <1>2, <2>1, <2>5, <2>7, OneAttempt
  <2>9. JobsGrow /\ WorkersSound BY <1>1, <2>7, EndedJob
  <2>10. ReadyIsFree'
    <3>1. \A b \in DOMAIN attempt : b \in DOMAIN attempt' BY <2>8 DEF AttemptsGrow
    <3> QED BY <1>2, <2>6, <2>7, <3>1 DEF Inv, ReadyIsFree
  <2>11. ReadyIsEarned'
    <3> SUFFICES ASSUME NEW u \in DOMAIN version
                 PROVE  version'[u].status = "ready" =>
                          /\ version'[u].chunks # None
                          /\ attempt'[version'[u].chunks].status = "succeeded"
                          /\ attempt'[version'[u].chunks].version = u
      BY <1>1, <2>3, <2>7 DEF ReadyIsEarned
    <3>1. CASE u = v BY <1>2, <2>4, <2>5, <2>6, <2>7, <2>8, <3>1
    <3>2. CASE u # v
      <4>1. version'[u] = version[u] BY <2>7, <3>2
      <4>2. version[u].status = "ready" =>
              /\ version[u].chunks # None /\ version[u].chunks \in DOMAIN attempt
              /\ attempt[version[u].chunks].status = "succeeded"
              /\ attempt[version[u].chunks].version = u
        BY DEF Inv, ReadyIsFree, ReadyIsEarned
      <4> QED BY <2>8, <4>1, <4>2 DEF AttemptsGrow
    <3> QED BY <3>1, <3>2
  <2>12. Inv' BY <1>1, <1>3, <2>1, <2>2, <2>7, <2>8, <2>9, <2>10, <2>11, Change
  <2>13. Kept
    <3>1. \A u \in DOMAIN version : version[u].status = "ready" => version'[u] = version[u]
      BY <1>2, <1>6, <2>7
    <3>2. version'[doc'.current].status = "ready" BY <1>2, <1>6, <2>1, <2>2, <2>6, <2>7
    <3> QED BY <2>2, <3>1, <3>2 DEF Kept
  <2> QED BY <2>12, <2>13
<1> QED BY <1>4, <1>5, <1>6

LEMMA FailKeeps ==
  ASSUME Inv, NEW w \in Workers, Fail(w)
  PROVE  Inv' /\ Kept
<1> DEFINE a == worker[w].attempt
           v == job[worker[w].job].version
           new == IF Fenced(w) /\ doc.status # "quarantined"
                    THEN [doc EXCEPT !.status = "failed"] ELSE doc
           failed == [attempt[a] EXCEPT !.status = "failed"]
           row == [version[v] EXCEPT !.status = "failed", !.token = None]
<1>1. /\ UNCHANGED <<infected, recovery, request, faults>> /\ EndJob(w) /\ worker[w].pc # "idle"
  BY DEF Fail
<1>2. /\ a \in DOMAIN attempt /\ attempt[a] \in Attempt
      /\ v \in DOMAIN version /\ version[v] \in Version
      /\ Fenced(w) => version[v].status # "ready"
  BY <1>1, BusyWorker
<1>3. /\ RequestsSound /\ faults' \in 0..MaxFaults /\ recovery' \in Recovery BY <1>1, Same
<1>4. CASE UNCHANGED <<doc, version, attempt>>
  <2>1. VersionsGrow /\ AttemptsGrow BY <1>4, Same
  <2>2. JobsGrow /\ WorkersSound BY <1>1, <2>1, EndedJob
  <2> QED BY <1>1, <1>3, <1>4, <2>1, <2>2, QuietChange
<1>5. CASE ~UNCHANGED <<doc, version, attempt>>
  <2>1. /\ doc' = new /\ CheckHolds(new)
        /\ version' = version \/ (Fenced(w) /\ version' = [version EXCEPT ![v] = row])
        /\ \/ attempt' = attempt
           \/ /\ attempt[a].status # "succeeded" /\ ~attempt[a].expired
              /\ attempt' = [attempt EXCEPT ![a] = failed]
    <3>1. CheckHolds(new) BY <1>5 DEF Fail
    <3>2. doc' = new BY <3>1 DEF Fail
    <3>3. version' = version \/ (Fenced(w) /\ version' = [version EXCEPT ![v] = row])
      <4>1. version' = IF ~Fenced(w) \/ version[v].status = "quarantined" THEN version
              ELSE [version EXCEPT ![v].status = "failed", ![v].token = None]
        BY <3>1 DEF Fail
      <4> HIDE DEF v
      <4> QED BY <4>1
    <3>4. \/ attempt' = attempt
          \/ /\ attempt[a].status # "succeeded" /\ ~attempt[a].expired
             /\ attempt' = [attempt EXCEPT ![a] = failed]
      <4>1. attempt' = IF ~Active(a) \/ attempt[a].expired THEN attempt
              ELSE [attempt EXCEPT ![a].status = "failed"]
        BY <3>1 DEF Fail
      <4> HIDE DEF a
      <4> QED BY <4>1 DEF Active
    <3> QED BY <3>1, <3>2, <3>3, <3>4
  <2>2. /\ new \in Doc /\ (doc.status = "deleted" => new.status = "deleted")
        /\ new.status = "ready" => doc.status = "ready"
    <3>1. CASE new = doc BY <3>1 DEF Inv, TypeOK
    <3>2. CASE new = [doc EXCEPT !.status = "failed"]
      <4> HIDE DEF new
      <4> QED BY <2>1, <3>2, OtherStatus
    <3> QED BY <3>1, <3>2
  <2> HIDE DEF a, v
  <2>3. failed \in Attempt /\ failed.version = attempt[a].version BY ONLY <1>2 DEF Attempt
  <2>4. row \in Version /\ row.status = "failed" /\ row.chunks = version[v].chunks
    BY ONLY <1>2 DEF Version, None
  <2> HIDE DEF new, failed, row
  <2>5. /\ VersionsGrow /\ version' \in Seq(Version) /\ DOMAIN version' = DOMAIN version
        /\ \A u \in DOMAIN version : /\ version'[u].chunks = version[u].chunks
                                     /\ version'[u].status = "ready" => version'[u] = version[u]
                                     /\ version[u].status = "ready" => version'[u] = version[u]
    <3>1. CASE version' = version BY <3>1, Same DEF Inv, TypeOK
    <3>2. CASE Fenced(w) /\ version' = [version EXCEPT ![v] = row]
      <4>1. /\ VersionsGrow /\ version' \in Seq(Version) /\ version'[v] = row
            /\ DOMAIN version' = DOMAIN version
            /\ \A u \in DOMAIN version : u # v => version'[u] = version[u]
        BY <1>2, <2>4, <3>2, OneVersion
      <4> QED BY <1>2, <2>4, <3>2, <4>1
    <3> QED BY <2>1, <3>1, <3>2
  <2>6. AttemptsGrow
    <3>1. CASE attempt' = attempt BY <2>5, <3>1, Same
    <3>2. CASE attempt[a].status # "succeeded" /\ ~attempt[a].expired
               /\ attempt' = [attempt EXCEPT ![a] = failed]
      BY <1>2, <2>3, <2>5, <3>2, OneAttempt
    <3> QED BY <2>1, <3>1, <3>2
  <2>7. JobsGrow /\ WorkersSound BY <1>1, <2>5, EndedJob
  <2>8. ReadyIsFree' /\ ReadyIsEarned' BY <1>1, <2>5, <2>6, VersionsKept
  <2>9. Inv' BY <1>1, <1>3, <2>1, <2>2, <2>5, <2>6, <2>7, <2>8, Change
  <2>10. Kept BY <2>1, <2>2, <2>5, KeptIf
  <2> QED BY <2>9, <2>10
<1> QED BY <1>4, <1>5

LEMMA RecoverKeeps == ASSUME Inv, Recover PROVE Inv' /\ Kept
<1> DEFINE a == recovery.attempt
           v == attempt[a].version
           read == recovery.doc
           to == [read EXCEPT !.status = "queued"]
           new == IF Live THEN Flush(doc, read, to) ELSE doc
           row == [version[v] EXCEPT !.status = "queued", !.token = None]
           left == [attempt[a] EXCEPT !.status = "abandoned"]
<1>1. /\ UNCHANGED <<infected, worker, request, faults>> /\ recovery.pc = "read"
      /\ recovery' = IdleRecovery
  BY DEF Recover
<1>2. /\ a \in DOMAIN attempt /\ attempt[a] \in Attempt /\ attempt[a].status # "succeeded"
      /\ v \in DOMAIN version /\ version[v] \in Version /\ v \in Nat
      /\ read \in Doc /\ doc \in Doc
  <2>1. a \in DOMAIN attempt /\ attempt[a].status # "succeeded"
    BY <1>1 DEF Inv, RecoverySound
  <2>2. v \in DOMAIN version BY <2>1 DEF Inv, VersionsNamed
  <2>3. attempt[a] \in Attempt /\ version[v] \in Version BY <2>1, <2>2, Fields DEF Inv
  <2>4. v \in Nat BY <2>2, Fields DEF Inv
  <2> QED BY <2>1, <2>2, <2>3, <2>4 DEF Inv, TypeOK, Recovery
<1>3. Held(a) => version[v].status # "ready" BY <1>2, OwnedVersion DEF Held
<1>4. /\ RequestsSound /\ WorkersSound /\ faults' \in 0..MaxFaults BY <1>1, Same
<1>5. recovery' \in Recovery /\ RecoverySound' BY <1>1, IdleRecoveries
<1>6. CASE UNCHANGED <<attempt, version, doc, job>>
  <2>1. VersionsGrow BY <1>6, Same
  <2>2. AttemptsGrow /\ JobsGrow BY <1>6, <2>1, Same
  <2> QED BY <1>1, <1>4, <1>5, <1>6, <2>2, QuietChange
<1>7. CASE ~UNCHANGED <<attempt, version, doc, job>>
  <2>1. /\ doc' = new /\ CheckHolds(new)
        /\ version' = version \/ (Held(a) /\ version' = [version EXCEPT ![v] = row])
        /\ attempt' = [attempt EXCEPT ![a] = left]
        /\ job' = job \/ job' = Append(job, NewJob(v))
    <3>1. CheckHolds(new) BY <1>7 DEF Recover
    <3>2. /\ doc' = new /\ attempt' = [attempt EXCEPT ![a].status = "abandoned"]
          /\ version' = IF Held(a) THEN [version EXCEPT ![v].status = "queued", ![v].token = None]
                        ELSE version
          /\ job' = IF Live THEN Append(job, NewJob(v)) ELSE job
      BY <3>1 DEF Recover
    <3> HIDE DEF a, v
    <3> QED BY <3>1, <3>2
  <2>2. /\ new \in Doc /\ (doc.status = "deleted" => new.status = "deleted")
        /\ new.status = "ready" => doc.status = "ready"
    <3>1. CASE ~Live BY <1>2, <3>1
    <3>2. CASE Live
      <4>1. to \in Doc /\ to.status = "queued" /\ to.deletedAt = read.deletedAt
        BY ONLY <1>2 DEF Doc
      <4>2. new = Flush(doc, read, to) BY <3>2
      <4> HIDE DEF new, to, read
      <4>3. /\ new \in Doc /\ new.deletedAt = doc.deletedAt
            /\ new.status = "queued" \/ new.status = doc.status
        BY <1>2, <4>1, <4>2, FlushedDoc
      <4> QED BY <2>1, <4>3 DEF CheckHolds, Inv, TypeOK
    <3> QED BY <3>1, <3>2
  <2> HIDE DEF a
  <2>3. left \in Attempt /\ left.version = attempt[a].version /\ left.expired = attempt[a].expired
        /\ left.status = "abandoned"
    BY ONLY <1>2 DEF Attempt
  <2> HIDE DEF v
  <2>4. row \in Version /\ row.status = "queued" /\ row.chunks = version[v].chunks
    BY ONLY <1>2 DEF Version, None
  <2> HIDE DEF new, left, row
  <2>5. /\ VersionsGrow /\ version' \in Seq(Version) /\ DOMAIN version' = DOMAIN version
        /\ \A u \in DOMAIN version : /\ version'[u].chunks = version[u].chunks
                                     /\ version'[u].status = "ready" => version'[u] = version[u]
                                     /\ version[u].status = "ready" => version'[u] = version[u]
    <3>1. CASE version' = version BY <3>1, Same DEF Inv, TypeOK
    <3>2. CASE Held(a) /\ version' = [version EXCEPT ![v] = row]
      <4>1. /\ VersionsGrow /\ version' \in Seq(Version) /\ version'[v] = row
            /\ DOMAIN version' = DOMAIN version
            /\ \A u \in DOMAIN version : u # v => version'[u] = version[u]
        BY <1>2, <2>4, <3>2, OneVersion
      <4> QED BY <1>2, <1>3, <2>4, <3>2, <4>1
    <3> QED BY <2>1, <3>1, <3>2
  <2>6. AttemptsGrow
    <3>1. attempt[a].expired => left.expired /\ left.status # "succeeded" BY <2>3
    <3> QED BY <1>2, <2>1, <2>3, <2>5, <3>1, OneAttempt
  <2>7. JobsGrow
    <3>1. CASE job' = job BY <2>5, <3>1, Same
    <3>2. CASE job' = Append(job, NewJob(v)) BY <1>2, <2>5, <3>2, AppendedJob
    <3> QED BY <2>1, <3>1, <3>2
  <2>8. ReadyIsFree' /\ ReadyIsEarned' BY <1>1, <2>5, <2>6, VersionsKept
  <2>9. Inv' BY <1>1, <1>4, <1>5, <2>1, <2>2, <2>5, <2>6, <2>7, <2>8, Change
  <2>10. Kept BY <2>1, <2>2, <2>5, KeptIf
  <2> QED BY <2>9, <2>10
<1> QED BY <1>6, <1>7

LEMMA PurgeKeeps == ASSUME Inv, Purge PROVE Inv' /\ Kept
<1> DEFINE new == [doc EXCEPT !.stored = FALSE]
<1>1. /\ doc' = new /\ doc.status = "deleted"
      /\ version' = [v \in DOMAIN version |-> [version[v] EXCEPT !.status = "purged"]]
      /\ UNCHANGED <<infected, attempt, job, worker, recovery, request, faults>>
  BY DEF Purge
<1>2. doc \in Doc /\ CheckHolds(doc) BY DEF Inv, TypeOK, CheckHolds
<1>3. new \in Doc /\ new.status = doc.status /\ new.deletedAt = doc.deletedAt
  BY ONLY <1>2 DEF Doc
<1> HIDE DEF new
<1>4. CheckHolds(new) BY <1>2, <1>3 DEF CheckHolds
<1>5. \A v \in DOMAIN version : /\ version'[v] \in Version /\ version'[v].status = "purged"
                               /\ version'[v].chunks = version[v].chunks
  BY <1>1, Fields DEF Version, Inv
<1>6. version' \in Seq(Version) /\ Len(version') = Len(version) /\ DOMAIN version' = DOMAIN version
  <2>1. version' = [v \in DOMAIN version |-> version'[v]] BY <1>1
  <2> QED BY <1>5, <2>1, Mapped DEF Inv, TypeOK
<1>7. VersionsGrow BY <1>6, Fields DEF VersionsGrow, Inv
<1>8. /\ AttemptsGrow /\ JobsGrow /\ WorkersSound /\ RequestsSound /\ recovery' \in Recovery
      /\ faults' \in 0..MaxFaults
  BY <1>1, <1>7, Same
<1>9. ReadyIsFree' /\ ReadyIsEarned' BY <1>1, <1>5, <1>6, <1>8, VersionsKept
<1>10. Inv' BY <1>1, <1>3, <1>4, <1>7, <1>8, <1>9, Change
<1>11. Kept BY <1>1, <1>3, <1>5 DEF Kept
<1> QED BY <1>10, <1>11

\* An answered request leaves the others as they are.
LEMMA AnsweredRequest ==
  ASSUME Inv, NEW r \in Requests, Answered(r)
  PROVE  RequestsSound
<1> DEFINE q == [IdleRequest EXCEPT !.pc = "done"]
<1>1. q \in RequestState /\ q.pc = "done" BY NewRows DEF RequestState, IdleRequest
<1>2. request' = [request EXCEPT ![r] = q] BY DEF Answered
<1> HIDE DEF q
<1>3. /\ request' \in [Requests -> RequestState] /\ request'[r] = q
      /\ \A t \in Requests : t # r => request'[t] = request[t]
  BY <1>1, <1>2 DEF Inv, TypeOK
<1>4. RequestSound(r)' BY <1>1, <1>3 DEF RequestSound
<1> QED BY <1>3, <1>4 DEF RequestsSound

LEMMA DeleteKeeps ==
  ASSUME Inv, NEW r \in Requests, CommitDelete(r)
  PROVE  Inv' /\ Kept
<1> DEFINE read == request[r].doc
           to == [read EXCEPT !.status = "deleted", !.deletedAt = TRUE]
           new == Flush(doc, read, to)
<1>1. /\ UNCHANGED <<infected, version, attempt, job, worker, recovery, faults>>
      /\ doc' = new /\ Answered(r) /\ request[r].pc = "read"
  BY DEF CommitDelete
<1>2. /\ read \in Doc /\ doc \in Doc /\ read.status # "deleted" /\ read.deletedAt = FALSE
  <2>1. read \in Doc /\ doc \in Doc BY Fields DEF RequestState, Inv, TypeOK
  <2>2. read.status # "deleted" /\ ~read.deletedAt BY <1>1 DEF Inv, RequestSound
  <2> QED BY <2>1, <2>2 DEF Doc
<1>3. to \in Doc /\ to.status = "deleted" /\ to.deletedAt = TRUE BY ONLY <1>2 DEF Doc
<1> HIDE DEF to, read
<1>4. new \in Doc /\ new.status = "deleted" /\ new.deletedAt = TRUE
  BY <1>2, <1>3, FlushedDoc
<1> HIDE DEF new
<1>5. CheckHolds(doc') /\ doc' \in Doc BY <1>1, <1>4 DEF CheckHolds
<1>6. VersionsGrow BY <1>1, Same
<1>7. /\ AttemptsGrow /\ JobsGrow /\ WorkersSound /\ recovery' \in Recovery
      /\ faults' \in 0..MaxFaults
  BY <1>1, <1>6, Same
<1>8. RequestsSound BY <1>1, AnsweredRequest
<1>9. ReadyIsFree' /\ ReadyIsEarned' BY <1>1, <1>7, VersionsKept DEF Inv, TypeOK
<1>10. Inv' BY <1>1, <1>5, <1>6, <1>7, <1>8, <1>9, Change
<1>11. Kept BY <1>1, <1>4, KeptIf
<1> QED BY <1>10, <1>11

LEMMA ReprocessKeeps ==
  ASSUME Inv, NEW r \in Requests, CommitReprocess(r)
  PROVE  Inv' /\ Kept
<1> DEFINE read == request[r].doc
           next == request[r].next
           to == [read EXCEPT !.status = "queued", !.current = next]
           new == Flush(doc, read, to)
<1>1. /\ UNCHANGED <<infected, attempt, worker, recovery, faults>>
      /\ Answered(r) /\ request[r].pc = "read"
  BY DEF CommitReprocess
<1>2. /\ read \in Doc /\ doc \in Doc /\ next \in 1..(Len(version) + 1) /\ next \in Nat
      /\ Len(version) \in Nat /\ DOMAIN version = 1..Len(version) /\ version \in Seq(Version)
  <2>1. read \in Doc /\ doc \in Doc /\ next \in Nat BY Fields DEF RequestState, Inv, TypeOK
  <2>2. next \in 1..(Len(version) + 1) BY <1>1 DEF Inv, RequestSound
  <2> QED BY <2>1, <2>2, Fields DEF Inv, TypeOK
<1>3. RequestsSound BY <1>1, AnsweredRequest
<1>4. recovery' \in Recovery /\ faults' \in 0..MaxFaults /\ WorkersSound BY <1>1, Same
<1>5. CASE UNCHANGED <<doc, version, job>>
  <2>1. VersionsGrow BY <1>5, Same
  <2>2. AttemptsGrow /\ JobsGrow BY <1>1, <1>5, <2>1, Same
  <2> QED BY <1>1, <1>3, <1>4, <1>5, <2>2, QuietChange
<1>6. CASE ~UNCHANGED <<doc, version, job>>
  <2>1. /\ doc' = new /\ CheckHolds(new) /\ next \notin DOMAIN version
        /\ version' = Append(version, NewVersion) /\ job' = Append(job, NewJob(next))
    BY <1>6 DEF CommitReprocess
  <2>2. to \in Doc /\ to.status = "queued" /\ to.deletedAt = read.deletedAt
    <3> HIDE DEF next, read
    <3> QED BY ONLY <1>2 DEF Doc
  <2> HIDE DEF to, read, next
  <2>3. /\ new \in Doc /\ new.deletedAt = doc.deletedAt
        /\ new.status = "queued" \/ new.status = doc.status
    BY <1>2, <2>2, FlushedDoc
  <2> HIDE DEF new
  <2>4. doc.status = "deleted" => new.status = "deleted"
    BY <2>1, <2>3 DEF CheckHolds, Inv, TypeOK
  <2>5. next = Len(version) + 1 BY <1>2, <2>1
  <2>6. /\ version' \in Seq(Version) /\ Len(version') = Len(version) + 1
        /\ DOMAIN version' = DOMAIN version \cup {next} /\ version'[next] = NewVersion
        /\ \A v \in DOMAIN version : version'[v] = version[v]
    BY <1>2, <2>1, <2>5, NewRows, Appended
  <2>7. VersionsGrow BY <1>2, <2>6 DEF VersionsGrow
  <2>8. AttemptsGrow BY <1>1, <2>7, Same
  <2>9. JobsGrow BY <1>2, <2>1, <2>6, <2>7, AppendedJob
  <2>10. ReadyIsFree' /\ ReadyIsEarned' BY <1>1, <2>6, <2>8, VersionsKept
  <2>11. Inv' BY <1>1, <1>3, <1>4, <2>1, <2>3, <2>7, <2>8, <2>9, <2>10, Change
  <2>12. Kept BY <2>1, <2>3, <2>4, <2>6, KeptIf
  <2> QED BY <2>11, <2>12
<1> QED BY <1>5, <1>6

-----------------------------------------------------------------------------
(* Theorems.                                                               *)

LEMMA InvStep == Inv /\ [Next]_vars => Inv' /\ Kept
<1> SUFFICES ASSUME Inv, [Next]_vars PROVE Inv' /\ Kept OBVIOUS
<1>1. ASSUME NEW w \in Workers, WorkerStep(w) \/ WorkerDies(w)
      PROVE  Inv' /\ Kept
  <2>1. ASSUME NEW j \in DOMAIN job, Refuse(w, j) \/ Start(w, j) \/ StartDeadlocks(w, j)
        PROVE  Inv' /\ Kept
    BY <2>1, RefuseKeeps, StartKeeps
  <2>2. CASE Scanned(w) \/ Parsed(w) BY <2>2, PhaseKeeps
  <2>3. CASE LoseLease(w) BY <2>3, LoseLeaseKeeps
  <2>4. CASE Quarantine(w) BY <2>4, QuarantineKeeps
  <2>5. CASE Settle(w) BY <2>5, SettleKeeps
  <2>6. CASE Fail(w) BY <2>6, FailKeeps
  <2>7. CASE WorkerDies(w) BY <2>7, DiesKeeps
  <2> QED BY <1>1, <2>1, <2>2, <2>3, <2>4, <2>5, <2>6, <2>7 DEF WorkerStep
<1>2. CASE \E a \in DOMAIN attempt : LeaseExpires(a) BY <1>2, LeaseKeeps
<1>3. CASE RecoveryStep BY <1>3, ReadExpiredKeeps, RecoverKeeps DEF RecoveryStep
<1>4. CASE Purge BY <1>4, PurgeKeeps
<1>5. ASSUME NEW r \in Requests,
             \/ \E kind \in {"delete", "reprocess"} : ReadForRequest(r, kind)
             \/ CommitDelete(r) \/ CommitReprocess(r)
      PROVE  Inv' /\ Kept
  BY <1>5, ReadForRequestKeeps, DeleteKeeps, ReprocessKeeps
<1>6. CASE UNCHANGED vars
  <2>1. UNCHANGED <<doc, infected, version, attempt, job, worker, recovery, request, faults>>
    BY <1>6 DEF vars
  <2>2. VersionsGrow /\ WorkersSound /\ RequestsSound /\ recovery' \in Recovery
        /\ faults' \in 0..MaxFaults
    BY <2>1, Same
  <2>3. AttemptsGrow /\ JobsGrow BY <2>1, <2>2, Same
  <2> QED BY <2>1, <2>2, <2>3, QuietChange
<1> QED BY <1>1, <1>2, <1>3, <1>4, <1>5, <1>6 DEF Next

LEMMA InvAlways == Spec => []Inv
<1>1. Init => Inv BY InvInit
<1>2. Inv /\ [Next]_vars => Inv' BY InvStep
<1> QED BY <1>1, <1>2, PTL DEF Spec

\* Every row stays in its type, and the documents row never breaks
\* document_deleted_state, whatever commits over what it has read.
THEOREM TypeCorrect == Spec => []TypeOK
<1>1. Inv => TypeOK BY DEF Inv
<1> QED BY <1>1, InvAlways, PTL

\* process_document: a version is ready only with the chunks of an attempt of its
\* own that succeeded, and never for an infected file.
THEOREM ReadinessIsEarned == Spec => []ReadyIsEarned
<1>1. Inv => ReadyIsEarned BY DEF Inv
<1> QED BY <1>1, InvAlways, PTL

\* delete_document: attempts under way, recoveries and reprocess requests that
\* have read the document before cannot bring it back.
THEOREM DeletionIsFinal == Spec => DeletedIsFinal
<1>1. Inv /\ [Next]_vars => [doc.status = "deleted" => doc'.status = "deleted"]_vars
  BY InvStep DEF Kept
<1> QED BY <1>1, InvAlways, PTL DEF Spec, DeletedIsFinal

\* A version that became ready keeps its chunks until it is purged, and a document
\* turns ready with its current version only.
THEOREM ReadinessIsFinal == Spec => ReadyIsFinal
<1>1. Inv /\ [Next]_vars =>
        [\A v \in DOMAIN version :
           /\ version[v].status = "ready" =>
                \/ version'[v].status = "purged" /\ doc.status = "deleted"
                \/ version'[v] = version[v]
           /\ doc.status # "ready" /\ doc'.status = "ready"
                => version'[doc'.current].status = "ready"]_vars
  BY InvStep DEF Kept
<1> QED BY <1>1, InvAlways, PTL DEF Spec, ReadyIsFinal

\* What is deleted and what became ready stay so under every late commit of an
\* attempt, a recovery or a reprocess.
THEOREM EndsStayFinal == Spec => EndsAreFinal
BY DeletionIsFinal, ReadinessIsFinal DEF EndsAreFinal

-----------------------------------------------------------------------------
(* What the document shows at rest.                                        *)

\* The attempts of a job are on its version, and a busy worker's is of its job.
\* It is that worker's own; while the version has its token, it is under way.
AttemptsSound ==
  /\ \A a \in DOMAIN attempt :
       attempt[a].job \in DOMAIN job /\ attempt[a].version = job[attempt[a].job].version
  /\ \A w \in Workers : worker[w].pc # "idle" =>
       /\ attempt[worker[w].attempt].job = worker[w].job
       /\ Held(worker[w].attempt) =>
            /\ Active(worker[w].attempt)
            /\ version[attempt[worker[w].attempt].version].status = "scanning"
       /\ \A x \in Workers : worker[x].pc # "idle" /\ worker[x].attempt = worker[w].attempt => x = w

\* The current version is the last one, a token is that of an attempt on the version,
\* and only a deleted document is purged.
VersionsSound ==
  /\ doc.current = Len(version) /\ doc.current \in DOMAIN version
  /\ \A v \in DOMAIN version :
       /\ version[v].token # None =>
            /\ version[v].token \in DOMAIN attempt /\ attempt[version[v].token].version = v
            /\ version[v].status \notin {"queued", "ready", "failed"}
       /\ version[v].status = "purged" => doc.status = "deleted"

\* What the recovery and the requests have read is not newer than the row.
ReadersSound ==
  /\ recovery.pc = "read" =>
       /\ attempt[recovery.attempt].version <= recovery.doc.current
       /\ recovery.doc.current <= doc.current
       /\ recovery.doc.status = "deleted" => doc.status = "deleted"
  /\ \A r \in Requests : request[r].pc = "read" => request[r].doc.current < request[r].next

\* A job that nobody has begun.
Fresh(j) == job[j].status = "queued" /\ \A a \in DOMAIN attempt : attempt[a].job # j

\* What the document shows of its current version: a new job is about to take it, an
\* attempt holds it, or both rows show what became of it.
CurrentShown ==
  LET c == doc.current
  IN  doc.status # "deleted" =>
        /\ version[c].status = "queued" =>
             \E j \in DOMAIN job : job[j].version = c /\ Fresh(j)
        /\ version[c].status = "scanning" =>
             /\ version[c].token \in DOMAIN attempt /\ Active(version[c].token)
             /\ doc.status \in {"processing", "queued"}
        /\ version[c].status \in {"ready", "failed", "quarantined"} =>
             doc.status = version[c].status \/ Overtaken

RestInv == AttemptsSound /\ VersionsSound /\ ReadersSound /\ CurrentShown

LEMMA LastIsOne ==
  ASSUME Inv, NEW j, LastAttempt(j) # None
  PROVE  LastAttempt(j) \in DOMAIN attempt /\ attempt[LastAttempt(j)].job = j
<1> DEFINE mine == {a \in DOMAIN attempt : attempt[a].job = j}
           n == Len(attempt)
           T == {n - a : a \in mine}
           R == OpToRel(<, Nat)
<1>1. mine # {} /\ LastAttempt(j) = CHOOSE a \in mine : \A b \in mine : b <= a
  BY DEF LastAttempt
<1>2. n \in Nat /\ DOMAIN attempt = 1..n BY DEF Inv, TypeOK
<1>3. \A a \in mine : a \in 1..n BY <1>2
<1> HIDE DEF mine, n
<1>4. T \subseteq Nat /\ T # {} BY <1>1, <1>2, <1>3
<1>5. \E x \in T : \A y \in T : ~(<<y, x>> \in R)
  <2> HIDE DEF T, R
  <2> QED BY <1>4, NatLessThanWellFounded, WFMin DEF R
<1>6. PICK x \in T : \A y \in T : ~(y < x)
  <2>1. PICK x \in T : \A y \in T : ~(<<y, x>> \in R) BY <1>5
  <2>2. \A y \in T : y < x => <<y, x>> \in R BY <1>4 DEF OpToRel
  <2> HIDE DEF R, T
  <2> QED BY <2>1, <2>2
<1>7. PICK a \in mine : x = n - a BY DEF T
<1>8. \A b \in mine : b <= a
  <2> SUFFICES ASSUME NEW b \in mine PROVE b <= a OBVIOUS
  <2>1. n - b \in T OBVIOUS
  <2>2. ~(n - b < n - a) BY <1>6, <1>7, <2>1
  <2> QED BY <1>2, <1>3, <2>2
<1>9. LastAttempt(j) \in mine BY <1>1, <1>7, <1>8
<1> QED BY <1>9 DEF mine

-----------------------------------------------------------------------------
(* Rows that change in one column.                                         *)

LEMMA SameLength ==
  ASSUME NEW S, NEW s \in Seq(S), NEW i \in DOMAIN s, NEW x
  PROVE  Len([s EXCEPT ![i] = x]) = Len(s)
<1>1. s \in Seq(S \cup {x}) OBVIOUS
<1> QED BY <1>1, Replaced

LEMMA JobMarked ==
  ASSUME Inv, NEW j \in DOMAIN job, NEW status, job' = [job EXCEPT ![j].status = status]
  PROVE  /\ DOMAIN job' = DOMAIN job /\ Len(job') = Len(job) /\ job'[j].status = status
         /\ \A i \in DOMAIN job : job'[i].version = job[i].version
         /\ job'[Len(job')].version = job[Len(job)].version
         /\ \A i \in DOMAIN job : i # j => job'[i] = job[i]
<1>1. job \in Seq(Job) /\ job[j] \in Job BY DEF Inv, TypeOK
<1>2. job'[j] = [job[j] EXCEPT !.status = status] /\ DOMAIN job' = DOMAIN job BY <1>1
<1>3. Len(job') = Len(job)
  <2>1. job' = [job EXCEPT ![j] = [job[j] EXCEPT !.status = status]] OBVIOUS
  <2> QED BY <1>1, <2>1, SameLength
<1>4. \A i \in DOMAIN job : i # j => job'[i] = job[i] BY <1>1
<1>5. job'[j].version = job[j].version /\ job'[j].status = status BY <1>1, <1>2 DEF Job
<1>6. Len(job) \in DOMAIN job BY <1>1
<1> QED BY <1>2, <1>3, <1>4, <1>5, <1>6

LEMMA AttemptMarked ==
  ASSUME Inv, NEW a \in DOMAIN attempt, NEW status,
         attempt' = [attempt EXCEPT ![a].status = status]
  PROVE  /\ DOMAIN attempt' = DOMAIN attempt /\ attempt'[a].status = status
         /\ attempt'[a].job = attempt[a].job /\ attempt'[a].version = attempt[a].version
         /\ \A b \in DOMAIN attempt : b # a => attempt'[b] = attempt[b]
<1>1. attempt \in Seq(Attempt) /\ attempt[a] \in Attempt BY DEF Inv, TypeOK
<1>2. attempt'[a] = [attempt[a] EXCEPT !.status = status] /\ DOMAIN attempt' = DOMAIN attempt
  BY <1>1
<1>3. \A b \in DOMAIN attempt : b # a => attempt'[b] = attempt[b] BY <1>1
<1>4. /\ attempt'[a].status = status /\ attempt'[a].version = attempt[a].version
      /\ attempt'[a].job = attempt[a].job
  BY <1>1, <1>2 DEF Attempt
<1> QED BY <1>2, <1>3, <1>4

LEMMA VersionWritten ==
  ASSUME Inv, NEW v \in DOMAIN version, NEW row, version' = [version EXCEPT ![v] = row]
  PROVE  /\ DOMAIN version' = DOMAIN version /\ Len(version') = Len(version) /\ version'[v] = row
         /\ \A u \in DOMAIN version : u # v => version'[u] = version[u]
<1>1. version \in Seq(Version) BY DEF Inv, TypeOK
<1>2. /\ version'[v] = row /\ DOMAIN version' = DOMAIN version
      /\ \A u \in DOMAIN version : u # v => version'[u] = version[u]
  BY <1>1
<1>3. Len(version') = Len(version) BY <1>1, SameLength
<1> QED BY <1>2, <1>3

LEMMA VersionMarked ==
  ASSUME Inv, NEW v \in DOMAIN version, NEW status, NEW token,
         version' = [version EXCEPT ![v].status = status, ![v].token = token]
  PROVE  /\ DOMAIN version' = DOMAIN version /\ Len(version') = Len(version)
         /\ version'[v].status = status /\ version'[v].token = token
         /\ \A u \in DOMAIN version : u # v => version'[u] = version[u]
<1> DEFINE row == [version[v] EXCEPT !.status = status, !.token = token]
<1>1. version[v] \in Version BY Fields DEF Inv
<1>2. row.status = status /\ row.token = token BY ONLY <1>1 DEF Version
<1>3. version' = [version EXCEPT ![v] = row] OBVIOUS
<1> HIDE DEF row
<1> QED BY <1>2, <1>3, VersionWritten

\* The delivery of a busy worker ends in whatever way.
Leaves(w) ==
  /\ DOMAIN job' = DOMAIN job /\ Len(job') = Len(job)
  /\ \A i \in DOMAIN job : job'[i].version = job[i].version
  /\ job'[Len(job')].version = job[Len(job)].version
  /\ \A i \in DOMAIN job : i # worker[w].job => job'[i] = job[i]
  /\ worker'[w].pc = "idle" /\ \A x \in Workers : x # w => worker'[x] = worker[x]

LEMMA EndLeaves ==
  ASSUME Inv, NEW w \in Workers, worker[w].pc # "idle", EndJob(w)
  PROVE  Leaves(w)
<1>1. worker[w].job \in DOMAIN job BY DEF Inv, WorkerSound
<1>2. /\ worker' = [worker EXCEPT ![w] = IdleWorker]
      /\ job' = [job EXCEPT ![worker[w].job].status = "ended"]
  BY DEF EndJob
<1>3. worker'[w].pc = "idle" /\ \A x \in Workers : x # w => worker'[x] = worker[x]
  BY <1>2 DEF Inv, TypeOK, IdleWorker
<1> QED BY <1>1, <1>2, <1>3, JobMarked DEF Leaves

LEMMA DeathLeaves ==
  ASSUME Inv, NEW w \in Workers, WorkerDies(w)
  PROVE  Leaves(w) /\ worker[w].pc # "idle"
<1>1. worker[w].pc # "idle" /\ worker' = [worker EXCEPT ![w] = IdleWorker] BY DEF WorkerDies
<1>2. PICK s \in {"queued", "ended"} : job' = [job EXCEPT ![worker[w].job].status = s]
  BY DEF WorkerDies
<1>3. worker[w].job \in DOMAIN job BY <1>1 DEF Inv, WorkerSound
<1>4. worker'[w].pc = "idle" /\ \A x \in Workers : x # w => worker'[x] = worker[x]
  BY <1>1 DEF Inv, TypeOK, IdleWorker
<1> QED BY <1>1, <1>2, <1>3, <1>4, JobMarked DEF Leaves

-----------------------------------------------------------------------------
(* What the parts of the invariant need of a step.                         *)

ActiveIn(rows, a) == rows[a].status \in {"scanning", "parsing", "chunking"}

AttemptsSame ==
  /\ DOMAIN attempt' = DOMAIN attempt
  /\ \A a \in DOMAIN attempt :
       attempt'[a].job = attempt[a].job /\ attempt'[a].version = attempt[a].version

JobsSame == \A j \in DOMAIN job : j \in DOMAIN job' /\ job'[j].version = job[j].version

\* Who is busy was so before, and what it still holds is under way as it was.
BusySame(w) ==
  worker'[w].pc # "idle" =>
    /\ worker[w].pc # "idle"
    /\ worker'[w].job = worker[w].job /\ worker'[w].attempt = worker[w].attempt
    /\ LET a == worker[w].attempt
           v == attempt[a].version
       IN  version'[v].token = a =>
             /\ version[v].token = a
             /\ Active(a) => version'[v].status = version[v].status /\ ActiveIn(attempt', a)

LEMMA AttemptsKeep ==
  ASSUME Inv, AttemptsSound, AttemptsSame, JobsSame, \A w \in Workers : BusySame(w)
  PROVE  AttemptsSound'
<1>1. ASSUME NEW a \in DOMAIN attempt'
      PROVE  attempt'[a].job \in DOMAIN job' /\ attempt'[a].version = job'[attempt'[a].job].version
  <2>1. a \in DOMAIN attempt /\ attempt'[a].job = attempt[a].job
        /\ attempt'[a].version = attempt[a].version
    BY DEF AttemptsSame
  <2>2. attempt[a].job \in DOMAIN job /\ attempt[a].version = job[attempt[a].job].version
    BY <2>1 DEF AttemptsSound
  <2> QED BY <2>1, <2>2 DEF JobsSame
<1>2. ASSUME NEW w \in Workers, worker'[w].pc # "idle"
      PROVE  /\ attempt'[worker'[w].attempt].job = worker'[w].job
             /\ Held(worker[w].attempt)' =>
                  /\ ActiveIn(attempt', worker'[w].attempt)
                  /\ version'[attempt'[worker'[w].attempt].version].status = "scanning"
             /\ \A x \in Workers :
                  worker'[x].pc # "idle" /\ worker'[x].attempt = worker'[w].attempt => x = w
  <2> DEFINE a == worker[w].attempt
             v == attempt[a].version
  <2>1. /\ worker[w].pc # "idle"
        /\ worker'[w].job = worker[w].job /\ worker'[w].attempt = a
        /\ version'[v].token = a =>
             /\ version[v].token = a
             /\ Active(a) => version'[v].status = version[v].status /\ ActiveIn(attempt', a)
    BY <1>2 DEF BusySame
  <2>2. a \in DOMAIN attempt BY <2>1 DEF Inv, WorkerSound
  <2>3. attempt'[a].job = attempt[a].job /\ attempt'[a].version = v BY <2>2 DEF AttemptsSame
  <2>4. attempt[a].job = worker[w].job BY <2>1 DEF AttemptsSound
  <2>5. version[v].token = a => Active(a) /\ version[v].status = "scanning"
    BY <2>1 DEF AttemptsSound, Held
  <2>6. ASSUME NEW x \in Workers, worker'[x].pc # "idle", worker'[x].attempt = worker'[w].attempt
        PROVE  x = w
    BY <1>2, <2>6 DEF BusySame, AttemptsSound
  <2>7. Held(worker[w].attempt)' => version'[v].token = a BY <2>1, <2>3 DEF Held
  <2> QED BY <2>1, <2>3, <2>4, <2>5, <2>6, <2>7
<1>3. \A w \in Workers : worker'[w].pc # "idle" =>
        /\ Held(worker[w].attempt)' <=>
             version'[attempt'[worker'[w].attempt].version].token = worker'[w].attempt
        /\ Active(worker[w].attempt)' <=> ActiveIn(attempt', worker'[w].attempt)
  BY DEF Held, Active, ActiveIn
<1> QED BY <1>1, <1>2, <1>3 DEF AttemptsSound

\* A version loses its token, or keeps it with its status or in quarantine.
VersionSame(v) ==
  /\ \/ version'[v].token = None
     \/ /\ version'[v].token = version[v].token
        /\ version'[v].status = version[v].status \/ version'[v].status = "quarantined"
  /\ version'[v].status = "purged" => version[v].status = "purged"

LEMMA VersionsKeep ==
  ASSUME Inv, VersionsSound, AttemptsSame, doc'.current = doc.current,
         doc.status = "deleted" => doc'.status = "deleted",
         DOMAIN version' = DOMAIN version, Len(version') = Len(version),
         \A v \in DOMAIN version : VersionSame(v)
  PROVE  VersionsSound'
<1>1. ASSUME NEW v \in DOMAIN version
      PROVE  /\ version'[v].token # None =>
                  /\ version'[v].token \in DOMAIN attempt'
                  /\ attempt'[version'[v].token].version = v
                  /\ version'[v].status \notin {"queued", "ready", "failed"}
             /\ version'[v].status = "purged" => doc'.status = "deleted"
  BY DEF VersionsSound, VersionSame, AttemptsSame
<1> QED BY <1>1 DEF VersionsSound

LEMMA ReadersKeep ==
  ASSUME Inv, ReadersSound, \A a \in DOMAIN attempt : attempt'[a].version = attempt[a].version,
         doc'.current \in Nat, doc.current <= doc'.current,
         doc.status = "deleted" => doc'.status = "deleted",
         recovery' = recovery \/ recovery'.pc = "idle",
         \A r \in Requests : request'[r] = request[r] \/ request'[r].pc # "read"
  PROVE  ReadersSound'
<1>1. CASE recovery'.pc = "read"
  <2>1. recovery' = recovery /\ recovery.pc = "read" BY <1>1
  <2>2. recovery.attempt \in DOMAIN attempt BY <2>1 DEF Inv, RecoverySound
  <2>3. attempt'[recovery.attempt].version = attempt[recovery.attempt].version
    BY <2>2
  <2>4. recovery.doc.current \in Nat /\ doc.current \in Nat BY DEF Inv, TypeOK, Recovery, Doc
  <2> QED BY <2>1, <2>3, <2>4 DEF ReadersSound
<1>2. CASE recovery'.pc # "read" BY <1>2 DEF ReadersSound
<1> QED BY <1>1, <1>2

\* A step that leaves the document and its current version alone.
LEMMA ShownKept ==
  ASSUME Inv, CurrentShown, VersionsSound, AttemptsSame, JobsSame,
         doc'.current = doc.current, doc'.status = doc.status,
         version'[doc.current] = version[doc.current],
         job'[Len(job')].version = job[Len(job)].version,
         \A j \in DOMAIN job : job[j].version = doc.current /\ Fresh(j)
             /\ version[doc.current].status = "queued" => job'[j].status = "queued",
         LET t == version[doc.current].token
         IN  t \in DOMAIN attempt /\ Active(t) => ActiveIn(attempt', t)
  PROVE  CurrentShown'
<1> DEFINE c == doc.current
<1>1. Overtaken => Overtaken' BY DEF Overtaken
<1>2. version[c].status = "queued" /\ doc.status # "deleted" =>
        \E j \in DOMAIN job' : job'[j].version = c /\ Fresh(j)'
  <2> SUFFICES ASSUME version[c].status = "queued", doc.status # "deleted"
               PROVE  \E j \in DOMAIN job' : job'[j].version = c /\ Fresh(j)'
    OBVIOUS
  <2>1. PICK j \in DOMAIN job : job[j].version = c /\ Fresh(j) BY DEF CurrentShown
  <2>2. job'[j].version = c /\ j \in DOMAIN job' /\ job'[j].status = "queued" BY <2>1 DEF JobsSame
  <2>3. Fresh(j)' BY <2>1, <2>2 DEF Fresh, AttemptsSame
  <2> QED BY <2>2, <2>3
<1>3. \A t : Active(t)' <=> ActiveIn(attempt', t) BY DEF Active, ActiveIn
<1> QED BY <1>1, <1>2, <1>3 DEF CurrentShown, AttemptsSame

-----------------------------------------------------------------------------
(* The steps that write neither the document nor a version.                *)

Unwritten == UNCHANGED <<doc, version>>

\* What remains to be shown of them.
LEMMA UnwrittenKeeps ==
  ASSUME Inv, RestInv, Unwritten, AttemptsSame, JobsSame,
         \A w \in Workers : worker'[w].pc # "idle" =>
           /\ worker[w].pc # "idle"
           /\ worker'[w].job = worker[w].job /\ worker'[w].attempt = worker[w].attempt
           /\ Held(worker[w].attempt) /\ Active(worker[w].attempt) =>
                ActiveIn(attempt', worker[w].attempt),
         job'[Len(job')].version = job[Len(job)].version,
         \A j \in DOMAIN job : job[j].version = doc.current /\ Fresh(j) /\ doc.status # "deleted"
             /\ version[doc.current].status = "queued" => job'[j].status = "queued",
         LET t == version[doc.current].token
         IN  t \in DOMAIN attempt /\ Active(t) => ActiveIn(attempt', t)
  PROVE  AttemptsSound' /\ VersionsSound' /\ CurrentShown'
<1>1. doc' = doc /\ version' = version BY DEF Unwritten
<1>2. AttemptsSound'
  <2>1. \A w \in Workers : BusySame(w) BY <1>1 DEF BusySame, Held
  <2> QED BY <2>1, AttemptsKeep DEF RestInv
<1>3. VersionsSound'
  <2>1. \A v \in DOMAIN version : VersionSame(v) BY <1>1 DEF VersionSame
  <2> QED BY <1>1, <2>1, VersionsKeep DEF RestInv
<1>4. CurrentShown'
  <2>1. CASE doc.status = "deleted" BY <1>1, <2>1 DEF CurrentShown
  <2>2. CASE doc.status # "deleted" BY <1>1, <2>2, ShownKept DEF RestInv
  <2> QED BY <2>1, <2>2
<1> QED BY <1>2, <1>3, <1>4

LEMMA UnwrittenReaders ==
  ASSUME Inv, RestInv, Unwritten, AttemptsSame,
         recovery' = recovery \/ recovery'.pc = "idle",
         \A r \in Requests : request'[r] = request[r] \/ request'[r].pc # "read"
  PROVE  ReadersSound'
<1>1. doc' = doc /\ doc.current \in Nat BY DEF Unwritten, Inv, TypeOK, Doc
<1> QED BY <1>1, ReadersKeep DEF RestInv, AttemptsSame

\* A job that nobody has begun is not refused while its version waits.
LEMMA RefuseRests ==
  ASSUME Inv, RestInv, NEW w \in Workers, NEW j \in DOMAIN job, Refuse(w, j) \/ StartDeadlocks(w, j)
  PROVE  RestInv'
<1>1. /\ UNCHANGED <<doc, infected, version, attempt, worker, recovery, request, faults>>
      /\ job' = [job EXCEPT ![j].status = "ended"]
  BY DEF Refuse, StartDeadlocks
<1>2. Unwritten /\ AttemptsSame BY <1>1 DEF Unwritten, AttemptsSame
<1>3. /\ DOMAIN job' = DOMAIN job /\ \A i \in DOMAIN job : job'[i].version = job[i].version
      /\ \A i \in DOMAIN job : i # j => job'[i] = job[i]
      /\ job'[Len(job')].version = job[Len(job)].version
  BY <1>1, JobMarked
<1>4. ~(/\ job[j].version = doc.current /\ Fresh(j) /\ doc.status # "deleted"
        /\ version[doc.current].status = "queued")
  <2> SUFFICES ASSUME job[j].version = doc.current, Fresh(j), doc.status # "deleted",
                      version[doc.current].status = "queued"
               PROVE  FALSE
    OBVIOUS
  <2>1. LastAttempt(j) = None BY LastIsOne DEF Fresh
  <2>2. StartDeadlocks(w, j) BY <2>1 DEF Refuse, InProgress
  <2>3. recovery.attempt \in DOMAIN attempt BY <2>2 DEF StartDeadlocks, Locked, Inv, RecoverySound
  <2>4. recovery.attempt # None BY <2>3, Fields DEF Inv
  <2>5. version[doc.current].token = None BY DEF RestInv, VersionsSound
  <2> QED BY <2>1, <2>2, <2>4, <2>5 DEF StartDeadlocks, Locked, Held
<1>5. AttemptsSound' /\ VersionsSound' /\ CurrentShown'
  <2>1. JobsSame BY <1>3 DEF JobsSame
  <2>2. \A i \in DOMAIN job : job[i].version = doc.current /\ Fresh(i) /\ doc.status # "deleted"
          /\ version[doc.current].status = "queued" => job'[i].status = "queued"
    BY <1>3, <1>4 DEF Fresh
  <2> QED BY <1>1, <1>2, <1>3, <2>1, <2>2, UnwrittenKeeps DEF ActiveIn, Active
<1>6. ReadersSound' BY <1>1, <1>2, UnwrittenReaders
<1> QED BY <1>5, <1>6 DEF RestInv

\* The job of a busy worker has been begun.
LEMMA LeaversAreNotFresh ==
  ASSUME Inv, RestInv, NEW w \in Workers, worker[w].pc # "idle"
  PROVE  ~Fresh(worker[w].job)
BY DEF RestInv, AttemptsSound, Fresh, Inv, WorkerSound

\* A delivery ends and at most marks its own attempt, which is not that of the
\* current version.
LEMMA LeavingRests ==
  ASSUME Inv, RestInv, NEW w \in Workers, worker[w].pc # "idle", Leaves(w), Unwritten,
         UNCHANGED <<recovery, request>>,
         \/ UNCHANGED attempt
         \/ /\ ~Fenced(w)
            /\ \E s \in {"failed", "abandoned"} :
                 attempt' = [attempt EXCEPT ![worker[w].attempt].status = s]
  PROVE  RestInv'
<1> DEFINE a == worker[w].attempt
<1>1. /\ a \in DOMAIN attempt /\ worker[w].job \in DOMAIN job
      /\ attempt[a].version = job[worker[w].job].version
  BY DEF Inv, WorkerSound
<1>2. AttemptsSame /\ \A b \in DOMAIN attempt : b # a => attempt'[b] = attempt[b]
  <2>1. CASE UNCHANGED attempt BY <2>1 DEF AttemptsSame
  <2>2. ASSUME NEW s, attempt' = [attempt EXCEPT ![a].status = s]
        PROVE  AttemptsSame /\ \A b \in DOMAIN attempt : b # a => attempt'[b] = attempt[b]
    <3> HIDE DEF a
    <3> QED BY <1>1, <2>2, AttemptMarked DEF AttemptsSame
  <2> QED BY <2>1, <2>2
<1>3. LET t == version[doc.current].token
      IN  t \in DOMAIN attempt /\ Active(t) => ActiveIn(attempt', t)
  <2> DEFINE t == version[doc.current].token
  <2> SUFFICES ASSUME t \in DOMAIN attempt, Active(t) PROVE ActiveIn(attempt', t) OBVIOUS
  <2>1. CASE UNCHANGED attempt BY <2>1 DEF Active, ActiveIn
  <2>2. CASE ~Fenced(w)
    <3>1. t # None BY Fields DEF Inv
    <3>2. attempt[t].version = doc.current BY <3>1 DEF RestInv, VersionsSound
    <3>3. t # a BY <1>1, <2>2, <3>2 DEF Fenced
    <3> QED BY <1>2, <3>3 DEF Active, ActiveIn
  <2> QED BY <2>1, <2>2
<1>4. \A x \in Workers : worker'[x].pc # "idle" =>
           /\ worker[x].pc # "idle"
           /\ worker'[x].job = worker[x].job /\ worker'[x].attempt = worker[x].attempt
           /\ Held(worker[x].attempt) /\ Active(worker[x].attempt) =>
                ActiveIn(attempt', worker[x].attempt)
  <2> SUFFICES ASSUME NEW x \in Workers, worker'[x].pc # "idle"
               PROVE  /\ worker'[x] = worker[x]
                      /\ Active(worker[x].attempt) => ActiveIn(attempt', worker[x].attempt)
    OBVIOUS
  <2>1. x # w /\ worker'[x] = worker[x] BY DEF Leaves
  <2>2. worker[x].attempt \in DOMAIN attempt BY <2>1 DEF Inv, WorkerSound
  <2>3. worker[x].attempt # a BY <2>1 DEF RestInv, AttemptsSound
  <2> QED BY <1>2, <2>1, <2>2, <2>3 DEF Active, ActiveIn
<1>5. AttemptsSound' /\ VersionsSound' /\ CurrentShown'
  <2>1. JobsSame BY DEF JobsSame, Leaves
  <2>2. \A i \in DOMAIN job : Fresh(i) => job'[i].status = "queued"
    BY LeaversAreNotFresh DEF Leaves, Fresh
  <2>3. job'[Len(job')].version = job[Len(job)].version BY DEF Leaves
  <2> HIDE DEF a
  <2> QED BY <1>2, <1>3, <1>4, <2>1, <2>2, <2>3, UnwrittenKeeps
<1>6. ReadersSound' BY <1>2, UnwrittenReaders
<1> QED BY <1>5, <1>6 DEF RestInv

LEMMA LoseLeaseRests ==
  ASSUME Inv, RestInv, NEW w \in Workers, LoseLease(w) \/ WorkerDies(w)
  PROVE  RestInv'
<1>1. UNCHANGED <<doc, version, attempt, recovery, request>> BY DEF LoseLease, WorkerDies
<1>2. worker[w].pc # "idle" /\ Leaves(w)
  <2>1. CASE LoseLease(w) BY <2>1, EndLeaves DEF LoseLease
  <2>2. CASE WorkerDies(w) BY <2>2, DeathLeaves
  <2> QED BY <2>1, <2>2
<1>3. Unwritten BY <1>1 DEF Unwritten
<1> QED BY <1>1, <1>2, <1>3, LeavingRests

LEMMA PhaseRests ==
  ASSUME Inv, RestInv, NEW w \in Workers, Scanned(w) \/ Parsed(w)
  PROVE  RestInv'
<1> DEFINE a == worker[w].attempt
<1>1. PICK status \in {"parsing", "chunking"}, pc \in {"infected", "parsing", "chunking"} :
        /\ attempt' = [attempt EXCEPT ![a].status = status]
        /\ worker' = [worker EXCEPT ![w].pc = pc]
        /\ worker[w].pc # "idle"
  BY DEF Scanned, Parsed
<1>2. UNCHANGED <<doc, infected, version, job, recovery, request, faults>> BY DEF Scanned, Parsed
<1>3. a \in DOMAIN attempt BY <1>1 DEF Inv, WorkerSound
<1>4. /\ AttemptsSame /\ attempt'[a].status = status
      /\ \A b \in DOMAIN attempt : b # a => attempt'[b] = attempt[b]
  <2> HIDE DEF a
  <2> QED BY <1>1, <1>3, AttemptMarked DEF AttemptsSame
<1>5. \A b \in DOMAIN attempt : Active(b) => ActiveIn(attempt', b)
  BY <1>4 DEF Active, ActiveIn
<1>6. \A x \in Workers :
        /\ worker'[x].job = worker[x].job /\ worker'[x].attempt = worker[x].attempt
        /\ worker'[x].pc # "idle" => worker[x].pc # "idle"
  BY <1>1 DEF Inv, TypeOK, WorkerState
<1>7. \A x \in Workers : worker[x].pc # "idle" => worker[x].attempt \in DOMAIN attempt
  BY DEF Inv, WorkerSound
<1>8. Unwritten /\ JobsSame BY <1>2 DEF Unwritten, JobsSame
<1>9. AttemptsSound' /\ VersionsSound' /\ CurrentShown'
  BY <1>2, <1>4, <1>5, <1>6, <1>7, <1>8, UnwrittenKeeps DEF Fresh
<1>10. ReadersSound' BY <1>2, <1>4, <1>8, UnwrittenReaders
<1> QED BY <1>9, <1>10 DEF RestInv

LEMMA LeaseRests ==
  ASSUME Inv, RestInv, NEW a \in DOMAIN attempt, LeaseExpires(a)
  PROVE  RestInv'
<1>1. /\ attempt' = [attempt EXCEPT ![a].expired = TRUE]
      /\ UNCHANGED <<doc, infected, version, job, worker, recovery, request>>
  BY DEF LeaseExpires
<1>2. AttemptsSame /\ \A b \in DOMAIN attempt : attempt'[b].status = attempt[b].status
  BY <1>1, Fields DEF AttemptsSame, Inv, TypeOK, Attempt
<1>3. \A b \in DOMAIN attempt : Active(b) => ActiveIn(attempt', b)
  BY <1>2 DEF Active, ActiveIn
<1>4. Unwritten /\ JobsSame BY <1>1 DEF Unwritten, JobsSame
<1>5. \A x \in Workers : worker[x].pc # "idle" => worker[x].attempt \in DOMAIN attempt
  BY DEF Inv, WorkerSound
<1>6. AttemptsSound' /\ VersionsSound' /\ CurrentShown'
  BY <1>1, <1>2, <1>3, <1>4, <1>5, UnwrittenKeeps DEF Fresh
<1>7. ReadersSound' BY <1>1, <1>2, <1>4, UnwrittenReaders
<1> QED BY <1>6, <1>7 DEF RestInv

\* The tables stay as they are: somebody reads.
LEMMA TablesRest ==
  ASSUME Inv, RestInv, UNCHANGED <<doc, version, attempt, job, worker>>
  PROVE  AttemptsSound' /\ VersionsSound' /\ CurrentShown'
<1>1. Unwritten /\ JobsSame /\ AttemptsSame BY DEF Unwritten, JobsSame, AttemptsSame
<1> QED BY <1>1, UnwrittenKeeps DEF Fresh, Active, ActiveIn

LEMMA ReadExpiredRests ==
  ASSUME Inv, RestInv, NEW a \in DOMAIN attempt, ReadExpired(a)
  PROVE  RestInv'
<1>1. /\ recovery' = [pc |-> "read", attempt |-> a, doc |-> doc]
      /\ UNCHANGED <<doc, infected, version, attempt, job, worker, request, faults>>
  BY DEF ReadExpired
<1>2. attempt[a].version <= doc.current /\ doc.current \in Nat
  <2>1. attempt[a].version \in DOMAIN version BY DEF Inv, VersionsNamed
  <2>2. doc.current = Len(version) BY DEF RestInv, VersionsSound
  <2> QED BY <2>1, <2>2, Fields DEF Inv
<1>3. ReadersSound' BY <1>1, <1>2 DEF RestInv, ReadersSound
<1> QED BY <1>1, <1>3, TablesRest DEF RestInv

LEMMA ReadForRequestRests ==
  ASSUME Inv, RestInv, NEW r \in Requests, NEW kind \in {"delete", "reprocess"},
         ReadForRequest(r, kind)
  PROVE  RestInv'
<1> DEFINE q == [pc |-> "read", kind |-> kind, doc |-> doc, next |-> Len(version) + 1]
<1>1. /\ request' = [request EXCEPT ![r] = q]
      /\ UNCHANGED <<doc, infected, version, attempt, job, worker, recovery, faults>>
  BY DEF ReadForRequest
<1>2. q.doc.current < q.next
  <2>1. doc.current = Len(version) /\ Len(version) \in Nat
    BY Fields DEF RestInv, VersionsSound, Inv
  <2> QED BY <2>1
<1> HIDE DEF q
<1>3. request'[r] = q /\ \A t \in Requests : t # r => request'[t] = request[t]
  BY <1>1 DEF Inv, TypeOK
<1>4. ReadersSound' BY <1>1, <1>2, <1>3 DEF RestInv, ReadersSound
<1> QED BY <1>1, <1>4, TablesRest DEF RestInv

-----------------------------------------------------------------------------
(* The steps of a worker that write the document or a version.             *)

\* Who is fenced in holds the current version, which it scans.
LEMMA HeldByWorker ==
  ASSUME Inv, RestInv, NEW w \in Workers, worker[w].pc # "idle", Fenced(w)
  PROVE  LET a == worker[w].attempt
             v == job[worker[w].job].version
         IN  /\ v = doc.current /\ v \in DOMAIN version /\ version[v].token = a /\ a # None
             /\ version[v].status = "scanning"
             /\ a \in DOMAIN attempt /\ attempt[a].version = v
             /\ \A x \in Workers : worker[x].pc # "idle" /\ x # w => worker[x].attempt # a
<1> DEFINE a == worker[w].attempt
           v == job[worker[w].job].version
<1>1. a \in DOMAIN attempt /\ attempt[a].version = v /\ worker[w].job \in DOMAIN job
  BY DEF Inv, WorkerSound
<1>2. v = doc.current /\ version[v].token = a BY DEF Fenced
<1>3. v \in DOMAIN version /\ a # None BY <1>1, Fields DEF Inv, VersionsNamed
<1>4. Held(a) BY <1>1, <1>2 DEF Held
<1>5. version[v].status = "scanning" BY <1>1, <1>4 DEF RestInv, AttemptsSound
<1>6. \A x \in Workers : worker[x].pc # "idle" /\ x # w => worker[x].attempt # a
  BY DEF RestInv, AttemptsSound
<1> QED BY <1>1, <1>2, <1>3, <1>5, <1>6

\* A worker that is fenced in ends: the document and its version show the same.
LEMMA FencedRests ==
  ASSUME Inv, RestInv, NEW w \in Workers, worker[w].pc # "idle", Leaves(w), Fenced(w),
         UNCHANGED <<recovery, request>>,
         NEW status \in {"ready", "failed", "quarantined"},
         doc'.status = status, doc'.current = doc.current, doc.status # "deleted",
         DOMAIN version' = DOMAIN version, Len(version') = Len(version),
         version'[doc.current].status = status,
         version'[doc.current].token = None \/
           (status = "quarantined" /\ version'[doc.current].token = version[doc.current].token),
         \A u \in DOMAIN version : u # doc.current => version'[u] = version[u],
         AttemptsSame,
         \A b \in DOMAIN attempt : b # worker[w].attempt => attempt'[b] = attempt[b]
  PROVE  RestInv'
<1> DEFINE a == worker[w].attempt
           v == doc.current
<1>1. /\ v \in DOMAIN version /\ version[v].token = a /\ a # None
      /\ a \in DOMAIN attempt /\ attempt[a].version = v
      /\ \A x \in Workers : worker[x].pc # "idle" /\ x # w => worker[x].attempt # a
  BY HeldByWorker
<1>2. JobsSame BY DEF JobsSame, Leaves
<1>3. AttemptsSound'
  <2>1. ASSUME NEW x \in Workers, worker'[x].pc # "idle" PROVE BusySame(x)
    <3> DEFINE b == worker[x].attempt
               u == attempt[b].version
    <3>1. x # w /\ worker'[x] = worker[x] BY <2>1 DEF Leaves
    <3>2. b \in DOMAIN attempt /\ b # a /\ b # None /\ u \in DOMAIN version
      BY <1>1, <2>1, <3>1, Fields DEF Inv, WorkerSound, VersionsNamed
    <3>3. attempt'[b] = attempt[b] BY <3>2
    <3>4. version'[u].token = b => version'[u] = version[u]
      <4>1. CASE u = v BY <1>1, <3>2, <4>1
      <4>2. CASE u # v BY <3>2, <4>2
      <4> QED BY <4>1, <4>2
    <3>5. Active(b) => ActiveIn(attempt', b) BY <3>3 DEF Active, ActiveIn
    <3> QED BY <2>1, <3>1, <3>4, <3>5 DEF BusySame
  <2>2. \A x \in Workers : BusySame(x) BY <2>1 DEF BusySame
  <2> QED BY <1>2, <2>2, AttemptsKeep DEF RestInv
<1>4. VersionsSound'
  <2>1. ASSUME NEW u \in DOMAIN version PROVE VersionSame(u)
    <3>1. CASE u = v BY <3>1 DEF VersionSame
    <3>2. CASE u # v BY <3>2 DEF VersionSame
    <3> QED BY <3>1, <3>2
  <2> QED BY <2>1, VersionsKeep DEF RestInv
<1>5. ReadersSound'
  <2>1. doc.current \in Nat BY DEF Inv, TypeOK, Doc
  <2> QED BY <2>1, ReadersKeep DEF RestInv, AttemptsSame
<1>6. CurrentShown' BY DEF CurrentShown
<1> QED BY <1>3, <1>4, <1>5, <1>6 DEF RestInv

LEMMA QuarantineRests ==
  ASSUME Inv, RestInv, NEW w \in Workers, Quarantine(w)
  PROVE  RestInv'
<1> DEFINE a == worker[w].attempt
           v == job[worker[w].job].version
           new == [doc EXCEPT !.status = "quarantined"]
<1>1. worker[w].pc # "idle" /\ UNCHANGED <<recovery, request>> /\ EndJob(w) BY DEF Quarantine
<1>2. Leaves(w) BY <1>1, EndLeaves
<1>3. CASE UNCHANGED <<doc, version, attempt>>
  BY <1>1, <1>2, <1>3, LeavingRests DEF Unwritten
<1>4. CASE Fenced(w) /\ CheckHolds(new)
  <2>1. /\ doc' = new /\ version' = [version EXCEPT ![v].status = "quarantined"]
        /\ attempt' = [attempt EXCEPT ![a].status = "failed"]
    BY <1>4 DEF Quarantine
  <2>2. /\ v = doc.current /\ v \in DOMAIN version /\ a \in DOMAIN attempt
    BY <1>1, <1>4, HeldByWorker
  <2>3. new.status = "quarantined" /\ new.current = doc.current /\ doc.status # "deleted"
    BY <1>4, OtherStatus
  <2> HIDE DEF a, v, new
  <2>4. /\ AttemptsSame /\ \A b \in DOMAIN attempt : b # a => attempt'[b] = attempt[b]
    BY <2>1, <2>2, AttemptMarked DEF AttemptsSame
  <2> DEFINE row == [version[v] EXCEPT !.status = "quarantined"]
  <2>5. version' = [version EXCEPT ![v] = row] BY <2>1
  <2>6. row.status = "quarantined" /\ row.token = version[v].token
    <3>1. version[v] \in Version BY <2>2, Fields DEF Inv
    <3> QED BY ONLY <3>1 DEF Version
  <2> HIDE DEF row
  <2>7. /\ DOMAIN version' = DOMAIN version /\ Len(version') = Len(version) /\ version'[v] = row
        /\ \A u \in DOMAIN version : u # v => version'[u] = version[u]
    BY <2>2, <2>5, VersionWritten
  <2>8. \A b \in DOMAIN attempt : b # worker[w].attempt => attempt'[b] = attempt[b]
    BY <2>4 DEF a
  <2> QED BY <1>1, <1>2, <1>4, <2>1, <2>2, <2>3, <2>4, <2>6, <2>7, <2>8, FencedRests
<1> QED BY <1>3, <1>4 DEF Quarantine

LEMMA SettleRests ==
  ASSUME Inv, RestInv, NEW w \in Workers, Settle(w)
  PROVE  RestInv'
<1> DEFINE a == worker[w].attempt
           v == job[worker[w].job].version
           new == [doc EXCEPT !.status = "ready"]
           row == [status |-> "ready", token |-> None, chunks |-> a]
<1>1. worker[w].pc # "idle" /\ UNCHANGED <<recovery, request>> /\ EndJob(w) BY DEF Settle
<1>2. Leaves(w) BY <1>1, EndLeaves
<1>3. CASE ~Fenced(w)
  <2>1. Unwritten /\ attempt' = [attempt EXCEPT ![a].status = "abandoned"]
    BY <1>3 DEF Settle, Unwritten
  <2> QED BY <1>1, <1>2, <1>3, <2>1, LeavingRests
<1>4. CASE UNCHANGED <<doc, version, attempt>>
  BY <1>1, <1>2, <1>4, LeavingRests DEF Unwritten
<1>5. CASE Fenced(w) /\ CheckHolds(new)
  <2>1. /\ doc' = new /\ version' = [version EXCEPT ![v] = row]
        /\ attempt' = [attempt EXCEPT ![a].status = "succeeded"]
    BY <1>5 DEF Settle
  <2>2. /\ v = doc.current /\ v \in DOMAIN version /\ a \in DOMAIN attempt
    BY <1>1, <1>5, HeldByWorker
  <2>3. new.status = "ready" /\ new.current = doc.current /\ doc.status # "deleted"
    BY <1>5, OtherStatus
  <2>4. row.status = "ready" /\ row.token = None OBVIOUS
  <2> HIDE DEF a, v, new, row
  <2>5. /\ AttemptsSame /\ \A b \in DOMAIN attempt : b # a => attempt'[b] = attempt[b]
    BY <2>1, <2>2, AttemptMarked DEF AttemptsSame
  <2>6. /\ DOMAIN version' = DOMAIN version /\ Len(version') = Len(version) /\ version'[v] = row
        /\ \A u \in DOMAIN version : u # v => version'[u] = version[u]
    BY <2>1, <2>2, VersionWritten
  <2>7. \A b \in DOMAIN attempt : b # worker[w].attempt => attempt'[b] = attempt[b]
    BY <2>5 DEF a
  <2> QED BY <1>1, <1>2, <1>5, <2>1, <2>2, <2>3, <2>4, <2>5, <2>6, <2>7, FencedRests
<1> QED BY <1>3, <1>4, <1>5 DEF Settle

LEMMA FailRests ==
  ASSUME Inv, RestInv, NEW w \in Workers, Fail(w)
  PROVE  RestInv'
<1> DEFINE a == worker[w].attempt
           v == job[worker[w].job].version
           new == IF Fenced(w) /\ doc.status # "quarantined"
                    THEN [doc EXCEPT !.status = "failed"] ELSE doc
           failed == [doc EXCEPT !.status = "failed"]
<1>1. worker[w].pc # "idle" /\ UNCHANGED <<recovery, request>> /\ EndJob(w) BY DEF Fail
<1>2. Leaves(w) BY <1>1, EndLeaves
<1>3. CASE UNCHANGED <<doc, version, attempt>>
  BY <1>1, <1>2, <1>3, LeavingRests DEF Unwritten
<1>4. CASE ~UNCHANGED <<doc, version, attempt>>
  <2>1. CheckHolds(new) BY <1>4 DEF Fail
  <2>2. /\ doc' = new
        /\ version' = IF ~Fenced(w) \/ version[v].status = "quarantined" THEN version
                      ELSE [version EXCEPT ![v].status = "failed", ![v].token = None]
        /\ attempt' = IF ~Active(a) \/ attempt[a].expired THEN attempt
                      ELSE [attempt EXCEPT ![a].status = "failed"]
    BY <2>1 DEF Fail
  <2>3. attempt' = attempt \/ attempt' = [attempt EXCEPT ![a].status = "failed"]
    <3> HIDE DEF a
    <3> QED BY <2>2
  <2>4. CASE ~Fenced(w)
    <3>1. Unwritten BY <2>2, <2>4 DEF Unwritten
    <3> HIDE DEF a
    <3>2. UNCHANGED attempt
          \/ \E s \in {"failed", "abandoned"} : attempt' = [attempt EXCEPT ![a].status = s]
      BY <2>3
    <3> QED BY <1>1, <1>2, <2>4, <3>1, <3>2, LeavingRests DEF a
  <2>5. CASE Fenced(w)
    <3>1. /\ v = doc.current /\ v \in DOMAIN version /\ a \in DOMAIN attempt
          /\ version[v].status = "scanning"
      BY <1>1, <2>5, HeldByWorker
    <3>2. doc.status \in {"deleted", "processing", "queued"}
      BY <3>1 DEF RestInv, CurrentShown
    <3>3. new = failed BY <2>5, <3>2
    <3>4. failed.status = "failed" /\ failed.current = doc.current /\ doc.status # "deleted"
      BY <2>1, <3>3, OtherStatus
    <3>5. version' = [version EXCEPT ![v].status = "failed", ![v].token = None]
      <4> HIDE DEF v
      <4> QED BY <2>2, <2>5, <3>1
    <3> HIDE DEF a, v, new, failed
    <3>6. /\ AttemptsSame /\ \A b \in DOMAIN attempt : b # a => attempt'[b] = attempt[b]
      <4>1. CASE attempt' = attempt BY <4>1 DEF AttemptsSame
      <4>2. CASE attempt' = [attempt EXCEPT ![a].status = "failed"]
        BY <3>1, <4>2, AttemptMarked DEF AttemptsSame
      <4> QED BY <2>3, <4>1, <4>2
    <3>7. /\ DOMAIN version' = DOMAIN version /\ Len(version') = Len(version)
          /\ version'[v].status = "failed" /\ version'[v].token = None
          /\ \A u \in DOMAIN version : u # v => version'[u] = version[u]
      BY <3>1, <3>5, VersionMarked
    <3>8. \A b \in DOMAIN attempt : b # worker[w].attempt => attempt'[b] = attempt[b]
      BY <3>6 DEF a
    <3> QED BY <1>1, <1>2, <2>2, <2>5, <3>1, <3>3, <3>4, <3>6, <3>7, <3>8, FencedRests
  <2> QED BY <2>4, <2>5
<1> QED BY <1>3, <1>4

LEMMA StartRests ==
  ASSUME Inv, RestInv, NEW w \in Workers, NEW j \in DOMAIN job, Start(w, j)
  PROVE  RestInv'
<1> DEFINE last == LastAttempt(j)
           v == job[j].version
           n == Len(attempt) + 1
           new == [status |-> "scanning", version |-> v, job |-> j, expired |-> FALSE]
           left == [a \in DOMAIN attempt |->
                      IF a = last THEN [attempt[a] EXCEPT !.status = "abandoned"] ELSE attempt[a]]
           q == [pc |-> "scanning", job |-> j, attempt |-> n]
           d == [doc EXCEPT !.status = "processing"]
<1>1. /\ attempt' = Append(left, new)
      /\ version' = [version EXCEPT ![v].status = "scanning", ![v].token = n]
      /\ worker' = [worker EXCEPT ![w] = q] /\ doc' = d
      /\ job' = [job EXCEPT ![j].status = "running"]
      /\ UNCHANGED <<infected, request, faults>>
      /\ recovery' = IdleRecovery \/ recovery' = recovery
      /\ doc.status # "deleted" /\ v = doc.current
  BY DEF Start, Startable
<1>2. /\ v \in DOMAIN version /\ attempt \in Seq(Attempt) /\ n \in Nat /\ n # None
      /\ n \notin DOMAIN attempt
  BY Fields DEF Inv, TypeOK, VersionsNamed, None
<1>3. new.status = "scanning" /\ new.version = v /\ new.job = j OBVIOUS
<1>4. d.status = "processing" /\ d.current = doc.current BY OtherStatus
<1>5. q.pc = "scanning" /\ q.job = j /\ q.attempt = n OBVIOUS
<1>6. \A a \in DOMAIN attempt :
        /\ left[a].job = attempt[a].job /\ left[a].version = attempt[a].version
        /\ attempt[a].job # j => left[a] = attempt[a]
  <2> SUFFICES ASSUME NEW a \in DOMAIN attempt
               PROVE  /\ left[a].job = attempt[a].job /\ left[a].version = attempt[a].version
                      /\ attempt[a].job # j => left[a] = attempt[a]
    OBVIOUS
  <2>1. attempt[a] \in Attempt /\ a # None BY Fields DEF Inv
  <2>2. CASE a = last
    <3>1. left[a] = [attempt[a] EXCEPT !.status = "abandoned"] BY <2>2
    <3>2. attempt[a].job = j BY <2>1, <2>2, LastIsOne
    <3> HIDE DEF left
    <3> QED BY <2>1, <3>1, <3>2 DEF Attempt
  <2>3. CASE a # last
    <3> HIDE DEF last
    <3> QED BY <2>3
  <2> QED BY <2>2, <2>3
<1>7. DOMAIN left = DOMAIN attempt /\ Len(left) = Len(attempt) /\ \E S : left \in Seq(S)
  <2>1. left = [a \in 1..Len(attempt) |-> left[a]] /\ Len(attempt) \in Nat BY <1>2
  <2> DEFINE S == {left[a] : a \in 1..Len(attempt)}
  <2>2. \A a \in 1..Len(attempt) : left[a] \in S OBVIOUS
  <2>3. DOMAIN left = DOMAIN attempt OBVIOUS
  <2> HIDE DEF left, S
  <2>4. left \in Seq(S) BY <2>1, <2>2
  <2>5. Len(left) = Len(attempt) BY <2>1, <2>4
  <2> QED BY <2>3, <2>4, <2>5
<1> HIDE DEF left, new, q, d, last, v
<1>8. /\ DOMAIN attempt' = DOMAIN attempt \cup {n} /\ attempt'[n] = new
      /\ \A a \in DOMAIN attempt : attempt'[a] = left[a]
  <2>1. PICK S : left \in Seq(S) BY <1>7
  <2>2. left \in Seq(S \cup {new}) BY <2>1
  <2> QED BY <1>1, <1>7, <2>2, Appended
<1> HIDE DEF n
<1>9. /\ DOMAIN version' = DOMAIN version /\ Len(version') = Len(version)
      /\ version'[v].status = "scanning" /\ version'[v].token = n
      /\ \A u \in DOMAIN version : u # v => version'[u] = version[u]
  <2>1. version' = [version EXCEPT ![v].status = "scanning", ![v].token = n] /\ v \in DOMAIN version
    BY <1>1, <1>2
  <2> QED BY ONLY <2>1, Inv, VersionMarked
<1>10. JobsSame /\ \A i \in DOMAIN job : i # j => job'[i] = job[i]
  BY <1>1, JobMarked DEF JobsSame
<1>11. worker'[w] = q /\ \A x \in Workers : x # w => worker'[x] = worker[x]
  BY <1>1 DEF Inv, TypeOK
<1>12. doc'.status = "processing" /\ doc'.current = v BY <1>1, <1>4
<1>13. AttemptsSound'
  <2>1. ASSUME NEW a \in DOMAIN attempt'
        PROVE  attempt'[a].job \in DOMAIN job' /\ attempt'[a].version = job'[attempt'[a].job].version
    <3>1. CASE a = n
      <4>1. j \in DOMAIN job' /\ job'[j].version = v BY <1>10 DEF JobsSame, v
      <4> QED BY <1>3, <1>8, <3>1, <4>1
    <3>2. CASE a # n
      <4>1. a \in DOMAIN attempt /\ attempt'[a].job = attempt[a].job
            /\ attempt'[a].version = attempt[a].version
        BY <1>6, <1>8, <2>1, <3>2
      <4>2. attempt[a].job \in DOMAIN job /\ attempt[a].version = job[attempt[a].job].version
        BY <4>1 DEF RestInv, AttemptsSound
      <4> QED BY <1>10, <4>1, <4>2 DEF JobsSame
    <3> QED BY <3>1, <3>2
  <2>2. ASSUME NEW x \in Workers, worker'[x].pc # "idle", x # w
        PROVE  LET b == worker'[x].attempt IN
               /\ b \in DOMAIN attempt /\ b # n
               /\ attempt'[b].job = worker'[x].job
               /\ version'[attempt'[b].version].token = b =>
                    ActiveIn(attempt', b) /\ version'[attempt'[b].version].status = "scanning"
    <3> DEFINE b == worker[x].attempt
               u == attempt[b].version
    <3>1. worker'[x] = worker[x] /\ worker[x].pc # "idle" BY <1>11, <2>2
    <3>2. b \in DOMAIN attempt BY <3>1 DEF Inv, WorkerSound
    <3>3. b # n /\ attempt'[b].job = attempt[b].job /\ attempt'[b].version = u
      BY <1>2, <1>6, <1>8, <3>2
    <3>4. attempt[b].job = worker[x].job
          /\ (version[u].token = b => Active(b) /\ version[u].status = "scanning")
      BY <3>1 DEF RestInv, AttemptsSound, Held
    <3>5. ASSUME version'[u].token = b
          PROVE  ActiveIn(attempt', b) /\ version'[u].status = "scanning"
      <4>1. u # v BY <1>9, <3>3, <3>5
      <4>2. u \in DOMAIN version BY <3>2 DEF Inv, VersionsNamed
      <4>3. version'[u] = version[u] BY <1>9, <4>1, <4>2
      <4>4. attempt[b].job # j BY <3>2, <4>1 DEF RestInv, AttemptsSound, v
      <4>5. attempt'[b] = attempt[b] BY <1>6, <1>8, <3>2, <4>4
      <4> QED BY <3>4, <3>5, <4>3, <4>5 DEF Active, ActiveIn
    <3> QED BY <3>1, <3>2, <3>3, <3>4, <3>5
  <2>3. \A x \in Workers : worker'[x].pc # "idle" =>
          LET b == worker'[x].attempt IN
          /\ attempt'[b].job = worker'[x].job
          /\ version'[attempt'[b].version].token = b =>
               ActiveIn(attempt', b) /\ version'[attempt'[b].version].status = "scanning"
          /\ \A y \in Workers : worker'[y].pc # "idle" /\ worker'[y].attempt = b => y = x
    <3> SUFFICES ASSUME NEW x \in Workers, worker'[x].pc # "idle"
                 PROVE  LET b == worker'[x].attempt IN
                        /\ attempt'[b].job = worker'[x].job
                        /\ version'[attempt'[b].version].token = b =>
                             ActiveIn(attempt', b) /\ version'[attempt'[b].version].status = "scanning"
                        /\ \A y \in Workers : worker'[y].pc # "idle" /\ worker'[y].attempt = b => y = x
      OBVIOUS
    <3>1. CASE x = w BY <1>3, <1>5, <1>8, <1>9, <1>11, <2>2, <3>1 DEF ActiveIn
    <3>2. CASE x # w
      <4>1. \A y \in Workers : y # w => worker'[y] = worker[y] BY <1>11
      <4>2. \A y \in Workers :
              y # w /\ worker'[y].pc # "idle" /\ worker'[y].attempt = worker'[x].attempt => y = x
        BY <3>2, <4>1 DEF RestInv, AttemptsSound
      <4>3. worker'[w].attempt = n BY <1>5, <1>11
      <4> QED BY <2>2, <3>2, <4>2, <4>3
    <3> QED BY <3>1, <3>2
  <2>4. \A x \in Workers :
          /\ Held(worker[x].attempt)' <=>
               version'[attempt'[worker'[x].attempt].version].token = worker'[x].attempt
          /\ Active(worker[x].attempt)' <=> ActiveIn(attempt', worker'[x].attempt)
    BY DEF Held, Active, ActiveIn
  <2> QED BY <2>1, <2>3, <2>4 DEF AttemptsSound
<1>14. VersionsSound'
  <2>1. ASSUME NEW u \in DOMAIN version
        PROVE  /\ version'[u].token # None =>
                    /\ version'[u].token \in DOMAIN attempt'
                    /\ attempt'[version'[u].token].version = u
                    /\ version'[u].status \notin {"queued", "ready", "failed"}
               /\ version'[u].status # "purged"
    <3>1. CASE u = v BY <1>3, <1>8, <1>9, <3>1
    <3>2. CASE u # v
      <4>1. version'[u] = version[u] BY <1>9, <3>2
      <4>2. version[u].status # "purged" BY <1>1 DEF RestInv, VersionsSound
      <4> QED BY <1>6, <1>8, <4>1, <4>2 DEF RestInv, VersionsSound
    <3> QED BY <3>1, <3>2
  <2>2. doc'.current = Len(version') /\ doc'.current \in DOMAIN version'
    BY <1>1, <1>9, <1>12 DEF RestInv, VersionsSound
  <2> QED BY <1>9, <2>1, <2>2 DEF VersionsSound
<1>15. ReadersSound'
  <2>1. doc.current \in Nat /\ IdleRecovery.pc = "idle" BY DEF Inv, TypeOK, Doc, IdleRecovery
  <2>2. \A a \in DOMAIN attempt : attempt'[a].version = attempt[a].version BY <1>6, <1>8
  <2>3. doc'.current = doc.current /\ doc.status # "deleted" BY <1>1, <1>12
  <2>4. doc'.current \in Nat /\ doc.current <= doc'.current BY <2>1, <2>3
  <2>5. recovery' = recovery \/ recovery'.pc = "idle" BY <1>1, <2>1
  <2>6. \A r \in Requests : request'[r] = request[r] BY <1>1
  <2> QED BY <2>2, <2>3, <2>4, <2>5, <2>6, ReadersKeep DEF RestInv
<1>16. CurrentShown'
  <2>1. version'[v].token = n /\ version'[v].status = "scanning" /\ n \in DOMAIN attempt' BY <1>8, <1>9
  <2>2. \A t : Active(t)' <=> ActiveIn(attempt', t) BY DEF Active, ActiveIn
  <2>3. ActiveIn(attempt', n) BY <1>3, <1>8 DEF ActiveIn
  <2> QED BY <1>12, <2>1, <2>2, <2>3 DEF CurrentShown
<1> QED BY <1>13, <1>14, <1>15, <1>16 DEF RestInv

-----------------------------------------------------------------------------
(* The recovery, the retention and the routes.                             *)

LEMMA FlushedCurrent ==
  ASSUME NEW row \in Doc, NEW read, NEW new
  PROVE  Flush(row, read, new).current =
           IF new.current = read.current THEN row.current ELSE new.current
BY DEF Flush, Doc

LEMMA JobAdded ==
  ASSUME Inv, AttemptsSound, AttemptsSame, NEW v \in Nat, job' = Append(job, NewJob(v))
  PROVE  /\ JobsSame /\ \A j \in DOMAIN job : job'[j] = job[j]
         /\ job'[Len(job')].version = v
         /\ \E j \in DOMAIN job' : job'[j].version = v /\ Fresh(j)'
<1>1. /\ job \in Seq(Job) /\ NewJob(v) \in Job /\ NewJob(v).version = v
      /\ NewJob(v).status = "queued"
  BY NewRows DEF Inv, TypeOK, NewJob
<1>2. PICK k \in Nat : k = Len(job) + 1 BY <1>1
<1>3. /\ Len(job') = k /\ DOMAIN job' = DOMAIN job \cup {k} /\ job'[k] = NewJob(v)
      /\ \A j \in DOMAIN job : job'[j] = job[j]
  BY <1>1, <1>2, Appended
<1>4. k \notin DOMAIN job BY <1>1, <1>2
<1>5. \A a \in DOMAIN attempt' : attempt'[a].job # k
  BY <1>4 DEF AttemptsSame, AttemptsSound
<1>6. JobsSame BY <1>3 DEF JobsSame
<1>7. Fresh(k)' BY <1>1, <1>3, <1>5 DEF Fresh
<1> QED BY <1>1, <1>3, <1>6, <1>7

\* A recovery whose commit fails, or whose attempt has lost its version, changes nothing
\* that the current version or a worker relies on.
LEMMA RecoverNothing ==
  ASSUME Inv, RestInv, Recover,
         UNCHANGED <<attempt, version, doc, job>> \/
           (~Held(recovery.attempt) /\ UNCHANGED <<version, doc, job>>
            /\ attempt' = [attempt EXCEPT ![recovery.attempt].status = "abandoned"])
  PROVE  RestInv'
<1> DEFINE a == recovery.attempt
<1>1. /\ UNCHANGED <<infected, worker, request, faults>> /\ recovery.pc = "read"
      /\ recovery' = IdleRecovery
  BY DEF Recover
<1>2. a \in DOMAIN attempt BY <1>1 DEF Inv, RecoverySound
<1>3. UNCHANGED <<version, doc, job, worker, request>> BY <1>1
<1>4. /\ AttemptsSame
      /\ \A b \in DOMAIN attempt : b # a => attempt'[b] = attempt[b]
      /\ Held(a) => attempt' = attempt
  <2>1. CASE UNCHANGED attempt BY <2>1 DEF AttemptsSame
  <2>2. CASE ~Held(a) /\ attempt' = [attempt EXCEPT ![a].status = "abandoned"]
    <3> HIDE DEF a
    <3> QED BY <1>2, <2>2, AttemptMarked DEF AttemptsSame
  <2> QED BY <2>1, <2>2
<1> HIDE DEF a
<1>5. \A b \in DOMAIN attempt : Held(b) /\ Active(b) => ActiveIn(attempt', b)
  BY <1>4 DEF Active, ActiveIn
<1>6. LET t == version[doc.current].token
      IN  t \in DOMAIN attempt /\ Active(t) => ActiveIn(attempt', t)
  <2> DEFINE t == version[doc.current].token
  <2> SUFFICES ASSUME t \in DOMAIN attempt, Active(t) PROVE ActiveIn(attempt', t) OBVIOUS
  <2>1. t # None BY Fields DEF Inv
  <2>2. attempt[t].version = doc.current BY <2>1 DEF RestInv, VersionsSound
  <2>3. Held(t) BY <2>2 DEF Held
  <2> QED BY <1>5, <2>3
<1>7. Unwritten /\ JobsSame BY <1>3 DEF Unwritten, JobsSame
<1>8. \A x \in Workers : worker[x].pc # "idle" => worker[x].attempt \in DOMAIN attempt
  BY DEF Inv, WorkerSound
<1>9. AttemptsSound' /\ VersionsSound' /\ CurrentShown'
  BY <1>3, <1>4, <1>5, <1>6, <1>7, <1>8, UnwrittenKeeps DEF Fresh
<1>10. ReadersSound'
  <2>1. recovery'.pc = "idle" BY <1>1 DEF IdleRecovery
  <2> QED BY <1>3, <1>4, <1>7, <2>1, UnwrittenReaders
<1> QED BY <1>9, <1>10 DEF RestInv

LEMMA RecoverRests == ASSUME Inv, RestInv, Recover PROVE RestInv'
<1> DEFINE a == recovery.attempt
           v == attempt[a].version
           c == doc.current
           read == recovery.doc
           to == [read EXCEPT !.status = "queued"]
           new == IF Live THEN Flush(doc, read, to) ELSE doc
<1>1. /\ UNCHANGED <<infected, worker, request, faults>> /\ recovery.pc = "read"
      /\ recovery' = IdleRecovery
  BY DEF Recover
<1>2. /\ a \in DOMAIN attempt /\ v \in DOMAIN version /\ v \in Nat /\ a # None
      /\ read \in Doc /\ doc \in Doc /\ c \in DOMAIN version
  <2>1. a \in DOMAIN attempt BY <1>1 DEF Inv, RecoverySound
  <2>2. v \in DOMAIN version BY <2>1 DEF Inv, VersionsNamed
  <2>3. v \in Nat /\ a # None BY <2>1, <2>2, Fields DEF Inv
  <2>4. c \in DOMAIN version BY DEF RestInv, VersionsSound
  <2> QED BY <2>1, <2>2, <2>3, <2>4 DEF Inv, TypeOK, Recovery
<1>3. CASE UNCHANGED <<attempt, version, doc, job>> \/ ~Held(a)
  <2>1. UNCHANGED <<attempt, version, doc, job>> \/
           (~Held(recovery.attempt) /\ UNCHANGED <<version, doc, job>>
            /\ attempt' = [attempt EXCEPT ![recovery.attempt].status = "abandoned"])
    BY <1>3 DEF Recover, Live
  <2> QED BY <2>1, RecoverNothing
<1>4. CASE ~UNCHANGED <<attempt, version, doc, job>> /\ Held(a)
  <2>1. CheckHolds(new) BY <1>4 DEF Recover
  <2>2. /\ doc' = new /\ attempt' = [attempt EXCEPT ![a].status = "abandoned"]
        /\ version' = [version EXCEPT ![v].status = "queued", ![v].token = None]
        /\ job' = IF Live THEN Append(job, NewJob(v)) ELSE job
    BY <1>4, <2>1 DEF Recover
  <2>3. /\ doc'.current = c
        /\ Live => doc'.status \in {"queued", doc.status}
        /\ ~Live => doc' = doc
    <3>1. CASE ~Live BY <2>2, <3>1
    <3>2. CASE Live
      <4>1. to \in Doc /\ to.status = "queued" /\ to.current = read.current
        BY ONLY <1>2 DEF Doc
      <4>2. doc' = Flush(doc, read, to) BY <2>2, <3>2
      <4> HIDE DEF to, read, new
      <4>3. doc'.current = c BY <1>2, <4>1, <4>2, FlushedCurrent
      <4>4. doc'.status \in {"queued", doc.status} BY <1>2, <4>1, <4>2, FlushedDoc
      <4> QED BY <3>2, <4>3, <4>4
    <3> QED BY <3>1, <3>2
  <2>4. doc.status = "deleted" => doc'.status = "deleted" BY RecoverKeeps DEF Kept
  <2>5. version[v].token = a BY <1>4 DEF Held
  <2>6. Live <=> read.current = v /\ read.status # "deleted" BY <1>4 DEF Live
  <2>7. v = c /\ doc.status # "deleted" => Live
    <3>1. read.current \in Nat /\ c \in Nat BY <1>2 DEF Doc
    <3> QED BY <1>1, <1>2, <2>6, <3>1 DEF RestInv, ReadersSound
  <2> HIDE DEF a, v, new, to, read
  <2>8. /\ AttemptsSame /\ \A b \in DOMAIN attempt : b # a => attempt'[b] = attempt[b]
    BY <1>2, <2>2, AttemptMarked DEF AttemptsSame
  <2>9. /\ DOMAIN version' = DOMAIN version /\ Len(version') = Len(version)
        /\ version'[v].status = "queued" /\ version'[v].token = None
        /\ \A u \in DOMAIN version : u # v => version'[u] = version[u]
    <3>1. version' = [version EXCEPT ![v].status = "queued", ![v].token = None] BY <2>2
    <3> QED BY ONLY <1>2, <3>1, Inv, VersionMarked
  <2>10. Live => /\ JobsSame /\ \A j \in DOMAIN job : job'[j] = job[j]
                 /\ job'[Len(job')].version = v
                 /\ \E j \in DOMAIN job' : job'[j].version = v /\ Fresh(j)'
    <3> SUFFICES ASSUME Live PROVE /\ JobsSame /\ \A j \in DOMAIN job : job'[j] = job[j]
                 /\ job'[Len(job')].version = v
                 /\ \E j \in DOMAIN job' : job'[j].version = v /\ Fresh(j)'
      OBVIOUS
    <3>1. job' = Append(job, NewJob(v)) /\ AttemptsSound BY <2>2 DEF RestInv
    <3> QED BY <1>2, <2>8, <3>1, JobAdded
  <2>11. ~Live => job' = job BY <2>2
  <2>12. JobsSame BY <2>10, <2>11 DEF JobsSame
  <2>13. AttemptsSound'
    <3>1. ASSUME NEW x \in Workers, worker'[x].pc # "idle" PROVE BusySame(x)
      <4> DEFINE b == worker[x].attempt
                 u == attempt[b].version
      <4>1. worker'[x] = worker[x] BY <1>1
      <4>2. b \in DOMAIN attempt /\ b # None /\ u \in DOMAIN version
        BY <3>1, <4>1, Fields DEF Inv, WorkerSound, VersionsNamed
      <4>3. ASSUME version'[u].token = b PROVE u # v
        BY <2>9, <4>2, <4>3
      <4>4. u # v => b # a BY DEF v
      <4>5. version'[u].token = b => version'[u] = version[u] /\ attempt'[b] = attempt[b]
        BY <2>8, <2>9, <4>2, <4>3, <4>4
      <4> QED BY <3>1, <4>1, <4>5 DEF BusySame, Active, ActiveIn
    <3>2. \A x \in Workers : BusySame(x) BY <3>1 DEF BusySame
    <3> QED BY <2>8, <2>12, <3>2, AttemptsKeep DEF RestInv
  <2>14. VersionsSound'
    <3>1. ASSUME NEW u \in DOMAIN version PROVE VersionSame(u)
      <4>1. CASE u = v BY <2>9, <4>1 DEF VersionSame
      <4>2. CASE u # v BY <2>9, <4>2 DEF VersionSame
      <4> QED BY <4>1, <4>2
    <3> QED BY <2>3, <2>4, <2>8, <2>9, <3>1, VersionsKeep DEF RestInv
  <2>15. ReadersSound'
    <3>1. doc'.current \in Nat /\ doc.current <= doc'.current BY <1>2, <2>3 DEF Doc
    <3>2. recovery'.pc = "idle" BY <1>1 DEF IdleRecovery
    <3>3. \A b \in DOMAIN attempt : attempt'[b].version = attempt[b].version BY <2>8 DEF AttemptsSame
    <3>4. \A r \in Requests : request'[r] = request[r] BY <1>1
    <3> QED BY <2>4, <3>1, <3>2, <3>3, <3>4, ReadersKeep DEF RestInv
  <2>16. CurrentShown'
    <3>1. CASE doc.status = "deleted" BY <2>4, <3>1 DEF CurrentShown
    <3>2. CASE doc.status # "deleted" /\ v = c
      BY <2>3, <2>7, <2>9, <2>10, <3>2 DEF CurrentShown
    <3>3. ASSUME doc.status # "deleted", v # c PROVE CurrentShown'
      <4> DEFINE t == version[c].token
      <4>1. version'[c] = version[c] BY <1>2, <2>9, <3>3
      <4>2. t \in DOMAIN attempt /\ Active(t) => ActiveIn(attempt', t)
        <5> SUFFICES ASSUME t \in DOMAIN attempt, Active(t) PROVE ActiveIn(attempt', t) OBVIOUS
        <5>1. t # None BY Fields DEF Inv
        <5>2. attempt[t].version = c BY <1>2, <5>1 DEF RestInv, VersionsSound
        <5>3. t # a BY <3>3, <5>2 DEF v
        <5> QED BY <2>8, <5>3 DEF Active, ActiveIn
      <4>3. CASE ~Live
        BY <2>3, <2>8, <2>11, <2>12, <4>1, <4>2, <4>3, ShownKept DEF RestInv, Fresh
      <4>4. CASE Live
        <5>1. doc'.status = "queued" => Overtaken' BY <2>3, <2>10, <3>3, <4>4 DEF Overtaken
        <5>2. ASSUME version[c].status = "queued"
              PROVE  \E j \in DOMAIN job' : job'[j].version = c /\ Fresh(j)'
          <6>1. PICK j \in DOMAIN job : job[j].version = c /\ Fresh(j)
            BY <3>3, <5>2 DEF RestInv, CurrentShown
          <6>2. job'[j].version = c /\ j \in DOMAIN job' /\ job'[j].status = "queued"
            BY <2>10, <2>12, <4>4, <6>1 DEF JobsSame, Fresh
          <6>3. Fresh(j)' BY <2>8, <6>1, <6>2 DEF Fresh, AttemptsSame
          <6> QED BY <6>2, <6>3
        <5>3. version[c].status = "scanning" =>
                /\ t \in DOMAIN attempt' /\ ActiveIn(attempt', t)
                /\ doc'.status \in {"processing", "queued"}
          BY <2>3, <2>8, <3>3, <4>2, <4>4 DEF RestInv, CurrentShown, AttemptsSame
        <5>4. version[c].status \in {"ready", "failed", "quarantined"} =>
                doc'.status = version[c].status \/ Overtaken'
          BY <2>3, <3>3, <4>4, <5>1 DEF RestInv, CurrentShown, Overtaken
        <5>5. \A s : Active(s)' <=> ActiveIn(attempt', s) BY DEF Active, ActiveIn
        <5> QED BY <2>3, <4>1, <5>2, <5>3, <5>4, <5>5 DEF CurrentShown
      <4> QED BY <4>3, <4>4
    <3> QED BY <3>1, <3>2, <3>3
  <2> QED BY <2>13, <2>14, <2>15, <2>16 DEF RestInv
<1> QED BY <1>3, <1>4

LEMMA PurgeRests == ASSUME Inv, RestInv, Purge PROVE RestInv'
<1>1. /\ doc' = [doc EXCEPT !.stored = FALSE] /\ doc.status = "deleted"
      /\ version' = [v \in DOMAIN version |-> [version[v] EXCEPT !.status = "purged"]]
      /\ UNCHANGED <<infected, attempt, job, worker, recovery, request, faults>>
      /\ \A a \in DOMAIN attempt : ~Active(a)
  BY DEF Purge
<1>2. doc'.status = "deleted" /\ doc'.current = doc.current /\ doc.current \in Nat
  BY <1>1 DEF Inv, TypeOK, Doc
<1>3. /\ DOMAIN version' = DOMAIN version
      /\ \A v \in DOMAIN version :
           version'[v].status = "purged" /\ version'[v].token = version[v].token
  BY <1>1, Fields DEF Inv, Version
<1>4. Len(version') = Len(version)
  <2>1. version' \in Seq(Version) BY PurgeKeeps DEF Inv, TypeOK
  <2> QED BY <1>3, <2>1 DEF Inv, TypeOK
<1>5. JobsSame /\ AttemptsSame BY <1>1 DEF JobsSame, AttemptsSame
<1>6. AttemptsSound'
  <2>1. ASSUME NEW x \in Workers, worker'[x].pc # "idle" PROVE BusySame(x)
    <3>1. worker[x].attempt \in DOMAIN attempt
          /\ attempt[worker[x].attempt].version \in DOMAIN version
      BY <1>1, <2>1 DEF Inv, WorkerSound, VersionsNamed
    <3> QED BY <1>1, <1>3, <2>1, <3>1 DEF BusySame
  <2>2. \A x \in Workers : BusySame(x) BY <2>1 DEF BusySame
  <2> QED BY <1>5, <2>2, AttemptsKeep DEF RestInv
<1>7. VersionsSound'
  BY <1>1, <1>2, <1>3, <1>4 DEF RestInv, VersionsSound
<1>8. ReadersSound'
  <2>1. doc.current <= doc'.current BY <1>2
  <2>2. \A a \in DOMAIN attempt : attempt'[a].version = attempt[a].version BY <1>1
  <2> QED BY <1>1, <1>2, <2>1, <2>2, ReadersKeep DEF RestInv
<1>9. CurrentShown' BY <1>2 DEF CurrentShown
<1> QED BY <1>6, <1>7, <1>8, <1>9 DEF RestInv

LEMMA AnsweredOthers ==
  ASSUME Inv, NEW r \in Requests, Answered(r)
  PROVE  \A t \in Requests : request'[t] = request[t] \/ request'[t].pc # "read"
BY DEF Answered, IdleRequest, Inv, TypeOK

LEMMA DeleteRests ==
  ASSUME Inv, RestInv, NEW r \in Requests, CommitDelete(r)
  PROVE  RestInv'
<1> DEFINE read == request[r].doc
           to == [read EXCEPT !.status = "deleted", !.deletedAt = TRUE]
<1>1. /\ UNCHANGED <<infected, version, attempt, job, worker, recovery, faults>>
      /\ doc' = Flush(doc, read, to) /\ Answered(r) /\ request[r].pc = "read"
  BY DEF CommitDelete
<1>2. read \in Doc /\ doc \in Doc /\ doc.current \in Nat
  BY Fields DEF RequestState, Inv, TypeOK, Doc
<1>3. read.status # "deleted" BY <1>1 DEF Inv, RequestSound
<1>4. to \in Doc /\ to.status = "deleted" /\ to.current = read.current BY ONLY <1>2 DEF Doc
<1> HIDE DEF read, to
<1>5. doc'.status = "deleted" BY <1>1, <1>2, <1>3, <1>4, FlushedDoc
<1>6. doc'.current = doc.current BY <1>1, <1>2, <1>4, FlushedCurrent
<1>7. JobsSame /\ AttemptsSame BY <1>1 DEF JobsSame, AttemptsSame
<1>8. AttemptsSound'
  <2>1. \A x \in Workers : BusySame(x) BY <1>1 DEF BusySame, Active, ActiveIn
  <2> QED BY <1>7, <2>1, AttemptsKeep DEF RestInv
<1>9. VersionsSound'
  <2>1. \A v \in DOMAIN version : VersionSame(v) BY <1>1 DEF VersionSame
  <2> QED BY <1>1, <1>5, <1>6, <1>7, <2>1, VersionsKeep DEF RestInv
<1>10. ReadersSound'
  <2>1. doc'.current \in Nat /\ doc.current <= doc'.current BY <1>2, <1>6
  <2>2. \A a \in DOMAIN attempt : attempt'[a].version = attempt[a].version BY <1>1
  <2> QED BY <1>1, <1>5, <2>1, <2>2, AnsweredOthers, ReadersKeep DEF RestInv
<1>11. CurrentShown' BY <1>5 DEF CurrentShown
<1> QED BY <1>8, <1>9, <1>10, <1>11 DEF RestInv

LEMMA ReprocessRests ==
  ASSUME Inv, RestInv, NEW r \in Requests, CommitReprocess(r)
  PROVE  RestInv'
<1> DEFINE read == request[r].doc
           next == request[r].next
           to == [read EXCEPT !.status = "queued", !.current = next]
           new == Flush(doc, read, to)
<1>1. /\ UNCHANGED <<infected, attempt, worker, recovery, faults>>
      /\ Answered(r) /\ request[r].pc = "read"
  BY DEF CommitReprocess
<1>2. /\ read \in Doc /\ doc \in Doc /\ next \in 1..(Len(version) + 1) /\ next \in Nat
      /\ Len(version) \in Nat /\ DOMAIN version = 1..Len(version) /\ version \in Seq(Version)
      /\ doc.current \in Nat /\ read.current \in Nat
  <2>1. read \in Doc /\ doc \in Doc /\ next \in Nat BY Fields DEF RequestState, Inv, TypeOK
  <2>2. next \in 1..(Len(version) + 1) BY <1>1 DEF Inv, RequestSound
  <2>3. doc.current \in Nat /\ read.current \in Nat BY <2>1 DEF Doc
  <2> QED BY <2>1, <2>2, <2>3, Fields DEF Inv, TypeOK
<1>3. AttemptsSame BY <1>1 DEF AttemptsSame
<1>4. \A a \in DOMAIN attempt : attempt'[a].version = attempt[a].version BY <1>1
<1>5. \A t \in Requests : request'[t] = request[t] \/ request'[t].pc # "read"
  BY <1>1, AnsweredOthers
<1>6. CASE UNCHANGED <<doc, version, job>>
  <2>1. ReadersSound'
    <3>1. doc'.current \in Nat /\ doc.current <= doc'.current BY <1>2, <1>6
    <3> QED BY <1>1, <1>4, <1>5, <1>6, <3>1, ReadersKeep DEF RestInv
  <2> QED BY <1>1, <1>6, <2>1, TablesRest DEF RestInv
<1>7. CASE ~UNCHANGED <<doc, version, job>>
  <2>1. /\ doc' = new /\ CheckHolds(new) /\ next \notin DOMAIN version
        /\ version' = Append(version, NewVersion) /\ job' = Append(job, NewJob(next))
    BY <1>7 DEF CommitReprocess
  <2>2. read.current < next BY <1>1 DEF RestInv, ReadersSound
  <2>3. to.current = next
    <3> HIDE DEF next, read
    <3> QED BY ONLY <1>2 DEF Doc
  <2> HIDE DEF to, read
  <2>4. doc'.current = next
    <3>1. next # read.current BY <1>2, <2>2
    <3> QED BY <1>2, <2>1, <2>3, <3>1, FlushedCurrent
  <2> HIDE DEF new, next
  <2>5. doc.status = "deleted" => doc'.status = "deleted" BY ReprocessKeeps DEF Kept
  <2>6. next = Len(version) + 1 BY <1>2, <2>1
  <2>7. /\ Len(version') = next /\ DOMAIN version' = DOMAIN version \cup {next}
        /\ version'[next] = NewVersion /\ \A v \in DOMAIN version : version'[v] = version[v]
    BY <1>2, <2>1, <2>6, NewRows, Appended
  <2>8. /\ JobsSame /\ \E j \in DOMAIN job' : job'[j].version = next /\ Fresh(j)'
    BY <1>2, <1>3, <2>1, JobAdded DEF RestInv
  <2>9. AttemptsSound'
    <3>1. ASSUME NEW x \in Workers, worker'[x].pc # "idle" PROVE BusySame(x)
      <4>1. attempt[worker[x].attempt].version \in DOMAIN version
        BY <1>1, <3>1 DEF Inv, WorkerSound, VersionsNamed
      <4> QED BY <1>1, <2>7, <3>1, <4>1 DEF BusySame, Active, ActiveIn
    <3>2. \A x \in Workers : BusySame(x) BY <3>1 DEF BusySame
    <3> QED BY <1>3, <2>8, <3>2, AttemptsKeep DEF RestInv
  <2>10. NewVersion.status = "queued" /\ NewVersion.token = None BY DEF NewVersion
  <2>11. VersionsSound'
    <3>1. ASSUME NEW v \in DOMAIN version'
          PROVE  /\ version'[v].token # None =>
                      /\ version'[v].token \in DOMAIN attempt'
                      /\ attempt'[version'[v].token].version = v
                      /\ version'[v].status \notin {"queued", "ready", "failed"}
                 /\ version'[v].status = "purged" => doc'.status = "deleted"
      <4>1. CASE v = next BY <2>7, <2>10, <4>1
      <4>2. CASE v # next
        BY <1>1, <2>5, <2>7, <4>2 DEF RestInv, VersionsSound
      <4> QED BY <4>1, <4>2
    <3>2. doc'.current = Len(version') /\ doc'.current \in DOMAIN version' BY <2>4, <2>7
    <3> QED BY <3>1, <3>2 DEF VersionsSound
  <2>12. ReadersSound'
    <3>1. doc.current = Len(version) BY DEF RestInv, VersionsSound
    <3>2. doc'.current \in Nat /\ doc.current <= doc'.current BY <1>2, <2>4, <2>6, <3>1
    <3> QED BY <1>1, <1>4, <1>5, <2>5, <3>2, ReadersKeep DEF RestInv
  <2>13. CurrentShown' BY <2>4, <2>7, <2>8, <2>10 DEF CurrentShown
  <2> QED BY <2>9, <2>11, <2>12, <2>13 DEF RestInv
<1> QED BY <1>6, <1>7

LEMMA RestStep == Inv /\ RestInv /\ [Next]_vars => RestInv'
<1> SUFFICES ASSUME Inv, RestInv, [Next]_vars PROVE RestInv' OBVIOUS
<1>1. ASSUME NEW w \in Workers, WorkerStep(w) \/ WorkerDies(w) PROVE RestInv'
  <2>1. ASSUME NEW j \in DOMAIN job, Refuse(w, j) \/ Start(w, j) \/ StartDeadlocks(w, j)
        PROVE  RestInv'
    BY <2>1, RefuseRests, StartRests
  <2>2. CASE Scanned(w) \/ Parsed(w) BY <2>2, PhaseRests
  <2>3. CASE LoseLease(w) \/ WorkerDies(w) BY <2>3, LoseLeaseRests
  <2>4. CASE Quarantine(w) BY <2>4, QuarantineRests
  <2>5. CASE Settle(w) BY <2>5, SettleRests
  <2>6. CASE Fail(w) BY <2>6, FailRests
  <2> QED BY <1>1, <2>1, <2>2, <2>3, <2>4, <2>5, <2>6 DEF WorkerStep
<1>2. CASE \E a \in DOMAIN attempt : LeaseExpires(a) BY <1>2, LeaseRests
<1>3. CASE RecoveryStep BY <1>3, ReadExpiredRests, RecoverRests DEF RecoveryStep
<1>4. CASE Purge BY <1>4, PurgeRests
<1>5. ASSUME NEW r \in Requests,
             \/ \E kind \in {"delete", "reprocess"} : ReadForRequest(r, kind)
             \/ CommitDelete(r) \/ CommitReprocess(r)
      PROVE  RestInv'
  BY <1>5, ReadForRequestRests, DeleteRests, ReprocessRests
<1>6. CASE UNCHANGED vars
  <2>1. UNCHANGED <<doc, version, attempt, job, worker, recovery, request>> BY <1>6 DEF vars
  <2>2. ReadersSound' BY <2>1 DEF RestInv, ReadersSound
  <2> QED BY <2>1, <2>2, TablesRest DEF RestInv
<1> QED BY <1>1, <1>2, <1>3, <1>4, <1>5, <1>6 DEF Next

LEMMA RestInit == Init => RestInv
<1> SUFFICES ASSUME Init PROVE RestInv OBVIOUS
<1>1. doc.status = "queued" /\ doc.current = 1 BY DEF Init, NewDoc
<1>2. /\ DOMAIN version = {1} /\ Len(version) = 1 /\ version[1].status = "queued"
      /\ version[1].token = None
  BY DEF Init, NewVersion
<1>3. DOMAIN attempt = {} BY DEF Init
<1>4. DOMAIN job = {1} /\ job[1].version = 1 /\ job[1].status = "queued" BY DEF Init, NewJob
<1>5. /\ \A w \in Workers : worker[w].pc = "idle"
      /\ recovery.pc = "idle" /\ \A r \in Requests : request[r].pc = "idle"
  BY DEF Init, IdleWorker, IdleRecovery, IdleRequest
<1>6. AttemptsSound BY <1>3, <1>5 DEF AttemptsSound
<1>7. VersionsSound BY <1>1, <1>2 DEF VersionsSound
<1>8. ReadersSound BY <1>5 DEF ReadersSound
<1>9. CurrentShown BY <1>1, <1>2, <1>3, <1>4 DEF CurrentShown, Fresh
<1> QED BY <1>6, <1>7, <1>8, <1>9 DEF RestInv

\* When no job, attempt, recovery or request is under way any more, the document shows
\* what became of its current version, whatever was recovered, refused, deadlocked,
\* replaced or came back late before, for any number of workers, requests, versions
\* and faults; Overtaken is the exception the code has
\* (recover_expired_document_attempts).
THEOREM RestShowsStatus == Spec => []StatusAtRest
<1>1. Init => Inv /\ RestInv BY InvInit, RestInit
<1>2. (Inv /\ RestInv) /\ [Next]_vars => (Inv /\ RestInv)' BY InvStep, RestStep
<1>3. Inv /\ RestInv => StatusAtRest
  <2> SUFFICES ASSUME Inv, RestInv, \A j \in DOMAIN job : job[j].status = "ended",
                      \A a \in DOMAIN attempt : ~Active(a), doc.status # "deleted"
               PROVE  doc.status = version[doc.current].status \/ Overtaken
    BY DEF StatusAtRest
  <2>1. doc.current \in DOMAIN version /\ version[doc.current].status # "purged"
    BY DEF RestInv, VersionsSound
  <2>2. version[doc.current] \in Version BY <2>1, Fields DEF Inv
  <2>3. version[doc.current].status \notin {"queued", "scanning"}
    BY DEF RestInv, CurrentShown, Fresh
  <2>4. version[doc.current].status \in {"ready", "failed", "quarantined"}
    BY <2>1, <2>2, <2>3 DEF Version
  <2> QED BY <2>4 DEF RestInv, CurrentShown
<1> QED BY <1>1, <1>2, <1>3, PTL DEF Spec
=============================================================================
