----------------------------- MODULE ServicesProofs -----------------------------
(***************************************************************************)
(* Theorems about EmailDelivery: one copy at most, mailed under the lease, *)
(* and no live link of a failed delivery, for every number of workers,     *)
(* attempts and faults, with and without a sender that deduplicates.       *)
(*                                                                         *)
(* Then the theorems about MCServices: what is proved of a component alone *)
(* holds of the components side by side.                                   *)
(***************************************************************************)
EXTENDS MCServices, TLAPS

Sending(w) == worker[w].pc \in {"started", "sending"}

\* Without deduplication one worker at most is between the mark and the mail,
\* and nothing was mailed before the mark.
OneSender ==
  ~Idempotent =>
    /\ mails > 0 => started
    /\ \A w \in Workers : Sending(w) => started /\ mails = 0
    /\ \A v, w \in Workers : Sending(v) /\ Sending(w) => v = w

\* A lease stands on a running job only, and who executes was given one.
LeaseRuns ==
  /\ job.lease # 0 => job.status = "running"
  /\ \A w \in Workers : worker[w].pc # "idle" => worker[w].lease # 0

\* A token is mailed with the job's row locked: nobody changes it meanwhile.
SentUnderLock ==
  \A w \in Workers : worker[w].pc = "sending" /\ HasToken =>
    worker[w].locks /\ Owns(w) /\ job.status = "running" /\ ~job.cancel

\* What was mailed about a token had one; a notification has none.
TokenMailed ==
  /\ HasToken /\ (mails > 0 \/ \E w \in Workers :
                    worker[w].pc \in {"prepared", "started", "sending"}) => token # "none"
  /\ ~HasToken => token = "none"

LEMMA PcType ==
  ASSUME TypeOK, NEW w \in Workers
  PROVE  /\ worker[w].pc \in {"idle", "begun", "prepared", "started", "sending", "mailed",
                              "done", "rejected", "unavailable", "stopped"}
         /\ worker[w].lease \in Nat /\ worker[w].locks \in BOOLEAN
BY DEF TypeOK, Worker

\* What Goto makes of the workers.
LEMMA GotoMoves ==
  ASSUME TypeOK, NEW w \in Workers,
         NEW pc \in {"idle", "begun", "prepared", "started", "sending", "mailed",
                     "done", "rejected", "unavailable", "stopped"}, Goto(w, pc)
  PROVE  /\ worker' \in [Workers -> Worker]
         /\ worker'[w].pc = pc /\ worker'[w].lease = worker[w].lease
         /\ ~worker'[w].locks
         /\ \A v \in Workers : v # w => worker'[v] = worker[v]
BY DEF Goto, TypeOK, Worker

LEMMA IdleMoves ==
  ASSUME TypeOK, NEW w \in Workers, worker' = [worker EXCEPT ![w] = IdleWorker]
  PROVE  /\ worker' \in [Workers -> Worker]
         /\ worker'[w].pc = "idle"
         /\ \A v \in Workers : v # w => worker'[v] = worker[v]
BY DEF IdleWorker, TypeOK, Worker

\* The type of every variable holds initially and is kept by every step.
LEMMA TypedInit == Init => TypeOK
<1> SUFFICES ASSUME Init PROVE TypeOK OBVIOUS
<1>1. kind \in Kinds /\ mails \in Nat /\ started \in BOOLEAN /\ sent \in BOOLEAN
  BY DEF Init
<1>2. token \in {"none", "live", "used", "revoked"} BY DEF Init
<1>3. job \in Job BY DEF Init, Job
<1>4. live \in BOOLEAN BY DEF Init
<1>5. worker \in [Workers -> Worker] BY DEF Init, Worker, IdleWorker
<1>6. faults \in 0..MaxFaults BY EmailAssumption DEF Init
<1> QED BY <1>1, <1>2, <1>3, <1>4, <1>5, <1>6 DEF TypeOK

LEMMA FaultType == ASSUME TypeOK, NEW f, Fault(f) PROVE faults' \in 0..MaxFaults
BY EmailAssumption DEF TypeOK, Fault

LEMMA JobFields ==
  ASSUME TypeOK
  PROVE  /\ job.status \in {"queued", "running", "retrying", "succeeded", "failed", "cancelled"}
         /\ job.lease \in Nat /\ job.issued \in Nat /\ job.attempts \in Nat
         /\ job.cancel \in BOOLEAN /\ job.retryable \in BOOLEAN
BY DEF TypeOK, Job

LEMMA OutcomeType ==
  ASSUME TypeOK, NEW w \in Workers, NEW s \in {"retrying", "succeeded", "failed", "cancelled"},
         NEW r \in BOOLEAN, Outcome(w, s, r)
  PROVE  /\ job' \in Job
         /\ Owns(w) => job'.status = s
         /\ ~Owns(w) => job' = job
<1>1. CASE Owns(w)
  <2>1. job' = [job EXCEPT !.status = s, !.lease = 0, !.retryable = r]
    BY <1>1 DEF Outcome
  <2>2. job \in Job BY DEF TypeOK
  <2>3. job' \in Job BY <2>1, <2>2 DEF Job
  <2>4. job'.status = s BY <2>1, <2>2 DEF Job
  <2> QED BY <1>1, <2>3, <2>4
<1>2. CASE ~Owns(w)
  <2>1. job' = job BY <1>2 DEF Outcome
  <2> QED BY <1>2, <2>1 DEF TypeOK
<1> QED BY <1>1, <1>2

\* One step of the system keeps the types: the cases are its actions.
LEMMA TypedStep == TypeOK /\ [Next]_vars => TypeOK'
<1> SUFFICES ASSUME TypeOK, [Next]_vars PROVE TypeOK' OBVIOUS
<1> USE DEF TypeOK
<1>1. ASSUME NEW w \in Workers, Begin(w) PROVE TypeOK'
  <2>1. job' \in Job
    <3>1. job' = [job EXCEPT !.status = "running", !.lease = job.issued + 1,
                             !.issued = job.issued + 1, !.attempts = job.attempts + 1]
      BY <1>1 DEF Begin
    <3>2. job.issued + 1 \in Nat /\ job.attempts + 1 \in Nat BY JobFields
    <3>3. job \in Job OBVIOUS
    <3> HIDE DEF TypeOK
    <3> QED BY ONLY <3>1, <3>2, <3>3 DEF Job
  <2>2. worker' \in [Workers -> Worker]
    <3>1. job.issued + 1 \in Nat BY JobFields
    <3> QED BY <1>1, <3>1 DEF Begin, Worker
  <2> QED BY <1>1, <2>1, <2>2 DEF Begin
<1>2. ASSUME NEW w \in Workers, Prepare(w) PROVE TypeOK'
  <2>1. worker' \in [Workers -> Worker] BY <1>2, GotoMoves DEF Prepare
  <2> QED BY <1>2, <2>1 DEF Prepare
<1>3. ASSUME NEW w \in Workers, MarkStarted(w) PROVE TypeOK'
  <2>1. worker' \in [Workers -> Worker] BY <1>3, GotoMoves DEF MarkStarted
  <2> QED BY <1>3, <2>1 DEF MarkStarted
<1>4. ASSUME NEW w \in Workers, Checkpoint(w) PROVE TypeOK'
  <2>1. CASE Passes(w)
    <3>1. worker' = [worker EXCEPT ![w].pc = "sending", ![w].locks = TRUE]
      BY <1>4, <2>1 DEF Checkpoint
    <3>2. worker' \in [Workers -> Worker] BY <3>1 DEF Worker
    <3> QED BY <1>4, <3>2 DEF Checkpoint
  <2>2. CASE ~Passes(w)
    <3>1. worker' \in [Workers -> Worker] BY <1>4, <2>2, GotoMoves DEF Checkpoint
    <3> QED BY <1>4, <3>1 DEF Checkpoint
  <2> QED BY <2>1, <2>2
<1>5. ASSUME NEW w \in Workers, MarkSending(w) PROVE TypeOK'
  <2>1. worker' \in [Workers -> Worker] BY <1>5, GotoMoves DEF MarkSending
  <2> QED BY <1>5, <2>1 DEF MarkSending
<1>6. ASSUME NEW w \in Workers, SendMail(w) PROVE TypeOK'
  <2>1. worker' \in [Workers -> Worker]
    <3>1. CASE worker' = [worker EXCEPT ![w].pc = "mailed",
                            ![w].locks = @ /\ kind = "reset"]
      BY <3>1 DEF Worker
    <3> QED BY <1>6, <3>1, GotoMoves DEF SendMail
  <2>2. mails' \in Nat BY <1>6 DEF SendMail, Accept
  <2> QED BY <1>6, <2>1, <2>2 DEF SendMail
<1>7. ASSUME NEW w \in Workers, RecordSent(w) PROVE TypeOK'
  <2>1. worker' \in [Workers -> Worker] BY <1>7, GotoMoves DEF RecordSent
  <2> QED BY <1>7, <2>1 DEF RecordSent
<1>8. ASSUME NEW w \in Workers, EndJob(w) PROVE TypeOK'
  <2>1. job' \in Job
    <3>1. PICK s \in {"retrying", "succeeded", "failed", "cancelled"}, r \in BOOLEAN :
            Outcome(w, s, r)
      BY <1>8 DEF EndJob
    <3> QED BY <3>1, OutcomeType
  <2>2. worker' \in [Workers -> Worker] BY <1>8, IdleMoves DEF EndJob
  <2>3. token' \in {"none", "live", "used", "revoked"} BY <1>8 DEF EndJob, Revoked
  <2> QED BY <1>8, <2>1, <2>2, <2>3 DEF EndJob
<1>9. ASSUME NEW w \in Workers, WorkerDies(w) PROVE TypeOK'
  <2>1. worker' \in [Workers -> Worker] BY <1>9, IdleMoves DEF WorkerDies
  <2> QED BY <1>9, <2>1, FaultType DEF WorkerDies
<1>10. ASSUME CancelDelivery PROVE TypeOK'
  <2>1. job' \in Job BY <1>10, JobFields DEF CancelDelivery, Job
  <2> QED BY <1>10, <2>1 DEF CancelDelivery, Revoked
<1>11. ASSUME LeaseExpires PROVE TypeOK'
  BY <1>11, FaultType DEF LeaseExpires
<1>12. ASSUME RecoverJob PROVE TypeOK'
  <2>1. job' \in Job BY <1>12, JobFields DEF RecoverJob, Job
  <2> QED BY <1>12, <2>1 DEF RecoverJob
<1>13. ASSUME RequestCancel PROVE TypeOK'
  <2>1. job' \in Job BY <1>13, JobFields DEF RequestCancel, Job
  <2> QED BY <1>13, <2>1 DEF RequestCancel
<1>14. ASSUME RetryJob PROVE TypeOK'
  <2>1. job' \in Job BY <1>14, JobFields DEF RetryJob, Job
  <2>2. faults' \in 0..MaxFaults BY <1>14, EmailAssumption DEF RetryJob
  <2> QED BY <1>14, <2>1, <2>2 DEF RetryJob
<1>15. ASSUME UseToken PROVE TypeOK'
  BY <1>15 DEF UseToken
<1>16. CASE UNCHANGED vars BY <1>16 DEF vars
<1> QED BY <1>1, <1>2, <1>3, <1>4, <1>5, <1>6, <1>7, <1>8, <1>9, <1>10, <1>11, <1>12,
            <1>13, <1>14, <1>15, <1>16 DEF Next, WorkerStep

\* Every variable stays in its type, whatever faults happen.
THEOREM TypeCorrect == Spec => []TypeOK
BY TypedInit, TypedStep, PTL DEF Spec

-----------------------------------------------------------------------------
(* One copy at most.                                                       *)

\* What neither mails nor marks nor makes a worker a sender keeps the invariant.
LEMMA QuietSender ==
  ASSUME OneSender, AtMostOnce, mails' = mails, started' = started,
         \A v \in Workers : Sending(v)' => Sending(v)
  PROVE  OneSender' /\ AtMostOnce'
BY DEF OneSender, AtMostOnce

LEMMA GotoQuiet ==
  ASSUME TypeOK, NEW w \in Workers,
         NEW pc \in {"idle", "begun", "prepared", "mailed", "done", "rejected",
                     "unavailable", "stopped"}, Goto(w, pc)
  PROVE  \A v \in Workers : Sending(v)' => Sending(v)
BY GotoMoves DEF Sending

\* The step that marks: the mark is new, so nobody was sending.
LEMMA NewSender ==
  ASSUME TypeOK, OneSender, AtMostOnce, NEW w \in Workers, ~UnknownOutcome, started' = TRUE,
         mails' = mails, NEW pc \in {"started", "sending"}, Goto(w, pc)
  PROVE  OneSender' /\ AtMostOnce'
<1>1. \A v \in Workers : v # w => worker'[v] = worker[v] BY GotoMoves
<1>2. CASE Idempotent BY <1>2 DEF OneSender, AtMostOnce
<1>3. CASE ~Idempotent
  <2>1. ~started BY <1>3 DEF UnknownOutcome
  <2>2. mails = 0 BY <1>3, <2>1 DEF OneSender, TypeOK
  <2>3. \A v \in Workers : ~Sending(v) BY <1>3, <2>1 DEF OneSender
  <2>4. \A v \in Workers : Sending(v)' => v = w BY <1>1, <2>3 DEF Sending
  <2> QED BY <2>2, <2>4 DEF OneSender, AtMostOnce
<1> QED BY <1>2, <1>3

LEMMA SenderStep ==
  TypeOK /\ OneSender /\ AtMostOnce /\ [Next]_vars => OneSender' /\ AtMostOnce'
<1> SUFFICES ASSUME TypeOK, OneSender, AtMostOnce, [Next]_vars
             PROVE  OneSender' /\ AtMostOnce'
  OBVIOUS
<1>1. ASSUME NEW w \in Workers, Begin(w) PROVE OneSender' /\ AtMostOnce'
  <2>1. \A v \in Workers : Sending(v)' => Sending(v) BY <1>1 DEF Begin, Sending, TypeOK
  <2> QED BY <1>1, <2>1, QuietSender DEF Begin
<1>2. ASSUME NEW w \in Workers, Prepare(w) PROVE OneSender' /\ AtMostOnce'
  BY <1>2, GotoQuiet, QuietSender DEF Prepare
<1>3. ASSUME NEW w \in Workers, MarkStarted(w) PROVE OneSender' /\ AtMostOnce'
  <2>1. mails' = mails BY <1>3 DEF MarkStarted
  <2>2. CASE Goto(w, "started") /\ started' = TRUE /\ ~UnknownOutcome
    BY <2>1, <2>2, NewSender
  <2>3. CASE started' = started /\ \E pc \in {"stopped", "done", "rejected"} : Goto(w, pc)
    BY <2>1, <2>3, GotoQuiet, QuietSender
  <2> QED BY <1>3, <2>2, <2>3 DEF MarkStarted
<1>4. ASSUME NEW w \in Workers, Checkpoint(w) PROVE OneSender' /\ AtMostOnce'
  <2>1. mails' = mails /\ started' = started BY <1>4 DEF Checkpoint
  <2>2. CASE Goto(w, "stopped") BY <2>1, <2>2, GotoQuiet, QuietSender
  <2>3. CASE worker' = [worker EXCEPT ![w].pc = "sending", ![w].locks = TRUE]
    <3>1. \A v \in Workers : Sending(v)' => Sending(v)
      BY <1>4, <2>3 DEF Checkpoint, At, Sending, TypeOK
    <3> QED BY <2>1, <3>1, QuietSender
  <2> QED BY <1>4, <2>2, <2>3 DEF Checkpoint
<1>5. ASSUME NEW w \in Workers, MarkSending(w) PROVE OneSender' /\ AtMostOnce'
  <2>1. mails' = mails BY <1>5 DEF MarkSending
  <2>2. CASE Goto(w, "sending") /\ started' = TRUE /\ ~UnknownOutcome
    BY <2>1, <2>2, NewSender
  <2>3. CASE started' = started /\ \E pc \in {"done", "rejected"} : Goto(w, pc)
    BY <2>1, <2>3, GotoQuiet, QuietSender
  <2> QED BY <1>5, <2>2, <2>3 DEF MarkSending
<1>6. ASSUME NEW w \in Workers, SendMail(w) PROVE OneSender' /\ AtMostOnce'
  <2>1. started' = started BY <1>6 DEF SendMail
  <2>2. ~Sending(w)' /\ \A v \in Workers : v # w => worker'[v] = worker[v]
    <3>1. CASE worker' = [worker EXCEPT ![w].pc = "mailed",
                            ![w].locks = @ /\ kind = "reset"]
      BY <3>1 DEF Sending, TypeOK
    <3>2. CASE \E pc \in {"rejected", "unavailable"} : Goto(w, pc)
      BY <3>2, GotoMoves DEF Sending
    <3> QED BY <1>6, <3>1, <3>2 DEF SendMail
  <2>3. \A v \in Workers : Sending(v)' => Sending(v) /\ v # w BY <2>2 DEF Sending
  <2>4. CASE mails' = mails BY <2>1, <2>3, <2>4, QuietSender
  <2>5. CASE Accept /\ Idempotent BY <2>5 DEF Accept, OneSender, AtMostOnce, TypeOK
  <2>6. CASE Accept /\ ~Idempotent
    <3>1. Sending(w) BY <1>6 DEF SendMail, At, Sending
    <3>2. started /\ mails = 0 /\ \A v \in Workers : Sending(v) => v = w
      BY <2>6, <3>1 DEF OneSender
    <3>3. mails' = 1 BY <2>6, <3>2 DEF Accept
    <3>4. \A v \in Workers : ~Sending(v)' BY <2>3, <3>2
    <3> QED BY <2>1, <3>2, <3>3, <3>4 DEF OneSender, AtMostOnce
  <2> QED BY <1>6, <2>4, <2>5, <2>6 DEF SendMail
<1>7. ASSUME NEW w \in Workers, RecordSent(w) PROVE OneSender' /\ AtMostOnce'
  BY <1>7, GotoQuiet, QuietSender DEF RecordSent
<1>8. ASSUME NEW w \in Workers, EndJob(w) \/ WorkerDies(w) PROVE OneSender' /\ AtMostOnce'
  <2>1. \A v \in Workers : Sending(v)' => Sending(v)
    BY <1>8, IdleMoves DEF EndJob, WorkerDies, Sending
  <2> QED BY <1>8, <2>1, QuietSender DEF EndJob, WorkerDies
<1>9. CASE CancelDelivery \/ LeaseExpires \/ RecoverJob \/ RequestCancel \/ RetryJob \/ UseToken
  <2>1. mails' = mails /\ started' = started /\ worker' = worker
    BY <1>9 DEF CancelDelivery, LeaseExpires, RecoverJob, RequestCancel, RetryJob, UseToken
  <2> QED BY <2>1, QuietSender DEF Sending
<1>10. CASE UNCHANGED vars BY <1>10, QuietSender DEF vars, Sending
<1> QED BY <1>1, <1>2, <1>3, <1>4, <1>5, <1>6, <1>7, <1>8, <1>9, <1>10 DEF Next, WorkerStep

\* "SMTP puro ... aplica at-most-once": the recipient gets one copy at most,
\* whatever dies, times out or is retried (_send_email, send_notification_email).
THEOREM OneCopy == Spec => []AtMostOnce
<1>1. Init => OneSender /\ AtMostOnce
  BY DEF Init, IdleWorker, OneSender, Sending, AtMostOnce
<1> QED BY <1>1, TypedInit, TypedStep, SenderStep, PTL DEF Spec

-----------------------------------------------------------------------------
(* Mailed under the lease.                                                 *)

\* What Outcome writes: a lease on a running job only.
LEMMA OutcomeLease ==
  ASSUME TypeOK, LeaseRuns, NEW w \in Workers,
         NEW s \in {"retrying", "succeeded", "failed", "cancelled"}, NEW r \in BOOLEAN,
         Outcome(w, s, r)
  PROVE  job'.lease # 0 => job'.status = "running"
<1>1. CASE Owns(w)
  <2>1. job' = [job EXCEPT !.status = s, !.lease = 0, !.retryable = r]
    BY <1>1 DEF Outcome
  <2> QED BY <2>1 DEF TypeOK, Job
<1>2. CASE ~Owns(w)
  BY <1>2 DEF Outcome, LeaseRuns
<1> QED BY <1>1, <1>2

\* Workers that go on hold the lease they were given.
LEMMA QuietLease ==
  ASSUME LeaseRuns, \A v \in Workers : worker'[v].pc # "idle" =>
                      worker[v].pc # "idle" /\ worker'[v].lease = worker[v].lease,
         job'.lease # 0 => job'.status = "running"
  PROVE  LeaseRuns'
BY DEF LeaseRuns

LEMMA GotoLease ==
  ASSUME TypeOK, NEW w \in Workers, ~At(w, "idle"), job' = job, LeaseRuns,
         NEW pc \in {"begun", "prepared", "started", "sending", "mailed", "done", "rejected",
                     "unavailable", "stopped"}, Goto(w, pc)
  PROVE  LeaseRuns'
<1>1. \A v \in Workers : worker'[v].pc # "idle" =>
        worker[v].pc # "idle" /\ worker'[v].lease = worker[v].lease
  BY GotoMoves DEF At
<1> QED BY <1>1 DEF LeaseRuns

LEMMA LeaseStep == TypeOK /\ LeaseRuns /\ [Next]_vars => LeaseRuns'
<1> SUFFICES ASSUME TypeOK, LeaseRuns, [Next]_vars PROVE LeaseRuns' OBVIOUS
<1>1. ASSUME NEW w \in Workers, Begin(w) PROVE LeaseRuns'
  <2>1. job.issued + 1 \in Nat /\ job.issued + 1 # 0 BY JobFields
  <2>2. job'.status = "running" BY <1>1 DEF Begin, TypeOK, Job
  <2>3. worker'[w].lease = job.issued + 1 /\ \A v \in Workers : v # w => worker'[v] = worker[v]
    BY <1>1 DEF Begin, TypeOK
  <2> QED BY <2>1, <2>2, <2>3 DEF LeaseRuns
<1>2. ASSUME NEW w \in Workers, Prepare(w) PROVE LeaseRuns'
  BY <1>2, GotoLease DEF Prepare, At
<1>3. ASSUME NEW w \in Workers, MarkStarted(w) PROVE LeaseRuns'
  BY <1>3, GotoLease DEF MarkStarted, At
<1>4. ASSUME NEW w \in Workers, Checkpoint(w) PROVE LeaseRuns'
  <2>1. CASE Goto(w, "stopped") BY <1>4, <2>1, GotoLease DEF Checkpoint, At
  <2>2. CASE worker' = [worker EXCEPT ![w].pc = "sending", ![w].locks = TRUE]
    <3>1. \A v \in Workers : worker'[v].lease = worker[v].lease
                               /\ (worker'[v].pc # "idle" => worker[v].pc # "idle")
      BY <1>4, <2>2 DEF Checkpoint, At, TypeOK, Worker
    <3> QED BY <1>4, <3>1 DEF Checkpoint, LeaseRuns
  <2> QED BY <1>4, <2>1, <2>2 DEF Checkpoint
<1>5. ASSUME NEW w \in Workers, MarkSending(w) PROVE LeaseRuns'
  BY <1>5, GotoLease DEF MarkSending, At
<1>6. ASSUME NEW w \in Workers, SendMail(w) PROVE LeaseRuns'
  <2>1. CASE worker' = [worker EXCEPT ![w].pc = "mailed", ![w].locks = @ /\ kind = "reset"]
    <3>1. \A v \in Workers : worker'[v].lease = worker[v].lease
                               /\ (worker'[v].pc # "idle" => worker[v].pc # "idle")
      BY <1>6, <2>1 DEF SendMail, At, TypeOK, Worker
    <3> QED BY <1>6, <3>1 DEF SendMail, LeaseRuns
  <2>2. CASE \E pc \in {"rejected", "unavailable"} : Goto(w, pc)
    BY <1>6, <2>2, GotoLease DEF SendMail, At
  <2> QED BY <1>6, <2>1, <2>2 DEF SendMail
<1>7. ASSUME NEW w \in Workers, RecordSent(w) PROVE LeaseRuns'
  BY <1>7, GotoLease DEF RecordSent, At
<1>8. ASSUME NEW w \in Workers, EndJob(w) \/ WorkerDies(w) PROVE LeaseRuns'
  <2>1. \A v \in Workers : worker'[v].pc # "idle" =>
          worker[v].pc # "idle" /\ worker'[v].lease = worker[v].lease
    BY <1>8, IdleMoves DEF EndJob, WorkerDies
  <2>2. CASE WorkerDies(w) BY <2>1, <2>2, QuietLease DEF WorkerDies, LeaseRuns
  <2>3. CASE EndJob(w)
    <3>1. PICK s \in {"retrying", "succeeded", "failed", "cancelled"}, r \in BOOLEAN :
            Outcome(w, s, r)
      BY <2>3 DEF EndJob
    <3>2. job'.lease # 0 => job'.status = "running" BY <3>1, OutcomeLease
    <3> QED BY <2>1, <3>2, QuietLease
  <2> QED BY <1>8, <2>2, <2>3
<1>9. CASE LeaseExpires \/ UseToken \/ UNCHANGED vars
  BY <1>9 DEF LeaseExpires, UseToken, vars, LeaseRuns
<1>10. CASE CancelDelivery \/ RecoverJob \/ RequestCancel \/ RetryJob
  <2>1. worker' = worker
    BY <1>10 DEF CancelDelivery, RecoverJob, RequestCancel, RetryJob
  <2>2. job'.lease # 0 => job'.status = "running"
    <3>1. CASE CancelDelivery \/ RecoverJob
      BY <3>1 DEF CancelDelivery, RecoverJob, TypeOK, Job
    <3>2. CASE RequestCancel BY <3>2 DEF RequestCancel, TypeOK, Job, LeaseRuns
    <3>3. CASE RetryJob BY <3>3 DEF RetryJob, TypeOK, Job, LeaseRuns
    <3> QED BY <1>10, <3>1, <3>2, <3>3
  <2> QED BY <2>1, <2>2 DEF LeaseRuns
<1> QED BY <1>1, <1>2, <1>3, <1>4, <1>5, <1>6, <1>7, <1>8, <1>9, <1>10 DEF Next, WorkerStep

\* Who goes on mailing a token is not disturbed if the job is not written.
LEMMA QuietLock ==
  ASSUME SentUnderLock, kind' = kind,
         \A v \in Workers : worker'[v].pc = "sending" => worker'[v] = worker[v],
         (\E v \in Workers : worker[v].pc = "sending" /\ HasToken) => job' = job
  PROVE  SentUnderLock'
BY DEF SentUnderLock, HasToken, Owns

LEMMA GotoLock ==
  ASSUME TypeOK, SentUnderLock, kind' = kind, job' = job, NEW w \in Workers,
         NEW pc \in {"begun", "prepared", "started", "mailed", "done", "rejected",
                     "unavailable", "stopped"}, Goto(w, pc)
  PROVE  SentUnderLock'
<1>1. \A v \in Workers : worker'[v].pc = "sending" => worker'[v] = worker[v]
  BY GotoMoves
<1> QED BY <1>1, QuietLock

LEMMA LockedSender ==
  ASSUME SentUnderLock, ~Locked \/ job.status # "running"
  PROVE  ~\E v \in Workers : worker[v].pc = "sending" /\ HasToken
BY DEF SentUnderLock, Locked

LEMMA LockStep == TypeOK /\ LeaseRuns /\ SentUnderLock /\ [Next]_vars => SentUnderLock'
<1> SUFFICES ASSUME TypeOK, LeaseRuns, SentUnderLock, [Next]_vars PROVE SentUnderLock' OBVIOUS
<1>1. ASSUME NEW w \in Workers, Begin(w) PROVE SentUnderLock'
  <2>1. \A v \in Workers : worker'[v].pc = "sending" => worker'[v] = worker[v]
    BY <1>1 DEF Begin, TypeOK
  <2> QED BY <1>1, <2>1, LockedSender, QuietLock DEF Begin
<1>2. ASSUME NEW w \in Workers, Prepare(w) PROVE SentUnderLock'
  BY <1>2, GotoLock DEF Prepare
<1>3. ASSUME NEW w \in Workers, MarkStarted(w) PROVE SentUnderLock'
  BY <1>3, GotoLock DEF MarkStarted
<1>4. ASSUME NEW w \in Workers, Checkpoint(w) PROVE SentUnderLock'
  <2>1. CASE Goto(w, "stopped") BY <1>4, <2>1, GotoLock DEF Checkpoint
  <2>2. CASE Passes(w) /\ worker' = [worker EXCEPT ![w].pc = "sending", ![w].locks = TRUE]
    <3>1. worker'[w].locks /\ worker'[w].lease = worker[w].lease
          /\ \A v \in Workers : v # w => worker'[v] = worker[v]
      BY <2>2 DEF TypeOK, Worker
    <3>2. worker[w].lease # 0 BY <1>4 DEF Checkpoint, At, LeaseRuns
    <3>3. job.status = "running" BY <2>2, <3>2 DEF Passes, Owns, LeaseRuns
    <3> QED BY <1>4, <2>2, <3>1, <3>3 DEF Checkpoint, Passes, Owns, SentUnderLock, HasToken
  <2> QED BY <1>4, <2>1, <2>2 DEF Checkpoint
<1>5. ASSUME NEW w \in Workers, MarkSending(w) PROVE SentUnderLock'
  BY <1>5 DEF MarkSending, SentUnderLock, HasToken
<1>6. ASSUME NEW w \in Workers, SendMail(w) PROVE SentUnderLock'
  <2>1. CASE worker' = [worker EXCEPT ![w].pc = "mailed", ![w].locks = @ /\ kind = "reset"]
    <3>1. \A v \in Workers : worker'[v].pc = "sending" => worker'[v] = worker[v]
      BY <2>1 DEF TypeOK, Worker
    <3> QED BY <1>6, <3>1, QuietLock DEF SendMail
  <2>2. CASE \E pc \in {"rejected", "unavailable"} : Goto(w, pc)
    BY <1>6, <2>2, GotoLock DEF SendMail
  <2> QED BY <1>6, <2>1, <2>2 DEF SendMail
<1>7. ASSUME NEW w \in Workers, RecordSent(w) PROVE SentUnderLock'
  BY <1>7, GotoLock DEF RecordSent
<1>8. ASSUME NEW w \in Workers, EndJob(w) \/ WorkerDies(w) PROVE SentUnderLock'
  <2>1. \A v \in Workers : worker'[v].pc = "sending" => worker'[v] = worker[v]
    BY <1>8, IdleMoves DEF EndJob, WorkerDies
  <2>2. (\E v \in Workers : worker[v].pc = "sending" /\ HasToken) => job' = job
    BY <1>8, LockedSender DEF EndJob, WorkerDies
  <2> QED BY <1>8, <2>1, <2>2, QuietLock DEF EndJob, WorkerDies
<1>9. CASE CancelDelivery \/ LeaseExpires \/ RecoverJob \/ RequestCancel \/ RetryJob \/ UseToken
           \/ UNCHANGED vars
  <2>1. kind' = kind /\ worker' = worker
    BY <1>9 DEF CancelDelivery, LeaseExpires, RecoverJob, RequestCancel, RetryJob, UseToken, vars
  <2>2. job' = job \/ ~Locked \/ job.status # "running"
    BY <1>9 DEF CancelDelivery, LeaseExpires, RecoverJob, RequestCancel, RetryJob, UseToken, vars
  <2> QED BY <2>1, <2>2, LockedSender, QuietLock
<1> QED BY <1>1, <1>2, <1>3, <1>4, <1>5, <1>6, <1>7, <1>8, <1>9 DEF Next, WorkerStep

LEMMA LockedInit == Init => LeaseRuns /\ SentUnderLock
BY DEF Init, IdleWorker, LeaseRuns, SentUnderLock

\* Nobody but the sender raises mails.
LEMMA MailsBySender ==
  ASSUME TypeOK, [Next]_vars, mails' > mails
  PROVE  \E w \in Workers : At(w, "sending")
<1>1. CASE \E w \in Workers : SendMail(w) BY <1>1 DEF SendMail
<1>2. CASE ~\E w \in Workers : SendMail(w)
  <2>1. mails' = mails
    BY <1>2 DEF Next, WorkerStep, Begin, Prepare, MarkStarted, Checkpoint, MarkSending,
                RecordSent, EndJob, WorkerDies, CancelDelivery, LeaseExpires, RecoverJob,
                RequestCancel, RetryJob, UseToken, vars
  <2> QED BY <2>1 DEF TypeOK
<1> QED BY <1>1, <1>2

\* A link is mailed for a running job that was not cancelled, by the worker that
\* has its lease (the second checkpoint of _send_email and of its caller).
THEOREM MailsUnderLease == Spec => MailedUnderLease
<1>1. ASSUME TypeOK, SentUnderLock, [Next]_vars
      PROVE  [mails' > mails /\ HasToken =>
               job.status = "running" /\ ~job.cancel
                 /\ \E w \in Workers : At(w, "sending") /\ Owns(w)]_vars
  BY <1>1, MailsBySender DEF SentUnderLock, At
<1> QED BY <1>1, TypedInit, TypedStep, LockedInit, LeaseStep, LockStep, PTL
        DEF Spec, MailedUnderLease

-----------------------------------------------------------------------------
(* The links of failed deliveries.                                         *)

TokenInv == TokenMailed /\ FailedLinksAreDead

\* Whoever has a token in hand.
Holding(w) == worker[w].pc \in {"prepared", "started", "sending"}

LEMMA QuietToken ==
  ASSUME TokenInv, kind' = kind, mails' = mails, token' = token, job' = job,
         \A v \in Workers : Holding(v)' => Holding(v)
  PROVE  TokenInv'
BY DEF TokenInv, TokenMailed, FailedLinksAreDead, HasToken, Holding

LEMMA GotoToken ==
  ASSUME TypeOK, NEW w \in Workers,
         NEW pc \in {"idle", "begun", "prepared", "started", "sending", "mailed", "done",
                     "rejected", "unavailable", "stopped"}, Goto(w, pc),
         Holding(w) \/ pc \notin {"prepared", "started", "sending"}
  PROVE  \A v \in Workers : Holding(v)' => Holding(v)
BY GotoMoves DEF Holding

\* Ending the job: it fails only with its token revoked.
LEMMA OutcomeToken ==
  ASSUME TypeOK, TokenInv, kind' = kind, mails' = mails, NEW w \in Workers,
         NEW s \in {"retrying", "succeeded", "failed", "cancelled"}, NEW r \in BOOLEAN,
         Outcome(w, s, r), token' = (IF Owns(w) THEN Revoked ELSE token)
           \/ (token' = token /\ s # "failed"),
         \A v \in Workers : Holding(v)' => Holding(v)
  PROVE  TokenInv'
<1>1. token' = "none" <=> token = "none" BY DEF Revoked
<1>2. TokenMailed' BY <1>1 DEF TokenInv, TokenMailed, HasToken, Holding
<1>3. FailedLinksAreDead'
  <2>1. CASE Owns(w)
    <3>1. job'.status = s BY <2>1, OutcomeType
    <3> QED BY <2>1, <3>1 DEF Revoked, FailedLinksAreDead
  <2>2. CASE ~Owns(w)
    BY <2>2, OutcomeType DEF TokenInv, FailedLinksAreDead
  <2> QED BY <2>1, <2>2
<1> QED BY <1>2, <1>3 DEF TokenInv

LEMMA TokenStep == TypeOK /\ SentUnderLock /\ TokenInv /\ [Next]_vars => TokenInv'
<1> SUFFICES ASSUME TypeOK, SentUnderLock, TokenInv, [Next]_vars PROVE TokenInv' OBVIOUS
<1>1. ASSUME NEW w \in Workers, Begin(w) PROVE TokenInv'
  <2>1. \A v \in Workers : Holding(v)' => Holding(v) BY <1>1 DEF Begin, Holding, TypeOK
  <2>2. job'.status = "running" BY <1>1 DEF Begin, TypeOK, Job
  <2> QED BY <1>1, <2>1, <2>2
          DEF Begin, TokenInv, TokenMailed, FailedLinksAreDead, HasToken, Holding
<1>2. ASSUME NEW w \in Workers, Prepare(w) PROVE TokenInv'
  <2>1. token' # "none" BY <1>2 DEF Prepare
  <2>2. TokenMailed' BY <1>2, <2>1 DEF Prepare, TokenMailed, HasToken
  <2>3. FailedLinksAreDead'
    BY <1>2 DEF Prepare, TokenInv, TokenMailed, FailedLinksAreDead, HasToken
  <2> QED BY <2>2, <2>3 DEF TokenInv
<1>3. ASSUME NEW w \in Workers, MarkStarted(w) PROVE TokenInv'
  <2>1. Holding(w) BY <1>3 DEF MarkStarted, At, Holding
  <2>2. \E pc \in {"stopped", "done", "rejected", "started"} : Goto(w, pc)
    BY <1>3 DEF MarkStarted
  <2>3. \A v \in Workers : Holding(v)' => Holding(v) BY <2>1, <2>2, GotoToken
  <2> QED BY <1>3, <2>3, QuietToken DEF MarkStarted
<1>4. ASSUME NEW w \in Workers, Checkpoint(w) PROVE TokenInv'
  <2>1. \A v \in Workers : Holding(v)' => Holding(v)
    <3>1. CASE Goto(w, "stopped") BY <3>1, GotoToken
    <3>2. CASE worker' = [worker EXCEPT ![w].pc = "sending", ![w].locks = TRUE]
      BY <1>4, <3>2 DEF Checkpoint, At, Holding, TypeOK
    <3> QED BY <1>4, <3>1, <3>2 DEF Checkpoint
  <2> QED BY <1>4, <2>1, QuietToken DEF Checkpoint
<1>5. ASSUME NEW w \in Workers, MarkSending(w) PROVE TokenInv'
  BY <1>5 DEF MarkSending, TokenInv, TokenMailed, FailedLinksAreDead, HasToken
<1>6. ASSUME NEW w \in Workers, SendMail(w) PROVE TokenInv'
  <2>1. Holding(w) BY <1>6 DEF SendMail, At, Holding
  <2>2. \A v \in Workers : Holding(v)' => Holding(v)
    <3>1. CASE worker' = [worker EXCEPT ![w].pc = "mailed", ![w].locks = @ /\ kind = "reset"]
      BY <3>1 DEF Holding, TypeOK
    <3>2. CASE \E pc \in {"rejected", "unavailable"} : Goto(w, pc) BY <3>2, GotoToken
    <3> QED BY <1>6, <3>1, <3>2 DEF SendMail
  <2>3. HasToken => token # "none" /\ job.status # "failed"
    BY <1>6, <2>1 DEF SendMail, At, Holding, TokenInv, TokenMailed, SentUnderLock
  <2> QED BY <1>6, <2>2, <2>3
          DEF SendMail, TokenInv, TokenMailed, FailedLinksAreDead, HasToken, Holding
<1>7. ASSUME NEW w \in Workers, RecordSent(w) PROVE TokenInv'
  <2>1. \A v \in Workers : Holding(v)' => Holding(v) BY <1>7, GotoToken DEF RecordSent
  <2> QED BY <1>7, <2>1, QuietToken DEF RecordSent
<1>8. ASSUME NEW w \in Workers, EndJob(w) PROVE TokenInv'
  <2>1. \A v \in Workers : Holding(v)' => Holding(v) BY <1>8, IdleMoves DEF EndJob, Holding
  <2>2. PICK s \in {"retrying", "succeeded", "failed", "cancelled"}, r \in BOOLEAN :
          /\ Outcome(w, s, r)
          /\ token' = (IF Owns(w) THEN Revoked ELSE token) \/ (token' = token /\ s # "failed")
    BY <1>8 DEF EndJob
  <2> QED BY <1>8, <2>1, <2>2, OutcomeToken DEF EndJob
<1>9. ASSUME NEW w \in Workers, WorkerDies(w) PROVE TokenInv'
  <2>1. \A v \in Workers : Holding(v)' => Holding(v)
    BY <1>9, IdleMoves DEF WorkerDies, Holding
  <2> QED BY <1>9, <2>1, QuietToken DEF WorkerDies
<1>10. CASE LeaseExpires \/ UNCHANGED vars
  <2>1. \A v \in Workers : Holding(v)' => Holding(v) BY <1>10 DEF LeaseExpires, vars, Holding
  <2> QED BY <1>10, <2>1, QuietToken DEF LeaseExpires, vars
<1>11. CASE CancelDelivery \/ RecoverJob \/ RequestCancel \/ RetryJob \/ UseToken
  <2>1. kind' = kind /\ mails' = mails /\ worker' = worker
    BY <1>11 DEF CancelDelivery, RecoverJob, RequestCancel, RetryJob, UseToken
  <2>2. (token' = "none" <=> token = "none") /\ (token' = "live" => token = "live")
    BY <1>11 DEF CancelDelivery, RecoverJob, RequestCancel, RetryJob, UseToken, Revoked
  <2>3. job'.status = "failed" => job.status = "failed"
    BY <1>11 DEF CancelDelivery, RecoverJob, RequestCancel, RetryJob, UseToken, TypeOK, Job
  <2> QED BY <2>1, <2>2, <2>3 DEF TokenInv, TokenMailed, FailedLinksAreDead, HasToken
<1> QED BY <1>1, <1>2, <1>3, <1>4, <1>5, <1>6, <1>7, <1>8, <1>9, <1>10, <1>11
        DEF Next, WorkerStep

\* The link of a delivery that failed is dead, whatever reached the provider
\* (_revoke_email_delivery): no retry and no second worker makes it live again.
THEOREM FailedLinksDie == Spec => []FailedLinksAreDead
<1>1. Init => TokenInv
  BY EmailAssumption DEF Init, IdleWorker, TokenInv, TokenMailed, FailedLinksAreDead, HasToken
<1>2. TokenInv => FailedLinksAreDead BY DEF TokenInv
<1> QED BY <1>1, <1>2, TypedInit, TypedStep, LockedInit, LeaseStep, LockStep, TokenStep, PTL
        DEF Spec

-----------------------------------------------------------------------------
(* The components side by side.  The composition implies each component's  *)
(* specification: it starts in one of its initial states, and a step of    *)
(* another focus leaves its variables alone.                               *)

LEMMA ReportsRefined == ServicesSpec => Reports!Spec
<1>1. ServicesInit => Reports!Init BY DEF ServicesInit
<1>2. [ServicesNext]_allVars => [Reports!Next]_Reports!vars
  BY DEF ServicesNext, ReportsNext, EmailsNext, InboxNext, WatchNext, allVars, reportVars, Reports!vars
<1> QED BY <1>1, <1>2, PTL DEF ServicesSpec, Reports!Spec

LEMMA EmailsRefined == ServicesSpec => Spec
<1>1. ServicesInit => Init BY DEF ServicesInit
<1>2. [ServicesNext]_allVars => [Next]_vars
  BY DEF ServicesNext, ReportsNext, EmailsNext, InboxNext, WatchNext, allVars, vars
<1> QED BY <1>1, <1>2, PTL DEF ServicesSpec, Spec

LEMMA InboxRefined == ServicesSpec => Inbox!Spec
<1>1. ServicesInit => Inbox!Init BY DEF ServicesInit
<1>2. [ServicesNext]_allVars => [Inbox!Next]_Inbox!vars
  BY DEF ServicesNext, ReportsNext, EmailsNext, InboxNext, WatchNext, allVars, inboxVars, Inbox!vars
<1> QED BY <1>1, <1>2, PTL DEF ServicesSpec, Inbox!Spec

LEMMA WatchRefined == ServicesSpec => Watched!Spec
<1>1. ServicesInit => Watched!Init BY DEF ServicesInit
<1>2. [ServicesNext]_allVars => [Watched!Next]_Watched!vars
  BY DEF ServicesNext, ReportsNext, EmailsNext, InboxNext, WatchNext, allVars, watchVars, Watched!vars
<1> QED BY <1>1, <1>2, PTL DEF ServicesSpec, Watched!Spec

\* The variables of every component stay in their types, whichever component a
\* behaviour belongs to.
THEOREM TypesAreCorrect == ServicesSpec => []TypesOK
<1>1. Reports!Spec => []Reports!TypeOK BY Reports!TypeCorrect, ServicesAssumption
<1>2. Inbox!Spec => []Inbox!TypeOK BY Inbox!TypeCorrect, ServicesAssumption
<1>3. Watched!Spec => []Watched!TypeOK BY Watched!TypeCorrect, ServicesAssumption
<1>4. Reports!TypeOK /\ TypeOK /\ Inbox!TypeOK /\ Watched!TypeOK => TypesOK BY DEF TypesOK
<1> QED BY ReportsRefined, EmailsRefined, InboxRefined, WatchRefined, TypeCorrect,
           <1>1, <1>2, <1>3, <1>4, PTL

\* One report of a template is published at most, and what was published had an
\* approval of its own, for every number of workers, clients, generations and
\* revisions (reporting/service.py, review_report, publish_report).
THEOREM PublicationsStaySound == ServicesSpec => []PublicationsAreSound
<1>1. Reports!Spec => []Reports!OnePublished BY Reports!OneReportPublished, ServicesAssumption
<1>2. Reports!Spec => []Reports!PublishedIsApproved
  BY Reports!PublicationIsApproved, ServicesAssumption
<1>3. Reports!OnePublished /\ Reports!PublishedIsApproved => PublicationsAreSound
  BY DEF PublicationsAreSound
<1> QED BY ReportsRefined, <1>1, <1>2, <1>3, PTL

\* A webhook event takes effect once, exactly when it is processed
\* (process_inbox).
THEOREM EventsApplyOnce == ServicesSpec => []AppliedOnce
<1>1. Inbox!Spec => []Inbox!AppliedOnce BY Inbox!EventsApplyOnce, ServicesAssumption
<1>2. Inbox!AppliedOnce => AppliedOnce BY DEF AppliedOnce
<1> QED BY InboxRefined, <1>1, <1>2, PTL

\* The cursor never passes an item that Oracle does not have (sync_monitor).
THEOREM CursorIsSound == ServicesSpec => []CursorSkipsNothing
<1>1. Inbox!Spec => []Inbox!CursorSkipsNothing BY Inbox!CursorIsSound, ServicesAssumption
<1>2. Inbox!CursorSkipsNothing => CursorSkipsNothing BY DEF CursorSkipsNothing
<1> QED BY InboxRefined, <1>1, <1>2, PTL

\* An edition that was recorded with notifications on was notified once, in its
\* order (scan_procurement_search_watch, create_notification).
THEOREM NewsAreToldOnce == ServicesSpec => []NewsToldOnce
<1>1. Watched!Spec => []Watched!NewsToldOnce BY Watched!NewsAreToldOnce, ServicesAssumption
<1>2. Watched!NewsToldOnce => NewsToldOnce BY DEF NewsToldOnce
<1> QED BY WatchRefined, <1>1, <1>2, PTL

\* Profile, watch and schedule agree on what is watched (save_profile_watch,
\* retire_procurement_search_watch_for_tender_search).
THEOREM LinksAlwaysAgree == ServicesSpec => []LinksAgree
<1>1. Watched!Spec => []Watched!LinksAgree BY Watched!LinksAlwaysAgree, ServicesAssumption
<1>2. Watched!LinksAgree => LinksAgree BY DEF LinksAgree
<1> QED BY WatchRefined, <1>1, <1>2, PTL
=============================================================================
