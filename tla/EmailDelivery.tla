----------------------------- MODULE EmailDelivery -----------------------------
(***************************************************************************)
(* One message and the durable job that mails it: a password reset or an   *)
(* invitation (jobs/tasks.py, _send_email), which carry a token, or a      *)
(* notification (reporting/notifications.py; a digest does the same under  *)
(* an advisory lock).  The job is BackgroundJobs reduced to what a         *)
(* delivery looks at: its status, its lease and a pending cancellation.    *)
(*                                                                         *)
(* A checkpoint takes the job's row and keeps it locked until the next     *)
(* commit, so a token is mailed while nobody else can write the job.       *)
(***************************************************************************)
EXTENDS Naturals

CONSTANTS
  Workers,      \* Celery workers
  Kinds,        \* the kinds of message this instance sends
  Idempotent,   \* the sender deduplicates by key; SMTP and Graph do not
  MaxAttempts,  \* max_attempts of the job
  Faults,       \* subset of {"crash", "overrun"}
  MaxFaults     \* bound: faults and manual retries in one behaviour

ASSUME EmailAssumption ==
  /\ Kinds \subseteq {"reset", "invitation", "notification"}
  /\ Idempotent \in BOOLEAN /\ MaxAttempts \in Nat \ {0}
  /\ Faults \subseteq {"crash", "overrun"} /\ MaxFaults \in Nat

VARIABLES
  kind,      \* what the message is
  mails,     \* copies the recipient gets
  started,   \* delivery_started_at (of an invitation: the mark in result_ref)
  sent,      \* delivered_at, the mark or the status say that it was sent
  token,     \* the token the message carries
  job,       \* the background_jobs row
  live,      \* the lease has not run out
  worker,    \* what each worker is doing
  faults     \* faults met so far

vars == <<kind, mails, started, sent, token, job, live, worker, faults>>

Job == [status: {"queued", "running", "retrying", "succeeded", "failed", "cancelled"},
        lease: Nat, issued: Nat, attempts: Nat, cancel: BOOLEAN, retryable: BOOLEAN]
Worker == [pc: {"idle", "begun", "prepared", "started", "sending", "mailed", "done",
                "rejected", "unavailable", "stopped"},
           lease: Nat, locks: BOOLEAN]
IdleWorker == [pc |-> "idle", lease |-> 0, locks |-> FALSE]

Init ==
  /\ kind \in Kinds
  /\ mails = 0 /\ started = FALSE /\ sent = FALSE
  /\ token = IF kind = "invitation" THEN "live" ELSE "none"
  /\ job = [status |-> "queued", lease |-> 0, issued |-> 0, attempts |-> 0,
            cancel |-> FALSE, retryable |-> TRUE]
  /\ live = FALSE
  /\ worker = [w \in Workers |-> IdleWorker]
  /\ faults = 0

Fault(f) == f \in Faults /\ faults < MaxFaults /\ faults' = faults + 1

Locked == \E w \in Workers : worker[w].locks
At(w, pc) == worker[w].pc = pc
Goto(w, pc) == worker' = [worker EXCEPT ![w].pc = pc, ![w].locks = FALSE]
Owns(w) == job.lease = worker[w].lease
\* What a delivery takes: neither ended nor under a live lease.
Deliverable == job.status \in {"queued", "retrying"} \/ (job.status = "running" /\ ~live)
HasToken == kind \in {"reset", "invitation"}

-----------------------------------------------------------------------------
(* Delivering (execute_durable and its handlers).                          *)

\* Any message that reaches a worker; BackgroundJobs says how it got there.
Begin(w) ==
  /\ At(w, "idle") /\ ~Locked
  /\ Deliverable
  /\ ~job.cancel
  /\ job' = [job EXCEPT !.status = "running", !.lease = job.issued + 1,
                        !.issued = @ + 1, !.attempts = @ + 1]
  /\ live' = TRUE
  /\ worker' = [worker EXCEPT ![w] = [pc |-> "begun", lease |-> job.issued + 1, locks |-> FALSE]]
  /\ UNCHANGED <<kind, mails, started, sent, token, faults>>

\* A reset makes its token once; a token used or revoked is not mailed again.
Prepare(w) ==
  /\ At(w, "begun") /\ HasToken
  /\ token' = IF token = "none" THEN "live" ELSE token
  /\ Goto(w, IF token \in {"none", "live"} THEN "prepared" ELSE "rejected")
  /\ UNCHANGED <<kind, mails, started, sent, job, live, faults>>

\* _delivery_checkpoint: the lease is still the row's, nobody asked to cancel.
Passes(w) == Owns(w) /\ ~job.cancel

\* Bug: what a crash left half sent is sent again.
BugUnknownOutcome == FALSE

\* The earlier attempt may or may not have reached the provider.
UnknownOutcome == started /\ ~Idempotent

\* A reset takes its checkpoint here, an invitation after it has marked the job.
MarkStarted(w) ==
  /\ At(w, "prepared") /\ ~Locked
  /\ IF ~Owns(w) \/ (kind = "reset" /\ job.cancel)
       THEN Goto(w, "stopped") /\ UNCHANGED started
       ELSE IF sent THEN Goto(w, "done") /\ UNCHANGED started
       ELSE IF UnknownOutcome THEN Goto(w, "rejected") /\ UNCHANGED started
       ELSE Goto(w, "started") /\ started' = TRUE
  /\ UNCHANGED <<kind, mails, sent, token, job, live, faults>>

\* Bug: the token is mailed without looking at the job again.
BugCheckpoint(w) ==
  /\ At(w, "started")
  /\ Goto(w, "sending")
  /\ UNCHANGED <<kind, mails, started, sent, token, job, live, faults>>

\* The second checkpoint, whose lock is held while the message is sent.
Checkpoint(w) ==
  /\ At(w, "started") /\ ~Locked
  /\ IF Passes(w)
       THEN worker' = [worker EXCEPT ![w].pc = "sending", ![w].locks = TRUE]
       ELSE Goto(w, "stopped")
  /\ UNCHANGED <<kind, mails, started, sent, token, job, live, faults>>

\* send_notification_email: its own row is locked, the job's is not looked at.
MarkSending(w) ==
  /\ At(w, "begun") /\ ~HasToken
  /\ IF sent THEN Goto(w, "done") /\ UNCHANGED started
     ELSE IF UnknownOutcome THEN Goto(w, "rejected") /\ UNCHANGED started
     ELSE \/ Goto(w, "done") /\ UNCHANGED started  \* the recipient is not active
          \/ Goto(w, "sending") /\ started' = TRUE
  /\ UNCHANGED <<kind, mails, sent, token, job, live, faults>>

Accept == mails' = IF Idempotent /\ mails > 0 THEN mails ELSE mails + 1

\* The provider accepts it, refuses it, or cannot be heard and may have accepted.
SendMail(w) ==
  /\ At(w, "sending")
  /\ \/ Accept /\ worker' = [worker EXCEPT ![w].pc = "mailed",
                               ![w].locks = @ /\ kind = "reset"]
     \/ UNCHANGED mails /\ Goto(w, "rejected")
     \/ (Accept \/ UNCHANGED mails) /\ Goto(w, "unavailable")
  /\ UNCHANGED <<kind, started, sent, token, job, live, faults>>

\* A reset commits under the lock it holds, an invitation after a third
\* checkpoint, a notification in any case.
RecordSent(w) ==
  /\ At(w, "mailed")
  /\ IF kind = "invitation" THEN ~Locked ELSE TRUE
  /\ IF kind = "invitation" /\ ~Passes(w)
       THEN Goto(w, "stopped") /\ UNCHANGED sent
       ELSE Goto(w, "done") /\ sent' = TRUE
  /\ UNCHANGED <<kind, mails, started, token, job, live, faults>>

\* Bug: the link of a delivery that failed goes on working.
BugRevoked == token

\* _revoke_email_delivery.
Revoked == IF token = "live" THEN "revoked" ELSE token

Outcome(w, status, retryable) ==
  IF Owns(w) THEN job' = [job EXCEPT !.status = status, !.lease = 0, !.retryable = retryable]
             ELSE UNCHANGED job

EndJob(w) ==
  /\ worker[w].pc \in {"done", "rejected", "unavailable", "stopped"} /\ ~Locked
  /\ \/ /\ At(w, "stopped") \/ (At(w, "done") /\ job.cancel)
        /\ Outcome(w, "cancelled", FALSE)
        /\ token' = IF Owns(w) THEN Revoked ELSE token
     \/ /\ At(w, "done") /\ ~job.cancel
        /\ Outcome(w, "succeeded", FALSE)
        /\ UNCHANGED token
     \/ /\ At(w, "rejected")
        /\ Outcome(w, "failed", FALSE)
        /\ token' = IF Owns(w) THEN Revoked ELSE token
     \/ /\ At(w, "unavailable") /\ job.attempts >= MaxAttempts
        /\ Outcome(w, "failed", TRUE)
        /\ token' = IF Owns(w) THEN Revoked ELSE token
     \/ /\ At(w, "unavailable") /\ job.attempts < MaxAttempts
        /\ Outcome(w, "retrying", TRUE)
        /\ UNCHANGED token
  /\ worker' = [worker EXCEPT ![w] = IdleWorker]
  /\ UNCHANGED <<kind, mails, started, sent, live, faults>>

\* A delivery that finds the job cancelled.
CancelDelivery ==
  /\ ~Locked
  /\ Deliverable
  /\ job.cancel
  /\ job' = [job EXCEPT !.status = "cancelled", !.lease = 0]
  /\ token' = Revoked
  /\ UNCHANGED <<kind, mails, started, sent, live, worker, faults>>

-----------------------------------------------------------------------------
(* Everybody else.                                                         *)

\* The locks go with the transaction.
WorkerDies(w) ==
  /\ ~At(w, "idle")
  /\ Fault("crash")
  /\ worker' = [worker EXCEPT ![w] = IdleWorker]
  /\ UNCHANGED <<kind, mails, started, sent, token, job, live>>

LeaseExpires ==
  /\ job.status = "running" /\ live
  /\ IF \E w \in Workers : ~At(w, "idle") /\ Owns(w) THEN Fault("overrun") ELSE UNCHANGED faults
  /\ live' = FALSE
  /\ UNCHANGED <<kind, mails, started, sent, token, job, worker>>

\* recover_stale_jobs; it skips a locked row.
RecoverJob ==
  /\ job.status = "running" /\ ~live /\ ~Locked
  /\ job' = [job EXCEPT !.status = "queued", !.lease = 0]
  /\ UNCHANGED <<kind, mails, started, sent, token, live, worker, faults>>

\* The cancel route writes after the lock.
RequestCancel ==
  /\ ~Locked
  /\ job.status \in {"queued", "running", "retrying"} /\ ~job.cancel
  /\ job' = [job EXCEPT !.cancel = TRUE,
                        !.status = IF @ = "queued" THEN "cancelled" ELSE @]
  /\ UNCHANGED <<kind, mails, started, sent, token, live, worker, faults>>

RetryJob ==
  /\ job.status = "failed" /\ job.retryable
  /\ faults < MaxFaults /\ faults' = faults + 1
  /\ job' = [job EXCEPT !.status = "queued", !.attempts = 0, !.cancel = FALSE]
  /\ UNCHANGED <<kind, mails, started, sent, token, live, worker>>

\* reset_password and accept_invitation: single use, under the token's lock.
UseToken ==
  /\ mails > 0 /\ token = "live"
  /\ token' = "used"
  /\ UNCHANGED <<kind, mails, started, sent, job, live, worker, faults>>

-----------------------------------------------------------------------------
WorkerStep(w) ==
  \/ Begin(w) \/ Prepare(w) \/ MarkStarted(w) \/ Checkpoint(w) \/ MarkSending(w)
  \/ SendMail(w) \/ RecordSent(w) \/ EndJob(w)

Next ==
  \/ \E w \in Workers : WorkerStep(w) \/ WorkerDies(w)
  \/ CancelDelivery \/ LeaseExpires \/ RecoverJob \/ RequestCancel \/ RetryJob \/ UseToken

Spec == Init /\ [][Next]_vars

-----------------------------------------------------------------------------
(* Properties.                                                             *)

\* Every variable stays in its type.
TypeOK ==
  /\ kind \in Kinds /\ mails \in Nat /\ started \in BOOLEAN /\ sent \in BOOLEAN
  /\ token \in {"none", "live", "used", "revoked"}
  /\ job \in Job /\ live \in BOOLEAN /\ worker \in [Workers -> Worker] /\ faults \in 0..MaxFaults

\* "SMTP puro ... aplica at-most-once": whatever dies, times out or is retried,
\* by recovery or by hand, the recipient gets one copy at most.
AtMostOnce == mails <= 1

\* A link that was mailed is dead when its delivery has failed, also when the
\* mail went out with an outcome nobody knew.
FailedLinksAreDead == job.status = "failed" /\ mails > 0 => token # "live"

\* A link is mailed for a job that was not cancelled and has its lease then, and
\* no cancellation comes between the check and the mail.
MailedUnderLease ==
  [][mails' > mails /\ HasToken =>
       job.status = "running" /\ ~job.cancel
         /\ \E w \in Workers : At(w, "sending") /\ Owns(w)]_vars

\* "Fallo terminal o cancelación revoca el token": the link of a cancelled
\* delivery does not work.
CancelledLinksAreDead ==
  job.status = "cancelled" /\ mails > 0 /\ (\A w \in Workers : At(w, "idle")) => token # "live"
=============================================================================
