------------------------------ MODULE AIExecution ------------------------------
(***************************************************************************)
(* Executions of an AI agent on behalf of background jobs                  *)
(* (ai/service.py, execute_agent): the audit row, the generate and         *)
(* reviewer attempts, the usage ledger that reserves and settles the       *)
(* tenant's budget, and the recovery of executions whose lease ran out.    *)
(*                                                                         *)
(* A job and an agent name one idempotency slot, so a job stands for its   *)
(* slot.  An execution is one call of execute_agent; it stands for the     *)
(* execution token it draws.  Every step is one committed transaction: the *)
(* provider is called between transactions, and what it returns is chosen  *)
(* by the step that follows the call.                                      *)
(***************************************************************************)
EXTENDS Integers, FiniteSets, FiniteSetsExt

CONSTANTS
  Jobs,            \* background jobs of one tenant that run the agent
  MaxExecutions,   \* bound: calls of execute_agent in one behaviour
  MaxAttempts,     \* max_attempts of a job
  MaxConcurrency,  \* the policy's max_concurrency
  DailyLimit,      \* the policy's daily_call_limit
  HardBudget,      \* the policy's monthly_hard_budget_micros
  Reservation,     \* what an execution reserves; at least what it can spend
  Costs,           \* what one provider call may cost
  Faults,          \* the kinds of fault this instance may meet
  MaxFaults        \* bound: how many faults may happen in one behaviour

Executions == 1..MaxExecutions
Kinds == {"generate", "reviewer"}

(***************************************************************************)
(* "crash"          the worker dies                                        *)
(* "slow_provider"  an attempt's lease runs out during its provider call   *)
(* "job_overrun"    a job's lease runs out under a worker that still runs  *)
(* "stall"          an attempt's lease runs out before the provider call   *)
(***************************************************************************)
FaultKinds == {"crash", "slow_provider", "job_overrun", "stall"}

None == 0   \* no execution; as a token, one that was rotated away

\* What an instance may choose.
ConstantsOK ==
  /\ MaxExecutions \in Nat /\ MaxAttempts \in Nat \ {0} /\ MaxConcurrency \in Nat \ {0}
  /\ DailyLimit \in Nat \ {0}
  /\ HardBudget \in Nat \ {0} /\ Reservation \in Nat \ {0}
  /\ Costs \subseteq Nat /\ \A c, d \in Costs : c + d <= Reservation
  /\ Faults \subseteq FaultKinds /\ MaxFaults \in Nat
  /\ IsFiniteSet(Jobs) /\ None \notin Jobs

ASSUME AIAssumption == ConstantsOK

VARIABLES
  job,       \* the background_jobs row, as far as an execution depends on it
  audit,     \* status of the ai_audit_logs row of the slot
  ledger,    \* the ai_usage_ledger row of the slot
  attempt,   \* the ai_attempts rows of an execution
  artifact,  \* the execution that wrote the ai_artifacts row of the slot
  run,       \* where the process of an execution is
  faults     \* faults met so far

vars == <<job, audit, ledger, attempt, artifact, run, faults>>

Job == [status: {"queued", "running", "succeeded", "failed"},
        holder: Executions \cup {None}, attempts: Nat]
Ledger == [status: {"none", "reserved", "settled", "released"},
           reserved: Nat, actual: Nat, token: Executions \cup {None}]
Attempt == [status: {"none", "reserved", "running", "succeeded", "failed", "abandoned"},
            token: Executions \cup {None}, cost: Nat, expired: BOOLEAN]
Run == [pc: {"unused", "called", "reserved", "generating", "reviewing", "returned", "gone"},
        job: Jobs \cup {None}, result: {"none", "success", "retriable", "permanent"}]

NoAttempt == [status |-> "none", token |-> None, cost |-> 0, expired |-> FALSE]

NewRun == [pc |-> "unused", job |-> None, result |-> "none"]

Init ==
  /\ job = [j \in Jobs |-> [status |-> "queued", holder |-> None, attempts |-> 0]]
  /\ audit = [j \in Jobs |-> "none"]
  /\ ledger = [j \in Jobs |-> [status |-> "none", reserved |-> 0, actual |-> 0, token |-> None]]
  /\ attempt = [x \in Executions |-> [k \in Kinds |-> NoAttempt]]
  /\ artifact = [j \in Jobs |-> None]
  /\ run = [x \in Executions |-> NewRun]
  /\ faults = 0

-----------------------------------------------------------------------------
(* Helpers.                                                                *)

Fault(kind) ==
  /\ kind \in Faults
  /\ faults < MaxFaults
  /\ faults' = faults + 1

Alive(x) == run[x].pc \in {"called", "reserved", "generating", "reviewing", "returned"}
Open(x, k) == attempt[x][k].status \in {"reserved", "running"}
Larger(a, b) == IF a > b THEN a ELSE b

\* Costs persisted in the attempts of one execution, and under one audit.
Spent(x) == attempt[x]["generate"].cost + attempt[x]["reviewer"].cost
SpentOn(j) ==
  SumFunctionOnSet([x \in Executions |-> Spent(x)], {x \in Executions : run[x].job = j})

Return(x, result) == run' = [run EXCEPT ![x].pc = "returned", ![x].result = result]

-----------------------------------------------------------------------------
(* A worker takes the job, and ends it with what execute_agent gave back.  *)

Deliver(x, j) ==
  /\ run[x].pc = "unused"
  /\ \A y \in 1..(x - 1) : run[y].pc # "unused"
  /\ job[j].status = "queued"
  /\ job' = [job EXCEPT ![j] = [status |-> "running", holder |-> x, attempts |-> @.attempts + 1]]
  /\ run' = [run EXCEPT ![x] = [pc |-> "called", job |-> j, result |-> "none"]]
  /\ UNCHANGED <<audit, ledger, attempt, artifact, faults>>

\* Bug: the job's status is whatever the execution returned.
BugEndJob(x) ==
  /\ run[x].pc = "returned"
  /\ LET j == run[x].job
     IN  job' = IF job[j].holder = x
                  THEN [job EXCEPT ![j].status = run[x].result, ![j].holder = None] ELSE job
  /\ run' = [run EXCEPT ![x].pc = "gone"]
  /\ UNCHANGED <<audit, ledger, attempt, artifact, faults>>

EndJob(x) ==
  /\ run[x].pc = "returned"
  /\ LET j == run[x].job
         status == CASE run[x].result = "success" -> "succeeded"
                     [] run[x].result = "retriable" /\ job[j].attempts < MaxAttempts -> "queued"
                     [] OTHER -> "failed"
     IN  job' = IF job[j].holder = x
                  THEN [job EXCEPT ![j].status = status, ![j].holder = None] ELSE job
  /\ run' = [run EXCEPT ![x].pc = "gone"]
  /\ UNCHANGED <<audit, ledger, attempt, artifact, faults>>

-----------------------------------------------------------------------------
(* The reservation.                                                        *)

Running == {j \in Jobs : audit[j] = "running"}
CallsToday == {j \in Jobs : ledger[j].status \in {"reserved", "settled"}}
Charged(j) == Larger(ledger[j].actual, ledger[j].reserved)
MonthlyCost == SumFunction([j \in Jobs |-> Charged(j)])

\* Bug: an off-by-one lets one execution more run at a time.
BugConcurrencyLeft ==
  /\ Cardinality(Running) <= MaxConcurrency
  /\ Cardinality(CallsToday) < DailyLimit
  /\ MonthlyCost + Reservation <= HardBudget

\* Bug: what is reserved but not yet spent does not count.
BugBudgetLeft ==
  /\ Cardinality(Running) < MaxConcurrency
  /\ Cardinality(CallsToday) < DailyLimit
  /\ SumFunction([j \in Jobs |-> ledger[j].actual]) + Reservation <= HardBudget

QuotaLeft ==
  /\ Cardinality(Running) < MaxConcurrency
  /\ Cardinality(CallsToday) < DailyLimit
  /\ MonthlyCost + Reservation <= HardBudget

\* An execution of the slot has succeeded before: its artefact is the answer.
ReuseArtifact(x) ==
  /\ run[x].pc = "called"
  /\ audit[run[x].job] = "succeeded"
  /\ Return(x, "success")
  /\ UNCHANGED <<job, audit, ledger, attempt, artifact, faults>>

\* The slot is taken, the quota is used up, or the policy or the context
\* forbids the call (nothing of which is persisted).
Deny(x) ==
  /\ run[x].pc = "called"
  /\ audit[run[x].job] # "succeeded"
  /\ Return(x, "permanent")
  /\ UNCHANGED <<job, audit, ledger, attempt, artifact, faults>>

\* Bug: an earlier success of the slot is not looked up.
BugReserve(x) ==
  /\ run[x].pc = "called"
  /\ LET j == run[x].job
     IN  /\ audit[j] # "running"
         /\ QuotaLeft
         /\ audit' = [audit EXCEPT ![j] = "running"]
         /\ ledger' = [ledger EXCEPT ![j] = [status |-> "reserved", reserved |-> Reservation,
                                             actual |-> 0, token |-> x]]
  /\ attempt' = [attempt EXCEPT ![x]["generate"] =
                   [NoAttempt EXCEPT !.status = "reserved", !.token = x]]
  /\ run' = [run EXCEPT ![x].pc = "reserved"]
  /\ UNCHANGED <<job, artifact, faults>>

Reserve(x) ==
  /\ run[x].pc = "called"
  /\ LET j == run[x].job
     IN  /\ audit[j] \in {"none", "failed"}
         /\ QuotaLeft
         /\ audit' = [audit EXCEPT ![j] = "running"]
         /\ ledger' = [ledger EXCEPT ![j] = [status |-> "reserved", reserved |-> Reservation,
                                             actual |-> 0, token |-> x]]
  /\ attempt' = [attempt EXCEPT ![x]["generate"] =
                   [NoAttempt EXCEPT !.status = "reserved", !.token = x]]
  /\ run' = [run EXCEPT ![x].pc = "reserved"]
  /\ UNCHANGED <<job, artifact, faults>>

\* The second commit writes the status by primary key, whatever it is by now.
MarkRunning(x) ==
  /\ run[x].pc = "reserved"
  /\ attempt' = [attempt EXCEPT ![x]["generate"].status = "running"]
  /\ run' = [run EXCEPT ![x].pc = "generating"]
  /\ UNCHANGED <<job, audit, ledger, artifact, faults>>

-----------------------------------------------------------------------------
(* What follows a provider call.                                           *)

Calling(x, k) ==
  run[x].pc = IF k = "generate" THEN "generating" ELSE "reviewing"

\* The ledger row that an execution may still write.
OwnLedger(x) ==
  ledger[run[x].job].status = "reserved" /\ ledger[run[x].job].token = x

\* Bug: the checkpoint trusts the status of the audit.
BugHolds(x, k) == audit[run[x].job] = "running"

\* The rows a checkpoint locks are all still this execution's.
Holds(x, k) ==
  /\ attempt[x][k].token = x
  /\ attempt[x][k].status = "running"
  /\ ~attempt[x][k].expired
  /\ audit[run[x].job] = "running"
  /\ OwnLedger(x)

LoseFencing(x, k) ==
  /\ Calling(x, k)
  /\ ~Holds(x, k)
  /\ Return(x, "permanent")
  /\ UNCHANGED <<job, audit, ledger, attempt, artifact, faults>>

\* Bug: the reviewer's attempt is added without being committed.
BugCheckpoint(x, cost) ==
  /\ Calling(x, "generate")
  /\ Holds(x, "generate")
  /\ attempt' = [attempt EXCEPT ![x]["generate"].status = "succeeded",
                                ![x]["generate"].cost = cost]
  /\ run' = [run EXCEPT ![x].pc = "reviewing"]
  /\ UNCHANGED <<job, audit, ledger, artifact, faults>>

\* The output needs a review: its attempt starts with a lease of its own.
Checkpoint(x, cost) ==
  /\ Calling(x, "generate")
  /\ Holds(x, "generate")
  /\ attempt' = [attempt EXCEPT
       ![x]["generate"].status = "succeeded", ![x]["generate"].cost = cost,
       ![x]["reviewer"] = [NoAttempt EXCEPT !.status = "running", !.token = x]]
  /\ run' = [run EXCEPT ![x].pc = "reviewing"]
  /\ UNCHANGED <<job, audit, ledger, artifact, faults>>

\* The last transaction, after the review or without one.
Settle(x, k, cost) ==
  /\ Calling(x, k)
  /\ Holds(x, k)
  /\ LET j == run[x].job
         total == cost + IF k = "reviewer" THEN attempt[x]["generate"].cost ELSE 0
     IN  /\ audit' = [audit EXCEPT ![j] = "succeeded"]
         /\ artifact' = [artifact EXCEPT ![j] = x]
         /\ ledger' = [ledger EXCEPT ![j].status = "settled", ![j].reserved = 0,
                                     ![j].actual = total]
  /\ attempt' = [attempt EXCEPT ![x][k].status = "succeeded", ![x][k].cost = cost]
  /\ Return(x, "success")
  /\ UNCHANGED <<job, faults>>

\* fail(): the call raised, or its output was refused.  It adds up the costs
\* of every attempt of the audit that was committed.
FailCall(x, k) ==
  /\ Calling(x, k)
  /\ attempt[x][k].token = x
  /\ OwnLedger(x)
  /\ LET j == run[x].job
     IN  /\ audit' = [audit EXCEPT ![j] = "failed"]
         /\ ledger' = [ledger EXCEPT
              ![j].status = IF SpentOn(j) > 0 THEN "settled" ELSE "released",
              ![j].reserved = 0, ![j].actual = SpentOn(j)]
  /\ attempt' = [attempt EXCEPT ![x][k].status = IF Open(x, k) THEN "failed" ELSE @]
  /\ \E result \in {"retriable", "permanent"} : Return(x, result)
  /\ UNCHANGED <<job, artifact, faults>>

\* fail() after recovery has rotated the token.
FailUnfenced(x, k) ==
  /\ Calling(x, k)
  /\ ~(attempt[x][k].token = x /\ OwnLedger(x))
  /\ Return(x, "permanent")
  /\ UNCHANGED <<job, audit, ledger, attempt, artifact, faults>>

-----------------------------------------------------------------------------
(* Leases and recovery (maintenance.recover_stale_jobs).                   *)

LeaseExpires(x, k) ==
  /\ Open(x, k)
  /\ ~attempt[x][k].expired
  /\ attempt' = [attempt EXCEPT ![x][k].expired = TRUE]
  /\ CASE run[x].pc = "reserved" -> Fault("stall")
       [] Calling(x, k) -> Fault("slow_provider")
       [] OTHER -> UNCHANGED faults
  /\ UNCHANGED <<job, audit, ledger, artifact, run>>

\* Bug: recovery ends the attempt and the audit, and leaves the ledger alone.
BugRecoverAttempt(x, k) ==
  /\ Open(x, k)
  /\ attempt[x][k].expired
  /\ LET j == run[x].job
     IN  audit' = [audit EXCEPT ![j] = IF @ = "running" THEN "failed" ELSE @]
  /\ attempt' = [attempt EXCEPT ![x][k].status = "abandoned", ![x][k].token = None]
  /\ UNCHANGED <<job, ledger, artifact, run, faults>>

RecoverAttempt(x, k) ==
  /\ Open(x, k)
  /\ attempt[x][k].expired
  /\ LET j == run[x].job
     IN  /\ audit' = [audit EXCEPT ![j] = IF @ = "running" THEN "failed" ELSE @]
         /\ ledger' = IF ledger[j].status # "reserved" THEN ledger
                      ELSE [ledger EXCEPT ![j].status = "released", ![j].reserved = 0,
                                          ![j].token = None]
  /\ attempt' = [attempt EXCEPT ![x][k].status = "abandoned", ![x][k].token = None]
  /\ UNCHANGED <<job, artifact, run, faults>>

\* The same task first recovers the attempts whose lease has run out.
RecoverJob(j) ==
  /\ job[j].status = "running"
  /\ \A x \in Executions, k \in Kinds : Open(x, k) => ~attempt[x][k].expired
  /\ job' = [job EXCEPT ![j].status = "queued", ![j].holder = None]
  /\ IF Alive(job[j].holder) THEN Fault("job_overrun") ELSE UNCHANGED faults
  /\ UNCHANGED <<audit, ledger, attempt, artifact, run>>

WorkerDies(x) ==
  /\ Alive(x)
  /\ Fault("crash")
  /\ run' = [run EXCEPT ![x].pc = "gone"]
  /\ UNCHANGED <<job, audit, ledger, attempt, artifact>>

-----------------------------------------------------------------------------
ExecutionStep(x) ==
  \/ ReuseArtifact(x) \/ Deny(x) \/ Reserve(x) \/ MarkRunning(x)
  \/ \E k \in Kinds : LoseFencing(x, k) \/ FailCall(x, k) \/ FailUnfenced(x, k)
  \/ \E cost \in Costs : Checkpoint(x, cost) \/ \E k \in Kinds : Settle(x, k, cost)
  \/ EndJob(x)

Next ==
  \/ \E x \in Executions : ExecutionStep(x) \/ WorkerDies(x) \/ \E j \in Jobs : Deliver(x, j)
  \/ \E x \in Executions, k \in Kinds : LeaseExpires(x, k) \/ RecoverAttempt(x, k)
  \/ \E j \in Jobs : RecoverJob(j)

Spec == Init /\ [][Next]_vars

\* Workers run and their provider calls end; clocks advance; beat runs.
FairSpec ==
  /\ Spec
  /\ \A x \in Executions : WF_vars(ExecutionStep(x)) /\ WF_vars(\E j \in Jobs : Deliver(x, j))
  /\ \A x \in Executions, k \in Kinds : WF_vars(LeaseExpires(x, k)) /\ WF_vars(RecoverAttempt(x, k))
  /\ \A j \in Jobs : WF_vars(RecoverJob(j))

-----------------------------------------------------------------------------
(* Properties.                                                             *)

\* Every variable stays in its type.
TypeOK ==
  /\ job \in [Jobs -> Job]
  /\ audit \in [Jobs -> {"none", "running", "failed", "succeeded"}]
  /\ ledger \in [Jobs -> Ledger]
  /\ attempt \in [Executions -> [Kinds -> Attempt]]
  /\ artifact \in [Jobs -> Executions \cup {None}]
  /\ run \in [Executions -> Run]
  /\ faults \in 0..MaxFaults

\* What the slot of a job takes of the budget, unless its execution failed: a
\* failure adds up what all the executions of its slot have spent, which no
\* reservation bounds.
Committed(j) == IF audit[j] \in {"running", "succeeded"} THEN Charged(j) ELSE 0

\* Whatever runs, dies, is recovered or is retried, what is reserved for the
\* executions under way fits in the month's hard budget next to what the ones
\* that succeeded cost.
BudgetKept == SumFunction([j \in Jobs |-> Committed(j)]) <= HardBudget

\* No more executions than the policy allows run at a time or are counted in
\* a day, although the slot lock covers one job only.
ConcurrencyKept ==
  /\ Cardinality(Running) <= MaxConcurrency
  /\ Cardinality(CallsToday) <= DailyLimit

\* An artefact is there exactly for the audits that succeeded, its execution
\* is the one the ledger was last reserved for, the ledger is settled with
\* what that execution spent, and recovery never abandoned it.
ArtifactsSettled ==
  \A j \in Jobs :
    /\ (artifact[j] # None) <=> (audit[j] = "succeeded")
    /\ artifact[j] # None =>
         /\ ledger[j].status = "settled"
         /\ ledger[j].token = artifact[j]
         /\ ledger[j].actual = Spent(artifact[j])
         /\ \A k \in Kinds : attempt[artifact[j]][k].status \in {"none", "succeeded"}

\* A reservation and a running audit come and go together, and while they
\* last an attempt with the ledger's token is open: without it
\* recover_stale_ai_executions could neither find nor release them.
ReservationsRecoverable ==
  \A j \in Jobs :
    /\ (audit[j] = "running") <=> (ledger[j].status = "reserved")
    /\ audit[j] = "running" =>
         LET x == ledger[j].token
         IN  /\ x # None /\ run[x].job = j
             /\ \E k \in Kinds : Open(x, k) /\ attempt[x][k].token = x

\* Once an execution succeeded its audit, artefact and settled cost are final:
\* no stale execution, failure or recovery writes them again.
SuccessIsFinal ==
  [][\A j \in Jobs : audit[j] = "succeeded" =>
       /\ audit'[j] = "succeeded"
       /\ ledger'[j] = ledger[j]
       /\ artifact'[j] = artifact[j]]_vars

\* A reservation never outlives its execution for good.
ReservationsEnd == \A j \in Jobs : ledger[j].status = "reserved" ~> ledger[j].status # "reserved"

\* Every job ends.
JobsEnd == \A j \in Jobs : <>(job[j].status \in {"succeeded", "failed"})
=============================================================================
