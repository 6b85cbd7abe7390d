------------------------------- MODULE FencedJob -------------------------------
(***************************************************************************)
(* What a durable job promises the handler that runs inside it, without    *)
(* rows, messages, publishers or requests: executions hold leases, a lease *)
(* is granted while no live one stands, and only the execution that holds  *)
(* the last one settles the job (jobs/tasks.py, execute_durable).          *)
(***************************************************************************)
EXTENDS Naturals

VARIABLES
  ended,      \* the job has an outcome
  holder,     \* the lease that may settle the job, or None
  issued,     \* leases granted so far
  lapsed,     \* leases whose time is over
  executing   \* leases whose execution goes on

vars == <<ended, holder, issued, lapsed, executing>>

None == 0

Init == ~ended /\ holder = None /\ issued = 0 /\ lapsed = {} /\ executing = {}

Unheld == holder = None \/ holder \in lapsed

\* An execution starts, under a lease of its own.
Grant ==
  /\ ~ended /\ Unheld
  /\ issued' = issued + 1
  /\ holder' = issued + 1
  /\ executing' = executing \union {issued + 1}
  /\ UNCHANGED <<ended, lapsed>>

\* The holder's execution ends, for good or to be tried again.
Settle ==
  /\ holder \in executing
  /\ holder' = None
  /\ executing' = executing \ {holder}
  /\ ended' \in BOOLEAN
  /\ UNCHANGED <<issued, lapsed>>

\* An execution dies, or finds that it holds the job no more.
Abandon(l) ==
  /\ l \in executing
  /\ executing' = executing \ {l}
  /\ UNCHANGED <<ended, holder, issued, lapsed>>

Lapse ==
  /\ holder # None
  /\ lapsed' = lapsed \union {holder}
  /\ UNCHANGED <<ended, holder, issued, executing>>

\* Recovery, or a delivery that finds the job cancelled.
Revoke ==
  /\ Unheld
  /\ holder' = None
  /\ ended' \in {ended, TRUE}
  /\ UNCHANGED <<issued, lapsed, executing>>

\* A request cancels the job, over an execution if there is one.
Cancel ==
  /\ ended' = TRUE
  /\ UNCHANGED <<holder, issued, lapsed, executing>>

\* A request gives a job that has ended another chance.
Reopen ==
  /\ ended /\ holder = None
  /\ ended' = FALSE
  /\ UNCHANGED <<holder, issued, lapsed, executing>>

Next ==
  \/ Grant \/ Settle \/ Lapse \/ Revoke \/ Cancel \/ Reopen
  \/ \E l \in executing : Abandon(l)

Spec == Init /\ [][Next]_vars
=============================================================================
