----------------------------- MODULE SignalOutbox -----------------------------
(***************************************************************************)
(* The transactional outbox that carries the intentions of a user about    *)
(* one Signal Avanza monitor to the provider: the requests that stage an   *)
(* event (integrations/routes.py, integrations/service.py), the Celery     *)
(* task that delivers it and the beat task that finds what was left behind *)
(* (integrations/tasks.py).                                                *)
(*                                                                         *)
(* An event stands for its idempotency key.  Every step is one committed   *)
(* transaction or one call of the provider, except that the action route   *)
(* reads the monitor without a lock (ReadMonitor) before it commits.       *)
(***************************************************************************)
EXTENDS Naturals, FiniteSets

CONSTANTS
  Workers,      \* Celery workers of the signals queue
  Clients,      \* users that pause, resume and update the monitor
  MaxEvents,    \* bound: events staged in one behaviour
  MaxAttempts,  \* max_attempts of an event
  Patient,      \* TRUE: a user waits until every event staged so far has ended
  Faults,       \* the kinds of fault this instance may meet
  MaxFaults     \* bound: how many faults may happen in one behaviour

Events == 1..MaxEvents
NoEvent == 0

(***************************************************************************)
(* "crash"         a worker dies; its message may or may not come back     *)
(* "lost_message"  the broker loses a message, or never gets it            *)
(* "redelivery"    a message is delivered once more than it was sent       *)
(* "replay"        a client repeats a request with its Idempotency-Key     *)
(***************************************************************************)
FaultKinds == {"crash", "lost_message", "redelivery", "replay"}

ASSUME OutboxAssumption ==
  /\ MaxEvents \in Nat \ {0} /\ MaxAttempts \in Nat \ {0}
  /\ Patient \in BOOLEAN
  /\ Faults \subseteq FaultKinds /\ MaxFaults \in Nat

VARIABLES
  monitor,   \* the signal_monitors row
  event,     \* the integration_outbox_events rows of the monitor
  broker,    \* events with a message in Redis
  worker,    \* what each worker is doing
  client,    \* what each client's request is doing
  provider,  \* the monitor as Signal Avanza has it
  faults     \* faults met so far

vars == <<monitor, event, broker, worker, client, provider, faults>>

Monitor == [desired: {"active", "paused"},
            observed: {"pending", "active", "paused", "error"},
            external: BOOLEAN]
\* due: next_attempt_at is null or has passed.  old: claimed_at is two minutes
\* old.  addressed: the payload carries the provider's id of the monitor.
Event == [type: {"none", "create", "pause", "resume", "update"},
          status: {"pending", "processing", "retrying", "delivered", "failed"},
          attempts: Nat, due: BOOLEAN, old: BOOLEAN, addressed: BOOLEAN]
WorkerState == [pc: {"idle", "claimed", "applied"}, event: Events \cup {NoEvent}]
ClientState == [pc: {"idle", "read"}, action: {"pause", "resume"}, key: Events \cup {NoEvent},
                desired: {"active", "paused"}, external: BOOLEAN]
Provider == [status: {"absent", "active", "paused"}, config: Events \cup {NoEvent},
             applied: SUBSET Events]

NewEvent(type, addressed) ==
  [type |-> type, status |-> "pending", attempts |-> 0, due |-> TRUE, old |-> FALSE,
   addressed |-> addressed]
IdleWorker == [pc |-> "idle", event |-> NoEvent]
IdleClient == [pc |-> "idle", action |-> "pause", key |-> NoEvent, desired |-> "active",
               external |-> FALSE]

\* stage_dossier_monitor_create has committed the monitor and its first event.
Init ==
  /\ monitor = [desired |-> "active", observed |-> "pending", external |-> FALSE]
  /\ event = [e \in Events |-> NewEvent(IF e = 1 THEN "create" ELSE "none", FALSE)]
  /\ broker \in SUBSET {1}
  /\ worker = [w \in Workers |-> IdleWorker]
  /\ client = [c \in Clients |-> IdleClient]
  /\ provider = [status |-> "absent", config |-> NoEvent, applied |-> {}]
  /\ faults = 0

Staged == {e \in Events : event[e].type # "none"}
Ended(e) == event[e].status \in {"delivered", "failed"}

Fault(kind) ==
  /\ kind \in Faults
  /\ faults < MaxFaults
  /\ faults' = faults + 1

-----------------------------------------------------------------------------
(* The requests.                                                           *)

Status(action) == IF action = "pause" THEN "paused" ELSE "active"
NextEvent == Cardinality(Staged) + 1
MayAct == Patient => \A e \in Staged : Ended(e)

\* The commit that stages an event is followed by its dispatch, unless the
\* broker or the request fails in between.
Dispatch(e) == broker' \in {broker, broker \cup {e}}

\* monitor_action reads the monitor without a lock.
ReadMonitor(c, action, key) ==
  /\ client[c].pc = "idle"
  /\ IF key = NoEvent THEN MayAct /\ UNCHANGED faults
     ELSE event[key].type = action /\ Fault("replay")
  /\ client' = [client EXCEPT ![c] =
       [pc |-> "read", action |-> action, key |-> key,
        desired |-> monitor.desired, external |-> monitor.external]]
  /\ UNCHANGED <<monitor, event, broker, worker, provider>>

\* The column desired_status is written when it differs from what was read.
WriteDesired(read) ==
  monitor' = IF Status(read.action) = read.desired THEN monitor
             ELSE [monitor EXCEPT !.desired = Status(read.action)]

CommitAction(c) ==
  /\ client[c].pc = "read"
  /\ client[c].key = NoEvent
  /\ NextEvent \in Events
  /\ WriteDesired(client[c])
  /\ event' = [event EXCEPT ![NextEvent] = NewEvent(client[c].action, client[c].external)]
  /\ Dispatch(NextEvent)
  /\ client' = [client EXCEPT ![c] = IdleClient]
  /\ UNCHANGED <<worker, provider, faults>>

\* stage_outbox returns the event of a repeated request, unless the payload is
\* another one; the desired status is written all the same.
RepeatAction(c) ==
  /\ client[c].pc = "read"
  /\ client[c].key # NoEvent
  /\ IF event[client[c].key].addressed = client[c].external
       THEN WriteDesired(client[c]) /\ Dispatch(client[c].key)
       ELSE UNCHANGED <<monitor, broker>>
  /\ client' = [client EXCEPT ![c] = IdleClient]
  /\ UNCHANGED <<event, worker, provider, faults>>

\* update_monitor holds the monitor's row from its SELECT to its commit.
StageUpdate ==
  /\ Clients # {}
  /\ MayAct
  /\ NextEvent \in Events
  /\ event' = [event EXCEPT ![NextEvent] = NewEvent("update", monitor.external)]
  /\ Dispatch(NextEvent)
  /\ UNCHANGED <<monitor, worker, client, provider, faults>>

-----------------------------------------------------------------------------
(* The delivery (dispatch_outbox).                                         *)

\* Bug: the claim of another worker is not looked at.
BugClaimableTwice(e) == event[e].status # "delivered" /\ event[e].due

\* Bug: only a claim is looked at.
BugClaimableAgain(e) ==
  /\ event[e].status = "processing" => event[e].old
  /\ event[e].due

Claimable(e) ==
  /\ event[e].status # "delivered"
  /\ event[e].status = "processing" => event[e].old
  /\ event[e].due

Receive(e) ==
  /\ e \in broker
  /\ \/ broker' = broker \ {e} /\ UNCHANGED faults
     \/ broker' = broker /\ Fault("redelivery")

Ignore(w, e) ==
  /\ worker[w].pc = "idle"
  /\ Receive(e)
  /\ ~Claimable(e)
  /\ UNCHANGED <<monitor, event, worker, client, provider>>

Claim(w, e) ==
  /\ worker[w].pc = "idle"
  /\ Receive(e)
  /\ Claimable(e)
  /\ event' = [event EXCEPT ![e].status = "processing", ![e].attempts = @ + 1, ![e].old = FALSE]
  /\ worker' = [worker EXCEPT ![w] = [pc |-> "claimed", event |-> e]]
  /\ UNCHANGED <<monitor, client, provider>>

\* The provider applies the call, once for each idempotency key.
ProviderApplies(w) ==
  /\ worker[w].pc = "claimed"
  /\ LET e == worker[w].event
         new == [provider EXCEPT !.applied = @ \cup {e}]
     IN  /\ event[e].type = "create" \/ (event[e].addressed /\ provider.status # "absent")
         /\ provider' = IF e \in provider.applied THEN provider
              ELSE CASE event[e].type = "create" -> [new EXCEPT !.status = "active", !.config = e]
                     [] event[e].type = "update" -> [new EXCEPT !.config = e]
                     [] event[e].type = "pause" -> [new EXCEPT !.status = "paused"]
                     [] event[e].type = "resume" -> [new EXCEPT !.status = "active"]
  /\ worker' = [worker EXCEPT ![w].pc = "applied"]
  /\ UNCHANGED <<monitor, event, broker, client, faults>>

Released(w) == worker' = [worker EXCEPT ![w] = IdleWorker]

\* Bug: only the creation of the monitor confirms its status.
BugDeliver(w) ==
  /\ worker[w].pc = "applied"
  /\ LET e == worker[w].event
         created == event[e].type = "create"
     IN  /\ event' = [event EXCEPT ![e].status = "delivered"]
         /\ monitor' = [monitor EXCEPT !.observed = IF created THEN monitor.desired ELSE @,
                                       !.external = @ \/ created]
  /\ Released(w)
  /\ UNCHANGED <<broker, client, provider, faults>>

\* The observed status is the desired one, read in the transaction that writes it.
Deliver(w) ==
  /\ worker[w].pc = "applied"
  /\ LET e == worker[w].event
     IN  /\ event' = [event EXCEPT ![e].status = "delivered"]
         /\ monitor' = [monitor EXCEPT !.observed = monitor.desired,
                                       !.external = @ \/ event[e].type = "create"]
  /\ Released(w)
  /\ UNCHANGED <<broker, client, provider, faults>>

\* The connection is not available, the provider refuses the call, its answer
\* is not the contract's, or the soft time limit interrupts the call.
FailPermanently(w) ==
  /\ worker[w].pc \in {"claimed", "applied"}
  /\ event' = [event EXCEPT ![worker[w].event].status = "failed"]
  /\ monitor' = [monitor EXCEPT !.observed = "error"]
  /\ Released(w)
  /\ UNCHANGED <<broker, client, provider, faults>>

\* A timeout, 429 or 5xx, before or after the provider applied the call.
\* self.retry publishes the message again, at most three times.
FailTemporarily(w) ==
  /\ worker[w].pc \in {"claimed", "applied"}
  /\ LET e == worker[w].event
     IN  IF event[e].attempts >= MaxAttempts
           THEN event' = [event EXCEPT ![e].status = "failed"] /\ UNCHANGED broker
           ELSE /\ event' = [event EXCEPT ![e].status = "retrying", ![e].due = FALSE]
                /\ Dispatch(e)
  /\ Released(w)
  /\ UNCHANGED <<monitor, client, provider, faults>>

WorkerDies(w) ==
  /\ worker[w].pc # "idle"
  /\ Fault("crash")
  /\ Dispatch(worker[w].event)
  /\ Released(w)
  /\ UNCHANGED <<monitor, event, client, provider>>

LoseMessage(e) ==
  /\ e \in broker
  /\ Fault("lost_message")
  /\ broker' = broker \ {e}
  /\ UNCHANGED <<monitor, event, worker, client, provider>>

-----------------------------------------------------------------------------
(* Time and the reconciler (reconcile_outbox).                             *)

BackoffEnds(e) ==
  /\ ~event[e].due
  /\ event' = [event EXCEPT ![e].due = TRUE]
  /\ UNCHANGED <<monitor, broker, worker, client, provider, faults>>

\* The hard limit of the task, 60 s, ends a delivery before its claim is old.
ClaimAges(e) ==
  /\ event[e].status = "processing" /\ ~event[e].old
  /\ \A w \in Workers : worker[w].event # e
  /\ event' = [event EXCEPT ![e].old = TRUE]
  /\ UNCHANGED <<monitor, broker, worker, client, provider, faults>>

\* Bug: an abandoned claim is not selected.
BugOutboxDue(e) == event[e].status \in {"pending", "retrying"} /\ event[e].due

\* oracle_signal_outbox_due
OutboxDue(e) ==
  \/ event[e].status \in {"pending", "retrying"} /\ event[e].due
  \/ event[e].status = "processing" /\ event[e].old

ReconcileOutbox(e) ==
  /\ e \in Staged
  /\ OutboxDue(e)
  /\ broker' = broker \cup {e}
  /\ UNCHANGED <<monitor, event, worker, client, provider, faults>>

-----------------------------------------------------------------------------
WorkerStep(w) ==
  \/ \E e \in broker : Ignore(w, e) \/ Claim(w, e)
  \/ ProviderApplies(w) \/ Deliver(w) \/ FailPermanently(w) \/ FailTemporarily(w)

ClientStep(c) ==
  \/ \E action \in {"pause", "resume"}, key \in Staged \cup {NoEvent} : ReadMonitor(c, action, key)
  \/ CommitAction(c) \/ RepeatAction(c)

Next ==
  \/ \E w \in Workers : WorkerStep(w) \/ WorkerDies(w)
  \/ \E c \in Clients : ClientStep(c)
  \/ StageUpdate
  \/ \E e \in Events :
       LoseMessage(e) \/ BackoffEnds(e) \/ ClaimAges(e) \/ ReconcileOutbox(e)

Spec == Init /\ [][Next]_vars

\* Workers run and their calls end, clocks advance, beat runs.  Nothing forces
\* a client to act.
FairSpec ==
  /\ Spec
  /\ \A w \in Workers : WF_vars(WorkerStep(w))
  /\ \A e \in Events :
       WF_vars(BackoffEnds(e)) /\ WF_vars(ClaimAges(e)) /\ WF_vars(ReconcileOutbox(e))

-----------------------------------------------------------------------------
(* Properties.                                                             *)

\* Every variable stays in its type.
TypeOK ==
  /\ monitor \in Monitor
  /\ event \in [Events -> Event]
  /\ broker \subseteq Staged
  /\ worker \in [Workers -> WorkerState]
  /\ client \in [Clients -> ClientState]
  /\ provider \in Provider
  /\ faults \in 0..MaxFaults

\* However often its message is delivered, an event is being delivered by at
\* most one worker, and the row says so.
ClaimedOnce ==
  \A e \in Events :
    LET holders == {w \in Workers : worker[w].event = e}
    IN  /\ Cardinality(holders) <= 1
        /\ holders # {} => event[e].status = "processing" /\ ~event[e].old

\* A delivered event was applied by the provider and is never sent again:
\* later failures, crashes and redeliveries leave it as it is.
DeliveredIsFinal ==
  [][\A e \in Events : event[e].status = "delivered" =>
       e \in provider.applied /\ event'[e] = event[e]]_vars

\* When everything that was asked has been delivered, the status that was
\* asked for, the one shown as observed and the provider's are the same, and
\* the provider has the newest configuration.
InSyncWhenDelivered ==
  LET configs == {e \in Staged : event[e].type \in {"create", "update"}}
  IN  (\A e \in Staged : event[e].status = "delivered") =>
        /\ monitor.observed = provider.status
        /\ monitor.desired = provider.status
        /\ \A e \in configs : e <= provider.config

\* Every event that is staged is delivered or fails, whichever messages are
\* lost and whichever workers die.
DeliveriesEnd == \A e \in Events : (e \in Staged) ~> Ended(e)
=============================================================================
