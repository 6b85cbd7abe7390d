----------------------------- MODULE SignalInbox -----------------------------
(***************************************************************************)
(* What Signal Avanza sends for one monitor, by its two ways into Oracle:  *)
(* webhooks, stored as integration_inbox_events and processed by Celery    *)
(* (integrations/webhooks.py, integrations/tasks.py), and the pages of     *)
(* sync_monitor (integrations/service.py).  Both end in _ingest_item.      *)
(*                                                                         *)
(* A transaction reads its rows in one step and commits in a later one.    *)
(* The order of two commits is free: a row lock only delays the second.    *)
(***************************************************************************)
EXTENDS Naturals, Sequences, FiniteSets

CONSTANTS
  Workers,      \* Celery workers of the signals queue
  Syncs,        \* oracle.signal.sync_monitor jobs of the monitor
  Items,        \* signals of the provider
  MaxEvents,    \* bound: events of the provider
  MaxAttempts,  \* a failed event is tried again below it (5)
  MaxFaults     \* bound: crashes, failures and stray messages in one behaviour

\* What an instance may choose.
ConstantsOK ==
  MaxEvents \in Nat \ {0} /\ MaxAttempts \in Nat \ {0} /\ MaxFaults \in Nat

VARIABLES
  provider,  \* what happened at the provider, in order
  inbox,     \* the integration_inbox_events rows, by position in provider
  monitor,   \* the signal_monitors row
  record,    \* signal_ingestion_records and the signal of each item
  worker,    \* what each worker is doing
  sync,      \* what each synchronisation is doing
  applied,   \* how often each event took effect
  faults     \* faults met so far

vars == <<provider, inbox, monitor, record, worker, sync, applied, faults>>

Events == 1..MaxEvents
NoItem == "none"
Statuses == {"active", "paused"}

\* An event is a signal, new or changed, or a status of the monitor.
Event == [item: Items \union {NoItem}, status: Statuses]
\* claimed: updated_at is less than two minutes old.
InboxRow == [status: {"none", "queued", "validated", "processed", "rejected", "failed"},
             attempts: Nat, claimed: BOOLEAN]
\* known: the outbox has committed external_id (SignalOutbox).
Monitor == [cursor: 0..MaxEvents, observed: Statuses, known: BOOLEAN]
\* content: the event whose payload the signal shows.
Record == [count: Nat, content: 0..MaxEvents]
Worker == [pc: {"idle", "claimed", "read"}, event: 0..MaxEvents,
           record: Record, observed: Statuses]
Sync == [pc: {"idle", "loaded", "running"}, row: Monitor, at: 0..MaxEvents,
         read: [Items -> Record], own: [Items -> Record]]

NoRecord == [count |-> 0, content |-> 0]
NoRecords == [i \in Items |-> NoRecord]
NewMonitor == [cursor |-> 0, observed |-> "active", known |-> FALSE]
IdleWorker == [pc |-> "idle", event |-> 0, record |-> NoRecord, observed |-> "active"]
IdleSync == [pc |-> "idle", row |-> NewMonitor, at |-> 0, read |-> NoRecords, own |-> NoRecords]

Init ==
  /\ provider = <<>>
  /\ inbox = [e \in Events |-> [status |-> "none", attempts |-> 0, claimed |-> FALSE]]
  /\ monitor = NewMonitor
  /\ record = NoRecords
  /\ worker = [w \in Workers |-> IdleWorker]
  /\ sync = [s \in Syncs |-> IdleSync]
  /\ applied = [e \in Events |-> 0]
  /\ faults = 0

Fault == faults < MaxFaults /\ faults' = faults + 1

\* The columns an unlocked session writes: those that differ from what it loaded.
Flush(row, read, new) == [c \in DOMAIN row |-> IF new[c] = read[c] THEN row[c] ELSE new[c]]

\* _ingest_item: an item seen before counts again and takes the new content.
Ingested(r, e) == [count |-> r.count + 1, content |-> e]

\* The record of an item is unique: of two first sights one is refused.
Refused(read, now) == read.count = 0 /\ now.count > 0

-----------------------------------------------------------------------------
(* The provider.                                                           *)

Publish(item, status) ==
  /\ Len(provider) < MaxEvents
  /\ provider' = Append(provider, [item |-> item, status |-> status])
  /\ UNCHANGED <<inbox, monitor, record, worker, sync, applied, faults>>

\* The delivery of the create event commits the provider's id of the monitor.
LearnExternalId ==
  /\ ~monitor.known
  /\ monitor' = [monitor EXCEPT !.known = TRUE]
  /\ UNCHANGED <<provider, inbox, record, worker, sync, applied, faults>>

-----------------------------------------------------------------------------
(* Webhooks.                                                               *)

\* The event id is unique in the inbox: a repeated call stores nothing.
Webhook(e) ==
  /\ e \in DOMAIN provider
  /\ inbox[e].status = "none"
  /\ inbox' = [inbox EXCEPT ![e].status = "queued"]
  /\ UNCHANGED <<provider, monitor, record, worker, sync, applied, faults>>

\* Bug: an event that was processed is processed again.
BugProcessable(e) ==
  inbox[e].status # "none" /\ ~(inbox[e].status = "validated" /\ inbox[e].claimed)

\* A claim is respected for two minutes.
Processable(e) ==
  /\ inbox[e].status \notin {"none", "processed"}
  /\ ~(inbox[e].status = "validated" /\ inbox[e].claimed)

\* Bug: only what is queued is looked for.
BugDue(e) == inbox[e].status = "queued"

\* oracle_signal_inbox_due, and the message of the webhook itself.
Due(e) ==
  \/ inbox[e].status = "queued"
  \/ inbox[e].status = "failed" /\ inbox[e].attempts < MaxAttempts
  \/ inbox[e].status = "validated" /\ ~inbox[e].claimed

\* The messages beat does not send: a webhook that repeats a failed event, a
\* message delivered twice.
Claim(w, e) ==
  /\ worker[w] = IdleWorker
  /\ Processable(e)
  /\ IF Due(e) THEN UNCHANGED faults ELSE Fault
  /\ inbox' = [inbox EXCEPT ![e] = [status |-> "validated", attempts |-> @.attempts + 1,
                                    claimed |-> TRUE]]
  /\ worker' = [worker EXCEPT ![w].pc = "claimed", ![w].event = e]
  /\ UNCHANGED <<provider, monitor, record, sync, applied>>

End(w, status) ==
  /\ inbox' = [inbox EXCEPT ![worker[w].event].status = status]
  /\ worker' = [worker EXCEPT ![w] = IdleWorker]

\* A monitor Oracle does not know yet: rejected, and not looked for again.
Reject(w) ==
  /\ worker[w].pc = "claimed"
  /\ ~monitor.known
  /\ End(w, "rejected")
  /\ UNCHANGED <<provider, monitor, record, sync, applied, faults>>

ReadRows(w) ==
  /\ worker[w].pc = "claimed"
  /\ monitor.known
  /\ LET i == provider[worker[w].event].item
     IN  worker' = [worker EXCEPT ![w].pc = "read", ![w].observed = monitor.observed,
                      ![w].record = IF i = NoItem THEN NoRecord ELSE record[i]]
  /\ UNCHANGED <<provider, inbox, monitor, record, sync, applied, faults>>

Took(w) == applied' = [applied EXCEPT ![worker[w].event] = @ + 1]

\* A status is applied when its turn comes, whatever its date.
ApplyStatus(w) ==
  /\ worker[w].pc = "read"
  /\ LET new == provider[worker[w].event]
     IN  /\ new.item = NoItem
         /\ monitor' = IF new.status = worker[w].observed THEN monitor
                       ELSE [monitor EXCEPT !.observed = new.status]
  /\ End(w, "processed") /\ Took(w)
  /\ UNCHANGED <<provider, record, sync, faults>>

Ingest(w) ==
  /\ worker[w].pc = "read"
  /\ LET e == worker[w].event
         i == provider[e].item
         read == worker[w].record
     IN  /\ i # NoItem
         /\ IF Refused(read, record[i])
              THEN End(w, "failed") /\ UNCHANGED <<record, applied>>
              ELSE /\ record' = [record EXCEPT ![i] = Flush(@, read, Ingested(read, e))]
                   /\ End(w, "processed") /\ Took(w)
  /\ UNCHANGED <<provider, monitor, sync, faults>>

\* Anything raises: the transaction is rolled back and the event is failed.
FailEvent(w) ==
  /\ worker[w].pc # "idle"
  /\ Fault
  /\ End(w, "failed")
  /\ UNCHANGED <<provider, monitor, record, sync, applied>>

WorkerDies(w) ==
  /\ worker[w].pc # "idle"
  /\ Fault
  /\ worker' = [worker EXCEPT ![w] = IdleWorker]
  /\ UNCHANGED <<provider, inbox, monitor, record, sync, applied>>

\* The time limit of the task is a minute, the claim lasts two.
Lapsed(e) == inbox[e].claimed /\ \A w \in Workers : worker[w].event # e

ClaimLapses(e) ==
  /\ Lapsed(e)
  /\ inbox' = [inbox EXCEPT ![e].claimed = FALSE]
  /\ UNCHANGED <<provider, monitor, record, worker, sync, applied, faults>>

-----------------------------------------------------------------------------
(* Synchronisation.                                                        *)

\* The row is loaded before the lock is tried.
LoadMonitor(s) ==
  /\ sync[s].pc = "idle"
  /\ monitor.known /\ monitor.observed # "paused"
  /\ sync' = [sync EXCEPT ![s].pc = "loaded", ![s].row = monitor, ![s].at = monitor.cursor]
  /\ UNCHANGED <<provider, inbox, monitor, record, worker, applied, faults>>

\* pg_try_advisory_xact_lock: without it the job fails, and is retried.
LockMonitor(s) ==
  /\ sync[s].pc = "loaded"
  /\ sync' = IF \E t \in Syncs : sync[t].pc = "running" THEN [sync EXCEPT ![s] = IdleSync]
             ELSE [sync EXCEPT ![s].pc = "running"]
  /\ UNCHANGED <<provider, inbox, monitor, record, worker, applied, faults>>

\* One entry of a page; a status is not part of it.  An item met twice is the
\* object the session already holds.
ReadEntry(s) ==
  /\ sync[s].pc = "running"
  /\ sync[s].at < Len(provider)
  /\ LET q == sync[s]
         e == q.at + 1
         i == provider[e].item
         held == i # NoItem /\ q.own[i] # NoRecord
     IN  sync' = [sync EXCEPT ![s] =
           IF i = NoItem THEN [q EXCEPT !.at = e]
           ELSE [q EXCEPT !.at = e,
                   !.read[i] = IF held THEN @ ELSE record[i],
                   !.own[i] = Ingested(IF held THEN @ ELSE record[i], e)]]
  /\ UNCHANGED <<provider, inbox, monitor, record, worker, applied, faults>>

Touched(s) == {i \in Items : sync[s].own[i] # NoRecord}

\* The last page: everything is committed, or the transaction fails.
FinishSync(s) ==
  /\ sync[s].pc = "running"
  /\ sync[s].at = Len(provider)
  /\ LET q == sync[s]
         refused == \E i \in Touched(s) : Refused(q.read[i], record[i])
         shown == IF q.row.observed = "active" \/ refused THEN monitor.observed ELSE "active"
     IN  /\ record' = IF refused THEN record
              ELSE [i \in Items |-> IF i \in Touched(s) THEN Flush(record[i], q.read[i], q.own[i])
                                                        ELSE record[i]]
         /\ monitor' = [monitor EXCEPT !.observed = shown,
                          !.cursor = IF refused \/ q.at = q.row.cursor THEN @ ELSE q.at]
  /\ sync' = [sync EXCEPT ![s] = IdleSync]
  /\ UNCHANGED <<provider, inbox, worker, applied, faults>>

\* Bug: the cursor stays where the pages that were rolled back have left it.
BugCursorIfFailed(s) == sync[s].at

\* Bug: the cursor of the next page is kept when this one fails.
BugCursorPast(s) == sync[s].at + 1

\* The cursor is written with the items or not at all.
CursorIfFailed(s) == monitor.cursor

\* The provider fails, the page limit is reached, the worker dies: rolled back.
FailSync(s) ==
  /\ sync[s].pc = "running"
  /\ Fault
  /\ monitor' = [monitor EXCEPT !.cursor = CursorIfFailed(s)]
  /\ sync' = [sync EXCEPT ![s] = IdleSync]
  /\ UNCHANGED <<provider, inbox, record, worker, applied>>

-----------------------------------------------------------------------------
WorkerStep(w) == Reject(w) \/ ReadRows(w) \/ ApplyStatus(w) \/ Ingest(w)

Reconcile(e) == Due(e) /\ \E w \in Workers : Claim(w, e)

Next ==
  \/ \E i \in Items : Publish(i, "active")
  \/ \E status \in Statuses : Publish(NoItem, status)
  \/ LearnExternalId
  \/ \E e \in Events : Webhook(e) \/ ClaimLapses(e)
  \/ \E w \in Workers :
       WorkerStep(w) \/ FailEvent(w) \/ WorkerDies(w) \/ \E e \in Events : Claim(w, e)
  \/ \E s \in Syncs :
       LoadMonitor(s) \/ LockMonitor(s) \/ ReadEntry(s) \/ FinishSync(s) \/ FailSync(s)

Spec == Init /\ [][Next]_vars

\* Beat looks for what is due every thirty seconds; a task that began ends, or is
\* killed by its time limit and its claim lapses.
Fairness ==
  /\ \A w \in Workers : WF_vars(WorkerStep(w))
  /\ \A e \in Events : SF_vars(Reconcile(e)) /\ WF_vars(ClaimLapses(e))

FairSpec == Spec /\ Fairness

-----------------------------------------------------------------------------
(* Properties.                                                             *)

\* Every variable stays in its type.
TypeOK ==
  /\ provider \in Seq(Event) /\ Len(provider) <= MaxEvents
  /\ inbox \in [Events -> InboxRow] /\ monitor \in Monitor
  /\ record \in [Items -> Record] /\ worker \in [Workers -> Worker]
  /\ sync \in [Syncs -> Sync] /\ applied \in [Events -> Nat] /\ faults \in 0..MaxFaults

\* "no duplica efectos": an event takes effect once at most, and exactly when it
\* is processed, whichever deliveries, crashes and failures come between.
AppliedOnce ==
  \A e \in Events : applied[e] = IF inbox[e].status = "processed" THEN 1 ELSE 0

\* The cursor never passes an item that Oracle does not have: what a page or a
\* webhook left out would not be asked for again.
CursorSkipsNothing ==
  \A p \in 1..monitor.cursor :
    provider[p].item # NoItem => record[provider[p].item].count > 0

\* An event that was accepted is processed, rejected or has used its attempts.
EventsEnd ==
  \A e \in Events :
    (inbox[e].status # "none") ~>
      \/ inbox[e].status \in {"processed", "rejected"}
      \/ inbox[e].status = "failed" /\ inbox[e].attempts >= MaxAttempts
=============================================================================
