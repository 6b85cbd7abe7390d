----------------------------- MODULE PlatformProofs -----------------------------
(***************************************************************************)
(* Theorems about SignalOutbox: one deliverer for each event, and what was *)
(* delivered was applied and stays as it is, for every number of workers,  *)
(* clients and events and every mix of faults; and what a patient user     *)
(* finds once everything was delivered.                                    *)
(*                                                                         *)
(* Then the theorems about MCPlatform: the object store, the agents'       *)
(* limits, and the custom reports, whose options are written from copies.  *)
(***************************************************************************)
EXTENDS MCPlatform, Sequences, FiniteSetTheorems, TLAPS

\* A worker that is busy holds an event that was staged, and the event's row
\* shows the claim; no other worker holds it.
OneDeliverer ==
  \A w \in Workers : worker[w].pc # "idle" =>
    LET e == worker[w].event
    IN  /\ e \in Events /\ event[e].type # "none"
        /\ event[e].status = "processing" /\ ~event[e].old
        /\ \A v \in Workers : worker[v].event = e => v = w

IdleHoldsNothing == \A w \in Workers : worker[w].pc = "idle" => worker[w].event = NoEvent

\* Events are staged in the order of their numbers, and a row that was not
\* staged is as it was made.
StagedInOrder ==
  /\ \E n \in Nat : Staged = 1..n
  /\ \A e \in Events : event[e].type = "none" => event[e].status = "pending"

\* What was applied is remembered by the provider, and only that is delivered.
DeliveredWasApplied ==
  /\ \A w \in Workers : worker[w].pc = "applied" => worker[w].event \in provider.applied
  /\ \A e \in Events : event[e].status = "delivered" => e \in provider.applied /\ event[e].due
  /\ \A e \in Events : event[e].status = "processing" => event[e].due

\* A repeated request names an event that was staged.
KeysStaged == \A c \in Clients : client[c].key \in Staged \cup {NoEvent}

Inv ==
  /\ TypeOK /\ OneDeliverer /\ IdleHoldsNothing
  /\ StagedInOrder /\ DeliveredWasApplied /\ KeysStaged

-----------------------------------------------------------------------------
(* Types.                                                                  *)

LEMMA Fields ==
  ASSUME TypeOK
  PROVE  /\ \A e \in Events :
              /\ event[e].type \in {"none", "create", "pause", "resume", "update"}
              /\ event[e].status \in {"pending", "processing", "retrying", "delivered", "failed"}
              /\ event[e].attempts \in Nat
              /\ event[e].due \in BOOLEAN /\ event[e].old \in BOOLEAN /\ event[e].addressed \in BOOLEAN
         /\ \A w \in Workers : worker[w].pc \in {"idle", "claimed", "applied"}
                               /\ worker[w].event \in Events \cup {NoEvent}
         /\ \A c \in Clients :
              /\ client[c].pc \in {"idle", "read"} /\ client[c].action \in {"pause", "resume"}
              /\ client[c].key \in Events \cup {NoEvent}
              /\ client[c].desired \in {"active", "paused"} /\ client[c].external \in BOOLEAN
         /\ monitor.desired \in {"active", "paused"}
         /\ monitor.observed \in {"pending", "active", "paused", "error"}
         /\ monitor.external \in BOOLEAN
         /\ provider.applied \subseteq Events
BY DEF TypeOK, Event, WorkerState, ClientState, Monitor, Provider

LEMMA NoEventIsNone == NoEvent \notin Events
BY DEF NoEvent, Events

LEMMA NewEventType ==
  ASSUME NEW type \in {"none", "create", "pause", "resume", "update"}, NEW a \in BOOLEAN
  PROVE  NewEvent(type, a) \in Event
BY DEF NewEvent, Event

LEMMA TypedInit == Init => TypeOK
<1> SUFFICES ASSUME Init PROVE TypeOK OBVIOUS
<1>1. 1 \in Events BY OutboxAssumption DEF Events
<1>2. event \in [Events -> Event] BY NewEventType DEF Init
<1>3. broker \subseteq Staged
  BY <1>1 DEF Init, Staged, NewEvent
<1>4. monitor \in Monitor BY DEF Init, Monitor
<1>5. worker \in [Workers -> WorkerState] BY DEF Init, WorkerState, IdleWorker
<1>6. client \in [Clients -> ClientState] BY DEF Init, ClientState, IdleClient
<1>7. provider \in Provider BY DEF Init, Provider
<1>8. faults \in 0..MaxFaults BY OutboxAssumption DEF Init
<1> QED BY <1>2, <1>3, <1>4, <1>5, <1>6, <1>7, <1>8 DEF TypeOK

LEMMA FaultType == ASSUME TypeOK, NEW f, Fault(f) PROVE faults' \in 0..MaxFaults
BY OutboxAssumption DEF TypeOK, Fault

\* A worker that lets its event go.
LEMMA ReleasedWorker ==
  ASSUME TypeOK, NEW w \in Workers, Released(w)
  PROVE  /\ worker' \in [Workers -> WorkerState]
         /\ worker'[w] = IdleWorker
         /\ \A v \in Workers : v # w => worker'[v] = worker[v]
BY DEF TypeOK, Released, WorkerState, IdleWorker

\* A step that changes one row without its type keeps what is staged.
LEMMA RowChanges ==
  ASSUME TypeOK, NEW e \in Events, NEW row \in Event, row.type = event[e].type,
         event' = [event EXCEPT ![e] = row]
  PROVE  /\ event' \in [Events -> Event] /\ event'[e] = row
         /\ \A f \in Events : f # e => event'[f] = event[f]
         /\ Staged' = Staged
BY DEF TypeOK, Staged

\* Staging the next event.
LEMMA StagingChanges ==
  ASSUME TypeOK, NextEvent \in Events, NEW type \in {"pause", "resume", "update"},
         NEW a \in BOOLEAN, event' = [event EXCEPT ![NextEvent] = NewEvent(type, a)]
  PROVE  /\ event' \in [Events -> Event] /\ event'[NextEvent] = NewEvent(type, a)
         /\ \A f \in Events : f # NextEvent => event'[f] = event[f]
         /\ Staged' = Staged \cup {NextEvent}
<1>1. NewEvent(type, a) \in Event BY NewEventType
<1>2. /\ event' \in [Events -> Event] /\ event'[NextEvent] = NewEvent(type, a)
      /\ \A f \in Events : f # NextEvent => event'[f] = event[f]
  BY <1>1 DEF TypeOK
<1>3. NewEvent(type, a).type # "none" BY DEF NewEvent
<1> HIDE DEF NextEvent
<1> QED BY <1>2, <1>3 DEF Staged

\* The next event was not staged, and staging it keeps the order.
LEMMA NextIsNew ==
  ASSUME StagedInOrder
  PROVE  /\ NextEvent \notin Staged
         /\ \E n \in Nat : Staged \cup {NextEvent} = 1..n
<1> PICK n \in Nat : Staged = 1..n BY DEF StagedInOrder
<1>1. Cardinality(1..n) = n
  <2>1. Cardinality(1..n) = IF 1 > n THEN 0 ELSE n - 1 + 1 BY FS_Interval
  <2> QED BY <2>1
<1>2. NextEvent = n + 1 BY <1>1 DEF NextEvent
<1>3. 1..n \cup {n + 1} = 1..(n + 1) OBVIOUS
<1> QED BY <1>2, <1>3

LEMMA InvInit == Init => Inv
<1> SUFFICES ASSUME Init PROVE Inv OBVIOUS
<1>1. TypeOK BY TypedInit
<1>2. OneDeliverer /\ IdleHoldsNothing BY DEF Init, IdleWorker, OneDeliverer, IdleHoldsNothing
<1>3. StagedInOrder
  <2>1. 1 \in Events BY OutboxAssumption DEF Events
  <2>2. Staged = {1} BY <2>1 DEF Init, Staged, NewEvent
  <2>3. {1} = 1..1 OBVIOUS
  <2>4. \A e \in Events : event[e].status = "pending" BY DEF Init, NewEvent
  <2> QED BY <2>2, <2>3, <2>4 DEF StagedInOrder
<1>4. DeliveredWasApplied BY DEF Init, IdleWorker, NewEvent, DeliveredWasApplied
<1>5. KeysStaged BY DEF Init, IdleClient, KeysStaged
<1> QED BY <1>1, <1>2, <1>3, <1>4, <1>5 DEF Inv

-----------------------------------------------------------------------------
(* Requests, the broker and the reconciler.                                *)

\* A step that leaves events, workers and the provider alone.
LEMMA QuietStep ==
  ASSUME Inv, UNCHANGED <<event, worker, provider>>, monitor' \in Monitor, broker' \subseteq Staged,
         client' \in [Clients -> ClientState], faults' \in 0..MaxFaults,
         \A c \in Clients : client'[c].key \in Staged \cup {NoEvent}
  PROVE  Inv'
<1>1. TypeOK' BY DEF Inv, TypeOK, Staged
<1>2. OneDeliverer' /\ IdleHoldsNothing' BY DEF Inv, OneDeliverer, IdleHoldsNothing
<1>3. Staged' = Staged BY DEF Staged
<1>4. StagedInOrder' BY <1>3 DEF Inv, StagedInOrder
<1>5. DeliveredWasApplied' BY DEF Inv, DeliveredWasApplied
<1>6. KeysStaged' BY <1>3 DEF KeysStaged
<1> QED BY <1>1, <1>2, <1>4, <1>5, <1>6 DEF Inv

\* A step that stages the next event.
LEMMA StagingKeeps ==
  ASSUME Inv, NextEvent \in Events, NEW type \in {"pause", "resume", "update"}, NEW a \in BOOLEAN,
         event' = [event EXCEPT ![NextEvent] = NewEvent(type, a)], Dispatch(NextEvent),
         UNCHANGED <<worker, provider, faults>>, monitor' \in Monitor,
         client' \in [Clients -> ClientState],
         \A c \in Clients : client'[c].key \in Staged \cup {NoEvent}
  PROVE  Inv' /\ \A e \in Events : event[e].status = "delivered" => event'[e] = event[e]
<1> USE DEF Inv
<1>1. /\ event' \in [Events -> Event] /\ event'[NextEvent] = NewEvent(type, a)
      /\ \A f \in Events : f # NextEvent => event'[f] = event[f]
      /\ Staged' = Staged \cup {NextEvent}
  BY StagingChanges
<1>2. NextEvent \notin Staged /\ \E n \in Nat : Staged \cup {NextEvent} = 1..n
  BY NextIsNew
<1>3. event[NextEvent].type = "none" /\ event[NextEvent].status = "pending"
  BY <1>2 DEF Staged, StagedInOrder
<1>4. /\ NewEvent(type, a).type = type /\ NewEvent(type, a).status = "pending"
      /\ NewEvent(type, a).due
  BY DEF NewEvent
<1> HIDE DEF NextEvent
<1>5. TypeOK' BY <1>1 DEF TypeOK, Dispatch
<1>6. OneDeliverer' BY <1>1, <1>3 DEF OneDeliverer
<1>7. IdleHoldsNothing' BY DEF IdleHoldsNothing
<1>8. StagedInOrder' BY <1>1, <1>2, <1>4 DEF StagedInOrder
<1>9. DeliveredWasApplied' BY <1>1, <1>3, <1>4 DEF DeliveredWasApplied
<1>10. KeysStaged' BY <1>1 DEF KeysStaged
<1>11. \A e \in Events : event[e].status = "delivered" => event'[e] = event[e]
  BY <1>1, <1>3
<1> QED BY <1>5, <1>6, <1>7, <1>8, <1>9, <1>10, <1>11

LEMMA ClientsKeep ==
  ASSUME Inv, NEW c \in Clients, ClientStep(c)
  PROVE  Inv' /\ \A e \in Events : event[e].status = "delivered" => event'[e] = event[e]
<1> USE DEF Inv
<1>1. ASSUME NEW action \in {"pause", "resume"}, NEW key \in Staged \cup {NoEvent},
             ReadMonitor(c, action, key)
      PROVE  Inv' /\ event' = event
  <2>1. faults' \in 0..MaxFaults BY <1>1, FaultType DEF ReadMonitor, TypeOK
  <2>2. key \in Events \cup {NoEvent} BY DEF Staged
  <2>3. client' \in [Clients -> ClientState]
    BY <1>1, <2>2, Fields DEF ReadMonitor, ClientState, TypeOK
  <2>4. \A d \in Clients : client'[d].key \in Staged \cup {NoEvent}
    BY <1>1 DEF ReadMonitor, TypeOK, KeysStaged
  <2> QED BY <1>1, <2>1, <2>3, <2>4, QuietStep DEF ReadMonitor, TypeOK
<1>2. ASSUME client' = [client EXCEPT ![c] = IdleClient]
      PROVE  /\ client' \in [Clients -> ClientState]
             /\ \A d \in Clients : client'[d].key \in Staged \cup {NoEvent}
  BY <1>2 DEF IdleClient, ClientState, TypeOK, KeysStaged
<1>3. ASSUME WriteDesired(client[c])
      PROVE  monitor' \in Monitor
  BY <1>3, Fields DEF WriteDesired, Status, TypeOK, Monitor
<1>4. CASE CommitAction(c)
  <2>1. client[c].action \in {"pause", "resume"} /\ client[c].external \in BOOLEAN BY Fields
  <2>2. monitor' \in Monitor BY <1>3, <1>4 DEF CommitAction
  <2>3. /\ client' \in [Clients -> ClientState]
        /\ \A d \in Clients : client'[d].key \in Staged \cup {NoEvent}
    BY <1>2, <1>4 DEF CommitAction
  <2> QED BY <1>4, <2>1, <2>2, <2>3, StagingKeeps DEF CommitAction
<1>5. CASE RepeatAction(c)
  <2>1. monitor' \in Monitor BY <1>3, <1>5 DEF RepeatAction, TypeOK
  <2>2. broker' \subseteq Staged
    BY <1>5 DEF RepeatAction, Dispatch, KeysStaged, TypeOK
  <2> QED BY <1>2, <1>5, <2>1, <2>2, QuietStep DEF RepeatAction, TypeOK
<1> QED BY <1>1, <1>4, <1>5 DEF ClientStep

LEMMA UpdateKeeps ==
  ASSUME Inv, StageUpdate
  PROVE  Inv' /\ \A e \in Events : event[e].status = "delivered" => event'[e] = event[e]
<1>1. monitor.external \in BOOLEAN BY Fields DEF Inv
<1> QED BY <1>1, StagingKeeps DEF StageUpdate, Inv, TypeOK, KeysStaged

LEMMA ReceiveType ==
  ASSUME TypeOK, NEW e, Receive(e)
  PROVE  e \in Staged /\ broker' \subseteq Staged /\ faults' \in 0..MaxFaults
<1>1. faults' \in 0..MaxFaults BY FaultType DEF Receive, TypeOK
<1> QED BY <1>1 DEF Receive, TypeOK

LEMMA BrokerKeeps ==
  ASSUME Inv, NEW e \in Events,
         LoseMessage(e) \/ ReconcileOutbox(e) \/ \E w \in Workers : Ignore(w, e)
  PROVE  Inv' /\ event' = event
<1>1. broker' \subseteq Staged /\ faults' \in 0..MaxFaults
  BY FaultType, ReceiveType DEF LoseMessage, ReconcileOutbox, Ignore, Inv, TypeOK
<1> QED BY <1>1, QuietStep DEF LoseMessage, ReconcileOutbox, Ignore, Inv, TypeOK, KeysStaged

-----------------------------------------------------------------------------
(* Deliveries and clocks.                                                  *)

\* A step that changes one row and lets go who holds it, or changes a row
\* nobody holds; the row keeps its type, and is delivered only if applied.
LEMMA RowKeeps ==
  ASSUME Inv, NEW e \in Events, NEW row \in Event, row.type = event[e].type,
         event' = [event EXCEPT ![e] = row], event[e].type # "none" \/ row.status = event[e].status,
         worker' \in [Workers -> WorkerState],
         \A w \in Workers : worker'[w] = IdleWorker \/ (worker'[w] = worker[w] /\ worker[w].event # e),
         row.status = "delivered" => e \in provider.applied /\ row.due,
         row.status = "processing" => row.due,
         UNCHANGED <<client, provider>>, monitor' \in Monitor, broker' \subseteq Staged,
         faults' \in 0..MaxFaults
  PROVE  Inv'
<1> USE DEF Inv
<1>1. /\ event' \in [Events -> Event] /\ event'[e] = row
      /\ \A f \in Events : f # e => event'[f] = event[f]
      /\ Staged' = Staged
  BY RowChanges
<1>2. TypeOK' BY <1>1 DEF TypeOK
<1>3. OneDeliverer' BY <1>1, NoEventIsNone DEF OneDeliverer, IdleWorker
<1>4. IdleHoldsNothing' BY DEF IdleHoldsNothing, IdleWorker
<1>5. StagedInOrder' BY <1>1 DEF StagedInOrder
<1>6. DeliveredWasApplied' BY <1>1 DEF DeliveredWasApplied, IdleWorker
<1>7. KeysStaged' BY <1>1 DEF KeysStaged
<1> QED BY <1>2, <1>3, <1>4, <1>5, <1>6, <1>7

LEMMA ClaimKeeps ==
  ASSUME Inv, NEW w \in Workers, NEW e \in Events, Claim(w, e)
  PROVE  Inv' /\ event[e].status # "delivered" /\ \A f \in Events : f # e => event'[f] = event[f]
<1> USE DEF Inv
<1> DEFINE row == [event[e] EXCEPT !.status = "processing", !.attempts = @ + 1, !.old = FALSE]
<1>1. /\ row \in Event /\ row.type = event[e].type /\ row.status = "processing"
      /\ ~row.old /\ row.due = event[e].due
  <2>1. event[e] \in Event BY DEF TypeOK
  <2>2. event[e].attempts + 1 \in Nat BY Fields
  <2> QED BY ONLY <2>1, <2>2 DEF Event
<1>2. event' = [event EXCEPT ![e] = row]
  BY <1>1 DEF Claim, TypeOK
<1>3. /\ event' \in [Events -> Event] /\ event'[e] = row
      /\ \A f \in Events : f # e => event'[f] = event[f]
      /\ Staged' = Staged
  BY <1>1, <1>2, RowChanges
<1>4. /\ e \in Staged /\ broker' \subseteq Staged /\ faults' \in 0..MaxFaults
      /\ event[e].due /\ event[e].status # "delivered"
      /\ event[e].status = "processing" => event[e].old
  BY ReceiveType DEF Claim, Claimable
<1>5. /\ worker' \in [Workers -> WorkerState]
      /\ worker'[w].pc = "claimed" /\ worker'[w].event = e
      /\ \A v \in Workers : v # w => worker'[v] = worker[v]
  BY DEF Claim, TypeOK, WorkerState
<1>6. \A v \in Workers : worker[v].event # e
  BY <1>4, NoEventIsNone DEF OneDeliverer, IdleHoldsNothing
<1>7. UNCHANGED <<monitor, client, provider>> BY DEF Claim
<1>8. event[e].type # "none" BY <1>4 DEF Staged
<1> HIDE DEF row
<1>9. TypeOK' BY <1>3, <1>4, <1>5, <1>7 DEF TypeOK
<1>10. OneDeliverer' BY <1>1, <1>3, <1>5, <1>6, <1>8 DEF OneDeliverer
<1>11. IdleHoldsNothing' BY <1>5 DEF IdleHoldsNothing
<1>12. StagedInOrder' BY <1>1, <1>3, <1>8 DEF StagedInOrder
<1>13. DeliveredWasApplied'
  BY <1>1, <1>3, <1>4, <1>5, <1>7 DEF DeliveredWasApplied
<1>14. KeysStaged' BY <1>3, <1>7 DEF KeysStaged
<1> QED BY <1>3, <1>4, <1>9, <1>10, <1>11, <1>12, <1>13, <1>14

\* What holding an event means, for a worker that is busy.
LEMMA Holding ==
  ASSUME Inv, NEW w \in Workers, worker[w].pc # "idle"
  PROVE  LET e == worker[w].event
         IN  /\ e \in Events /\ e \in Staged
             /\ event[e].type # "none" /\ event[e].status = "processing" /\ event[e].due
             /\ \A v \in Workers : v # w => worker[v].event # e
BY DEF Inv, OneDeliverer, DeliveredWasApplied, Staged

LEMMA ProviderKeeps ==
  ASSUME Inv, NEW w \in Workers, ProviderApplies(w)
  PROVE  Inv' /\ event' = event
<1> USE DEF Inv
<1> DEFINE e == worker[w].event
<1>1. e \in Events /\ event[e].type \in {"create", "pause", "resume", "update"}
  BY Holding, Fields DEF ProviderApplies
<1>2. provider' \in Provider /\ provider'.applied = provider.applied \cup {e}
  <2> DEFINE new == [provider EXCEPT !.applied = @ \cup {e}]
  <2>1. new \in Provider /\ new.applied = provider.applied \cup {e}
    BY <1>1 DEF TypeOK, Provider
  <2>2. CASE e \in provider.applied
    BY <2>2 DEF ProviderApplies, TypeOK
  <2>3. CASE e \notin provider.applied
    <3> HIDE DEF new
    <3>1. provider' \in {[new EXCEPT !.status = "active", !.config = e], [new EXCEPT !.config = e],
                         [new EXCEPT !.status = "paused"], [new EXCEPT !.status = "active"]}
      BY <1>1, <2>3 DEF ProviderApplies, new
    <3> QED BY <1>1, <2>1, <3>1 DEF Provider
  <2> QED BY <2>2, <2>3
<1>3. /\ worker' \in [Workers -> WorkerState]
      /\ worker'[w].pc = "applied" /\ worker'[w].event = e
      /\ \A v \in Workers : v # w => worker'[v] = worker[v]
  BY DEF ProviderApplies, TypeOK, WorkerState
<1>4. UNCHANGED <<monitor, event, broker, client, faults>> /\ worker[w].pc = "claimed"
  BY DEF ProviderApplies
<1> HIDE DEF e
<1>5. Staged' = Staged BY <1>4 DEF Staged
<1>6. TypeOK' BY <1>2, <1>3, <1>4, <1>5 DEF TypeOK
<1>7. OneDeliverer'
  <2>1. \A v \in Workers : worker'[v].event = worker[v].event /\ (worker'[v].pc = "idle" <=> worker[v].pc = "idle")
    BY <1>3, <1>4 DEF e
  <2> QED BY <2>1, <1>4 DEF OneDeliverer
<1>8. IdleHoldsNothing' BY <1>3, <1>4 DEF IdleHoldsNothing
<1>9. StagedInOrder' BY <1>4, <1>5 DEF StagedInOrder
<1>10. DeliveredWasApplied' BY <1>2, <1>3, <1>4 DEF DeliveredWasApplied
<1>11. KeysStaged' BY <1>4, <1>5 DEF KeysStaged
<1> QED BY <1>4, <1>6, <1>7, <1>8, <1>9, <1>10, <1>11

\* A busy worker writes the outcome of its event and lets it go.
LEMMA OutcomeKeeps ==
  ASSUME Inv, NEW w \in Workers, Deliver(w) \/ FailPermanently(w) \/ FailTemporarily(w)
  PROVE  Inv' /\ \A f \in Events : event[f].status = "delivered" => event'[f] = event[f]
<1> USE DEF Inv
<1> DEFINE e == worker[w].event
<1>1. worker[w].pc # "idle" /\ Released(w) /\ UNCHANGED <<client, provider, faults>>
  BY DEF Deliver, FailPermanently, FailTemporarily
<1>2. /\ e \in Events /\ e \in Staged
      /\ event[e].type # "none" /\ event[e].status = "processing" /\ event[e].due
      /\ \A v \in Workers : v # w => worker[v].event # e
  BY <1>1, Holding
<1>3. /\ worker' \in [Workers -> WorkerState]
      /\ \A v \in Workers : worker'[v] = IdleWorker \/ (worker'[v] = worker[v] /\ worker[v].event # e)
  BY <1>1, <1>2, ReleasedWorker
<1>4. event[e] \in Event BY <1>2 DEF TypeOK
<1> HIDE DEF e
<1>5. CASE Deliver(w)
  <2> DEFINE row == [event[e] EXCEPT !.status = "delivered"]
  <2>1. row \in Event /\ row.type = event[e].type /\ row.status = "delivered" /\ row.due = event[e].due
    BY ONLY <1>4 DEF Event
  <2>2. event' = [event EXCEPT ![e] = row] /\ broker' = broker
    BY <1>5, <1>2 DEF Deliver, e, TypeOK
  <2>3. e \in provider.applied BY <1>5 DEF Deliver, DeliveredWasApplied, e
  <2>4. monitor' \in Monitor
    <3>1. monitor \in Monitor BY DEF TypeOK
    <3>2. monitor' = [monitor EXCEPT !.observed = monitor.desired,
                        !.external = monitor.external \/ event[e].type = "create"]
      BY <1>5 DEF Deliver, e
    <3> QED BY ONLY <3>1, <3>2 DEF Monitor
  <2> HIDE DEF row
  <2>5. broker' \subseteq Staged BY <2>2 DEF TypeOK
  <2>6. faults' \in 0..MaxFaults BY <1>1 DEF TypeOK
  <2>7. Inv' BY <1>1, <1>2, <1>3, <2>1, <2>2, <2>3, <2>4, <2>5, <2>6, RowKeeps
  <2> QED BY <1>2, <2>1, <2>2, <2>7 DEF TypeOK
<1>6. CASE FailPermanently(w)
  <2> DEFINE row == [event[e] EXCEPT !.status = "failed"]
  <2>1. row \in Event /\ row.type = event[e].type /\ row.status = "failed"
    BY ONLY <1>4 DEF Event
  <2>2. event' = [event EXCEPT ![e] = row] /\ broker' = broker
    BY <1>6, <1>2 DEF FailPermanently, e, TypeOK
  <2>4. monitor' \in Monitor BY <1>6 DEF FailPermanently, TypeOK, Monitor
  <2> HIDE DEF row
  <2>5. broker' \subseteq Staged BY <2>2 DEF TypeOK
  <2>6. faults' \in 0..MaxFaults BY <1>1 DEF TypeOK
  <2>7. Inv' BY <1>1, <1>2, <1>3, <2>1, <2>2, <2>4, <2>5, <2>6, RowKeeps
  <2> QED BY <1>2, <2>1, <2>2, <2>7 DEF TypeOK
<1>7. CASE FailTemporarily(w)
  <2>0. monitor' \in Monitor BY <1>7 DEF FailTemporarily, TypeOK
  <2>1. PICK row \in {[event[e] EXCEPT !.status = "failed"],
                      [event[e] EXCEPT !.status = "retrying", !.due = FALSE]} :
          event' = [event EXCEPT ![e] = row]
    BY <1>7, <1>2 DEF FailTemporarily, e, TypeOK
  <2>2. row \in Event /\ row.type = event[e].type /\ row.status \in {"failed", "retrying"}
    BY ONLY <1>4, <2>1 DEF Event
  <2>3. broker' \subseteq Staged BY <1>7, <1>2 DEF FailTemporarily, e, Dispatch, TypeOK
  <2>4. faults' \in 0..MaxFaults BY <1>1 DEF TypeOK
  <2>5. Inv' BY <1>1, <1>2, <1>3, <2>0, <2>1, <2>2, <2>3, <2>4, RowKeeps
  <2> QED BY <1>2, <2>1, <2>2, <2>5 DEF TypeOK
<1> QED BY <1>5, <1>6, <1>7

LEMMA DeathKeeps ==
  ASSUME Inv, NEW w \in Workers, WorkerDies(w)
  PROVE  Inv' /\ event' = event
<1> USE DEF Inv
<1>1. /\ worker' \in [Workers -> WorkerState]
      /\ worker'[w] = IdleWorker
      /\ \A v \in Workers : v # w => worker'[v] = worker[v]
  BY ReleasedWorker DEF WorkerDies
<1>2. UNCHANGED <<monitor, event, client, provider>> /\ worker[w].pc # "idle" BY DEF WorkerDies
<1>3. broker' \subseteq Staged /\ faults' \in 0..MaxFaults
  BY Holding, FaultType DEF WorkerDies, Dispatch, TypeOK
<1>4. Staged' = Staged BY <1>2 DEF Staged
<1>5. TypeOK' BY <1>1, <1>2, <1>3, <1>4 DEF TypeOK
<1>6. OneDeliverer'
  BY <1>1, <1>2, NoEventIsNone DEF OneDeliverer, IdleWorker
<1>7. IdleHoldsNothing' BY <1>1, <1>2 DEF IdleHoldsNothing, IdleWorker
<1>8. StagedInOrder' BY <1>2, <1>4 DEF StagedInOrder
<1>9. DeliveredWasApplied' BY <1>1, <1>2 DEF DeliveredWasApplied, IdleWorker
<1>10. KeysStaged' BY <1>2, <1>4 DEF KeysStaged
<1> QED BY <1>2, <1>5, <1>6, <1>7, <1>8, <1>9, <1>10

LEMMA ClocksKeep ==
  ASSUME Inv, NEW e \in Events, BackoffEnds(e) \/ ClaimAges(e)
  PROVE  Inv' /\ \A f \in Events : event[f].status = "delivered" => event'[f] = event[f]
<1> USE DEF Inv
<1>1. event[e] \in Event /\ worker \in [Workers -> WorkerState] /\ monitor \in Monitor BY DEF TypeOK
<1>2. broker' \subseteq Staged /\ faults' \in 0..MaxFaults BY DEF BackoffEnds, ClaimAges, TypeOK
<1>3. UNCHANGED <<monitor, worker, client, provider>> BY DEF BackoffEnds, ClaimAges
<1>4. \A w \in Workers : worker[w].event # e
  BY NoEventIsNone DEF BackoffEnds, ClaimAges, OneDeliverer, IdleHoldsNothing, DeliveredWasApplied
<1>5. PICK row \in {[event[e] EXCEPT !.due = TRUE], [event[e] EXCEPT !.old = TRUE]} :
        event' = [event EXCEPT ![e] = row]
  BY DEF BackoffEnds, ClaimAges, TypeOK
<1>6. /\ row \in Event /\ row.type = event[e].type /\ row.status = event[e].status
      /\ event[e].due => row.due
  BY ONLY <1>1, <1>5 DEF Event
<1>7. event[e].status # "delivered"
  BY DEF BackoffEnds, ClaimAges, DeliveredWasApplied
<1>8. row.status = "processing" => row.due BY <1>6 DEF DeliveredWasApplied
<1>9. Inv' BY <1>1, <1>2, <1>3, <1>4, <1>5, <1>6, <1>7, <1>8, RowKeeps
<1> QED BY <1>5, <1>7, <1>9 DEF TypeOK

-----------------------------------------------------------------------------
(* Theorems.                                                               *)

LEMMA InvStep ==
  ASSUME Inv, [Next]_vars
  PROVE  Inv' /\ \A e \in Events : event[e].status = "delivered" => event'[e] = event[e]
<1>1. ASSUME NEW w \in Workers, WorkerStep(w) \/ WorkerDies(w)
      PROVE  Inv' /\ \A e \in Events : event[e].status = "delivered" => event'[e] = event[e]
  <2>1. broker \subseteq Events BY DEF Inv, TypeOK, Staged
  <2> QED BY <1>1, <2>1, BrokerKeeps, ClaimKeeps, ProviderKeeps, OutcomeKeeps, DeathKeeps DEF WorkerStep
<1>2. ASSUME NEW c \in Clients, ClientStep(c)
      PROVE  Inv' /\ \A e \in Events : event[e].status = "delivered" => event'[e] = event[e]
  BY <1>2, ClientsKeep
<1>3. CASE StageUpdate BY <1>3, UpdateKeeps
<1>4. ASSUME NEW e \in Events,
             LoseMessage(e) \/ BackoffEnds(e) \/ ClaimAges(e) \/ ReconcileOutbox(e)
      PROVE  Inv' /\ \A f \in Events : event[f].status = "delivered" => event'[f] = event[f]
  BY <1>4, BrokerKeeps, ClocksKeep
<1>5. CASE UNCHANGED vars
  <2>1. UNCHANGED <<event, worker, provider, monitor, broker, client, faults>> BY <1>5 DEF vars
  <2> QED BY <2>1, QuietStep DEF Inv, TypeOK, KeysStaged
<1> QED BY <1>1, <1>2, <1>3, <1>4, <1>5 DEF Next

\* The variables of the outbox keep their types.
THEOREM TypeCorrect == Spec => []TypeOK
<1>1. Inv /\ [Next]_vars => Inv' BY InvStep
<1>2. Inv => TypeOK BY DEF Inv
<1> QED BY InvInit, <1>1, <1>2, PTL DEF Spec

\* One worker at most delivers an event (dispatch_outbox, its claim).
THEOREM OneWorkerDelivers == Spec => []ClaimedOnce
<1>1. Inv /\ [Next]_vars => Inv' BY InvStep
<1>2. Inv => ClaimedOnce
  <2> SUFFICES ASSUME Inv, NEW e \in Events
               PROVE  LET holders == {w \in Workers : worker[w].event = e}
                      IN  /\ Cardinality(holders) <= 1
                          /\ holders # {} => event[e].status = "processing" /\ ~event[e].old
    BY DEF ClaimedOnce
  <2> DEFINE holders == {w \in Workers : worker[w].event = e}
  <2>1. \A w \in holders : worker[w].pc # "idle"
    BY NoEventIsNone DEF Inv, IdleHoldsNothing
  <2>2. holders # {} => event[e].status = "processing" /\ ~event[e].old
    BY <2>1 DEF Inv, OneDeliverer
  <2>3. \A v, w \in holders : v = w BY <2>1 DEF Inv, OneDeliverer
  <2>4. holders = {} \/ \E w : holders = {w} BY <2>3
  <2>5. Cardinality(holders) \in {0, 1} BY <2>4, FS_EmptySet, FS_Singleton
  <2> QED BY <2>2, <2>5
<1> QED BY InvInit, <1>1, <1>2, PTL DEF Spec

\* What was delivered was applied by the provider and stays as it is, whatever
\* is redelivered, retried or left behind (dispatch_outbox).
THEOREM DeliveriesAreFinal == Spec => DeliveredIsFinal
<1>1. Inv /\ [Next]_vars => Inv' BY InvStep
<1>2. Inv /\ [Next]_vars =>
        \A e \in Events : event[e].status = "delivered" => e \in provider.applied /\ event'[e] = event[e]
  <2>1. Inv => \A e \in Events : event[e].status = "delivered" => e \in provider.applied
    BY DEF Inv, DeliveredWasApplied
  <2> QED BY <2>1, InvStep
<1> QED BY InvInit, <1>1, <1>2, PTL DEF Spec, DeliveredIsFinal

-----------------------------------------------------------------------------
(* What a patient user finds.                                              *)

\* The user of the run patient_users: one client that waits, no message that comes
\* twice and no request that is repeated.
OnePatientUser ==
  /\ Patient /\ \E c \in Clients : Clients = {c}
  /\ Faults \subseteq {"crash", "lost_message"}

IsStatus(e) == event[e].type \in {"create", "pause", "resume"}
IsConfig(e) == event[e].type \in {"create", "update"}
Wants(e) == IF event[e].type = "pause" THEN "paused" ELSE "active"

\* An event with a message waits for a worker: what has ended stays so.
MessagesWait ==
  \A e \in broker : ~Ended(e) /\ \A w \in Workers : worker[w].event # e

\* Nobody but the client writes the desired status or stages what would change it.
ClientCurrent ==
  \A c \in Clients : client[c].pc = "read" =>
    /\ client[c].key = NoEvent /\ client[c].desired = monitor.desired
    /\ \A e \in Staged : IsStatus(e) => Ended(e)

\* The last event about the status and the last one about the configuration are the
\* only ones under way, and what they ask for is what the rows and the provider show.
LastEvents(last, config) ==
  /\ last \in Staged /\ IsStatus(last) /\ \A e \in Staged : IsStatus(e) => e <= last
  /\ config \in Staged /\ IsConfig(config) /\ \A e \in Staged : IsConfig(e) => e <= config
  /\ \A e \in Staged : event[e].status # "delivered" =>
       (IsStatus(e) => e = last) /\ (IsConfig(e) => e = config)
  /\ monitor.desired = Wants(last)
  /\ last \in provider.applied => provider.status = Wants(last)
  /\ config \in provider.applied => provider.config = config
  /\ event[last].status = "delivered" => monitor.observed = monitor.desired

NoneFailed == \A e \in Staged : event[e].status # "failed"

SyncInv ==
  /\ MessagesWait /\ ClientCurrent /\ provider.applied \subseteq Staged
  /\ NoneFailed => \E last, config \in Events : LastEvents(last, config)

LEMMA SyncInit == OnePatientUser /\ Init => SyncInv
<1> SUFFICES ASSUME OnePatientUser, Init PROVE SyncInv OBVIOUS
<1>1. 1 \in Events BY OutboxAssumption DEF Events
<1>2. event[1] = NewEvent("create", FALSE) /\ Staged = {1}
  BY <1>1 DEF Init, Staged, NewEvent
<1>3. /\ event[1].type = "create" /\ event[1].status = "pending"
  BY <1>2 DEF NewEvent
<1>4. MessagesWait
  <2>1. broker \subseteq {1} /\ \A w \in Workers : worker[w].event # 1
    BY DEF Init, IdleWorker, NoEvent
  <2> QED BY <1>3, <2>1 DEF MessagesWait, Ended
<1>5. ClientCurrent BY DEF Init, IdleClient, ClientCurrent
<1>6. provider.applied = {} /\ monitor.desired = "active" BY DEF Init
<1>7. LastEvents(1, 1)
  <2>1. 1 \in Staged /\ \A e \in Staged : e = 1 BY <1>2
  <2>2. IsStatus(1) /\ IsConfig(1) /\ Wants(1) = "active" BY <1>3 DEF IsStatus, IsConfig, Wants
  <2>3. 1 <= 1 OBVIOUS
  <2> QED BY ONLY <1>3, <1>6, <2>1, <2>2, <2>3 DEF LastEvents
<1> QED BY <1>1, <1>4, <1>5, <1>6, <1>7 DEF SyncInv

\* A step in which no event is staged, delivered or revived keeps the last ones.
LEMMA LastStay ==
  ASSUME SyncInv, Staged' = Staged, UNCHANGED <<monitor, provider>>,
         \A e \in Events :
           /\ event'[e].type = event[e].type
           /\ event'[e].status = "delivered" <=> event[e].status = "delivered"
           /\ event[e].status = "failed" => event'[e].status = "failed",
         MessagesWait', ClientCurrent'
  PROVE  SyncInv'
<1>1. \A e \in Staged : e \in Events BY DEF Staged
<1>2. SUFFICES ASSUME NoneFailed' PROVE \E last, config \in Events : LastEvents(last, config)'
  BY DEF SyncInv
<1>3. NoneFailed BY <1>1, <1>2 DEF NoneFailed
<1>4. PICK last, config \in Events : LastEvents(last, config) BY <1>3 DEF SyncInv
<1>5. \A e \in Events : /\ IsStatus(e)' <=> IsStatus(e)
                        /\ IsConfig(e)' <=> IsConfig(e)
                        /\ Wants(e)' = Wants(e)
  BY DEF IsStatus, IsConfig, Wants
<1>6. LastEvents(last, config)' BY <1>1, <1>4, <1>5 DEF LastEvents
<1> QED BY <1>6

\* A client that is still, while nothing ended is opened again.
LEMMA ClientStays ==
  ASSUME ClientCurrent, Staged' = Staged, client' = client, monitor'.desired = monitor.desired,
         \A e \in Events : event'[e].type = event[e].type /\ (Ended(e) => Ended(e)')
  PROVE  ClientCurrent'
<1>1. \A e \in Staged : e \in Events BY DEF Staged
<1> QED BY <1>1 DEF ClientCurrent, IsStatus

-----------------------------------------------------------------------------
(* Messages and workers.                                                   *)

LEMMA ReceiveOnce ==
  ASSUME OnePatientUser, NEW e, Receive(e)
  PROVE  broker' = broker \ {e}
BY DEF OnePatientUser, Receive, Fault

\* Steps that leave the rows and the provider alone.
LEMMA QuietSync ==
  ASSUME Inv, OnePatientUser, SyncInv, UNCHANGED <<event, monitor, provider, client>>,
         \/ UNCHANGED <<broker, worker>>
         \/ \E w \in Workers, e \in Events : Ignore(w, e)
         \/ \E e \in Events : LoseMessage(e) \/ ReconcileOutbox(e)
         \/ \E w \in Workers : WorkerDies(w)
  PROVE  SyncInv'
<1>1. Staged' = Staged /\ \A e : Ended(e)' <=> Ended(e) BY DEF Staged, Ended
<1>2. MessagesWait'
  <2>1. CASE UNCHANGED <<broker, worker>> BY <1>1, <2>1 DEF SyncInv, MessagesWait
  <2>2. ASSUME NEW w \in Workers, NEW e \in Events, Ignore(w, e) PROVE MessagesWait'
    <3>1. broker' \subseteq broker /\ worker' = worker BY <2>2, ReceiveOnce DEF Ignore
    <3> QED BY <1>1, <3>1 DEF SyncInv, MessagesWait
  <2>3. ASSUME NEW e \in Events, LoseMessage(e) PROVE MessagesWait'
    BY <1>1, <2>3 DEF SyncInv, MessagesWait, LoseMessage
  <2>4. ASSUME NEW e \in Events, ReconcileOutbox(e) PROVE MessagesWait'
    <3>1. broker' = broker \cup {e} /\ worker' = worker BY <2>4 DEF ReconcileOutbox
    <3>2. ~Ended(e) BY <2>4 DEF ReconcileOutbox, OutboxDue, Ended
    <3>3. \A w \in Workers : worker[w].event # e
      BY <2>4, NoEventIsNone DEF ReconcileOutbox, OutboxDue, Inv, OneDeliverer, IdleHoldsNothing
    <3> QED BY <1>1, <3>1, <3>2, <3>3 DEF SyncInv, MessagesWait
  <2>5. ASSUME NEW w \in Workers, WorkerDies(w) PROVE MessagesWait'
    <3>1. worker[w].pc # "idle" /\ broker' \in {broker, broker \cup {worker[w].event}}
      BY <2>5 DEF WorkerDies, Dispatch
    <3>2. /\ worker'[w] = IdleWorker
          /\ \A v \in Workers : v # w => worker'[v] = worker[v]
      BY <2>5, ReleasedWorker DEF WorkerDies, Inv
    <3>3. /\ worker[w].event \in Events
          /\ ~Ended(worker[w].event)
          /\ \A v \in Workers : v # w => worker[v].event # worker[w].event
      BY <3>1, Holding DEF Ended
    <3>4. \A f \in broker : f # NoEvent BY NoEventIsNone DEF Inv, TypeOK, Staged
    <3> QED BY <1>1, <3>1, <3>2, <3>3, <3>4, NoEventIsNone DEF SyncInv, MessagesWait, IdleWorker
  <2> QED BY <2>1, <2>2, <2>3, <2>4, <2>5
<1>3. ClientCurrent' BY <1>1, ClientStays DEF SyncInv
<1> QED BY <1>1, <1>2, <1>3, LastStay

LEMMA ClaimSync ==
  ASSUME Inv, OnePatientUser, SyncInv, NEW w \in Workers, NEW e \in Events, Claim(w, e)
  PROVE  SyncInv'
<1>1. broker' = broker \ {e} /\ e \in broker BY ReceiveOnce DEF Claim, Receive
<1>2. ~Ended(e) BY <1>1 DEF SyncInv, MessagesWait
<1>3. /\ event'[e].type = event[e].type /\ event'[e].status = "processing"
      /\ \A f \in Events : f # e => event'[f] = event[f]
  BY DEF Claim, Inv, TypeOK, Event
<1>4. /\ worker'[w].event = e
      /\ \A v \in Workers : v # w => worker'[v] = worker[v]
  BY DEF Claim, Inv, TypeOK
<1>5. UNCHANGED <<monitor, client, provider>> BY DEF Claim
<1>6. Staged' = Staged BY <1>3 DEF Staged
<1>7. /\ broker \subseteq Events
      /\ \A f \in Events : Ended(f)' <=> Ended(f)
  BY <1>2, <1>3 DEF Inv, TypeOK, Staged, Ended
<1>8. MessagesWait' BY <1>1, <1>4, <1>7 DEF SyncInv, MessagesWait
<1>9. \A f \in Events :
        /\ event'[f].type = event[f].type
        /\ event'[f].status = "delivered" <=> event[f].status = "delivered"
        /\ event[f].status = "failed" => event'[f].status = "failed"
  BY <1>2, <1>3 DEF Ended
<1>10. ClientCurrent' BY <1>5, <1>6, <1>7, <1>9, ClientStays DEF SyncInv
<1> QED BY <1>5, <1>6, <1>8, <1>9, <1>10, LastStay

LEMMA ClockSync ==
  ASSUME Inv, SyncInv, NEW e \in Events, BackoffEnds(e) \/ ClaimAges(e)
  PROVE  SyncInv'
<1>1. UNCHANGED <<monitor, broker, worker, client, provider>> BY DEF BackoffEnds, ClaimAges
<1>2. \A f \in Events : event'[f].type = event[f].type /\ event'[f].status = event[f].status
  BY DEF BackoffEnds, ClaimAges, Inv, TypeOK, Event
<1>3. Staged' = Staged BY <1>2 DEF Staged
<1>4. broker \subseteq Events /\ \A f \in Events : Ended(f)' <=> Ended(f)
  BY <1>2 DEF Inv, TypeOK, Staged, Ended
<1>5. MessagesWait' BY <1>1, <1>4 DEF SyncInv, MessagesWait
<1>6. ClientCurrent' BY <1>1, <1>2, <1>3, <1>4, ClientStays DEF SyncInv
<1> QED BY <1>1, <1>2, <1>3, <1>5, <1>6, LastStay

-----------------------------------------------------------------------------
(* Deliveries.                                                             *)

\* A provider that has applied the event under way shows what the event asks for.
LEMMA ProviderSync ==
  ASSUME Inv, SyncInv, NEW w \in Workers, ProviderApplies(w)
  PROVE  SyncInv'
<1> DEFINE e == worker[w].event
<1>1. worker[w].pc = "claimed" /\ UNCHANGED <<monitor, event, broker, client>> BY DEF ProviderApplies
<1>2. /\ e \in Events /\ e \in Staged /\ event[e].status = "processing"
      /\ event[e].type \in {"create", "pause", "resume", "update"}
  BY <1>1, Holding, Fields DEF Inv
<1>3. \A v \in Workers : worker'[v].event = worker[v].event
  BY DEF ProviderApplies, Inv, TypeOK, WorkerState
<1>4. Staged' = Staged /\ \A f : Ended(f)' <=> Ended(f) BY <1>1 DEF Staged, Ended
<1>5. MessagesWait' BY <1>1, <1>3, <1>4 DEF SyncInv, MessagesWait
<1>6. ClientCurrent' BY <1>1, <1>4, ClientStays DEF SyncInv
<1>7. CASE e \in provider.applied
  <2>1. provider' = provider BY <1>7 DEF ProviderApplies
  <2> QED BY <1>1, <1>4, <1>5, <1>6, <2>1, LastStay
<1>8. CASE e \notin provider.applied
  <2>1. /\ provider'.applied = provider.applied \cup {e}
        /\ event[e].type = "create" => provider'.status = "active" /\ provider'.config = e
        /\ event[e].type = "update" => provider'.status = provider.status /\ provider'.config = e
        /\ event[e].type = "pause" => provider'.status = "paused" /\ provider'.config = provider.config
        /\ event[e].type = "resume" => provider'.status = "active" /\ provider'.config = provider.config
    <3> DEFINE new == [provider EXCEPT !.applied = @ \cup {e}]
    <3>1. /\ new \in Provider /\ new.applied = provider.applied \cup {e}
          /\ new.status = provider.status /\ new.config = provider.config
      BY <1>2 DEF Inv, TypeOK, Provider
    <3>2. /\ event[e].type = "create" => provider' = [new EXCEPT !.status = "active", !.config = e]
          /\ event[e].type = "update" => provider' = [new EXCEPT !.config = e]
          /\ event[e].type = "pause" => provider' = [new EXCEPT !.status = "paused"]
          /\ event[e].type = "resume" => provider' = [new EXCEPT !.status = "active"]
      BY <1>8 DEF ProviderApplies
    <3> HIDE DEF new
    <3> QED BY ONLY <1>2, <3>1, <3>2 DEF Provider
  <2>2. ASSUME NoneFailed' PROVE \E last, config \in Events : LastEvents(last, config)'
    <3>1. NoneFailed BY <1>1, <1>4, <2>2 DEF NoneFailed
    <3>2. PICK last, config \in Events : LastEvents(last, config) BY <3>1 DEF SyncInv
    <3>3. \A f : /\ IsStatus(f)' <=> IsStatus(f)
                 /\ IsConfig(f)' <=> IsConfig(f)
                 /\ Wants(f)' = Wants(f)
      BY <1>1 DEF IsStatus, IsConfig, Wants
    <3>4. (IsStatus(e) => e = last) /\ (IsConfig(e) => e = config)
      BY <1>2, <3>2 DEF LastEvents
    <3>5. last \in provider'.applied => provider'.status = Wants(last)
      BY <1>2, <2>1, <3>2, <3>4 DEF LastEvents, IsStatus, IsConfig, Wants
    <3>6. config \in provider'.applied => provider'.config = config
      BY <1>2, <2>1, <3>2, <3>4 DEF LastEvents, IsStatus, IsConfig
    <3>7. LastEvents(last, config)' BY <1>1, <1>4, <3>2, <3>3, <3>5, <3>6 DEF LastEvents
    <3> QED BY <3>7
  <2>3. provider'.applied \subseteq Staged' BY <1>2, <1>4, <2>1 DEF SyncInv
  <2> QED BY <1>5, <1>6, <2>2, <2>3 DEF SyncInv
<1> QED BY <1>7, <1>8

\* A worker that ends the call for its event lets it go, and the row shows how it ended.
LEMMA OutcomeSync ==
  ASSUME Inv, SyncInv, NEW w \in Workers, Deliver(w) \/ FailPermanently(w) \/ FailTemporarily(w)
  PROVE  SyncInv'
<1> DEFINE e == worker[w].event
<1>1. worker[w].pc # "idle" /\ Released(w) /\ UNCHANGED <<client, provider>>
  BY DEF Deliver, FailPermanently, FailTemporarily
<1>2. /\ e \in Events /\ e \in Staged /\ event[e].status = "processing"
      /\ \A v \in Workers : v # w => worker[v].event # e
  BY <1>1, Holding
<1>3. /\ worker'[w] = IdleWorker
      /\ \A v \in Workers : v # w => worker'[v] = worker[v]
  BY <1>1, ReleasedWorker DEF Inv
<1>4. /\ event'[e].type = event[e].type
      /\ \A f \in Events : f # e => event'[f] = event[f]
  BY <1>2 DEF Deliver, FailPermanently, FailTemporarily, Inv, TypeOK, Event
<1>5. /\ Deliver(w) => event'[e].status = "delivered" /\ monitor'.observed = monitor.desired
      /\ FailPermanently(w) => event'[e].status = "failed"
      /\ FailTemporarily(w) => event'[e].status \in {"failed", "retrying"} /\ monitor' = monitor
  <2>1. monitor \in Monitor BY DEF Inv, TypeOK
  <2>2. Deliver(w) => monitor'.observed = monitor.desired
    <3> SUFFICES ASSUME Deliver(w) PROVE monitor'.observed = monitor.desired OBVIOUS
    <3>1. monitor' = [monitor EXCEPT !.observed = monitor.desired,
                        !.external = @ \/ event[e].type = "create"]
      BY DEF Deliver
    <3> QED BY ONLY <2>1, <3>1 DEF Monitor
  <2>3. FailTemporarily(w) => event'[e].status \in {"failed", "retrying"} /\ monitor' = monitor
    BY <1>2 DEF FailTemporarily, Inv, TypeOK, Event
  <2>4. FailPermanently(w) => event'[e].status = "failed"
    BY <1>2 DEF FailPermanently, Inv, TypeOK, Event
  <2>5. Deliver(w) => event'[e].status = "delivered"
    BY <1>2 DEF Deliver, Inv, TypeOK, Event
  <2> QED BY <2>2, <2>3, <2>4, <2>5
<1>6. monitor'.desired = monitor.desired
  BY DEF Deliver, FailPermanently, FailTemporarily, Inv, TypeOK, Monitor
<1>7. /\ broker' = broker \/ (broker' = broker \cup {e} /\ event'[e].status = "retrying")
      /\ broker \subseteq Events
  BY <1>2 DEF Deliver, FailPermanently, FailTemporarily, Dispatch, Inv, TypeOK, Staged, Event
<1>8. \A v \in Workers : worker'[v].event # e
  BY <1>2, <1>3, NoEventIsNone DEF IdleWorker
<1> HIDE DEF e
<1>9. Staged' = Staged /\ \A f \in Events : Ended(f) => Ended(f)'
  BY <1>2, <1>4 DEF Staged, Ended
<1>10. MessagesWait'
  <2>1. \A f \in broker : f # e BY <1>1 DEF SyncInv, MessagesWait, e
  <2>2. \A f \in broker, v \in Workers : worker'[v].event # f
    BY <1>3, <1>7, NoEventIsNone DEF SyncInv, MessagesWait, IdleWorker
  <2>3. \A f \in broker : ~Ended(f)' BY <1>4, <1>7, <2>1 DEF SyncInv, MessagesWait, Ended
  <2> QED BY <1>7, <1>8, <2>2, <2>3 DEF MessagesWait, Ended
<1>11. ClientCurrent' BY <1>1, <1>4, <1>6, <1>9, ClientStays DEF SyncInv
<1>12. ASSUME NoneFailed' PROVE \E last, config \in Events : LastEvents(last, config)'
  <2>1. NoneFailed
    <3>1. \A f \in Staged : f \in Events BY DEF Staged
    <3> QED BY <1>2, <1>4, <1>9, <1>12, <3>1 DEF NoneFailed
  <2>2. PICK last, config \in Events : LastEvents(last, config) BY <2>1 DEF SyncInv
  <2>3. \A f \in Events : /\ IsStatus(f)' <=> IsStatus(f)
                          /\ IsConfig(f)' <=> IsConfig(f)
                          /\ Wants(f)' = Wants(f)
    BY <1>4 DEF IsStatus, IsConfig, Wants
  <2>4. event'[e].status # "failed" BY <1>2, <1>9, <1>12 DEF NoneFailed
  <2>5. \A f \in Staged : event'[f].status # "delivered" => event[f].status # "delivered"
    <3>1. \A f \in Staged : f \in Events BY DEF Staged
    <3> QED BY <1>2, <1>4, <3>1
  <2>6. event'[last].status = "delivered" => monitor'.observed = monitor'.desired
    BY <1>4, <1>5, <1>6, <2>2, <2>4 DEF LastEvents, Deliver, FailTemporarily
  <2>7. \A f \in Staged : f \in Events BY DEF Staged
  <2>8. LastEvents(last, config)'
    BY <1>1, <1>6, <1>9, <2>2, <2>3, <2>5, <2>6, <2>7 DEF LastEvents
  <2> QED BY <2>8
<1> QED BY <1>1, <1>9, <1>10, <1>11, <1>12 DEF SyncInv

-----------------------------------------------------------------------------
(* Requests.                                                               *)

\* What staging the next event changes.
LEMMA StagedNext ==
  ASSUME Inv, SyncInv, NextEvent \in Events,
         NEW type \in {"pause", "resume", "update"}, NEW a \in BOOLEAN,
         event' = [event EXCEPT ![NextEvent] = NewEvent(type, a)], Dispatch(NextEvent),
         UNCHANGED <<worker, provider>>
  PROVE  /\ Staged' = Staged \cup {NextEvent}
         /\ NextEvent \notin Staged /\ NextEvent \notin provider.applied
         /\ \A e \in Staged : e \in Events /\ e # NextEvent /\ e <= NextEvent
         /\ NextEvent <= NextEvent
         /\ event'[NextEvent].type = type /\ event'[NextEvent].status = "pending"
         /\ \A e \in Events : e # NextEvent => event'[e] = event[e]
         /\ MessagesWait'
<1>1. /\ event'[NextEvent] = NewEvent(type, a)
      /\ \A e \in Events : e # NextEvent => event'[e] = event[e]
      /\ Staged' = Staged \cup {NextEvent}
  BY StagingChanges DEF Inv
<1>2. NextEvent \notin Staged /\ \E n \in Nat : Staged \cup {NextEvent} = 1..n
  BY NextIsNew DEF Inv
<1>3. /\ NewEvent(type, a).type = type /\ NewEvent(type, a).status = "pending"
  BY DEF NewEvent
<1>4. \A e \in Staged : e <= NextEvent /\ NextEvent <= NextEvent
  <2> PICK n \in Nat : Staged = 1..n BY DEF Inv, StagedInOrder
  <2>1. Cardinality(1..n) = n
    <3>1. Cardinality(1..n) = IF 1 > n THEN 0 ELSE n - 1 + 1 BY FS_Interval
    <3> QED BY <3>1
  <2> QED BY <2>1 DEF NextEvent
<1>5. broker' \subseteq broker \cup {NextEvent} BY DEF Dispatch
<1> HIDE DEF NextEvent
<1>6. \A e \in Staged : e \in Events /\ e # NextEvent BY <1>2 DEF Staged
<1>7. NextEvent <= NextEvent BY DEF Events
<1>8. NextEvent \notin provider.applied BY <1>2 DEF SyncInv
<1>9. \A w \in Workers : worker[w].event # NextEvent
  BY <1>2, Holding, NoEventIsNone DEF Inv, IdleHoldsNothing
<1>10. \A e \in broker : e \in Staged BY DEF Inv, TypeOK
<1>11. MessagesWait'
  BY <1>1, <1>3, <1>5, <1>6, <1>9, <1>10 DEF SyncInv, MessagesWait, Ended
<1> QED BY <1>1, <1>2, <1>3, <1>4, <1>6, <1>7, <1>8, <1>11

\* A pause or resume of the only client becomes the last event about the status.
LEMMA CommitSync ==
  ASSUME Inv, OnePatientUser, SyncInv, NEW c \in Clients, CommitAction(c)
  PROVE  SyncInv'
<1> PICK next \in Events : next = NextEvent BY DEF CommitAction
<1> PICK action \in {"pause", "resume"} : action = client[c].action BY Fields DEF Inv
<1>1. /\ client[c].pc = "read" /\ WriteDesired(client[c])
      /\ client' = [client EXCEPT ![c] = IdleClient] /\ UNCHANGED <<worker, provider>>
  BY DEF CommitAction
<1>2. /\ Staged' = Staged \cup {next}
      /\ next \notin Staged /\ next \notin provider.applied
      /\ \A e \in Staged : e \in Events /\ e # next /\ e <= next
      /\ next <= next
      /\ event'[next].type = action /\ event'[next].status = "pending"
      /\ \A e \in Events : e # next => event'[e] = event[e]
      /\ MessagesWait'
  BY StagedNext, Fields DEF CommitAction, Inv
<1>3. client[c].desired = monitor.desired /\ \A e \in Staged : IsStatus(e) => Ended(e)
  BY <1>1 DEF SyncInv, ClientCurrent
<1>4. monitor'.desired = Status(action) /\ monitor'.observed = monitor.observed
  BY <1>1, <1>3 DEF WriteDesired, Inv, TypeOK, Monitor
<1>5. ClientCurrent'
  <2>1. \A d \in Clients : d = c BY DEF OnePatientUser
  <2>2. client'[c].pc = "idle" BY <1>1 DEF IdleClient, Inv, TypeOK
  <2> QED BY <2>1, <2>2 DEF ClientCurrent
<1>6. ASSUME NoneFailed' PROVE \E last, config \in Events : LastEvents(last, config)'
  <2>1. NoneFailed BY <1>2, <1>6 DEF NoneFailed
  <2>2. PICK last, config \in Events : LastEvents(last, config) BY <2>1 DEF SyncInv
  <2>3. \A e \in Staged : /\ IsStatus(e)' <=> IsStatus(e)
                          /\ IsConfig(e)' <=> IsConfig(e)
                          /\ event'[e] = event[e]
    BY <1>2 DEF IsStatus, IsConfig
  <2>4. IsStatus(next)' /\ ~IsConfig(next)' /\ Wants(next)' = Status(action)
    BY <1>2 DEF IsStatus, IsConfig, Wants, Status
  <2>5. \A e \in Staged : event[e].status # "delivered" => ~IsStatus(e)
    BY <1>3, <2>1 DEF NoneFailed, Ended
  <2>6. LastEvents(next, config)'
    BY <1>1, <1>2, <1>4, <2>2, <2>3, <2>4, <2>5 DEF LastEvents
  <2> QED BY <1>1, <2>6
<1>7. provider'.applied \subseteq Staged' BY <1>1, <1>2 DEF SyncInv
<1> QED BY <1>2, <1>5, <1>6, <1>7 DEF SyncInv

\* An update waits for every event before it.
LEMMA UpdateSync ==
  ASSUME Inv, OnePatientUser, SyncInv, StageUpdate
  PROVE  SyncInv'
<1> PICK next \in Events : next = NextEvent BY DEF StageUpdate
<1>1. /\ UNCHANGED <<monitor, worker, client, provider>>
      /\ \A e \in Staged : Ended(e)
  BY DEF StageUpdate, MayAct, OnePatientUser
<1>2. /\ Staged' = Staged \cup {next}
      /\ next \notin Staged /\ next \notin provider.applied
      /\ \A e \in Staged : e \in Events /\ e # next /\ e <= next
      /\ next <= next
      /\ event'[next].type = "update" /\ event'[next].status = "pending"
      /\ \A e \in Events : e # next => event'[e] = event[e]
      /\ MessagesWait'
  BY <1>1, StagedNext, Fields DEF StageUpdate, Inv
<1>3. \A e \in Staged : /\ IsStatus(e)' <=> IsStatus(e)
                        /\ IsConfig(e)' <=> IsConfig(e)
                        /\ Wants(e)' = Wants(e)
                        /\ event'[e] = event[e]
  BY <1>2 DEF IsStatus, IsConfig, Wants
<1>4. ~IsStatus(next)' /\ IsConfig(next)' BY <1>2 DEF IsStatus, IsConfig
<1>5. \A e \in Staged : Ended(e)' BY <1>1, <1>3 DEF Ended
<1>6. ClientCurrent' BY <1>1, <1>2, <1>4, <1>5 DEF SyncInv, ClientCurrent
<1>7. ASSUME NoneFailed' PROVE \E last, config \in Events : LastEvents(last, config)'
  <2>1. NoneFailed BY <1>2, <1>7 DEF NoneFailed
  <2>2. PICK last, config \in Events : LastEvents(last, config) BY <2>1 DEF SyncInv
  <2>3. \A e \in Staged : event[e].status = "delivered" BY <1>1, <2>1 DEF NoneFailed, Ended
  <2>4. LastEvents(last, next)'
    BY <1>1, <1>2, <1>3, <1>4, <2>2, <2>3 DEF LastEvents
  <2> QED BY <1>1, <2>4
<1>8. provider'.applied \subseteq Staged' BY <1>1, <1>2 DEF SyncInv
<1> QED BY <1>2, <1>6, <1>7, <1>8 DEF SyncInv

LEMMA ReadSync ==
  ASSUME Inv, OnePatientUser, SyncInv, NEW c \in Clients, NEW action \in {"pause", "resume"},
         NEW key, ReadMonitor(c, action, key)
  PROVE  SyncInv'
<1>1. key = NoEvent /\ MayAct BY DEF ReadMonitor, Fault, OnePatientUser
<1>2. UNCHANGED <<monitor, event, broker, worker, provider>> BY DEF ReadMonitor
<1>3. Staged' = Staged /\ \A f : Ended(f)' <=> Ended(f) BY <1>2 DEF Staged, Ended
<1>4. MessagesWait' BY <1>2, <1>3 DEF SyncInv, MessagesWait
<1>5. ClientCurrent'
  <2>1. \A e \in Staged : Ended(e) BY <1>1 DEF MayAct, OnePatientUser
  <2>2. \A d \in Clients : d = c BY DEF OnePatientUser
  <2>3. client'[c].key = NoEvent /\ client'[c].desired = monitor.desired
    BY <1>1 DEF ReadMonitor, Inv, TypeOK
  <2> QED BY <1>2, <1>3, <2>1, <2>2, <2>3 DEF ClientCurrent
<1> QED BY <1>2, <1>3, <1>4, <1>5, LastStay

LEMMA ClientSync ==
  ASSUME Inv, OnePatientUser, SyncInv, NEW c \in Clients, ClientStep(c)
  PROVE  SyncInv'
<1>1. ~RepeatAction(c) BY DEF RepeatAction, SyncInv, ClientCurrent
<1> QED BY <1>1, ReadSync, CommitSync DEF ClientStep

LEMMA SyncStep ==
  ASSUME Inv, OnePatientUser, SyncInv, [Next]_vars
  PROVE  SyncInv'
<1>1. ASSUME NEW w \in Workers, WorkerStep(w) \/ WorkerDies(w) PROVE SyncInv'
  <2>1. broker \subseteq Events BY DEF Inv, TypeOK, Staged
  <2>2. ASSUME NEW e \in Events, Ignore(w, e) PROVE SyncInv'
    BY <2>2, QuietSync DEF Ignore
  <2>3. ASSUME WorkerDies(w) PROVE SyncInv'
    BY <2>3, QuietSync DEF WorkerDies
  <2> QED BY <1>1, <2>1, <2>2, <2>3, ClaimSync, ProviderSync, OutcomeSync DEF WorkerStep
<1>2. ASSUME NEW c \in Clients, ClientStep(c) PROVE SyncInv' BY <1>2, ClientSync
<1>3. CASE StageUpdate BY <1>3, UpdateSync
<1>4. ASSUME NEW e \in Events,
             LoseMessage(e) \/ BackoffEnds(e) \/ ClaimAges(e) \/ ReconcileOutbox(e)
      PROVE  SyncInv'
  <2>1. ASSUME LoseMessage(e) \/ ReconcileOutbox(e) PROVE SyncInv'
    <3>1. UNCHANGED <<event, monitor, provider, client>> BY <2>1 DEF LoseMessage, ReconcileOutbox
    <3> QED BY <2>1, <3>1, QuietSync
  <2> QED BY <1>4, <2>1, ClockSync
<1>5. CASE UNCHANGED vars BY <1>5, QuietSync DEF vars
<1> QED BY <1>1, <1>2, <1>3, <1>4, <1>5 DEF Next

\* Once all that a patient user asked for was delivered, the status asked for, the
\* status shown and the provider's agree, and the provider has the newest
\* configuration (monitor_action, update_monitor, dispatch_outbox).
THEOREM PatientUserInSync == OnePatientUser => (Spec => []InSyncWhenDelivered)
<1> SUFFICES ASSUME OnePatientUser PROVE Spec => []InSyncWhenDelivered OBVIOUS
<1> DEFINE J == Inv /\ SyncInv
<1>1. Init => J BY InvInit, SyncInit
<1>2. J /\ [Next]_vars => J' BY InvStep, SyncStep
<1>3. J => InSyncWhenDelivered
  <2> SUFFICES ASSUME Inv, SyncInv, \A e \in Staged : event[e].status = "delivered"
               PROVE  /\ monitor.observed = provider.status
                      /\ monitor.desired = provider.status
                      /\ \A e \in Staged : IsConfig(e) => e <= provider.config
    BY DEF InSyncWhenDelivered, IsConfig
  <2>1. PICK last, config \in Events : LastEvents(last, config) BY DEF SyncInv, NoneFailed
  <2>2. last \in provider.applied /\ config \in provider.applied
    BY <2>1 DEF LastEvents, Inv, DeliveredWasApplied
  <2> QED BY <2>1, <2>2 DEF LastEvents
<1> HIDE DEF J
<1> QED BY <1>1, <1>2, <1>3, PTL DEF Spec

-----------------------------------------------------------------------------
(* The components side by side.  The composition implies each component's  *)
(* specification: it starts in one of its initial states, and a step of    *)
(* another focus leaves its variables alone.                               *)

LEMMA OutboxRefined == PlatformSpec => Spec
<1>1. PlatformInit => Init BY DEF PlatformInit
<1>2. [PlatformNext]_allVars => [Next]_vars
  BY DEF PlatformNext, OutboxNext, AgentsNext, UploadsNext, ExportsNext, ReportsNext, allVars, vars
<1> QED BY <1>1, <1>2, PTL DEF PlatformSpec, Spec

LEMMA AgentsRefined == PlatformSpec => Agents!Spec
<1>1. PlatformInit => Agents!Init BY DEF PlatformInit
<1>2. [PlatformNext]_allVars => [Agents!Next]_Agents!vars
  BY DEF PlatformNext, OutboxNext, AgentsNext, UploadsNext, ExportsNext, ReportsNext, allVars,
         agentVars, Agents!vars
<1> QED BY <1>1, <1>2, PTL DEF PlatformSpec, Agents!Spec

LEMMA StorageRefined == PlatformSpec => Storage!Spec
<1>1. PlatformInit => Storage!Init BY DEF PlatformInit
<1>2. [PlatformNext]_allVars => [Storage!Next]_Storage!vars
  BY DEF PlatformNext, OutboxNext, AgentsNext, UploadsNext, ExportsNext, ReportsNext, allVars,
         storageVars, Storage!vars
<1> QED BY <1>1, <1>2, PTL DEF PlatformSpec, Storage!Spec

LEMMA ReportsRefined == PlatformSpec => Reports!Spec
<1>1. PlatformInit => Reports!Init BY DEF PlatformInit
<1>2. [PlatformNext]_allVars => [Reports!Next]_Reports!vars
  BY DEF PlatformNext, OutboxNext, AgentsNext, UploadsNext, ExportsNext, ReportsNext, allVars,
         reportVars, Reports!vars
<1> QED BY <1>1, <1>2, PTL DEF PlatformSpec, Reports!Spec

\* The executions under way, and those counted in a day, stay within the policy
\* (ai/service.py, _enforce_quota).
THEOREM LimitsKept == PlatformSpec => []ConcurrencyKept
<1>1. Agents!Spec => []Agents!ConcurrencyKept BY Agents!LimitsKept, PlatformAssumption
<1>2. Agents!ConcurrencyKept => ConcurrencyKept BY DEF ConcurrencyKept
<1> QED BY AgentsRefined, <1>1, <1>2, PTL

-----------------------------------------------------------------------------
(* The object store.                                                       *)

\* A document has a row once its upload was committed, and the object of an upload
\* or an artefact is new from its write to its commit.
WritersSound ==
  /\ \A d \in Documents :
       /\ doc[d] # "none" => writer[d] \in {"committed", "accepted", "failed"}
       /\ writer[d] \in {"committed", "accepted"} => doc[d] # "none"
  /\ \A o \in Storage!Owners :
       /\ writer[o] = "idle" => object[o] = "absent"
       /\ writer[o] = "stored" => object[o] = "fresh"

\* An execution writes under a lease that was issued, once, and the export does
\* not name its object before it ends.
ExecutionsSound ==
  \A e \in Exports :
    /\ export[e].key <= sJob[e].lease
    /\ \A l \in Storage!Leases :
         /\ l > sJob[e].lease => sRun[<<e, l>>] = "none" /\ object[<<e, l>>] = "absent"
         /\ sRun[<<e, l>>] = "generating" => object[<<e, l>>] = "absent"
         /\ sRun[<<e, l>>] = "stored" => object[<<e, l>>] = "fresh"
         /\ sRun[<<e, l>>] # "none" => export[e].key # l

\* What the cleaner is about to delete will never be named: its upload failed, or
\* the execution that wrote it is over and the export names another key.
OrphansLost ==
  /\ \A o \in Storage!Owners : o \in cleaner.orphans => writer[o] = "failed"
  /\ \A e \in Exports, l \in Storage!Leases :
       <<e, l>> \in cleaner.orphans =>
         sRun[<<e, l>>] = "none" /\ l <= sJob[e].lease /\ export[e].key # l

\* The advisory lock: an upload that has stored its object is the only one, and
\* there is room for it.
QuotaHeld ==
  /\ Storage!QuotaKept
  /\ \A d \in Documents : writer[d] = "stored" =>
       /\ Storage!Used + Size[d] <= Quota
       /\ \A c \in Documents : writer[c] = "stored" => c = d

StoreInv ==
  /\ Storage!TypeOK /\ WritersSound /\ ExecutionsSound /\ OrphansLost /\ Storage!Readable

LEMMA StorageKeys ==
  /\ Storage!Keys = Storage!Owners \cup (Exports \X Storage!Leases)
  /\ \A d \in Documents : d \in Storage!Owners /\ d \notin Artifacts
  /\ \A a \in Artifacts : a \in Storage!Owners /\ a \notin Documents
  /\ \A o \in Storage!Owners : o \in Documents \/ o \in Artifacts
  /\ \A e \in Exports, l \in Storage!Leases : <<e, l>> \notin Storage!Owners
  /\ MaxLeases \in Nat /\ MaxStorageFaults \in Nat
BY PlatformAssumption DEF Storage!ConstantsOK, Storage!Keys, Storage!Owners, Storage!Leases

LEMMA ExportRows ==
  ASSUME Storage!TypeOK, NEW e \in Exports
  PROVE  /\ export[e] \in Storage!Export /\ sJob[e] \in Storage!Job
         /\ export[e].status \in {"queued", "generating", "ready", "failed", "expired", "purged"}
         /\ export[e].key \in 0..MaxLeases /\ export[e].over \in BOOLEAN
         /\ export[e].key # 0 <=> export[e].status \in {"ready", "expired"}
         /\ sJob[e].lease \in 0..MaxLeases /\ sJob[e].live \in BOOLEAN
BY DEF Storage!TypeOK, Storage!Export, Storage!Job

\* The rows of the exports, with the constraint of their table.
ExportsTyped ==
  /\ export \in [Exports -> Storage!Export]
  /\ \A e \in Exports : export[e].key # 0 <=> export[e].status \in {"ready", "expired"}

LEMMA ExportFails ==
  ASSUME Storage!TypeOK, NEW e \in Exports,
         export' = export \/ (export' = [export EXCEPT ![e].status = "failed"] /\ export[e].key = 0)
  PROVE  ExportsTyped'
<1> DEFINE row == [export[e] EXCEPT !.status = "failed"]
<1>1. row \in Storage!Export /\ row.key = export[e].key /\ row.status = "failed"
  BY ExportRows DEF Storage!Export
<1>2. export' = export \/ (export' = [export EXCEPT ![e] = row] /\ export[e].key = 0) OBVIOUS
<1> HIDE DEF row
<1> QED BY <1>1, <1>2 DEF Storage!TypeOK, ExportsTyped

LEMMA StorageTyped == ASSUME Storage!TypeOK, [Storage!Next]_Storage!vars PROVE Storage!TypeOK'
<1>1. ASSUME NEW o \in Storage!Owners, Storage!WriterStep(o) PROVE Storage!TypeOK'
  BY <1>1, StorageKeys DEF Storage!TypeOK, Storage!WriterStep, Storage!StoreObject, Storage!CommitObject,
     Storage!TakeBack, Storage!PublishUpload, Storage!PublishFails, Storage!WriterDies,
     Storage!Put, Storage!Delete, Storage!Fault, Storage!DocStatuses
<1>2. ASSUME NEW d \in Documents, Storage!ProcessDocument(d) \/ Storage!DeleteDocument(d)
      PROVE Storage!TypeOK'
  BY <1>2 DEF Storage!TypeOK, Storage!ProcessDocument, Storage!DeleteDocument, Storage!DocStatuses
<1>3. CASE Storage!PurgeDocuments
  BY <1>3 DEF Storage!TypeOK, Storage!PurgeDocuments
<1>4. ASSUME NEW e \in Exports, Storage!StartExport(e) PROVE Storage!TypeOK'
  <2>1. sJob[e].lease + 1 \in Storage!Leases /\ sJob[e].lease + 1 \in 0..MaxLeases
    BY <1>4, ExportRows, StorageKeys DEF Storage!StartExport, Storage!Startable, Storage!Leases
  <2>2. export' \in [Exports -> Storage!Export] /\ sJob' \in [Exports -> Storage!Job]
    BY <1>4, <2>1 DEF Storage!TypeOK, Storage!StartExport, Storage!Export, Storage!Job
  <2>3. sRun' \in [Exports \X Storage!Leases -> {"none", "generating", "stored"}]
    BY <1>4, <2>1 DEF Storage!TypeOK, Storage!StartExport
  <2>4. \A c \in Exports : export'[c].key # 0 <=> export'[c].status \in {"ready", "expired"}
    BY <1>4, ExportRows DEF Storage!TypeOK, Storage!StartExport, Storage!Export
  <2> QED BY <1>4, <2>2, <2>3, <2>4 DEF Storage!TypeOK, Storage!StartExport
<1>5. ASSUME NEW e \in Exports, Storage!RefuseExport(e) \/ Storage!LeaseExpires(e)
      PROVE Storage!TypeOK'
  <2>1. PICK j \in Storage!Job : sJob' = [sJob EXCEPT ![e] = j]
    <3>1. CASE Storage!RefuseExport(e)
      <4> DEFINE j == [sJob[e] EXCEPT !.lease = @ + 1]
      <4>1. j \in Storage!Job
        BY <3>1, ExportRows, StorageKeys DEF Storage!RefuseExport, Storage!Startable, Storage!Job
      <4>2. sJob' = [sJob EXCEPT ![e] = j] BY <3>1 DEF Storage!RefuseExport
      <4> QED BY <4>1, <4>2
    <3>2. CASE Storage!LeaseExpires(e)
      <4> DEFINE j == [sJob[e] EXCEPT !.live = FALSE]
      <4>1. j \in Storage!Job BY ExportRows DEF Storage!Job
      <4>2. sJob' = [sJob EXCEPT ![e] = j] BY <3>2 DEF Storage!LeaseExpires
      <4> QED BY <4>1, <4>2
    <3> QED BY <1>5, <3>1, <3>2
  <2>2. export' = export \/ (export' = [export EXCEPT ![e].status = "failed"] /\ export[e].key = 0)
    <3>1. CASE Storage!RefuseExport(e)
      <4>1. export[e].key = 0 BY <3>1, ExportRows DEF Storage!RefuseExport
      <4> QED BY <3>1, <4>1 DEF Storage!RefuseExport
    <3>2. CASE Storage!LeaseExpires(e) BY <3>2 DEF Storage!LeaseExpires
    <3> QED BY <1>5, <3>1, <3>2
  <2>3. ExportsTyped' BY <2>2, ExportFails
  <2>4. sFaults' \in 0..MaxStorageFaults
    BY <1>5, StorageKeys DEF Storage!TypeOK, Storage!RefuseExport, Storage!LeaseExpires, Storage!Fault
  <2>5. UNCHANGED <<object, writer, doc, sRun, cleaner>>
    BY <1>5 DEF Storage!RefuseExport, Storage!LeaseExpires
  <2>6. sJob' \in [Exports -> Storage!Job] BY <2>1 DEF Storage!TypeOK
  <2> QED BY <2>3, <2>4, <2>5, <2>6 DEF Storage!TypeOK, ExportsTyped
<1>6. ASSUME NEW e \in Exports,
             Storage!ExportAges(e) \/ Storage!RequestLink(e) \/ Storage!PurgeExport(e)
      PROVE Storage!TypeOK'
  <2>1. PICK row \in Storage!Export : export' = [export EXCEPT ![e] = row]
                                     /\ (row.key # 0 <=> row.status \in {"ready", "expired"})
    <3>1. CASE Storage!ExportAges(e)
      <4> DEFINE row == [export[e] EXCEPT !.over = TRUE]
      <4>1. row \in Storage!Export BY ExportRows DEF Storage!Export
      <4> QED BY <3>1, <4>1, ExportRows DEF Storage!ExportAges, Storage!Export
    <3>2. CASE Storage!RequestLink(e)
      <4> DEFINE row == [export[e] EXCEPT !.status = "expired"]
      <4>1. row \in Storage!Export BY ExportRows DEF Storage!Export
      <4> QED BY <3>2, <4>1, ExportRows DEF Storage!RequestLink, Storage!Export
    <3>3. CASE Storage!PurgeExport(e)
      <4> DEFINE row == [export[e] EXCEPT !.status = "purged", !.key = 0]
      <4>1. 0 \in 0..MaxLeases BY StorageKeys
      <4>2. row \in Storage!Export /\ row.status = "purged" /\ row.key = 0
        BY <4>1, ExportRows DEF Storage!Export
      <4> QED BY <3>3, <4>2 DEF Storage!PurgeExport
    <3> QED BY <1>6, <3>1, <3>2, <3>3
  <2>2. object' \in [Storage!Keys -> {"absent", "fresh", "old"}]
    BY <1>6 DEF Storage!TypeOK, Storage!ExportAges, Storage!RequestLink, Storage!PurgeExport,
       Storage!Delete
  <2>3. UNCHANGED <<writer, doc, sJob, sRun, cleaner, sFaults>>
    BY <1>6 DEF Storage!ExportAges, Storage!RequestLink, Storage!PurgeExport
  <2>4. ExportsTyped' BY <2>1 DEF Storage!TypeOK, ExportsTyped
  <2> QED BY <2>2, <2>3, <2>4 DEF Storage!TypeOK, ExportsTyped
<1>7. ASSUME NEW e \in Exports, NEW l \in Storage!Leases,
             Storage!Execution(e, l) \/ Storage!ExecutionDies(e, l)
      PROVE Storage!TypeOK'
  <2>1. ExportsTyped'
    <3>1. CASE Storage!FinishExport(e, l)
      <4> DEFINE row == [export[e] EXCEPT !.status = "ready", !.key = l]
      <4>1. l \in 0..MaxLeases /\ l # 0 BY StorageKeys DEF Storage!Leases
      <4>2. row \in Storage!Export /\ row.key = l /\ row.status = "ready"
        BY <4>1, ExportRows DEF Storage!Export
      <4>3. export' = [export EXCEPT ![e] = row] BY <3>1 DEF Storage!FinishExport
      <4> HIDE DEF row
      <4> QED BY <4>1, <4>2, <4>3 DEF Storage!TypeOK, ExportsTyped
    <3>2. CASE Storage!FailExport(e, l)
      <4>1. \/ export' = export
            \/ export' = [export EXCEPT ![e].status = "failed"] /\ export[e].key = 0
        BY <3>2, ExportRows DEF Storage!FailExport
      <4> QED BY <4>1, ExportFails
    <3>3. CASE Storage!StoreExport(e, l) \/ Storage!LoseLease(e, l) \/ Storage!ExecutionDies(e, l)
      <4>1. export' = export
        BY <3>3 DEF Storage!StoreExport, Storage!LoseLease, Storage!ExecutionDies
      <4> QED BY <4>1, ExportFails
    <3> QED BY <1>7, <3>1, <3>2, <3>3 DEF Storage!Execution
  <2>2. sJob' \in [Exports -> Storage!Job]
    <3> DEFINE j == [sJob[e] EXCEPT !.live = FALSE]
    <3>1. sJob' = sJob \/ sJob' = [sJob EXCEPT ![e] = j]
      BY <1>7 DEF Storage!Execution, Storage!ExecutionDies, Storage!StoreExport,
         Storage!FinishExport, Storage!LoseLease, Storage!FailExport, Storage!JobEnds
    <3>2. j \in Storage!Job BY ExportRows DEF Storage!Job
    <3> HIDE DEF j
    <3> QED BY <3>1, <3>2 DEF Storage!TypeOK
  <2>3. sRun' \in [Exports \X Storage!Leases -> {"none", "generating", "stored"}]
    <3>1. \E v \in {"none", "stored"} : sRun' = [sRun EXCEPT ![<<e, l>>] = v]
      BY <1>7 DEF Storage!Execution, Storage!ExecutionDies, Storage!StoreExport,
         Storage!FinishExport, Storage!LoseLease, Storage!FailExport
    <3> QED BY <3>1 DEF Storage!TypeOK
  <2>4. object' \in [Storage!Keys -> {"absent", "fresh", "old"}] /\ sFaults' \in 0..MaxStorageFaults
    <3>1. object' = object \/ \E v \in {"absent", "fresh"} : object' = [object EXCEPT ![<<e, l>>] = v]
      BY <1>7 DEF Storage!Execution, Storage!ExecutionDies, Storage!StoreExport, Storage!OwnObject,
         Storage!FinishExport, Storage!LoseLease, Storage!FailExport, Storage!Put, Storage!Delete
    <3>2. sFaults' \in 0..MaxStorageFaults
      BY <1>7, StorageKeys DEF Storage!TypeOK, Storage!Execution, Storage!ExecutionDies, Storage!StoreExport,
         Storage!FinishExport, Storage!LoseLease, Storage!FailExport, Storage!Fault
    <3> QED BY <3>1, <3>2 DEF Storage!TypeOK
  <2>5. UNCHANGED <<writer, doc, cleaner>>
    BY <1>7 DEF Storage!Execution, Storage!ExecutionDies, Storage!StoreExport,
       Storage!FinishExport, Storage!LoseLease, Storage!FailExport
  <2> QED BY <2>1, <2>2, <2>3, <2>4, <2>5 DEF Storage!TypeOK, ExportsTyped
<1>10. CASE Storage!Reconcile
  <2>1. Storage!Orphans \subseteq Storage!Keys BY DEF Storage!Orphans
  <2>2. cleaner.orphans \in SUBSET Storage!Keys /\ cleaner.pc \in {"idle", "deleting"}
    BY DEF Storage!TypeOK, Storage!Cleaner
  <2>3. CASE Storage!ReadReferences
    BY <2>1, <2>3 DEF Storage!TypeOK, Storage!ReadReferences, Storage!Cleaner
  <2>4. CASE Storage!EndReconcile
    BY <2>2, <2>4 DEF Storage!TypeOK, Storage!EndReconcile, Storage!Cleaner
  <2>5. ASSUME NEW k \in Storage!Keys, Storage!DeleteOrphan(k) PROVE Storage!TypeOK'
    <3>1. cleaner' \in Storage!Cleaner
      BY <2>2, <2>5 DEF Storage!TypeOK, Storage!DeleteOrphan, Storage!Cleaner
    <3> QED BY <2>5, <3>1 DEF Storage!TypeOK, Storage!DeleteOrphan, Storage!Delete
  <2> QED BY <1>10, <2>3, <2>4, <2>5 DEF Storage!Reconcile
<1>8. ASSUME NEW k \in Storage!Keys, Storage!ObjectAges(k) PROVE Storage!TypeOK'
  BY <1>8 DEF Storage!TypeOK, Storage!ObjectAges
<1>9. CASE UNCHANGED Storage!vars BY <1>9 DEF Storage!TypeOK, Storage!vars
<1> QED BY <1>1, <1>2, <1>3, <1>4, <1>5, <1>6, <1>7, <1>8, <1>9, <1>10 DEF Storage!Next


\* The key an export names is one of its leases'.
LEMMA ExportKeyed ==
  ASSUME Storage!TypeOK, NEW e \in Exports, export[e].status \in {"ready", "expired"}
  PROVE  /\ export[e].key \in Storage!Leases
         /\ <<e, export[e].key>> \in Storage!Keys /\ <<e, export[e].key>> \notin Documents
<1>1. export[e].key \in Storage!Leases BY ExportRows, StorageKeys DEF Storage!Leases
<1> QED BY <1>1, StorageKeys

LEMMA SameSums ==
  ASSUME NEW f, NEW S PROVE Storage!SumFunctionOnSet(f, S) = Agents!SumFunctionOnSet(f, S)
BY DEF Storage!SumFunctionOnSet, Agents!SumFunctionOnSet, Storage!FoldFunctionOnSet,
       Agents!FoldFunctionOnSet, Storage!MapThenFoldSet, Agents!MapThenFoldSet

LEMMA StoreSumEmpty == ASSUME NEW f PROVE Storage!SumFunctionOnSet(f, {}) = 0
BY Agents!SumEmpty, PlatformAssumption, SameSums

LEMMA StoreInit == Storage!Init => StoreInv /\ QuotaHeld
<1> SUFFICES ASSUME Storage!Init PROVE StoreInv /\ QuotaHeld OBVIOUS
<1>1. /\ object = [k \in Storage!Keys |-> "absent"] /\ writer = [o \in Storage!Owners |-> "idle"]
      /\ doc = [d \in Documents |-> "none"]
      /\ export = [e \in Exports |-> [status |-> "queued", key |-> 0, over |-> FALSE]]
      /\ sJob = [e \in Exports |-> [lease |-> 0, live |-> FALSE]]
      /\ sRun = [x \in Exports \X Storage!Leases |-> "none"]
      /\ cleaner = [pc |-> "idle", orphans |-> {}] /\ sFaults = 0
  BY DEF Storage!Init
<1>2. Storage!TypeOK
  <2>1. 0 \in 0..MaxLeases /\ 0 \in 0..MaxStorageFaults BY StorageKeys
  <2>2. [status |-> "queued", key |-> 0, over |-> FALSE] \in Storage!Export
    BY <2>1 DEF Storage!Export
  <2>3. [lease |-> 0, live |-> FALSE] \in Storage!Job BY <2>1 DEF Storage!Job
  <2> QED BY <1>1, <2>1, <2>2, <2>3 DEF Storage!TypeOK, Storage!DocStatuses, Storage!Cleaner
<1>3. WritersSound BY <1>1, StorageKeys DEF WritersSound
<1>4. ExecutionsSound
  BY <1>1, StorageKeys DEF ExecutionsSound, Storage!Leases
<1>5. OrphansLost BY <1>1 DEF OrphansLost
<1>6. Storage!Readable BY <1>1, StorageKeys DEF Storage!Readable, Storage!Live
<1>7. QuotaHeld
  <2>1. \A d \in Documents : ~Storage!Live(d) /\ writer[d] = "idle"
    BY <1>1, StorageKeys DEF Storage!Live
  <2>2. {d \in Documents : Storage!Live(d)} = {} BY <2>1
  <2>3. Storage!Used = 0 BY <2>2, StoreSumEmpty DEF Storage!Used
  <2>4. Quota \in Nat BY PlatformAssumption DEF Storage!ConstantsOK
  <2> QED BY <2>1, <2>3, <2>4 DEF QuotaHeld, Storage!QuotaKept
<1> QED BY <1>2, <1>3, <1>4, <1>5, <1>6, <1>7 DEF StoreInv

\* An upload or an artefact.
LEMMA WriterKeeps ==
  ASSUME StoreInv, NEW o \in Storage!Owners, Storage!WriterStep(o)
  PROVE  WritersSound' /\ ExecutionsSound' /\ OrphansLost' /\ Storage!Readable'
<1>1. /\ \A k \in Storage!Keys : k # o => object'[k] = object[k]
      /\ \A k \in Storage!Owners : k # o => writer'[k] = writer[k]
      /\ \A d \in Documents : d # o => doc'[d] = doc[d]
      /\ UNCHANGED <<export, sJob, sRun, cleaner>>
  BY StorageKeys DEF StoreInv, Storage!TypeOK, Storage!WriterStep, Storage!StoreObject,
     Storage!CommitObject, Storage!TakeBack, Storage!PublishUpload, Storage!PublishFails,
     Storage!WriterDies, Storage!Put, Storage!Delete
<1>2. \/ /\ writer[o] = "idle" /\ writer'[o] = "stored" /\ object'[o] = "fresh" /\ doc' = doc
      \/ /\ writer[o] = "stored" /\ writer'[o] = "committed" /\ object'[o] = object[o]
         /\ o \in Documents => doc'[o] = "queued"
      \/ /\ writer[o] \in {"stored", "committed"} /\ writer'[o] = "failed" /\ doc' = doc
      \/ /\ writer[o] = "committed" /\ writer'[o] = "accepted" /\ doc' = doc /\ object'[o] = object[o]
  BY StorageKeys DEF StoreInv, Storage!TypeOK, Storage!WriterStep, Storage!StoreObject,
     Storage!CommitObject, Storage!TakeBack, Storage!PublishUpload, Storage!PublishFails,
     Storage!WriterDies, Storage!Put, Storage!Delete
<1>3. WritersSound' BY <1>1, <1>2, StorageKeys DEF StoreInv, WritersSound
<1>4. ExecutionsSound' BY <1>1, StorageKeys DEF StoreInv, ExecutionsSound
<1>5. OrphansLost' BY <1>1, <1>2, StorageKeys DEF StoreInv, OrphansLost
<1>6. Storage!Readable'
  <2>1. \A d \in Documents : Storage!Live(d)' /\ writer'[d] # "failed" => object'[d] # "absent"
    BY <1>1, <1>2, StorageKeys DEF StoreInv, WritersSound, Storage!Readable, Storage!Live
  <2>2. \A a \in Artifacts : writer'[a] \in {"committed", "accepted"} => object'[a] # "absent"
    BY <1>1, <1>2, StorageKeys DEF StoreInv, WritersSound, Storage!Readable
  <2>3. \A e \in Exports : export'[e].status \in {"ready", "expired"} =>
                             object'[<<e, export'[e].key>>] # "absent"
    BY <1>1, StorageKeys, ExportKeyed DEF StoreInv, Storage!Readable
  <2> QED BY <2>1, <2>2, <2>3 DEF Storage!Readable
<1> QED BY <1>3, <1>4, <1>5, <1>6

\* Documents are processed and deleted.
LEMMA DocumentKeeps ==
  ASSUME StoreInv, NEW d \in Documents, Storage!ProcessDocument(d) \/ Storage!DeleteDocument(d)
  PROVE  WritersSound' /\ ExecutionsSound' /\ OrphansLost' /\ Storage!Readable'
<1>1. /\ Storage!Live(d) /\ doc'[d] # "none" /\ \A c \in Documents : c # d => doc'[c] = doc[c]
      /\ UNCHANGED <<object, writer, export, sJob, sRun, cleaner>>
  BY DEF StoreInv, Storage!TypeOK, Storage!ProcessDocument, Storage!DeleteDocument
<1>2. doc[d] # "none" BY <1>1 DEF Storage!Live
<1>3. WritersSound' BY <1>1, <1>2 DEF StoreInv, WritersSound
<1>4. Storage!Readable' BY <1>1 DEF StoreInv, Storage!Readable, Storage!Live
<1> QED BY <1>1, <1>3, <1>4 DEF StoreInv, ExecutionsSound, OrphansLost

\* The purge takes the objects of deleted documents.
LEMMA PurgeKeeps ==
  ASSUME StoreInv, Storage!PurgeDocuments
  PROVE  WritersSound' /\ ExecutionsSound' /\ OrphansLost' /\ Storage!Readable'
<1>1. PICK batch \in SUBSET {d \in Documents : Storage!Purgeable(d)} :
        object' = [k \in Storage!Keys |-> IF k \in batch THEN "absent" ELSE object[k]]
  BY DEF Storage!PurgeDocuments
<1>2. /\ \A k \in Storage!Keys : object'[k] = object[k]
                               \/ (k \in Documents /\ doc[k] = "deleted" /\ object'[k] = "absent")
      /\ UNCHANGED <<writer, doc, export, sJob, sRun, cleaner>>
  BY <1>1 DEF Storage!PurgeDocuments, Storage!Purgeable
<1>3. WritersSound' BY <1>2, StorageKeys DEF StoreInv, WritersSound
<1>4. ExecutionsSound' BY <1>2, StorageKeys DEF StoreInv, ExecutionsSound
<1>5. OrphansLost' BY <1>2 DEF StoreInv, OrphansLost
<1>6. Storage!Readable'
  <2>1. \A d \in Documents : Storage!Live(d)' /\ writer'[d] # "failed" => object'[d] # "absent"
    BY <1>2, StorageKeys DEF StoreInv, Storage!Readable, Storage!Live
  <2>2. \A a \in Artifacts : writer'[a] \in {"committed", "accepted"} => object'[a] # "absent"
    BY <1>2, StorageKeys DEF StoreInv, Storage!Readable
  <2>3. \A e \in Exports : export'[e].status \in {"ready", "expired"} =>
                             object'[<<e, export'[e].key>>] # "absent"
    BY <1>2, StorageKeys, ExportKeyed DEF StoreInv, Storage!Readable
  <2> QED BY <2>1, <2>2, <2>3 DEF Storage!Readable
<1> QED BY <1>3, <1>4, <1>5, <1>6


\* A step of an export that leaves the objects alone or takes the one it names.
LEMMA ExportStepKeeps ==
  ASSUME StoreInv, NEW e \in Exports,
         \/ Storage!StartExport(e) \/ Storage!RefuseExport(e) \/ Storage!LeaseExpires(e)
         \/ Storage!ExportAges(e) \/ Storage!RequestLink(e) \/ Storage!PurgeExport(e)
  PROVE  WritersSound' /\ ExecutionsSound' /\ OrphansLost' /\ Storage!Readable'
<1>1. /\ UNCHANGED <<writer, doc, cleaner>>
      /\ \A c \in Exports : c # e => export'[c] = export[c] /\ sJob'[c] = sJob[c]
  BY DEF StoreInv, Storage!TypeOK, Storage!StartExport, Storage!RefuseExport,
     Storage!LeaseExpires, Storage!ExportAges, Storage!RequestLink, Storage!PurgeExport
<1>2. \/ export'[e].key = export[e].key /\ object' = object
         /\ (export'[e].status \in {"ready", "expired"} <=> export[e].status \in {"ready", "expired"})
      \/ /\ export[e].status \in {"ready", "expired"}
         /\ export'[e].key = 0 /\ export'[e].status = "purged"
         /\ object' = [object EXCEPT ![<<e, export[e].key>>] = "absent"]
  <2>1. export \in [Exports -> Storage!Export] /\ Storage!TypeOK BY DEF StoreInv, Storage!TypeOK
  <2>2. CASE Storage!StartExport(e)
    BY <2>1, <2>2 DEF Storage!StartExport, Storage!Export
  <2>3. CASE Storage!RefuseExport(e)
    BY <2>1, <2>3 DEF Storage!RefuseExport, Storage!Export
  <2>4. CASE Storage!LeaseExpires(e)
    BY <2>4 DEF Storage!LeaseExpires
  <2>5. CASE Storage!ExportAges(e) \/ Storage!RequestLink(e)
    BY <2>1, <2>5 DEF Storage!ExportAges, Storage!RequestLink, Storage!Export
  <2>6. CASE Storage!PurgeExport(e)
    BY <2>1, <2>6 DEF Storage!PurgeExport, Storage!Export, Storage!Delete
  <2> QED BY <2>2, <2>3, <2>4, <2>5, <2>6
<1>3. \/ sJob'[e].lease = sJob[e].lease /\ sRun' = sRun
      \/ sJob'[e].lease = sJob[e].lease + 1 /\ export[e].key = 0
         /\ (sRun' = sRun \/ sRun' = [sRun EXCEPT ![<<e, sJob[e].lease + 1>>] = "generating"])
  BY ExportRows DEF StoreInv, Storage!TypeOK, Storage!StartExport, Storage!RefuseExport,
     Storage!LeaseExpires, Storage!ExportAges, Storage!RequestLink, Storage!PurgeExport, Storage!Job
<1>4. /\ object \in [Storage!Keys -> {"absent", "fresh", "old"}]
      /\ sRun \in [Exports \X Storage!Leases -> {"none", "generating", "stored"}]
      /\ export[e].key \in 0..MaxLeases /\ sJob[e].lease \in 0..MaxLeases
  BY ExportRows DEF StoreInv, Storage!TypeOK
<1>5. \A k \in Storage!Owners : object'[k] = object[k] /\ k \in Storage!Keys
  BY <1>2, <1>4, StorageKeys, ExportKeyed DEF StoreInv
<1>6. \A c \in Exports, l \in Storage!Leases :
        \/ object'[<<c, l>>] = object[<<c, l>>]
        \/ c = e /\ l = export[e].key /\ object'[<<c, l>>] = "absent" /\ export'[e].key = 0
           /\ export[e].status \in {"ready", "expired"}
  BY <1>2, <1>4, StorageKeys
<1>7. \A c \in Exports, l \in Storage!Leases :
        \/ sRun'[<<c, l>>] = sRun[<<c, l>>]
        \/ c = e /\ l = sJob[e].lease + 1 /\ sRun'[<<c, l>>] = "generating" /\ export[e].key = 0
           /\ sJob'[e].lease = sJob[e].lease + 1
  BY <1>3, <1>4
<1>8. WritersSound' BY <1>1, <1>5 DEF StoreInv, WritersSound
<1>9. ExecutionsSound'
  <2>1. ASSUME NEW c \in Exports PROVE export'[c].key <= sJob'[c].lease
    BY <1>1, <1>2, <1>3, <1>4 DEF StoreInv, ExecutionsSound
  <2>2. ASSUME NEW c \in Exports, NEW l \in Storage!Leases
        PROVE  /\ l > sJob'[c].lease => sRun'[<<c, l>>] = "none" /\ object'[<<c, l>>] = "absent"
               /\ sRun'[<<c, l>>] = "generating" => object'[<<c, l>>] = "absent"
               /\ sRun'[<<c, l>>] = "stored" => object'[<<c, l>>] = "fresh"
               /\ sRun'[<<c, l>>] # "none" => export'[c].key # l
    <3>1. l \in Nat /\ l # 0 /\ <<c, l>> \in Storage!Keys /\ sJob[c].lease \in 0..MaxLeases
      BY StorageKeys, ExportRows DEF StoreInv, Storage!Leases
    <3>2. /\ l > sJob[c].lease => sRun[<<c, l>>] = "none" /\ object[<<c, l>>] = "absent"
          /\ sRun[<<c, l>>] = "generating" => object[<<c, l>>] = "absent"
          /\ sRun[<<c, l>>] = "stored" => object[<<c, l>>] = "fresh"
          /\ sRun[<<c, l>>] # "none" => export[c].key # l
          /\ export[c].key <= sJob[c].lease
      BY DEF StoreInv, ExecutionsSound
    <3>3. CASE c # e
      BY <1>1, <1>6, <1>7, <3>2, <3>3
    <3>4. CASE c = e
      <4>1. CASE sRun'[<<c, l>>] = sRun[<<c, l>>]
        BY <1>2, <1>3, <1>6, <3>1, <3>2, <3>4, <4>1
      <4>2. CASE /\ l = sJob[e].lease + 1 /\ sRun'[<<c, l>>] = "generating"
                 /\ export[e].key = 0 /\ sJob'[e].lease = sJob[e].lease + 1
        <5>1. export'[e].key = 0 BY <1>2, <4>2
        <5> QED BY <1>6, <3>1, <3>2, <3>4, <4>2, <5>1
      <4> QED BY <1>7, <4>1, <4>2
    <3> QED BY <3>3, <3>4
  <2> QED BY <2>1, <2>2 DEF ExecutionsSound
<1>10. OrphansLost'
  <2>1. ASSUME NEW c \in Exports, NEW l \in Storage!Leases, <<c, l>> \in cleaner.orphans
        PROVE  sRun'[<<c, l>>] = "none" /\ l <= sJob'[c].lease /\ export'[c].key # l
    <3>1. l \in Nat /\ l # 0 /\ sJob[c].lease \in 0..MaxLeases
      BY StorageKeys, ExportRows DEF StoreInv, Storage!Leases
    <3>2. sRun[<<c, l>>] = "none" /\ l <= sJob[c].lease /\ export[c].key # l
      BY <2>1 DEF StoreInv, OrphansLost
    <3> QED BY <1>1, <1>2, <1>3, <1>7, <3>1, <3>2
  <2>2. \A o \in Storage!Owners : o \in cleaner'.orphans => writer'[o] = "failed"
    BY <1>1 DEF StoreInv, OrphansLost
  <2>3. cleaner' = cleaner BY <1>1
  <2> QED BY <2>1, <2>2, <2>3 DEF OrphansLost
<1>11. Storage!Readable'
  <2>1. \A d \in Documents : Storage!Live(d)' /\ writer'[d] # "failed" => object'[d] # "absent"
    BY <1>1, <1>5, StorageKeys DEF StoreInv, Storage!Readable, Storage!Live
  <2>2. \A a \in Artifacts : writer'[a] \in {"committed", "accepted"} => object'[a] # "absent"
    BY <1>1, <1>5, StorageKeys DEF StoreInv, Storage!Readable
  <2>3. ASSUME NEW c \in Exports, export'[c].status \in {"ready", "expired"}
        PROVE  object'[<<c, export'[c].key>>] # "absent"
    <3>1. export[c].status \in {"ready", "expired"} /\ export'[c].key = export[c].key
      BY <1>1, <1>2, <2>3
    <3>2. export[c].key \in Storage!Leases /\ object[<<c, export[c].key>>] # "absent"
      BY <3>1, ExportKeyed DEF StoreInv, Storage!Readable
    <3>3. export[c].key # 0 BY <3>2, StorageKeys DEF Storage!Leases
    <3> QED BY <1>6, <3>1, <3>2, <3>3
  <2> QED BY <2>1, <2>2, <2>3 DEF Storage!Readable
<1> QED BY <1>8, <1>9, <1>10, <1>11

\* A step of an execution: it writes the key of its lease, names it under the
\* lease, or takes it back.
LEMMA ExecutionKeeps ==
  ASSUME StoreInv, NEW e \in Exports, NEW l \in Storage!Leases,
         Storage!Execution(e, l) \/ Storage!ExecutionDies(e, l)
  PROVE  WritersSound' /\ ExecutionsSound' /\ OrphansLost' /\ Storage!Readable'
<1>1. /\ object \in [Storage!Keys -> {"absent", "fresh", "old"}]
      /\ sRun \in [Exports \X Storage!Leases -> {"none", "generating", "stored"}]
      /\ export \in [Exports -> Storage!Export] /\ sJob \in [Exports -> Storage!Job]
      /\ <<e, l>> \in Storage!Keys /\ l \in 1..MaxLeases
  BY StorageKeys DEF StoreInv, Storage!TypeOK, Storage!Leases
<1>2. /\ UNCHANGED <<writer, doc, cleaner>>
      /\ \A c \in Exports : c # e => export'[c] = export[c]
      /\ \A c \in Exports : sJob'[c].lease = sJob[c].lease
      /\ \A k \in Storage!Keys : k # <<e, l>> => object'[k] = object[k]
      /\ \A x \in Exports \X Storage!Leases : x # <<e, l>> => sRun'[x] = sRun[x]
  BY <1>1 DEF Storage!Execution, Storage!ExecutionDies, Storage!StoreExport, Storage!OwnObject,
     Storage!FinishExport, Storage!LoseLease, Storage!FailExport, Storage!Put, Storage!Delete,
     Storage!JobEnds, Storage!Job
<1>3. sRun[<<e, l>>] # "none"
  BY DEF Storage!Execution, Storage!ExecutionDies, Storage!StoreExport,
     Storage!FinishExport, Storage!LoseLease, Storage!FailExport
<1>4. export[e].key # l /\ l <= sJob[e].lease /\ <<e, l>> \notin cleaner.orphans
      /\ (sRun[<<e, l>>] = "generating" => object[<<e, l>>] = "absent")
      /\ (sRun[<<e, l>>] = "stored" => object[<<e, l>>] = "fresh")
      /\ export[e].key <= sJob[e].lease
  BY <1>1, <1>3, ExportRows DEF StoreInv, ExecutionsSound, OrphansLost, Storage!TypeOK
<1>5. \/ /\ export'[e].key = export[e].key
         /\ export'[e].status \in {"ready", "expired"} <=> export[e].status \in {"ready", "expired"}
         /\ \/ sRun'[<<e, l>>] = "stored" /\ object'[<<e, l>>] = "fresh"
            \/ sRun'[<<e, l>>] = "none"
      \/ /\ sRun[<<e, l>>] = "stored" /\ sRun'[<<e, l>>] = "none" /\ object' = object
         /\ export'[e].key = l /\ export'[e].status = "ready" /\ export[e].key = 0
  <2>1. CASE Storage!StoreExport(e, l)
    BY <1>1, <2>1 DEF Storage!StoreExport, Storage!Put
  <2>2. CASE Storage!FinishExport(e, l)
    BY <1>1, <2>2, ExportRows DEF StoreInv, Storage!FinishExport, Storage!Export
  <2>3. CASE Storage!LoseLease(e, l) \/ Storage!ExecutionDies(e, l)
    BY <1>1, <2>3 DEF Storage!LoseLease, Storage!ExecutionDies
  <2>4. CASE Storage!FailExport(e, l)
    BY <1>1, <2>4 DEF Storage!FailExport, Storage!Export
  <2> QED BY <2>1, <2>2, <2>3, <2>4 DEF Storage!Execution
<1>6. WritersSound' BY <1>2, StorageKeys DEF StoreInv, WritersSound
<1>7. ExecutionsSound'
  <2>1. ASSUME NEW c \in Exports PROVE export'[c].key <= sJob'[c].lease
    BY <1>2, <1>4, <1>5 DEF StoreInv, ExecutionsSound
  <2>2. ASSUME NEW c \in Exports, NEW m \in Storage!Leases
        PROVE  /\ m > sJob'[c].lease => sRun'[<<c, m>>] = "none" /\ object'[<<c, m>>] = "absent"
               /\ sRun'[<<c, m>>] = "generating" => object'[<<c, m>>] = "absent"
               /\ sRun'[<<c, m>>] = "stored" => object'[<<c, m>>] = "fresh"
               /\ sRun'[<<c, m>>] # "none" => export'[c].key # m
    <3>1. /\ m > sJob[c].lease => sRun[<<c, m>>] = "none" /\ object[<<c, m>>] = "absent"
          /\ sRun[<<c, m>>] = "generating" => object[<<c, m>>] = "absent"
          /\ sRun[<<c, m>>] = "stored" => object[<<c, m>>] = "fresh"
          /\ sRun[<<c, m>>] # "none" => export[c].key # m
      BY DEF StoreInv, ExecutionsSound
    <3>2. CASE <<c, m>> # <<e, l>>
      <4>1. sRun'[<<c, m>>] = sRun[<<c, m>>] /\ object'[<<c, m>>] = object[<<c, m>>]
        BY <1>2, <3>2, StorageKeys
      <4>2. export'[c].key = export[c].key \/ (c = e /\ export'[c].key = l /\ m # l)
        BY <1>2, <1>5, <3>2
      <4> QED BY <1>2, <3>1, <4>1, <4>2
    <3>3. CASE c = e /\ m = l
      <4>1. ~ m > sJob'[c].lease
        <5>1. sJob[e].lease \in Nat /\ l \in Nat BY <1>1, ExportRows, StorageKeys DEF StoreInv
        <5> QED BY <1>2, <1>4, <3>3, <5>1
      <4> QED BY <1>4, <1>5, <3>3, <4>1
    <3> QED BY <3>2, <3>3
  <2> QED BY <2>1, <2>2 DEF ExecutionsSound
<1>8. OrphansLost'
  <2>1. ASSUME NEW c \in Exports, NEW m \in Storage!Leases, <<c, m>> \in cleaner.orphans
        PROVE  sRun'[<<c, m>>] = "none" /\ m <= sJob'[c].lease /\ export'[c].key # m
    <3>1. <<c, m>> # <<e, l>> BY <1>4, <2>1
    <3>2. sRun[<<c, m>>] = "none" /\ m <= sJob[c].lease /\ export[c].key # m
      BY <2>1 DEF StoreInv, OrphansLost
    <3>3. sRun'[<<c, m>>] = sRun[<<c, m>>] BY <1>2, <3>1
    <3> QED BY <1>2, <1>5, <3>1, <3>2, <3>3
  <2>2. \A o \in Storage!Owners : o \in cleaner'.orphans => writer'[o] = "failed"
    BY <1>2 DEF StoreInv, OrphansLost
  <2>3. cleaner' = cleaner BY <1>2
  <2> QED BY <2>1, <2>2, <2>3 DEF OrphansLost
<1>9. Storage!Readable'
  <2>0. \A k \in Storage!Owners : object'[k] = object[k]
    BY <1>2, StorageKeys
  <2>1. \A d \in Documents : Storage!Live(d)' /\ writer'[d] # "failed" => object'[d] # "absent"
    BY <1>2, <2>0, StorageKeys DEF StoreInv, Storage!Readable, Storage!Live
  <2>2. \A a \in Artifacts : writer'[a] \in {"committed", "accepted"} => object'[a] # "absent"
    BY <1>2, <2>0, StorageKeys DEF StoreInv, Storage!Readable
  <2>3. ASSUME NEW c \in Exports, export'[c].status \in {"ready", "expired"}
        PROVE  object'[<<c, export'[c].key>>] # "absent"
    <3>1. CASE c = e /\ export'[e].key = l /\ object' = object /\ sRun[<<e, l>>] = "stored"
      BY <1>4, <3>1
    <3>2. CASE export'[c].key = export[c].key /\ export[c].status \in {"ready", "expired"}
      <4>1. <<c, export[c].key>> \in Storage!Keys /\ object[<<c, export[c].key>>] # "absent"
        BY <3>2, ExportKeyed DEF StoreInv, Storage!Readable
      <4>2. <<c, export[c].key>> # <<e, l>> BY <1>4
      <4> QED BY <1>2, <3>2, <4>1, <4>2
    <3> QED BY <1>2, <1>5, <2>3, <3>1, <3>2
  <2> QED BY <2>1, <2>2, <2>3 DEF Storage!Readable
<1> QED BY <1>6, <1>7, <1>8, <1>9

\* The reconciliation selects what nothing names and nothing will name.
LEMMA ReconcileKeeps ==
  ASSUME StoreInv, Storage!Reconcile
  PROVE  WritersSound' /\ ExecutionsSound' /\ OrphansLost' /\ Storage!Readable'
<1>0. UNCHANGED <<writer, doc, export, sJob, sRun>>
  BY DEF Storage!Reconcile, Storage!ReadReferences, Storage!EndReconcile, Storage!DeleteOrphan
<1>1. CASE Storage!ReadReferences \/ Storage!EndReconcile
  <2>1. object' = object BY <1>1 DEF Storage!ReadReferences, Storage!EndReconcile
  <2>2. OrphansLost'
    <3>1. CASE Storage!ReadReferences
      <4>1. cleaner'.orphans = Storage!Orphans BY <3>1 DEF Storage!ReadReferences
      <4>2. ASSUME NEW o \in Storage!Owners, o \in Storage!Orphans PROVE writer[o] = "failed"
        <5>1. object[o] = "old" /\ o \notin Storage!Referenced BY <4>2 DEF Storage!Orphans
        <5>2. writer[o] \in {"idle", "stored", "committed", "accepted", "failed"}
          BY DEF StoreInv, Storage!TypeOK
        <5>3. writer[o] \notin {"idle", "stored"} BY <5>1 DEF StoreInv, WritersSound
        <5>4. writer[o] \notin {"committed", "accepted"}
          BY <5>1, StorageKeys DEF StoreInv, WritersSound, Storage!Referenced
        <5> QED BY <5>2, <5>3, <5>4
      <4>3. ASSUME NEW e \in Exports, NEW l \in Storage!Leases, <<e, l>> \in Storage!Orphans
            PROVE  sRun[<<e, l>>] = "none" /\ l <= sJob[e].lease /\ export[e].key # l
        <5>1. object[<<e, l>>] = "old" /\ <<e, l>> \notin Storage!Referenced
          BY <4>3 DEF Storage!Orphans
        <5>2. l \in Nat /\ l # 0 /\ sJob[e].lease \in Nat
          BY StorageKeys, ExportRows DEF StoreInv, Storage!Leases
        <5>3. sRun[<<e, l>>] \in {"none", "generating", "stored"} BY DEF StoreInv, Storage!TypeOK
        <5>4. sRun[<<e, l>>] = "none" /\ l <= sJob[e].lease
          BY <5>1, <5>2, <5>3 DEF StoreInv, ExecutionsSound
        <5>5. export[e].key # l
          <6>1. export[e].key = l => <<e, l>> \in Storage!Named(e) BY <5>2 DEF Storage!Named
          <6> QED BY <5>1, <6>1 DEF Storage!Referenced
        <5> QED BY <5>4, <5>5
      <4> QED BY <1>0, <4>1, <4>2, <4>3 DEF OrphansLost
    <3>2. CASE Storage!EndReconcile
      <4>1. cleaner'.orphans = cleaner.orphans
        BY <3>2 DEF StoreInv, Storage!TypeOK, Storage!Cleaner, Storage!EndReconcile
      <4> QED BY <1>0, <4>1 DEF StoreInv, OrphansLost
    <3> QED BY <1>1, <3>1, <3>2
  <2> QED BY <1>0, <2>1, <2>2
       DEF StoreInv, WritersSound, ExecutionsSound, Storage!Readable, Storage!Live
<1>2. ASSUME NEW k \in Storage!Keys, Storage!DeleteOrphan(k)
      PROVE  WritersSound' /\ ExecutionsSound' /\ OrphansLost' /\ Storage!Readable'
  <2>1. /\ k \in cleaner.orphans /\ object'[k] = "absent"
        /\ \A x \in Storage!Keys : x # k => object'[x] = object[x]
        /\ cleaner'.orphans \subseteq cleaner.orphans
    BY <1>2 DEF StoreInv, Storage!TypeOK, Storage!Cleaner, Storage!DeleteOrphan, Storage!Delete
  <2>2. ASSUME NEW o \in Storage!Owners
        PROVE  o \in Storage!Keys /\ (object'[o] = object[o] \/ writer[o] = "failed")
    BY <2>1, StorageKeys DEF StoreInv, OrphansLost
  <2>3. ASSUME NEW e \in Exports, NEW l \in Storage!Leases
        PROVE  \/ object'[<<e, l>>] = object[<<e, l>>]
               \/ /\ object'[<<e, l>>] = "absent" /\ sRun[<<e, l>>] = "none"
                  /\ l <= sJob[e].lease /\ export[e].key # l
    BY <2>1, StorageKeys DEF StoreInv, OrphansLost
  <2>4. WritersSound' BY <1>0, <2>2 DEF StoreInv, WritersSound
  <2>5. ExecutionsSound' BY <1>0, <2>3 DEF StoreInv, ExecutionsSound
  <2>6. OrphansLost' BY <1>0, <2>1 DEF StoreInv, OrphansLost
  <2>7. \A e \in Exports : export'[e].status \in {"ready", "expired"} =>
                              object'[<<e, export'[e].key>>] # "absent"
    BY <1>0, <2>3, ExportKeyed DEF StoreInv, Storage!Readable
  <2>8. Storage!Readable'
    BY <1>0, <2>2, <2>7, StorageKeys DEF StoreInv, Storage!Readable, Storage!Live
  <2> QED BY <2>4, <2>5, <2>6, <2>8
<1> QED BY <1>1, <1>2 DEF Storage!Reconcile

\* A day passes for an object that nobody is writing.
LEMMA AgingKeeps ==
  ASSUME StoreInv, NEW k \in Storage!Keys, Storage!ObjectAges(k)
  PROVE  WritersSound' /\ ExecutionsSound' /\ OrphansLost' /\ Storage!Readable'
<1>1. /\ UNCHANGED <<writer, doc, export, sJob, sRun, cleaner>>
      /\ object[k] = "fresh" /\ object'[k] = "old"
      /\ \A x \in Storage!Keys : x # k => object'[x] = object[x]
      /\ k \in Storage!Owners => writer[k] # "stored"
      /\ k \notin Storage!Owners => sRun[k] # "stored"
  BY DEF StoreInv, Storage!TypeOK, Storage!ObjectAges
<1>2. WritersSound' BY <1>1, StorageKeys DEF StoreInv, WritersSound
<1>3. ExecutionsSound' BY <1>1, StorageKeys DEF StoreInv, ExecutionsSound
<1>4. OrphansLost' BY <1>1 DEF StoreInv, OrphansLost
<1>5. \A e \in Exports : export'[e].status \in {"ready", "expired"} =>
                            object'[<<e, export'[e].key>>] # "absent"
  BY <1>1, ExportKeyed DEF StoreInv, Storage!Readable
<1>6. Storage!Readable'
  BY <1>1, <1>5, StorageKeys DEF StoreInv, Storage!Readable, Storage!Live
<1> QED BY <1>2, <1>3, <1>4, <1>6

LEMMA StoreStep == ASSUME StoreInv, [Storage!Next]_Storage!vars PROVE StoreInv'
<1>1. Storage!TypeOK' BY StorageTyped DEF StoreInv
<1>2. CASE UNCHANGED Storage!vars
  BY <1>1, <1>2 DEF StoreInv, Storage!vars, WritersSound, ExecutionsSound, OrphansLost,
     Storage!Readable, Storage!Live
<1>3. CASE Storage!Next
  BY <1>1, <1>3, WriterKeeps, DocumentKeeps, PurgeKeeps, ExportStepKeeps, ExecutionKeeps,
     ReconcileKeeps, AgingKeeps DEF StoreInv, Storage!Next
<1> QED BY <1>2, <1>3


\* Adding or removing one document changes what is used by its size.
LEMMA StoreSum ==
  ASSUME NEW S \in SUBSET Documents, NEW d \in Documents, d \notin S
  PROVE  /\ Size[d] \in Nat /\ Storage!SumFunctionOnSet(Size, S) \in Nat
         /\ Storage!SumFunctionOnSet(Size, S \cup {d}) = Size[d] + Storage!SumFunctionOnSet(Size, S)
<1>1. IsFiniteSet(Documents) /\ \A x \in Documents : Size[x] \in Nat
  BY PlatformAssumption DEF Storage!ConstantsOK, IsFiniteSet, Storage!IsFiniteSet
<1>2. IsFiniteSet(S) /\ IsFiniteSet(S \cup {d}) BY <1>1, FS_Subset
<1>3. Agents!IsFiniteSet(S) /\ Agents!IsFiniteSet(S \cup {d})
  BY <1>2 DEF Agents!IsFiniteSet, IsFiniteSet
<1>4. Agents!SumFunctionOnSet(Size, S) \in Nat
  BY <1>1, <1>3, Agents!SumNat, PlatformAssumption
<1>5. Agents!SumFunctionOnSet(Size, S \cup {d}) =
        Size[d] + Agents!SumFunctionOnSet(Size, (S \cup {d}) \ {d})
  BY <1>1, <1>3, Agents!SumRemoves, PlatformAssumption
<1>6. (S \cup {d}) \ {d} = S OBVIOUS
<1> QED BY <1>1, <1>4, <1>5, <1>6, SameSums

LEMMA QuotaStep ==
  ASSUME StoreInv, QuotaHeld, [Storage!Next]_Storage!vars PROVE QuotaHeld'
<1> DEFINE live == {d \in Documents : Storage!Live(d)}
<1>0. Quota \in Nat /\ Storage!Used = Storage!SumFunctionOnSet(Size, live)
  BY PlatformAssumption DEF Storage!ConstantsOK, Storage!Used
<1>1. ASSUME NEW d \in Documents, writer[d] = "stored" PROVE d \notin live
  BY <1>1, StorageKeys DEF StoreInv, WritersSound, Storage!Live
<1>2. CASE /\ \A d \in Documents : Storage!Live(d)' <=> Storage!Live(d)
           /\ \A d \in Documents : writer'[d] = "stored" => writer[d] = "stored"
  <2>1. live' = live BY <1>2
  <2>2. Storage!Used' = Storage!Used BY <2>1 DEF Storage!Used
  <2> QED BY <1>2, <2>2 DEF QuotaHeld, Storage!QuotaKept
<1>3. ASSUME NEW d \in Documents, Storage!StoreObject(d) PROVE QuotaHeld'
  <2>1. /\ writer' = [writer EXCEPT ![d] = "stored"] /\ doc' = doc
        /\ \A c \in Documents : writer[c] # "stored"
        /\ Storage!Used + Size[d] <= Quota
    BY <1>3 DEF Storage!StoreObject, Storage!QuotaAllows
  <2>2. live' = live BY <2>1 DEF Storage!Live
  <2>3. Storage!Used' = Storage!Used BY <2>2 DEF Storage!Used
  <2>4. \A c \in Documents : writer'[c] = "stored" => c = d
    BY <2>1, StorageKeys DEF StoreInv, Storage!TypeOK
  <2> QED BY <2>1, <2>3, <2>4 DEF QuotaHeld, Storage!QuotaKept
<1>4. ASSUME NEW d \in Documents, Storage!CommitObject(d) PROVE QuotaHeld'
  <2>1. /\ writer[d] = "stored" /\ writer' = [writer EXCEPT ![d] = "committed"]
        /\ doc' = [doc EXCEPT ![d] = "queued"]
    BY <1>4 DEF Storage!CommitObject
  <2>2. d \notin live /\ Storage!Used + Size[d] <= Quota
        /\ \A c \in Documents : writer[c] = "stored" => c = d
    BY <1>1, <2>1 DEF QuotaHeld
  <2>3. \A c \in Documents : writer'[c] # "stored"
    BY <2>1, <2>2, StorageKeys DEF StoreInv, Storage!TypeOK
  <2>4. live' = live \cup {d}
    BY <2>1 DEF StoreInv, Storage!TypeOK, Storage!Live
  <2>5. Storage!Used' = Storage!SumFunctionOnSet(Size, live \cup {d})
    BY <2>4 DEF Storage!Used
  <2>6. live \in SUBSET Documents OBVIOUS
  <2> HIDE DEF live
  <2>7. Storage!Used' <= Quota BY <1>0, <2>2, <2>5, <2>6, StoreSum
  <2> QED BY <2>3, <2>7 DEF QuotaHeld, Storage!QuotaKept
<1>5. ASSUME NEW d \in Documents, Storage!DeleteDocument(d) PROVE QuotaHeld'
  <2>1. /\ Storage!Live(d) /\ doc' = [doc EXCEPT ![d] = "deleted"] /\ writer' = writer
    BY <1>5 DEF Storage!DeleteDocument
  <2>2. live = live' \cup {d} /\ d \notin live'
    BY <2>1 DEF StoreInv, Storage!TypeOK, Storage!Live
  <2>3. Storage!Used' = Storage!SumFunctionOnSet(Size, live') BY DEF Storage!Used
  <2>4. live' \in SUBSET Documents OBVIOUS
  <2> DEFINE left == live'
  <2>5. Storage!Used = Storage!SumFunctionOnSet(Size, left \cup {d}) BY <1>0, <2>2
  <2>6. left \in SUBSET Documents /\ d \notin left /\ Storage!Used' = Storage!SumFunctionOnSet(Size, left)
    BY <2>2, <2>3
  <2> HIDE DEF left, live
  <2>7. Storage!Used' <= Storage!Used /\ Storage!Used \in Nat /\ Storage!Used' \in Nat /\ Size[d] \in Nat
    BY <2>5, <2>6, StoreSum
  <2>8. \A c \in Documents : Size[c] \in Nat BY PlatformAssumption DEF Storage!ConstantsOK
  <2> QED BY <1>0, <2>1, <2>7, <2>8 DEF QuotaHeld, Storage!QuotaKept
<1>6. CASE UNCHANGED Storage!vars
  BY <1>2, <1>6 DEF Storage!vars, Storage!Live
<1>7. ASSUME NEW o \in Storage!Owners, Storage!WriterStep(o),
             ~(o \in Documents /\ (Storage!StoreObject(o) \/ Storage!CommitObject(o)))
      PROVE  QuotaHeld'
  <2>1. /\ doc' = doc
        /\ \A c \in Documents : writer'[c] = "stored" => writer[c] = "stored"
    BY <1>7, StorageKeys DEF StoreInv, Storage!TypeOK, Storage!WriterStep, Storage!StoreObject,
       Storage!CommitObject, Storage!TakeBack, Storage!PublishUpload, Storage!PublishFails,
       Storage!WriterDies
  <2> QED BY <1>2, <2>1 DEF Storage!Live
<1>8. ASSUME NEW d \in Documents, Storage!ProcessDocument(d) PROVE QuotaHeld'
  <2>1. \A c \in Documents : Storage!Live(c)' <=> Storage!Live(c)
    BY <1>8 DEF StoreInv, Storage!TypeOK, Storage!ProcessDocument, Storage!Live
  <2> QED BY <1>2, <1>8, <2>1 DEF Storage!ProcessDocument
<1>9. CASE doc' = doc /\ writer' = writer
  BY <1>2, <1>9 DEF Storage!Live
<1>10. CASE Storage!PurgeDocuments BY <1>9, <1>10 DEF Storage!PurgeDocuments
<1>11. ASSUME NEW e \in Exports,
              \/ Storage!StartExport(e) \/ Storage!RefuseExport(e) \/ Storage!LeaseExpires(e)
              \/ Storage!ExportAges(e) \/ Storage!RequestLink(e) \/ Storage!PurgeExport(e)
       PROVE  QuotaHeld'
  BY <1>9, <1>11 DEF Storage!StartExport, Storage!RefuseExport, Storage!LeaseExpires,
     Storage!ExportAges, Storage!RequestLink, Storage!PurgeExport
<1>12. ASSUME NEW e \in Exports, NEW l \in Storage!Leases,
              Storage!Execution(e, l) \/ Storage!ExecutionDies(e, l)
       PROVE  QuotaHeld'
  BY <1>9, <1>12 DEF Storage!Execution, Storage!ExecutionDies, Storage!StoreExport,
     Storage!FinishExport, Storage!LoseLease, Storage!FailExport
<1>13. CASE Storage!Reconcile
  BY <1>9, <1>13 DEF Storage!Reconcile, Storage!ReadReferences, Storage!EndReconcile,
     Storage!DeleteOrphan
<1>14. ASSUME NEW k \in Storage!Keys, Storage!ObjectAges(k) PROVE QuotaHeld'
  BY <1>9, <1>14 DEF Storage!ObjectAges
<1> QED BY <1>3, <1>4, <1>5, <1>6, <1>7, <1>8, <1>10, <1>11, <1>12, <1>13, <1>14, StorageKeys
     DEF Storage!Next

LEMMA StoreAlways == PlatformSpec => [](StoreInv /\ QuotaHeld)
<1>1. PlatformInit => StoreInv /\ QuotaHeld BY StoreInit DEF PlatformInit
<1>2. StoreInv /\ QuotaHeld /\ [PlatformNext]_allVars => (StoreInv /\ QuotaHeld)'
  <2> SUFFICES ASSUME StoreInv, QuotaHeld, [PlatformNext]_allVars PROVE (StoreInv /\ QuotaHeld)'
    OBVIOUS
  <2>1. [Storage!Next]_Storage!vars
    BY DEF PlatformNext, OutboxNext, AgentsNext, UploadsNext, ExportsNext, ReportsNext,
       allVars, storageVars, Storage!vars
  <2> QED BY <2>1, StoreStep, QuotaStep
<1> QED BY <1>1, <1>2, PTL DEF PlatformSpec

\* The object of what a row offers is in the store, whoever reconciles, retries
\* or gives up meanwhile, for any number of documents, exports and leases
\* (documents/service.py, reporting/exports.py).
THEOREM OffersAreReadable == PlatformSpec => []Readable
<1>1. StoreInv => Readable BY DEF StoreInv, Readable
<1> QED BY <1>1, StoreAlways, PTL

\* Uploads that race stay within the tenant's quota together (create_upload).
THEOREM QuotaIsKept == PlatformSpec => []QuotaKept
<1>1. QuotaHeld => QuotaKept BY DEF QuotaHeld, QuotaKept
<1> QED BY <1>1, StoreAlways, PTL

-----------------------------------------------------------------------------
(* Custom reports.                                                         *)

IsStaged(jobs, k) == jobs[k].status # "absent"

\* A draft of an earlier snapshot: a plan that was accepted over it.
Outdated(o) == o.draft \notin {Reports!None, o.snapshot}

\* What holds of the row's options and of every copy of them.  A draft was written
\* by a job that succeeded, from a snapshot; one under an open plan, or of an
\* earlier snapshot, is there because the planner came late, and it comes once.
CopySound(o, jobs, snapshots) ==
  /\ o.snapshot <= Len(snapshots)
  /\ o.draft # Reports!None =>
       o.snapshot # Reports!None /\ jobs[Reports!Write(o.draft)].status = "succeeded"
  /\ o.draft # Reports!None /\ o.life \in {"brief_draft", "plan_proposed"} =>
       jobs[Reports!Plan].status = "succeeded"
  /\ Outdated(o) =>
       /\ jobs[Reports!Plan].status = "succeeded"
       /\ o.life \in {"plan_accepted", "accepted_degraded", "generating", "failed", "cancelled"}
       /\ o.life = "failed" => jobs[Reports!Write(o.snapshot)].status # "absent"

CopiesSound ==
  /\ CopySound(report.options, rJob, frozen)
  /\ \A w \in Workers :
       rWorker[w].pc = "loaded" => CopySound(rWorker[w].read, rJob, frozen)
  /\ \A r \in Clients :
       request[r].pc = "loaded" => CopySound(request[r].read.options, rJob, frozen)

\* Only a durable snapshot is written from, and only what was written is reviewed.
JobsSound ==
  \A s \in 1..MaxPlans :
    /\ IsStaged(rJob, Reports!Write(s)) => s <= Len(frozen) /\ frozen[s]
    /\ IsStaged(rJob, Reports!Review(s)) => rJob[Reports!Write(s)].status = "succeeded"

\* A reviewer that finds something to do has the draft of its snapshot.
ReviewersSound ==
  /\ \A w \in Workers : rWorker[w].pc = "loaded" =>
       /\ IsStaged(rJob, rWorker[w].job)
       /\ rWorker[w].job[1] = "review" /\ Reports!Needed(rWorker[w].job, rWorker[w].read) =>
            ~Outdated(rWorker[w].read)
  /\ Outdated(report.options) /\ IsStaged(rJob, Reports!Review(report.options.snapshot)) =>
       report.options.life = "cancelled"

\* What the step that writes the options makes of the row.
RowSound(o, jobs, snapshots, reviewed) ==
  /\ CopySound(o, jobs, snapshots)
  /\ Outdated(o) /\ IsStaged(jobs, Reports!Review(o.snapshot)) => o.life = "cancelled"
  /\ o.life = "ready" =>
       /\ o.artifact = [snapshot |-> o.snapshot, draft |-> o.snapshot]
       /\ o.snapshot \in DOMAIN snapshots /\ snapshots[o.snapshot]
       /\ o.artifact.draft \in reviewed

\* A request goes on with a row in which it is allowed.
RequestsSound ==
  \A r \in Clients :
    request[r].pc = "loaded" => Reports!Allows(request[r].kind, request[r].read.options.life)

CustomInv ==
  /\ Reports!TypeOK /\ CopiesSound /\ JobsSound /\ ReviewersSound /\ RequestsSound
  /\ Reports!DownloadsAreReviewed

LEMMA CustomKeys ==
  /\ MaxPlans \in Nat \ {0} /\ MaxReportFaults \in Nat
  /\ Reports!Plan \in Reports!Keys /\ Reports!Plan[1] = "plan"
  /\ \A s \in 1..MaxPlans :
       /\ Reports!Write(s) \in Reports!Keys /\ Reports!Review(s) \in Reports!Keys
       /\ Reports!Write(s) # Reports!Plan /\ Reports!Review(s) # Reports!Plan
       /\ \A t \in 1..MaxPlans :
            /\ Reports!Write(s) # Reports!Review(t)
            /\ Reports!Write(s) = Reports!Write(t) => s = t
            /\ Reports!Review(s) = Reports!Review(t) => s = t
  /\ \A k \in Reports!Keys :
       \/ k = Reports!Plan /\ k[1] = "plan"
       \/ k[1] = "write" /\ k[2] \in 1..MaxPlans /\ k = Reports!Write(k[2])
       \/ k[1] = "review" /\ k[2] \in 1..MaxPlans /\ k = Reports!Review(k[2])
<1>1. MaxPlans \in Nat \ {0} /\ MaxReportFaults \in Nat
  BY PlatformAssumption DEF Reports!ConstantsOK
<1> QED BY <1>1 DEF Reports!Keys, Reports!Plan, Reports!Write, Reports!Review, Reports!None

\* What a session that loaded the report makes of it.
LEMMA FlushedReport ==
  ASSUME report \in Reports!Report, NEW read \in Reports!Report, NEW new \in Reports!Report
  PROVE  /\ Reports!Flush(report, read, new) \in Reports!Report
         /\ Reports!Flush(report, read, new).options =
              IF new.options = read.options THEN report.options ELSE new.options
BY DEF Reports!Flush, Reports!Report

\* What a copy relies on only grows.
Grown(jobs, snapshots, jobs2, snapshots2) ==
  /\ \A k \in Reports!Keys :
       /\ jobs[k].status # "absent" => jobs2[k].status # "absent"
       /\ jobs[k].status = "succeeded" => jobs2[k].status = "succeeded"
  /\ Len(snapshots) <= Len(snapshots2)

LEMMA CopyStays ==
  ASSUME NEW o \in Reports!Options, NEW jobs, NEW jobs2,
         NEW snapshots \in Seq(BOOLEAN), NEW snapshots2 \in Seq(BOOLEAN),
         Len(snapshots) <= MaxPlans,
         CopySound(o, jobs, snapshots), Grown(jobs, snapshots, jobs2, snapshots2)
  PROVE  CopySound(o, jobs2, snapshots2)
<1>1. o.snapshot \in 0..MaxPlans /\ o.draft \in 0..MaxPlans BY DEF Reports!Options
<1>2. o.draft # 0 => Reports!Write(o.draft) \in Reports!Keys BY <1>1, CustomKeys
<1>3. o.snapshot # 0 => Reports!Write(o.snapshot) \in Reports!Keys BY <1>1, CustomKeys
<1>4. Reports!Plan \in Reports!Keys BY CustomKeys
<1>5. Outdated(o) => o.draft # 0 /\ o.snapshot # 0
  BY DEF CopySound, Outdated, Reports!None
<1>6. Len(snapshots) \in Nat /\ Len(snapshots2) \in Nat OBVIOUS
<1> QED BY <1>1, <1>2, <1>3, <1>4, <1>5, <1>6, CustomKeys DEF CopySound, Grown, Reports!None

\* The row and the copies after a step that makes new of the options or leaves them.
LEMMA CopiesStay ==
  ASSUME CustomInv, Reports!TypeOK', Grown(rJob, frozen, rJob', frozen'),
         \/ report'.options = report.options
         \/ CopySound(report'.options, rJob', frozen'),
         \A w \in Workers :
           rWorker'[w].pc = "loaded" =>
             \/ rWorker[w].pc = "loaded" /\ rWorker'[w].read = rWorker[w].read
             \/ rWorker'[w].read = report.options,
         \A r \in Clients :
           request'[r].pc = "loaded" =>
             \/ request[r].pc = "loaded" /\ request'[r].read = request[r].read
             \/ request'[r].read = report
  PROVE  CopiesSound'
<1>1. /\ frozen \in Seq(BOOLEAN) /\ frozen' \in Seq(BOOLEAN) /\ Len(frozen) <= MaxPlans
      /\ report.options \in Reports!Options
      /\ \A w \in Workers : rWorker[w].read \in Reports!Options
      /\ \A r \in Clients : request[r].read.options \in Reports!Options
  BY DEF CustomInv, Reports!TypeOK, Reports!Report, Reports!WorkerState, Reports!Request
<1>2. \A o \in Reports!Options : CopySound(o, rJob, frozen) => CopySound(o, rJob', frozen')
  BY <1>1, CopyStays
<1>3. CopySound(report.options, rJob', frozen') BY <1>1, <1>2 DEF CustomInv, CopiesSound
<1>4. ASSUME NEW w \in Workers, rWorker'[w].pc = "loaded"
      PROVE  CopySound(rWorker'[w].read, rJob', frozen')
  BY <1>1, <1>2, <1>3, <1>4 DEF CustomInv, CopiesSound
<1>5. ASSUME NEW r \in Clients, request'[r].pc = "loaded"
      PROVE  CopySound(request'[r].read.options, rJob', frozen')
  BY <1>1, <1>2, <1>3, <1>5 DEF CustomInv, CopiesSound
<1> QED BY <1>3, <1>4, <1>5 DEF CopiesSound

\* The jobs after a step that stages none.
LEMMA JobsStay ==
  ASSUME CustomInv, frozen' = frozen, Grown(rJob, frozen, rJob', frozen'),
         \A k \in Reports!Keys : rJob'[k].status # "absent" => rJob[k].status # "absent"
  PROVE  JobsSound'
BY CustomKeys DEF CustomInv, JobsSound, IsStaged, Grown

JobStatuses == {"absent", "queued", "running", "succeeded", "exhausted", "dead"}

LEMMA CustomRows ==
  /\ Reports!NewOptions \in Reports!Options /\ Reports!NewReport \in Reports!Report
  /\ Reports!QueuedJob \in Reports!Job /\ Reports!AbsentJob \in Reports!Job
  /\ Reports!IdleWorker \in Reports!WorkerState /\ Reports!IdleRequest \in Reports!Request
<1>1. 0 \in 0..MaxPlans /\ Reports!Plan \in Reports!Keys BY CustomKeys
<1>2. Reports!NewOptions \in Reports!Options
  BY <1>1 DEF Reports!NewOptions, Reports!Options, Reports!Lives, Reports!None
<1>3. Reports!NewReport \in Reports!Report BY <1>1, <1>2 DEF Reports!NewReport, Reports!Report
<1>4. Reports!QueuedJob \in Reports!Job /\ Reports!AbsentJob \in Reports!Job
  BY DEF Reports!QueuedJob, Reports!AbsentJob, Reports!Job
<1>5. Reports!IdleWorker \in Reports!WorkerState
  BY <1>1, <1>2 DEF Reports!IdleWorker, Reports!WorkerState
<1>6. Reports!IdleRequest \in Reports!Request
  BY <1>3 DEF Reports!IdleRequest, Reports!Request, Reports!RequestKinds
<1> QED BY <1>2, <1>3, <1>4, <1>5, <1>6

\* One job has a new status and perhaps a new lease.
LEMMA OneJob ==
  ASSUME NEW jobs \in [Reports!Keys -> Reports!Job], NEW k \in Reports!Keys,
         NEW row \in Reports!Job, rJob' = [jobs EXCEPT ![k] = row]
  PROVE  /\ rJob' \in [Reports!Keys -> Reports!Job]
         /\ rJob'[k] = row /\ \A j \in Reports!Keys : j # k => rJob'[j] = jobs[j]
OBVIOUS

\* The end of a handler.
LEMMA HandlerEnds ==
  ASSUME Reports!TypeOK, NEW w \in Workers, NEW jobs \in [Reports!Keys -> Reports!Job],
         NEW status \in JobStatuses, Reports!EndJob(w, jobs, status)
  PROVE  /\ rJob' \in [Reports!Keys -> Reports!Job] /\ rWorker' \in [Workers -> Reports!WorkerState]
         /\ rWorker[w].job \in Reports!Keys /\ rJob'[rWorker[w].job].status = status
         /\ \A j \in Reports!Keys : j # rWorker[w].job => rJob'[j] = jobs[j]
         /\ rWorker'[w].pc = "idle" /\ \A v \in Workers : v # w => rWorker'[v] = rWorker[v]
<1> DEFINE k == rWorker[w].job
           row == [jobs[k] EXCEPT !.status = status]
<1>1. k \in Reports!Keys BY DEF Reports!TypeOK, Reports!WorkerState
<1>2. row \in Reports!Job /\ row.status = status BY <1>1 DEF Reports!Job, JobStatuses
<1>3. rJob' = [jobs EXCEPT ![k] = row] BY DEF Reports!EndJob
<1>4. rWorker' = [rWorker EXCEPT ![w] = Reports!IdleWorker] BY DEF Reports!EndJob
<1>5. Reports!IdleWorker.pc = "idle" BY DEF Reports!IdleWorker
<1>6. rWorker \in [Workers -> Reports!WorkerState] BY DEF Reports!TypeOK
<1> HIDE DEF k, row
<1>7. rJob' \in [Reports!Keys -> Reports!Job] /\ rJob'[k] = row
      /\ \A j \in Reports!Keys : j # k => rJob'[j] = jobs[j]
  BY <1>1, <1>2, <1>3, OneJob
<1>8. /\ rWorker' \in [Workers -> Reports!WorkerState]
      /\ rWorker'[w].pc = "idle" /\ \A v \in Workers : v # w => rWorker'[v] = rWorker[v]
  BY <1>4, <1>5, <1>6, CustomRows
<1> QED BY <1>1, <1>2, <1>7, <1>8 DEF k

\* The report a handler writes.
LEMMA HandlerWrites ==
  ASSUME Reports!TypeOK, NEW w \in Workers, NEW new \in Reports!Options,
         NEW k \in Reports!Keys, Reports!WriteReport(w, new, k)
  PROVE  /\ report' \in Reports!Report
         /\ report'.options = IF new = rWorker[w].read THEN report.options ELSE new
<1> DEFINE a == [options |-> rWorker[w].read, job |-> rWorker[w].job]
           b == [options |-> new, job |-> k]
<1>1. rWorker[w] \in Reports!WorkerState BY DEF Reports!TypeOK
<1>2. a \in Reports!Report /\ b \in Reports!Report
  BY <1>1 DEF Reports!Report, Reports!WorkerState
<1>3. report' = Reports!Flush(report, a, b) BY DEF Reports!WriteReport
<1>4. a.options = rWorker[w].read /\ b.options = new OBVIOUS
<1>5. report \in Reports!Report BY DEF Reports!TypeOK
<1> HIDE DEF a, b
<1> QED BY <1>2, <1>3, <1>4, <1>5, FlushedReport

\* The report a request writes.
LEMMA RequestWrites ==
  ASSUME Reports!TypeOK, NEW r \in Clients, NEW new \in Reports!Report, Reports!Commit(r, new)
  PROVE  /\ report' \in Reports!Report
         /\ report'.options =
              IF new.options = request[r].read.options THEN report.options ELSE new.options
<1>1. request[r] \in Reports!Request BY DEF Reports!TypeOK
<1>2. request[r].read \in Reports!Report BY <1>1 DEF Reports!Request
<1> QED BY <1>2, FlushedReport DEF Reports!TypeOK, Reports!Commit

LEMMA RequestAnswered ==
  ASSUME Reports!TypeOK, NEW r \in Clients, Reports!Answered(r)
  PROVE  /\ request' \in [Clients -> Reports!Request]
         /\ request'[r].pc = "idle" /\ \A c \in Clients : c # r => request'[c] = request[c]
<1>1. Reports!IdleRequest.pc = "idle" BY DEF Reports!IdleRequest
<1> QED BY <1>1, CustomRows DEF Reports!TypeOK, Reports!Answered

LEMMA CustomInit == Reports!Init => CustomInv
<1> SUFFICES ASSUME Reports!Init PROVE CustomInv OBVIOUS
<1>1. /\ report = Reports!NewReport /\ frozen = <<>> /\ approved = {}
      /\ rJob = [k \in Reports!Keys |-> IF k = Reports!Plan THEN Reports!QueuedJob ELSE Reports!AbsentJob]
      /\ rWorker = [w \in Workers |-> Reports!IdleWorker]
      /\ request = [r \in Clients |-> Reports!IdleRequest]
      /\ calm \in BOOLEAN /\ rFaults = 0
  BY DEF Reports!Init
<1>2. Reports!TypeOK
  BY <1>1, CustomRows, CustomKeys DEF Reports!TypeOK
<1>3. /\ report.options.snapshot = 0 /\ report.options.draft = 0
      /\ report.options.life = "brief_draft"
  BY <1>1 DEF Reports!NewReport, Reports!NewOptions, Reports!None
<1>4. /\ \A w \in Workers : rWorker[w].pc = "idle"
      /\ \A r \in Clients : request[r].pc = "idle"
  BY <1>1 DEF Reports!IdleWorker, Reports!IdleRequest
<1>5. \A k \in Reports!Keys : k # Reports!Plan => ~IsStaged(rJob, k)
  BY <1>1 DEF IsStaged, Reports!AbsentJob, Reports!QueuedJob
<1>6. CopiesSound
  <2>1. Len(frozen) = 0 BY <1>1
  <2> QED BY <2>1, <1>3, <1>4 DEF CopiesSound, CopySound, Outdated, Reports!None
<1>7. JobsSound BY <1>5, CustomKeys DEF JobsSound
<1>8. ReviewersSound BY <1>3, <1>4 DEF ReviewersSound, Outdated, Reports!None
<1>9. RequestsSound BY <1>4 DEF RequestsSound
<1>10. Reports!DownloadsAreReviewed BY <1>3 DEF Reports!DownloadsAreReviewed
<1> QED BY <1>2, <1>6, <1>7, <1>8, <1>9, <1>10 DEF CustomInv

\* A step that leaves the row and the snapshots alone and stages no job: what is
\* loaded is loaded from the row, by the worker of a job that is staged.
LEMMA QuietKeeps ==
  ASSUME CustomInv, Reports!TypeOK', UNCHANGED <<report, frozen, approved>>,
         \A k \in Reports!Keys :
           /\ rJob'[k].status = "absent" <=> rJob[k].status = "absent"
           /\ rJob[k].status = "succeeded" => rJob'[k].status = "succeeded",
         \A w \in Workers : rWorker'[w].pc = "loaded" =>
           \/ rWorker'[w] = rWorker[w]
           \/ rWorker'[w].read = report.options /\ IsStaged(rJob, rWorker'[w].job),
         \A r \in Clients : request'[r].pc = "loaded" =>
           \/ request'[r] = request[r]
           \/ request'[r].read = report /\ Reports!Allows(request'[r].kind, report.options.life)
  PROVE  CustomInv'
<1>1. Grown(rJob, frozen, rJob', frozen')
  <2>1. Len(frozen) \in Nat BY DEF CustomInv, Reports!TypeOK
  <2> QED BY <2>1 DEF Grown
<1>2. CopiesSound' BY <1>1, CopiesStay
<1>3. JobsSound' BY <1>1, JobsStay
<1>4. ASSUME NEW k \in Reports!Keys PROVE IsStaged(rJob', k) <=> IsStaged(rJob, k) BY DEF IsStaged
<1>5. report.options.snapshot \in 0..MaxPlans /\ report.options.draft \in 0..MaxPlans
  BY DEF CustomInv, Reports!TypeOK, Reports!Report, Reports!Options
<1>6. Outdated(report.options) => Reports!Review(report.options.snapshot) \in Reports!Keys
  BY <1>5, CustomKeys DEF CustomInv, CopiesSound, CopySound, Outdated, Reports!None
<1>7. ASSUME NEW w \in Workers, rWorker'[w].pc = "loaded"
      PROVE  /\ IsStaged(rJob', rWorker'[w].job)
             /\ rWorker'[w].job[1] = "review" /\ Reports!Needed(rWorker'[w].job, rWorker'[w].read) =>
                  ~Outdated(rWorker'[w].read)
  <2>1. rWorker'[w].job \in Reports!Keys
    BY DEF Reports!TypeOK, Reports!WorkerState
  <2>2. CASE rWorker'[w] = rWorker[w]
    BY <1>4, <1>7, <2>1, <2>2 DEF CustomInv, ReviewersSound
  <2>3. CASE rWorker'[w].read = report.options /\ IsStaged(rJob, rWorker'[w].job)
    <3> DEFINE k == rWorker'[w].job
    <3>1. ASSUME k[1] = "review", Reports!Needed(k, report.options) PROVE ~Outdated(report.options)
      <4>1. report.options.life # "cancelled" /\ report.options.snapshot = k[2]
        BY <3>1 DEF Reports!Needed, Reports!Fenced
      <4>2. k = Reports!Review(k[2]) BY <2>1, <3>1, CustomKeys
      <4> QED BY <2>3, <4>1, <4>2 DEF CustomInv, ReviewersSound
    <3>2. IsStaged(rJob', k) BY <1>4, <2>1, <2>3
    <3> QED BY <2>3, <3>1, <3>2
  <2> QED BY <1>7, <2>2, <2>3
<1>8. ReviewersSound'
  <2>1. Outdated(report'.options) /\ IsStaged(rJob', Reports!Review(report'.options.snapshot))
          => report'.options.life = "cancelled"
    BY <1>4, <1>6 DEF CustomInv, ReviewersSound
  <2> QED BY <1>7, <2>1 DEF ReviewersSound
<1>9. Reports!DownloadsAreReviewed'
  BY DEF CustomInv, Reports!DownloadsAreReviewed
<1>10. RequestsSound' BY DEF CustomInv, RequestsSound
<1> QED BY <1>2, <1>3, <1>8, <1>9, <1>10 DEF CustomInv

\* What is claimed is queued; a cancelled job ends there.
LEMMA StartKeeps ==
  ASSUME CustomInv, NEW w \in Workers, NEW k \in Reports!Keys, Reports!Start(w, k) PROVE CustomInv'
<1>1. /\ Reports!TypeOK /\ rJob[k] \in Reports!Job /\ rJob[k].status = "queued"
      /\ UNCHANGED <<report, frozen, approved, request, calm, rFaults>>
  BY DEF CustomInv, Reports!TypeOK, Reports!Start
<1>2. PICK row \in Reports!Job : rJob' = [rJob EXCEPT ![k] = row] /\ row.status \in {"dead", "running"}
  <2> DEFINE dead == [rJob[k] EXCEPT !.status = "dead"]
             live == [rJob[k] EXCEPT !.status = "running", !.lease = rJob[k].lease + 1]
  <2>0. rJob[k].lease \in Nat BY <1>1 DEF Reports!Job
  <2>1. /\ dead \in Reports!Job /\ dead.status = "dead"
        /\ live \in Reports!Job /\ live.status = "running"
    <3>1. dead \in Reports!Job /\ dead.status = "dead" BY <1>1 DEF Reports!Job
    <3>2. rJob[k].lease + 1 \in Nat BY <2>0
    <3>3. live \in Reports!Job /\ live.status = "running" BY <1>1, <3>2 DEF Reports!Job
    <3> QED BY <3>1, <3>3
  <2>2. rJob' = [rJob EXCEPT ![k] = dead] \/ rJob' = [rJob EXCEPT ![k] = live]
    BY DEF Reports!Start
  <2> HIDE DEF dead, live
  <2> QED BY <2>1, <2>2
<1>3. /\ rJob' \in [Reports!Keys -> Reports!Job]
      /\ rJob'[k] = row /\ \A j \in Reports!Keys : j # k => rJob'[j] = rJob[j]
  BY <1>1, <1>2, OneJob DEF Reports!TypeOK
<1>4. /\ rWorker' \in [Workers -> Reports!WorkerState]
      /\ \A v \in Workers :
           \/ rWorker'[v] = rWorker[v]
           \/ rWorker'[v].read = report.options /\ rWorker'[v].job = k
  <2> DEFINE new == [pc |-> "loaded", job |-> k, lease |-> rJob[k].lease + 1, read |-> report.options]
  <2>1. new \in Reports!WorkerState
    BY <1>1 DEF Reports!TypeOK, Reports!WorkerState, Reports!Job, Reports!Report
  <2>2. rWorker' = rWorker \/ rWorker' = [rWorker EXCEPT ![w] = new]
    BY DEF Reports!Start
  <2>3. new.read = report.options /\ new.job = k OBVIOUS
  <2> HIDE DEF new
  <2> QED BY <1>1, <2>1, <2>2, <2>3 DEF Reports!TypeOK
<1>5. Reports!TypeOK' BY <1>1, <1>3, <1>4 DEF Reports!TypeOK
<1>6. IsStaged(rJob, k) BY <1>1 DEF IsStaged
<1> QED BY <1>1, <1>2, <1>3, <1>4, <1>5, <1>6, QuietKeeps

\* A handler that writes nothing.
LEMMA NothingWritten ==
  ASSUME CustomInv, NEW w \in Workers,
         Reports!Drop(w) \/ Reports!RaiseError(w) \/ Reports!RollBack(w)
  PROVE  CustomInv'
<1>1. /\ Reports!TypeOK /\ rJob \in [Reports!Keys -> Reports!Job] /\ rWorker[w].job \in Reports!Keys
      /\ rWorker[w].pc = "loaded" /\ rJob[rWorker[w].job] \in Reports!Job
      /\ UNCHANGED <<report, frozen, approved, request, calm>>
  BY DEF CustomInv, Reports!TypeOK, Reports!WorkerState, Reports!Drop, Reports!RaiseError,
     Reports!RollBack, Reports!Commits
<1>2. PICK status \in JobStatuses :
        /\ Reports!EndJob(w, rJob, status)
        /\ status # "absent" \/ status = rJob[rWorker[w].job].status
        /\ rJob[rWorker[w].job].status = "succeeded" => status = "succeeded"
  <2>1. CASE Reports!Drop(w) \/ Reports!RaiseError(w)
    BY <2>1 DEF Reports!Drop, Reports!RaiseError, Reports!Commits, Reports!OwnsJob, JobStatuses
  <2>2. CASE Reports!RollBack(w)
    <3>1. CASE Reports!OwnsJob(w)
      BY <2>2, <3>1 DEF Reports!RollBack, Reports!OwnsJob, JobStatuses
    <3>2. CASE ~Reports!OwnsJob(w)
      <4>1. rJob[rWorker[w].job].status \in JobStatuses BY <1>1 DEF JobStatuses, Reports!Job
      <4> QED BY <2>2, <3>2, <4>1 DEF Reports!RollBack
    <3> QED BY <3>1, <3>2
  <2> QED BY <2>1, <2>2
<1>3. /\ rJob' \in [Reports!Keys -> Reports!Job] /\ rWorker' \in [Workers -> Reports!WorkerState]
      /\ rJob'[rWorker[w].job].status = status
      /\ \A j \in Reports!Keys : j # rWorker[w].job => rJob'[j] = rJob[j]
      /\ rWorker'[w].pc = "idle" /\ \A v \in Workers : v # w => rWorker'[v] = rWorker[v]
  BY <1>1, <1>2, HandlerEnds
<1>4. IsStaged(rJob, rWorker[w].job) BY <1>1 DEF CustomInv, ReviewersSound
<1>5. rFaults' \in 0..MaxReportFaults
  BY <1>1, CustomKeys DEF Reports!TypeOK, Reports!Drop, Reports!RaiseError, Reports!RollBack,
     Reports!Fault
<1>6. Reports!TypeOK' BY <1>1, <1>3, <1>5 DEF Reports!TypeOK
<1> QED BY <1>1, <1>2, <1>3, <1>4, <1>6, QuietKeeps DEF IsStaged

\* Recovery and the routes of the jobs.
LEMMA JobRoutesKeep ==
  ASSUME CustomInv, NEW k \in Reports!Keys,
         Reports!LeaseExpires(k) \/ Reports!CancelJob(k) \/ Reports!RetryJob(k)
  PROVE  CustomInv'
<1>1. /\ Reports!TypeOK /\ rJob[k] \in Reports!Job /\ rJob[k].status \notin {"absent", "succeeded"}
      /\ UNCHANGED <<report, frozen, approved, request, calm>>
  BY DEF CustomInv, Reports!TypeOK, Reports!LeaseExpires, Reports!CancelJob, Reports!RetryJob
<1>2. PICK row \in Reports!Job : rJob' = [rJob EXCEPT ![k] = row] /\ row.status # "absent"
  <2> DEFINE queued == [rJob[k] EXCEPT !.status = "queued"]
             ended == [rJob[k] EXCEPT !.cancel = TRUE, !.status = IF @ = "queued" THEN "dead" ELSE @]
             again == [rJob[k] EXCEPT !.status = "queued", !.cancel = FALSE]
  <2>1. /\ queued \in Reports!Job /\ ended \in Reports!Job /\ again \in Reports!Job
        /\ queued.status = "queued" /\ ended.status # "absent" /\ again.status = "queued"
    BY <1>1 DEF Reports!Job
  <2>2. \/ rJob' = [rJob EXCEPT ![k] = queued] \/ rJob' = [rJob EXCEPT ![k] = ended]
        \/ rJob' = [rJob EXCEPT ![k] = again]
    BY DEF Reports!LeaseExpires, Reports!CancelJob, Reports!RetryJob
  <2> HIDE DEF queued, ended, again
  <2> QED BY <2>1, <2>2
<1>3. /\ rJob' \in [Reports!Keys -> Reports!Job]
      /\ rJob'[k] = row /\ \A j \in Reports!Keys : j # k => rJob'[j] = rJob[j]
  BY <1>1, <1>2, OneJob DEF Reports!TypeOK
<1>4. /\ rWorker' \in [Workers -> Reports!WorkerState]
      /\ \A w \in Workers : rWorker'[w].pc = "loaded" => rWorker'[w] = rWorker[w]
  <2>1. \/ rWorker' = rWorker
        \/ rWorker' = [w \in Workers |-> IF rWorker[w].job = k /\ Reports!OwnsJob(w)
                                           THEN Reports!IdleWorker ELSE rWorker[w]]
    BY DEF Reports!LeaseExpires, Reports!CancelJob, Reports!RetryJob
  <2>2. Reports!IdleWorker.pc = "idle" BY DEF Reports!IdleWorker
  <2> QED BY <1>1, <2>1, <2>2, CustomRows DEF Reports!TypeOK
<1>5. rFaults' \in 0..MaxReportFaults
  BY <1>1, CustomKeys DEF Reports!TypeOK, Reports!LeaseExpires, Reports!CancelJob, Reports!RetryJob,
     Reports!Fault
<1>6. Reports!TypeOK' BY <1>1, <1>3, <1>4, <1>5 DEF Reports!TypeOK
<1> QED BY <1>1, <1>2, <1>3, <1>4, <1>6, QuietKeeps

\* A request loads the row, or is refused without writing.
LEMMA RequestQuiet ==
  ASSUME CustomInv, NEW r \in Clients,
         \/ \E kind \in Reports!RequestKinds : Reports!Load(r, kind)
         \/ Reports!Answered(r) /\ UNCHANGED <<report, frozen, approved, rJob, rWorker, calm, rFaults>>
  PROVE  CustomInv'
<1>1. Reports!TypeOK BY DEF CustomInv
<1>2. UNCHANGED <<report, frozen, approved, rJob, rWorker, calm, rFaults>> BY DEF Reports!Load
<1>3. /\ request' \in [Clients -> Reports!Request]
      /\ \A c \in Clients : request'[c].pc = "loaded" =>
           \/ request'[c] = request[c]
           \/ request'[c].read = report /\ Reports!Allows(request'[c].kind, report.options.life)
  <2>1. CASE Reports!Answered(r) BY <1>1, <2>1, RequestAnswered
  <2>2. ASSUME NEW kind \in Reports!RequestKinds, Reports!Load(r, kind)
        PROVE  /\ request' \in [Clients -> Reports!Request]
               /\ \A c \in Clients : request'[c].pc = "loaded" =>
                    \/ request'[c] = request[c]
                    \/ /\ request'[c].read = report
                       /\ Reports!Allows(request'[c].kind, report.options.life)
    <3> DEFINE new == [pc |-> "loaded", kind |-> kind, read |-> report]
    <3>1. new \in Reports!Request /\ new.read = report /\ new.kind = kind
      BY <1>1 DEF Reports!TypeOK, Reports!Request
    <3>2. request' = [request EXCEPT ![r] = new] /\ Reports!Allows(kind, report.options.life)
      BY <2>2 DEF Reports!Load
    <3> HIDE DEF new
    <3> QED BY <1>1, <3>1, <3>2 DEF Reports!TypeOK
  <2> QED BY <2>1, <2>2
<1>4. Reports!TypeOK' BY <1>1, <1>2, <1>3 DEF Reports!TypeOK
<1> QED BY <1>1, <1>2, <1>3, <1>4, QuietKeeps

LEMMA RowIsSound ==
  ASSUME CustomInv
  PROVE  RowSound(report.options, rJob, frozen, approved)
BY DEF CustomInv, CopiesSound, ReviewersSound, Reports!DownloadsAreReviewed, RowSound

\* A step that writes the options, or stages no job, and loads nothing.
LEMMA LoudKeeps ==
  ASSUME CustomInv, Reports!TypeOK', JobsSound', Grown(rJob, frozen, rJob', frozen'),
         \A s \in 1..Len(frozen) : frozen'[s] = frozen[s],
         approved \subseteq approved',
         \/ /\ report'.options = report.options
            /\ \A k \in Reports!Keys : IsStaged(rJob', k) => IsStaged(rJob, k)
         \/ RowSound(report'.options, rJob', frozen', approved'),
         \A w \in Workers : rWorker'[w].pc = "loaded" => rWorker'[w] = rWorker[w],
         \A r \in Clients : request'[r].pc = "loaded" => request'[r] = request[r]
  PROVE  CustomInv'
<1>1. Reports!TypeOK /\ frozen \in Seq(BOOLEAN) /\ frozen' \in Seq(BOOLEAN) /\ Len(frozen) <= MaxPlans
  BY DEF CustomInv, Reports!TypeOK
<1>2. \/ report'.options = report.options
      \/ CopySound(report'.options, rJob', frozen')
  BY DEF RowSound
<1>3. CopiesSound' BY <1>2, CopiesStay
<1>4. RowSound(report'.options, rJob', frozen', approved')
  <2>1. SUFFICES ASSUME report'.options = report.options,
                        \A k \in Reports!Keys : IsStaged(rJob', k) => IsStaged(rJob, k)
                 PROVE  RowSound(report'.options, rJob', frozen', approved')
    OBVIOUS
  <2> DEFINE o == report.options
  <2>2. RowSound(o, rJob, frozen, approved) BY RowIsSound
  <2>3. CopySound(o, rJob', frozen') BY <1>3, <2>1 DEF CopiesSound
  <2>4. o.snapshot \in 0..MaxPlans /\ o.draft \in 0..MaxPlans
    BY <1>1 DEF Reports!TypeOK, Reports!Report, Reports!Options
  <2>5. Outdated(o) => Reports!Review(o.snapshot) \in Reports!Keys
    BY <2>2, <2>4, CustomKeys DEF RowSound, CopySound, Outdated, Reports!None
  <2>6. o.life = "ready" => o.snapshot \in DOMAIN frozen' /\ frozen'[o.snapshot] /\ o.artifact.draft \in approved'
    <3>1. DOMAIN frozen = 1..Len(frozen) /\ DOMAIN frozen' = 1..Len(frozen') BY <1>1
    <3>2. Len(frozen) \in Nat /\ Len(frozen') \in Nat /\ Len(frozen) <= Len(frozen')
      BY <1>1 DEF Grown
    <3>3. o.life = "ready" => o.snapshot \in DOMAIN frozen /\ frozen[o.snapshot] /\ o.artifact.draft \in approved
      BY <2>2 DEF RowSound
    <3> QED BY <3>1, <3>2, <3>3
  <2> QED BY <2>1, <2>2, <2>3, <2>5, <2>6 DEF RowSound
<1>5. ASSUME NEW w \in Workers, rWorker'[w].pc = "loaded"
      PROVE  /\ IsStaged(rJob', rWorker'[w].job)
             /\ rWorker'[w].job[1] = "review" /\ Reports!Needed(rWorker'[w].job, rWorker'[w].read) =>
                  ~Outdated(rWorker'[w].read)
  <2>1. rWorker'[w] = rWorker[w] /\ rWorker[w].job \in Reports!Keys
    BY <1>1, <1>5 DEF Reports!TypeOK, Reports!WorkerState
  <2>2. IsStaged(rJob, rWorker[w].job) => IsStaged(rJob', rWorker[w].job) BY <2>1 DEF IsStaged, Grown
  <2> QED BY <1>5, <2>1, <2>2 DEF CustomInv, ReviewersSound
<1>6. ReviewersSound' BY <1>4, <1>5 DEF RowSound, ReviewersSound
<1>7. RequestsSound' BY DEF CustomInv, RequestsSound
<1>8. Reports!DownloadsAreReviewed' BY <1>4 DEF RowSound, Reports!DownloadsAreReviewed
<1> QED BY <1>3, <1>6, <1>7, <1>8 DEF CustomInv

\* A handler that ends its job without staging another one.
LEMMA HandlerKeeps ==
  ASSUME CustomInv, NEW w \in Workers, NEW new \in Reports!Options, NEW k \in Reports!Keys,
         rWorker[w].pc = "loaded",
         Reports!WriteReport(w, new, k), Reports!EndJob(w, rJob, "succeeded"),
         UNCHANGED <<frozen, request, calm, rFaults>>,
         approved \subseteq approved', approved' \subseteq 1..MaxPlans,
         new # rWorker[w].read => RowSound(new, rJob', frozen, approved')
  PROVE  CustomInv'
<1>1. Reports!TypeOK /\ rJob \in [Reports!Keys -> Reports!Job] /\ "succeeded" \in JobStatuses
  BY DEF CustomInv, Reports!TypeOK, JobStatuses
<1>2. /\ rJob' \in [Reports!Keys -> Reports!Job] /\ rWorker' \in [Workers -> Reports!WorkerState]
      /\ rWorker[w].job \in Reports!Keys /\ rJob'[rWorker[w].job].status = "succeeded"
      /\ \A j \in Reports!Keys : j # rWorker[w].job => rJob'[j] = rJob[j]
      /\ rWorker'[w].pc = "idle" /\ \A v \in Workers : v # w => rWorker'[v] = rWorker[v]
  BY <1>1, HandlerEnds
<1>3. /\ report' \in Reports!Report
      /\ report'.options = IF new = rWorker[w].read THEN report.options ELSE new
  BY <1>1, HandlerWrites
<1>4. Reports!TypeOK' BY <1>1, <1>2, <1>3 DEF Reports!TypeOK
<1>5. IsStaged(rJob, rWorker[w].job) BY DEF CustomInv, ReviewersSound
<1>6. Len(frozen) \in Nat BY <1>1 DEF Reports!TypeOK
<1>7. Grown(rJob, frozen, rJob', frozen') BY <1>2, <1>6 DEF Grown
<1>8. \A j \in Reports!Keys : IsStaged(rJob', j) => IsStaged(rJob, j)
  BY <1>2, <1>5 DEF IsStaged
<1>9. JobsSound' BY <1>7, <1>8, JobsStay DEF IsStaged
<1> QED BY <1>2, <1>3, <1>4, <1>7, <1>8, <1>9, LoudKeeps

\* The job a handler is about to end, and the copy it has.
LEMMA HandlerCopy ==
  ASSUME CustomInv, NEW w \in Workers, NEW kind \in {"plan", "write", "review"},
         Reports!Handles(w, kind)
  PROVE  /\ rWorker[w].pc = "loaded" /\ rWorker[w].read \in Reports!Options
         /\ rWorker[w].job \in Reports!Keys /\ rWorker[w].job[1] = kind
         /\ rJob[rWorker[w].job].status = "running"
         /\ Reports!Needed(rWorker[w].job, rWorker[w].read)
         /\ CopySound(rWorker[w].read, rJob, frozen)
         /\ kind # "plan" =>
              /\ rWorker[w].read.life \notin {"cancelled", "ready"}
              /\ rWorker[w].read.snapshot = rWorker[w].job[2]
BY DEF CustomInv, Reports!TypeOK, Reports!WorkerState, CopiesSound, Reports!Handles,
   Reports!Commits, Reports!OwnsJob, Reports!Needed, Reports!Fenced

\* The jobs after a handler has ended with success.
LEMMA JobEnds ==
  ASSUME CustomInv, NEW w \in Workers, Reports!EndJob(w, rJob, "succeeded")
  PROVE  /\ rJob'[rWorker[w].job].status = "succeeded"
         /\ \A j \in Reports!Keys : rJob[j].status = "succeeded" => rJob'[j].status = "succeeded"
         /\ \A j \in Reports!Keys : rJob'[j].status = "absent" => rJob[j].status = "absent"
         /\ \A j \in Reports!Keys : j # rWorker[w].job => rJob'[j] = rJob[j]
<1>1. Reports!TypeOK /\ rJob \in [Reports!Keys -> Reports!Job] /\ "succeeded" \in JobStatuses
  BY DEF CustomInv, Reports!TypeOK, JobStatuses
<1> QED BY <1>1, HandlerEnds

\* Another job is staged.
LEMMA StagedJob ==
  ASSUME NEW jobs \in [Reports!Keys -> Reports!Job], NEW k \in Reports!Keys
  PROVE  /\ Reports!Staged(jobs, k) \in [Reports!Keys -> Reports!Job]
         /\ IsStaged(Reports!Staged(jobs, k), k)
         /\ jobs[k].status = "succeeded" => Reports!Staged(jobs, k)[k].status = "succeeded"
         /\ \A j \in Reports!Keys : j # k => Reports!Staged(jobs, k)[j] = jobs[j]
<1>1. Reports!QueuedJob \in Reports!Job /\ Reports!QueuedJob.status # "absent"
  BY CustomRows DEF Reports!QueuedJob
<1> QED BY <1>1 DEF Reports!Staged, IsStaged

\* The plan of a late planner: until its job has ended there is no draft to keep.
LEMMA ProposePlanKeeps ==
  ASSUME CustomInv, NEW w \in Workers, Reports!ProposePlan(w) PROVE CustomInv'
<1> DEFINE q == rWorker[w]
           new == [q.read EXCEPT !.planned = "proposed", !.life = "plan_proposed", !.proposed = TRUE]
<1>1. Reports!Handles(w, "plan") /\ Reports!EndJob(w, rJob, "succeeded") BY DEF Reports!ProposePlan
<1>2. /\ q.pc = "loaded" /\ q.read \in Reports!Options /\ q.job \in Reports!Keys
      /\ q.job[1] = "plan" /\ rJob[q.job].status = "running" /\ CopySound(q.read, rJob, frozen)
  BY <1>1, HandlerCopy
<1>3. q.job = Reports!Plan BY <1>2, CustomKeys
<1>4. /\ rJob'[q.job].status = "succeeded"
      /\ \A j \in Reports!Keys : rJob[j].status = "succeeded" => rJob'[j].status = "succeeded"
  BY <1>1, JobEnds
<1>5. new \in Reports!Options BY <1>2 DEF Reports!Options, Reports!Lives
<1>6. new.life = "plan_proposed" /\ new.snapshot = q.read.snapshot /\ new.draft = q.read.draft
  BY <1>2 DEF Reports!Options
<1>7. Reports!WriteReport(w, new, Reports!Plan) BY DEF Reports!ProposePlan
<1>8. /\ UNCHANGED <<frozen, request, calm, rFaults>> /\ approved' = approved
      /\ approved \subseteq 1..MaxPlans /\ Reports!Plan \in Reports!Keys
  BY CustomKeys DEF Reports!ProposePlan, CustomInv, Reports!TypeOK
<1>9. ~Outdated(q.read) BY <1>2, <1>3 DEF CopySound
<1>10. q.read.draft \in 0..MaxPlans /\ (q.read.draft # 0 => Reports!Write(q.read.draft) \in Reports!Keys)
  BY <1>2, CustomKeys DEF Reports!Options
<1>11. ~Outdated(new) BY <1>6, <1>9 DEF Outdated
<1> HIDE DEF new
<1>12. CopySound(new, rJob', frozen)
  BY <1>2, <1>3, <1>4, <1>6, <1>10, <1>11 DEF CopySound, Reports!None
<1>13. RowSound(new, rJob', frozen, approved') BY <1>6, <1>11, <1>12 DEF RowSound
<1> HIDE DEF q
<1> QED BY <1>1, <1>2, <1>5, <1>7, <1>8, <1>13, HandlerKeeps DEF q

\* The draft of the snapshot the copy has.
LEMMA WriteDraftKeeps ==
  ASSUME CustomInv, NEW w \in Workers, Reports!WriteDraft(w) PROVE CustomInv'
<1> DEFINE q == rWorker[w]
           s == q.job[2]
           new == [q.read EXCEPT !.draft = s, !.life = "reviewing"]
           jobs == Reports!Staged(rJob, Reports!Review(s))
<1>1. Reports!Handles(w, "write") /\ Reports!EndJob(w, jobs, "succeeded")
      /\ Reports!WriteReport(w, new, Reports!Review(s))
      /\ UNCHANGED <<frozen, approved, request, calm, rFaults>>
  BY DEF Reports!WriteDraft, Reports!ReviewJob
<1>2. /\ q.pc = "loaded" /\ q.read \in Reports!Options /\ q.job \in Reports!Keys
      /\ q.job[1] = "write" /\ rJob[q.job].status = "running" /\ CopySound(q.read, rJob, frozen)
      /\ q.read.snapshot = s
  BY <1>1, HandlerCopy
<1>3. q.job = Reports!Write(s) /\ s \in 1..MaxPlans BY <1>2, CustomKeys
<1>4. Reports!Review(s) \in Reports!Keys /\ Reports!Write(s) # Reports!Review(s) BY <1>3, CustomKeys
<1>5. Reports!TypeOK /\ rJob \in [Reports!Keys -> Reports!Job] /\ "succeeded" \in JobStatuses
  BY DEF CustomInv, Reports!TypeOK, JobStatuses
<1>6. /\ jobs \in [Reports!Keys -> Reports!Job] /\ IsStaged(jobs, Reports!Review(s))
      /\ rJob[Reports!Review(s)].status = "succeeded" => jobs[Reports!Review(s)].status = "succeeded"
      /\ \A j \in Reports!Keys : j # Reports!Review(s) => jobs[j] = rJob[j]
  BY <1>4, <1>5, StagedJob
<1>7. new \in Reports!Options /\ new.draft = s /\ new.life = "reviewing" /\ new.snapshot = s
  BY <1>2, <1>3 DEF Reports!Options, Reports!Lives
<1>8. q.read.draft # s BY <1>2, <1>3, CustomKeys DEF CopySound, Reports!None
<1>9. new # q.read BY <1>7, <1>8
<1> HIDE DEF q, new, jobs, s
<1>10. /\ rJob' \in [Reports!Keys -> Reports!Job] /\ rWorker' \in [Workers -> Reports!WorkerState]
       /\ rJob'[q.job].status = "succeeded"
       /\ \A j \in Reports!Keys : j # q.job => rJob'[j] = jobs[j]
       /\ rWorker'[w].pc = "idle" /\ \A v \in Workers : v # w => rWorker'[v] = rWorker[v]
  BY <1>1, <1>5, <1>6, HandlerEnds DEF q
<1>11. report' \in Reports!Report /\ report'.options = new
  BY <1>1, <1>4, <1>5, <1>7, <1>9, HandlerWrites DEF q
<1>12. Reports!TypeOK' BY <1>1, <1>5, <1>10, <1>11 DEF Reports!TypeOK
<1>13. ASSUME NEW j \in Reports!Keys
       PROVE  /\ rJob[j].status # "absent" => rJob'[j].status # "absent"
              /\ rJob[j].status = "succeeded" => rJob'[j].status = "succeeded"
              /\ rJob'[j].status # "absent" /\ j # Reports!Review(s) => rJob[j].status # "absent"
  <2>1. CASE j = q.job BY <1>2, <1>10, <2>1
  <2>2. CASE j # q.job BY <1>6, <1>10, <2>2 DEF IsStaged
  <2> QED BY <2>1, <2>2
<1>14. Grown(rJob, frozen, rJob', frozen')
  <2>1. Len(frozen) \in Nat BY <1>5 DEF Reports!TypeOK
  <2> QED BY <1>1, <1>13, <2>1 DEF Grown
<1>15. JobsSound'
  <2>1. ASSUME NEW t \in 1..MaxPlans
        PROVE  /\ IsStaged(rJob', Reports!Write(t)) => t <= Len(frozen') /\ frozen'[t]
               /\ IsStaged(rJob', Reports!Review(t)) => rJob'[Reports!Write(t)].status = "succeeded"
    <3>1. Reports!Write(t) \in Reports!Keys /\ Reports!Review(t) \in Reports!Keys
          /\ Reports!Write(t) # Reports!Review(s) /\ (t # s => Reports!Review(t) # Reports!Review(s))
      BY <1>3, CustomKeys
    <3>2. IsStaged(rJob', Reports!Write(t)) => t <= Len(frozen') /\ frozen'[t]
      BY <1>1, <1>13, <3>1 DEF CustomInv, JobsSound, IsStaged
    <3>3. CASE t = s BY <1>3, <1>10, <3>2, <3>3
    <3>4. CASE t # s BY <1>13, <3>1, <3>2, <3>4 DEF CustomInv, JobsSound, IsStaged
    <3> QED BY <3>3, <3>4
  <2> QED BY <2>1 DEF JobsSound
<1>16. RowSound(new, rJob', frozen', approved')
  <2>1. ~Outdated(new) BY <1>7 DEF Outdated
  <2>2. CopySound(new, rJob', frozen')
    BY <1>1, <1>2, <1>3, <1>7, <1>10, <2>1 DEF CopySound, Reports!None
  <2> QED BY <1>7, <2>1, <2>2 DEF RowSound
<1> QED BY <1>1, <1>10, <1>11, <1>12, <1>14, <1>15, <1>16, LoudKeeps

LEMMA FailReportKeeps ==
  ASSUME CustomInv, NEW w \in Workers, Reports!FailReport(w) PROVE CustomInv'
<1> DEFINE q == rWorker[w]
           new == [q.read EXCEPT !.life = "failed"]
<1>1. PICK kind \in {"write", "review"} : Reports!Handles(w, kind) BY DEF Reports!FailReport
<1>2. /\ q.pc = "loaded" /\ q.read \in Reports!Options /\ q.job \in Reports!Keys
      /\ q.job[1] = kind /\ rJob[q.job].status = "running" /\ CopySound(q.read, rJob, frozen)
      /\ q.read.snapshot = q.job[2] /\ Reports!Needed(q.job, q.read)
  BY <1>1, HandlerCopy
<1>3. /\ Reports!EndJob(w, rJob, "succeeded") /\ Reports!WriteReport(w, new, q.job)
      /\ UNCHANGED <<frozen, request, calm, rFaults>> /\ approved' = approved
      /\ approved \subseteq 1..MaxPlans
  BY DEF Reports!FailReport, CustomInv, Reports!TypeOK
<1>4. /\ rJob'[q.job].status = "succeeded"
      /\ \A j \in Reports!Keys : rJob[j].status = "succeeded" => rJob'[j].status = "succeeded"
      /\ \A j \in Reports!Keys : rJob'[j].status = "absent" => rJob[j].status = "absent"
      /\ \A j \in Reports!Keys : j # q.job => rJob'[j] = rJob[j]
  BY <1>3, JobEnds
<1>5. new \in Reports!Options BY <1>2 DEF Reports!Options, Reports!Lives
<1>6. new.life = "failed" /\ new.snapshot = q.read.snapshot /\ new.draft = q.read.draft
  BY <1>2 DEF Reports!Options
<1>7. q.read.draft \in 0..MaxPlans /\ (q.read.draft # 0 => Reports!Write(q.read.draft) \in Reports!Keys)
  BY <1>2, CustomKeys DEF Reports!Options
<1>8. ~Outdated(q.read) \/ q.job = Reports!Write(q.read.snapshot)
  BY <1>2, CustomKeys DEF CustomInv, ReviewersSound
<1>9. Outdated(new) <=> Outdated(q.read) BY <1>6 DEF Outdated
<1>10. Reports!Plan \in Reports!Keys BY CustomKeys
<1>11. Outdated(q.read) => ~IsStaged(rJob', Reports!Review(q.read.snapshot))
  <2>1. SUFFICES ASSUME q.job = Reports!Write(q.read.snapshot)
                 PROVE  ~IsStaged(rJob', Reports!Review(q.read.snapshot))
    BY <1>8
  <2>2. q.read.snapshot \in 1..MaxPlans BY <1>2, CustomKeys
  <2>3. Reports!Review(q.read.snapshot) \in Reports!Keys /\ Reports!Review(q.read.snapshot) # q.job
    BY <2>1, <2>2, CustomKeys
  <2>4. ~IsStaged(rJob, Reports!Review(q.read.snapshot))
    BY <1>2, <2>1, <2>2 DEF CustomInv, JobsSound
  <2> QED BY <1>4, <2>3, <2>4 DEF IsStaged
<1> HIDE DEF new
<1>12. CopySound(new, rJob', frozen)
  BY <1>2, <1>4, <1>6, <1>7, <1>8, <1>9, <1>10 DEF CopySound, Reports!None
<1>13. RowSound(new, rJob', frozen, approved') BY <1>6, <1>9, <1>11, <1>12 DEF RowSound
<1> HIDE DEF q
<1> QED BY <1>2, <1>3, <1>5, <1>13, HandlerKeeps DEF q

\* What is published was reviewed, and it is the draft of the snapshot of its job.
LEMMA PublishKeeps ==
  ASSUME CustomInv, NEW w \in Workers, Reports!PublishArtifact(w) PROVE CustomInv'
<1> DEFINE q == rWorker[w]
           s == q.job[2]
           o == q.read
           new == [o EXCEPT !.life = "ready", !.artifact = [snapshot |-> o.snapshot, draft |-> o.draft]]
<1>1. /\ Reports!Handles(w, "review") /\ Reports!EndJob(w, rJob, "succeeded")
      /\ Reports!WriteReport(w, new, q.job) /\ o.draft # Reports!None
      /\ approved' = approved \cup {o.draft}
      /\ UNCHANGED <<frozen, request, calm, rFaults>>
  BY DEF Reports!PublishArtifact
<1>2. /\ q.pc = "loaded" /\ o \in Reports!Options /\ q.job \in Reports!Keys
      /\ q.job[1] = "review" /\ rJob[q.job].status = "running" /\ CopySound(o, rJob, frozen)
      /\ o.snapshot = s /\ Reports!Needed(q.job, o)
  BY <1>1, HandlerCopy
<1>3. q.job = Reports!Review(s) /\ s \in 1..MaxPlans BY <1>2, CustomKeys
<1>4. o.draft = s BY <1>1, <1>2 DEF CustomInv, ReviewersSound, Outdated
<1>5. s <= Len(frozen) /\ frozen[s]
  <2>1. IsStaged(rJob, Reports!Review(s)) BY <1>2, <1>3 DEF IsStaged
  <2>2. IsStaged(rJob, Reports!Write(s)) BY <1>3, <2>1 DEF CustomInv, JobsSound, IsStaged
  <2> QED BY <1>3, <2>2 DEF CustomInv, JobsSound
<1>6. /\ \A j \in Reports!Keys : rJob[j].status = "succeeded" => rJob'[j].status = "succeeded"
  BY <1>1, JobEnds
<1>7. o.snapshot \in 0..MaxPlans /\ o.draft \in 0..MaxPlans BY <1>2 DEF Reports!Options
<1>8. new \in Reports!Options BY <1>2, <1>7 DEF Reports!Options, Reports!Lives
<1>9. /\ new.life = "ready" /\ new.snapshot = s /\ new.draft = s
      /\ new.artifact = [snapshot |-> s, draft |-> s]
  BY <1>2, <1>4 DEF Reports!Options
<1>10. approved \subseteq approved' /\ approved' \subseteq 1..MaxPlans /\ s \in approved'
  BY <1>1, <1>3, <1>4 DEF CustomInv, Reports!TypeOK
<1>11. s \in DOMAIN frozen
  <2>1. frozen \in Seq(BOOLEAN) BY DEF CustomInv, Reports!TypeOK
  <2> QED BY <1>3, <1>5, <2>1
<1>12. Reports!Write(s) \in Reports!Keys BY <1>3, CustomKeys
<1>13. rJob[Reports!Write(s)].status = "succeeded" BY <1>1, <1>2, <1>4 DEF CopySound
<1> HIDE DEF new
<1>14. ~Outdated(new) BY <1>9 DEF Outdated
<1>15. CopySound(new, rJob', frozen)
  BY <1>3, <1>5, <1>6, <1>9, <1>12, <1>13, <1>14 DEF CopySound, Reports!None
<1>16. RowSound(new, rJob', frozen, approved')
  BY <1>5, <1>9, <1>10, <1>11, <1>14, <1>15 DEF RowSound
<1> HIDE DEF q, s, o
<1> QED BY <1>1, <1>2, <1>8, <1>10, <1>16, HandlerKeeps DEF q

\* What a request has loaded.
LEMMA RequestCopy ==
  ASSUME CustomInv, NEW r \in Clients, NEW kind, Reports!Loaded(r, kind)
  PROVE  /\ Reports!TypeOK /\ request[r].read \in Reports!Report
         /\ request[r].read.options \in Reports!Options /\ request[r].read.job \in Reports!Keys
         /\ CopySound(request[r].read.options, rJob, frozen)
         /\ Reports!Allows(kind, request[r].read.options.life)
<1>1. request[r].pc = "loaded" /\ request[r].kind = kind BY DEF Reports!Loaded
<1>2. Reports!TypeOK /\ request[r] \in Reports!Request BY DEF CustomInv, Reports!TypeOK
<1>3. request[r].read \in Reports!Report BY <1>2 DEF Reports!Request
<1> QED BY <1>1, <1>2, <1>3 DEF CustomInv, CopiesSound, RequestsSound, Reports!Report

LEMMA NewRow ==
  ASSUME Reports!TypeOK, NEW r \in Clients, NEW o \in Reports!Options
  PROVE  Reports!With(r, o) \in Reports!Report /\ Reports!With(r, o).options = o
<1>1. request[r] \in Reports!Request BY DEF Reports!TypeOK
<1>2. request[r].read \in Reports!Report BY <1>1 DEF Reports!Request
<1> QED BY <1>2 DEF Reports!With, Reports!Report

\* A request that writes the options, and stages no job.
LEMMA RequestKeeps ==
  ASSUME CustomInv, NEW r \in Clients, NEW o \in Reports!Options,
         Reports!Commit(r, Reports!With(r, o)), Reports!Answered(r),
         rJob' \in [Reports!Keys -> Reports!Job],
         \A k \in Reports!Keys : rJob'[k].status = rJob[k].status,
         UNCHANGED <<frozen, approved, rWorker, calm, rFaults>>,
         RowSound(o, rJob, frozen, approved)
  PROVE  CustomInv'
<1>1. Reports!TypeOK BY DEF CustomInv
<1>2. /\ request' \in [Clients -> Reports!Request]
      /\ request'[r].pc = "idle" /\ \A c \in Clients : c # r => request'[c] = request[c]
  BY <1>1, RequestAnswered
<1>3. report' \in Reports!Report /\ (report'.options = report.options \/ report'.options = o)
  <2>1. Reports!With(r, o) \in Reports!Report /\ Reports!With(r, o).options = o BY <1>1, NewRow
  <2> QED BY <1>1, <2>1, RequestWrites
<1>4. Reports!TypeOK' BY <1>1, <1>2, <1>3 DEF Reports!TypeOK
<1>5. Len(frozen) \in Nat BY <1>1 DEF Reports!TypeOK
<1>6. Grown(rJob, frozen, rJob', frozen') BY <1>5 DEF Grown
<1>7. JobsSound' BY <1>6, JobsStay
<1>8. RowSound(report.options, rJob, frozen, approved) BY RowIsSound
<1>9. ASSUME NEW p \in Reports!Options, RowSound(p, rJob, frozen, approved)
      PROVE  RowSound(p, rJob', frozen', approved')
  <2>1. CopySound(p, rJob', frozen')
    BY <1>1, <1>6, <1>9, CopyStays DEF RowSound, Reports!TypeOK
  <2>2. p.snapshot \in 0..MaxPlans BY DEF Reports!Options
  <2>3. Outdated(p) => Reports!Review(p.snapshot) \in Reports!Keys
    BY <1>9, <2>2, CustomKeys DEF RowSound, CopySound, Outdated, Reports!None
  <2> QED BY <1>9, <2>1, <2>3 DEF RowSound, IsStaged
<1>10. RowSound(report'.options, rJob', frozen', approved')
  BY <1>1, <1>3, <1>8, <1>9 DEF Reports!TypeOK, Reports!Report
<1> QED BY <1>2, <1>4, <1>6, <1>7, <1>10, LoudKeeps

LEMMA EditPlanKeeps ==
  ASSUME CustomInv, NEW r \in Clients, Reports!EditPlan(r) PROVE CustomInv'
<1> DEFINE o == request[r].read.options
           new == [o EXCEPT !.planned = "proposed", !.life = "plan_proposed", !.proposed = TRUE]
<1>1. /\ Reports!Loaded(r, "edit") /\ Reports!Commit(r, Reports!With(r, new)) /\ Reports!Answered(r)
      /\ UNCHANGED <<frozen, approved, rJob, rWorker, calm, rFaults>>
  BY DEF Reports!EditPlan
<1>2. /\ o \in Reports!Options /\ CopySound(o, rJob, frozen)
      /\ o.life \in {"brief_draft", "plan_proposed"}
  BY <1>1, RequestCopy DEF Reports!Allows
<1>3. new \in Reports!Options BY <1>2 DEF Reports!Options, Reports!Lives
<1>4. new.life = "plan_proposed" /\ new.snapshot = o.snapshot /\ new.draft = o.draft
  BY <1>2 DEF Reports!Options
<1>5. rJob' \in [Reports!Keys -> Reports!Job] /\ \A k \in Reports!Keys : rJob'[k].status = rJob[k].status
  BY <1>1 DEF CustomInv, Reports!TypeOK
<1> HIDE DEF new
<1>6. ~Outdated(new) BY <1>2, <1>4 DEF CopySound, Outdated
<1>7. RowSound(new, rJob, frozen, approved)
  BY <1>2, <1>4, <1>6 DEF CopySound, RowSound
<1> HIDE DEF o
<1> QED BY <1>1, <1>3, <1>5, <1>7, RequestKeeps

LEMMA RejectPlanKeeps ==
  ASSUME CustomInv, NEW r \in Clients, Reports!RejectPlan(r) PROVE CustomInv'
<1> DEFINE o == request[r].read.options
           new == [o EXCEPT !.planned = "draft", !.life = "brief_draft", !.proposed = FALSE]
<1>1. /\ Reports!Loaded(r, "reject") /\ Reports!Commit(r, Reports!With(r, new)) /\ Reports!Answered(r)
      /\ UNCHANGED <<frozen, approved, rJob, rWorker, calm, rFaults>>
  BY DEF Reports!RejectPlan
<1>2. /\ o \in Reports!Options /\ CopySound(o, rJob, frozen) /\ o.life = "plan_proposed"
  BY <1>1, RequestCopy DEF Reports!Allows
<1>3. new \in Reports!Options BY <1>2 DEF Reports!Options, Reports!Lives
<1>4. new.life = "brief_draft" /\ new.snapshot = o.snapshot /\ new.draft = o.draft
  BY <1>2 DEF Reports!Options
<1>5. rJob' \in [Reports!Keys -> Reports!Job] /\ \A k \in Reports!Keys : rJob'[k].status = rJob[k].status
  BY <1>1 DEF CustomInv, Reports!TypeOK
<1> HIDE DEF new
<1>6. ~Outdated(new) BY <1>2, <1>4 DEF CopySound, Outdated
<1>7. RowSound(new, rJob, frozen, approved)
  BY <1>2, <1>4, <1>6 DEF CopySound, RowSound
<1> HIDE DEF o
<1> QED BY <1>1, <1>3, <1>5, <1>7, RequestKeeps

LEMMA CancelReportKeeps ==
  ASSUME CustomInv, NEW r \in Clients, Reports!CancelReport(r) PROVE CustomInv'
<1> DEFINE o == request[r].read.options
           new == [o EXCEPT !.life = "cancelled"]
           k == request[r].read.job
           row == [rJob[k] EXCEPT !.cancel = TRUE]
<1>1. /\ Reports!Loaded(r, "cancel") /\ Reports!Commit(r, Reports!With(r, new)) /\ Reports!Answered(r)
      /\ rJob' = [rJob EXCEPT ![k] = row]
      /\ UNCHANGED <<frozen, approved, rWorker, calm, rFaults>>
  BY DEF Reports!CancelReport
<1>2. /\ o \in Reports!Options /\ CopySound(o, rJob, frozen) /\ k \in Reports!Keys
      /\ rJob \in [Reports!Keys -> Reports!Job]
  BY <1>1, RequestCopy DEF Reports!TypeOK
<1>3. new \in Reports!Options BY <1>2 DEF Reports!Options, Reports!Lives
<1>4. new.life = "cancelled" /\ new.snapshot = o.snapshot /\ new.draft = o.draft
  BY <1>2 DEF Reports!Options
<1>5. row \in Reports!Job /\ row.status = rJob[k].status BY <1>2 DEF Reports!Job
<1> HIDE DEF new, row, k
<1>6. rJob' \in [Reports!Keys -> Reports!Job] /\ \A j \in Reports!Keys : rJob'[j].status = rJob[j].status
  BY <1>1, <1>2, <1>5, OneJob
<1>7. Outdated(new) <=> Outdated(o) BY <1>4 DEF Outdated
<1>8. RowSound(new, rJob, frozen, approved)
  BY <1>2, <1>4, <1>7 DEF CopySound, RowSound
<1> HIDE DEF o
<1> QED BY <1>1, <1>3, <1>6, <1>8, RequestKeeps

\* The generation of a snapshot whose writing is staged now: its memory is durable,
\* and nothing of it has been written or reviewed.
LEMMA StartKeepsReport ==
  ASSUME CustomInv, NEW r \in Clients, NEW o \in Reports!Options,
         request[r].read.options.life # "generating",
         o.snapshot \in 1..MaxPlans, rJob[Reports!Write(o.snapshot)].status = "absent",
         Reports!StartGeneration(r, o), Reports!Answered(r),
         UNCHANGED <<approved, rWorker, calm, rFaults>>,
         frozen' \in Seq(BOOLEAN), Len(frozen) <= Len(frozen'), Len(frozen') <= MaxPlans,
         o.snapshot <= Len(frozen'), frozen'[o.snapshot],
         \A s \in 1..Len(frozen) : frozen'[s] = frozen[s],
         o.draft # Reports!None => rJob[Reports!Write(o.draft)].status = "succeeded",
         Outdated(o) => rJob[Reports!Plan].status = "succeeded"
  PROVE  CustomInv'
<1> DEFINE k == Reports!Write(o.snapshot)
           new == [o EXCEPT !.life = "generating", !.fence = o.snapshot]
           row == [options |-> new, job |-> k]
<1>1. /\ Reports!TypeOK /\ rJob \in [Reports!Keys -> Reports!Job] /\ frozen \in Seq(BOOLEAN)
      /\ k \in Reports!Keys /\ Reports!Review(o.snapshot) \in Reports!Keys
      /\ Reports!Review(o.snapshot) # k
  BY CustomKeys DEF CustomInv, Reports!TypeOK
<1>2. rJob' = Reports!Staged(rJob, k) /\ Reports!Commit(r, row) BY DEF Reports!StartGeneration
<1>3. /\ new \in Reports!Options /\ new.life = "generating"
      /\ new.snapshot = o.snapshot /\ new.draft = o.draft
  BY DEF Reports!Options, Reports!Lives
<1>4. row \in Reports!Report /\ row.options = new BY <1>1, <1>3 DEF Reports!Report
<1>5. report' \in Reports!Report /\ report'.options = new
  BY <1>1, <1>2, <1>3, <1>4, RequestWrites
<1>6. /\ request' \in [Clients -> Reports!Request]
      /\ request'[r].pc = "idle" /\ \A c \in Clients : c # r => request'[c] = request[c]
  BY <1>1, RequestAnswered
<1> HIDE DEF new, row, k
<1>7. /\ rJob' \in [Reports!Keys -> Reports!Job] /\ IsStaged(rJob', k)
      /\ \A j \in Reports!Keys : j # k => rJob'[j] = rJob[j]
  BY <1>1, <1>2, StagedJob
<1>8. Reports!TypeOK' BY <1>1, <1>5, <1>6, <1>7 DEF Reports!TypeOK
<1>9. Grown(rJob, frozen, rJob', frozen') BY <1>7 DEF Grown, IsStaged, k
<1>10. JobsSound'
  <2>1. ASSUME NEW t \in 1..MaxPlans
        PROVE  /\ IsStaged(rJob', Reports!Write(t)) => t <= Len(frozen') /\ frozen'[t]
               /\ IsStaged(rJob', Reports!Review(t)) => rJob'[Reports!Write(t)].status = "succeeded"
    <3>1. Reports!Write(t) \in Reports!Keys /\ Reports!Review(t) \in Reports!Keys /\ Reports!Review(t) # k
          /\ (t # o.snapshot => Reports!Write(t) # k)
      BY CustomKeys DEF k
    <3>2. IsStaged(rJob, Reports!Review(t)) => Reports!Write(t) # k
      BY DEF CustomInv, JobsSound, k
    <3>3. IsStaged(rJob', Reports!Review(t)) => rJob'[Reports!Write(t)].status = "succeeded"
      BY <1>7, <3>1, <3>2 DEF CustomInv, JobsSound, IsStaged
    <3>4. IsStaged(rJob, Reports!Write(t)) => t <= Len(frozen') /\ frozen'[t]
      <4>1. Len(frozen) \in Nat /\ Len(frozen') \in Nat BY <1>1
      <4> QED BY <4>1 DEF CustomInv, JobsSound
    <3>5. CASE t = o.snapshot BY <3>3, <3>5
    <3>6. CASE t # o.snapshot BY <1>7, <3>1, <3>3, <3>4, <3>6 DEF IsStaged
    <3> QED BY <3>5, <3>6
  <2> QED BY <2>1 DEF JobsSound
<1>11. ~IsStaged(rJob', Reports!Review(o.snapshot))
  <2>1. ~IsStaged(rJob, Reports!Review(o.snapshot)) BY DEF CustomInv, JobsSound
  <2> QED BY <1>1, <1>7, <2>1 DEF IsStaged
<1>12. RowSound(new, rJob', frozen', approved')
  <2>1. o.draft \in 0..MaxPlans /\ (o.draft # 0 => Reports!Write(o.draft) \in Reports!Keys)
        /\ o.snapshot # 0 /\ Reports!Plan \in Reports!Keys
    BY CustomKeys DEF Reports!Options
  <2>2. Outdated(new) <=> Outdated(o) BY <1>3 DEF Outdated
  <2>3. CopySound(new, rJob', frozen')
    BY <1>3, <1>9, <2>1, <2>2 DEF CopySound, Grown, Reports!None
  <2> QED BY <1>3, <1>11, <2>3 DEF RowSound
<1> QED BY <1>5, <1>6, <1>8, <1>9, <1>10, <1>12, LoudKeeps

LEMMA AcceptPlanKeeps ==
  ASSUME CustomInv, NEW r \in Clients, NEW durable \in BOOLEAN, NEW start \in BOOLEAN,
         Reports!AcceptPlan(r, durable, start)
  PROVE  CustomInv'
<1> DEFINE o == request[r].read.options
           n == Len(frozen) + 1
           life == IF durable THEN "plan_accepted" ELSE "accepted_degraded"
           new == [o EXCEPT !.planned = "accepted", !.snapshot = n, !.life = life]
<1>1. /\ Reports!Loaded(r, "accept") /\ Reports!Answered(r) /\ Len(frozen) < MaxPlans
      /\ frozen' = Append(frozen, durable)
      /\ UNCHANGED <<approved, rWorker, calm, rFaults>>
  BY DEF Reports!AcceptPlan
<1>2. /\ \/ durable /\ Reports!StartGeneration(r, new)
         \/ Reports!Commit(r, Reports!With(r, new)) /\ rJob' = rJob
  BY DEF Reports!AcceptPlan
<1>3. /\ Reports!TypeOK /\ frozen \in Seq(BOOLEAN) /\ rJob \in [Reports!Keys -> Reports!Job]
      /\ o \in Reports!Options /\ CopySound(o, rJob, frozen) /\ o.life = "plan_proposed"
  BY <1>1, RequestCopy DEF Reports!Allows, Reports!TypeOK
<1>4. n \in 1..MaxPlans /\ Len(frozen) \in Nat
  BY <1>1, <1>3, CustomKeys
<1>5. new \in Reports!Options
  <2>1. life \in Reports!Lives /\ n \in 0..MaxPlans BY <1>4 DEF Reports!Lives
  <2> HIDE DEF life, n
  <2> QED BY <1>3, <2>1 DEF Reports!Options
<1>6. /\ new.life \in {"plan_accepted", "accepted_degraded"}
      /\ new.snapshot = n /\ new.draft = o.draft
  BY <1>3 DEF Reports!Options
<1>7. /\ frozen' \in Seq(BOOLEAN) /\ Len(frozen') = n /\ frozen'[n] = durable
      /\ \A s \in 1..Len(frozen) : frozen'[s] = frozen[s]
  BY <1>1, <1>3
<1>8. ~IsStaged(rJob, Reports!Write(n)) /\ ~IsStaged(rJob, Reports!Review(n))
  <2>1. ~IsStaged(rJob, Reports!Write(n)) BY <1>4 DEF CustomInv, JobsSound
  <2> QED BY <1>4, <2>1 DEF CustomInv, JobsSound, IsStaged
<1>9. /\ new.draft # Reports!None => rJob[Reports!Write(new.draft)].status = "succeeded"
      /\ Outdated(new) => rJob[Reports!Plan].status = "succeeded"
  BY <1>3, <1>6 DEF CopySound, Outdated
<1>10. CASE durable /\ Reports!StartGeneration(r, new)
  <2> HIDE DEF new, n
  <2>1. /\ request[r].read.options.life # "generating" /\ new.snapshot \in 1..MaxPlans
        /\ rJob[Reports!Write(new.snapshot)].status = "absent"
        /\ Len(frozen) <= Len(frozen') /\ Len(frozen') <= MaxPlans
        /\ new.snapshot <= Len(frozen') /\ frozen'[new.snapshot]
    BY <1>3, <1>4, <1>6, <1>7, <1>8, <1>10 DEF IsStaged, n
  <2> QED BY <1>1, <1>5, <1>7, <1>9, <1>10, <2>1, StartKeepsReport
<1>11. CASE Reports!Commit(r, Reports!With(r, new)) /\ rJob' = rJob
  <2> HIDE DEF new, o
  <2>1. new # o
    <3>1. o.snapshot <= Len(frozen) /\ o.snapshot \in 0..MaxPlans
      BY <1>3 DEF CopySound, Reports!Options
    <3> QED BY <1>4, <1>6, <3>1
  <2>2. report' \in Reports!Report /\ report'.options = new
    <3>1. Reports!With(r, new) \in Reports!Report /\ Reports!With(r, new).options = new
      BY <1>3, <1>5, NewRow
    <3> QED BY <1>3, <1>11, <2>1, <3>1, RequestWrites DEF o
  <2>3. /\ request' \in [Clients -> Reports!Request]
        /\ request'[r].pc = "idle" /\ \A c \in Clients : c # r => request'[c] = request[c]
    BY <1>1, <1>3, RequestAnswered
  <2>4. Reports!TypeOK'
    BY <1>1, <1>3, <1>4, <1>7, <1>11, <2>2, <2>3 DEF Reports!TypeOK
  <2>5. Grown(rJob, frozen, rJob', frozen') BY <1>4, <1>7, <1>11 DEF Grown
  <2>6. JobsSound'
    BY <1>4, <1>7, <1>11 DEF CustomInv, JobsSound, IsStaged
  <2>7. RowSound(new, rJob', frozen', approved')
    BY <1>4, <1>6, <1>7, <1>8, <1>9, <1>11 DEF RowSound, CopySound, Reports!None
  <2> QED BY <1>1, <1>7, <2>2, <2>3, <2>4, <2>5, <2>6, <2>7, LoudKeeps
<1> QED BY <1>2, <1>10, <1>11

LEMMA RetryReportKeeps ==
  ASSUME CustomInv, NEW r \in Clients, Reports!RetryReport(r) PROVE CustomInv'
<1> DEFINE o == request[r].read.options
           again == [o EXCEPT !.life = "brief_draft", !.planned = "draft"]
           new == [o EXCEPT !.life = "plan_accepted", !.planned = "accepted"]
<1>1. /\ Reports!Loaded(r, "retry") /\ Reports!Answered(r)
      /\ UNCHANGED <<frozen, approved, rWorker, calm, rFaults>>
  BY DEF Reports!RetryReport
<1>2. /\ Reports!TypeOK /\ frozen \in Seq(BOOLEAN) /\ rJob \in [Reports!Keys -> Reports!Job]
      /\ Len(frozen) <= MaxPlans
      /\ o \in Reports!Options /\ CopySound(o, rJob, frozen) /\ o.life = "failed"
  BY <1>1, RequestCopy DEF Reports!Allows, Reports!TypeOK
<1>3. /\ o.snapshot = Reports!None =>
           Reports!Commit(r, Reports!With(r, again)) /\ rJob' = rJob
      /\ o.snapshot # Reports!None /\ frozen[o.snapshot] => Reports!StartGeneration(r, new)
      /\ o.snapshot # Reports!None /\ ~frozen[o.snapshot] => UNCHANGED <<report, rJob>>
  BY DEF Reports!RetryReport
<1>4. CASE o.snapshot = Reports!None
  <2>1. again \in Reports!Options BY <1>2 DEF Reports!Options, Reports!Lives
  <2>2. again.life = "brief_draft" /\ again.snapshot = o.snapshot /\ again.draft = o.draft
    BY <1>2 DEF Reports!Options
  <2> HIDE DEF again
  <2>3. again.draft = Reports!None BY <1>2, <1>4, <2>2 DEF CopySound
  <2>4. RowSound(again, rJob, frozen, approved)
    BY <1>2, <2>2, <2>3 DEF RowSound, CopySound, Outdated
  <2>5. rJob' \in [Reports!Keys -> Reports!Job] /\ \A k \in Reports!Keys : rJob'[k].status = rJob[k].status
    BY <1>2, <1>3, <1>4
  <2> QED BY <1>1, <1>3, <1>4, <2>1, <2>4, <2>5, RequestKeeps
<1>5. CASE o.snapshot # Reports!None /\ ~frozen[o.snapshot]
  BY <1>1, <1>3, <1>5, RequestQuiet
<1>6. CASE o.snapshot # Reports!None /\ frozen[o.snapshot]
  <2>1. new \in Reports!Options BY <1>2 DEF Reports!Options, Reports!Lives
  <2>2. new.life = "plan_accepted" /\ new.snapshot = o.snapshot /\ new.draft = o.draft
    BY <1>2 DEF Reports!Options
  <2>3. o.snapshot \in 1..MaxPlans /\ o.snapshot <= Len(frozen)
    BY <1>2, <1>6, CustomKeys DEF Reports!Options, Reports!None, CopySound
  <2> HIDE DEF new
  <2>4. CASE rJob[Reports!Write(new.snapshot)].status = "absent"
    <3>1. ~Outdated(new) BY <1>2, <2>2, <2>4 DEF CopySound, Outdated
    <3>2. new.draft # Reports!None => rJob[Reports!Write(new.draft)].status = "succeeded"
      BY <1>2, <2>2 DEF CopySound
    <3>3. Len(frozen) \in Nat BY <1>2
    <3> QED BY <1>1, <1>2, <1>3, <1>6, <2>1, <2>2, <2>3, <2>4, <3>1, <3>2, <3>3, StartKeepsReport
  <2>5. CASE rJob[Reports!Write(new.snapshot)].status # "absent"
    <3>1. UNCHANGED <<report, rJob>> BY <1>3, <1>6, <2>5 DEF Reports!StartGeneration
    <3> QED BY <1>1, <3>1, RequestQuiet
  <2> QED BY <2>4, <2>5
<1> QED BY <1>4, <1>5, <1>6

LEMMA CustomStep == CustomInv /\ [Reports!Next]_(Reports!vars) => CustomInv'
<1> SUFFICES ASSUME CustomInv, [Reports!Next]_(Reports!vars) PROVE CustomInv' OBVIOUS
<1>1. CASE UNCHANGED Reports!vars
  BY <1>1 DEF Reports!vars, CustomInv, Reports!TypeOK, CopiesSound, JobsSound, ReviewersSound,
     RequestsSound, Reports!DownloadsAreReviewed, CopySound, IsStaged
<1>2. ASSUME NEW w \in Workers, Reports!WorkerStep(w) PROVE CustomInv'
  <2>1. ASSUME NEW k \in Reports!Keys, Reports!Start(w, k) PROVE CustomInv' BY <2>1, StartKeeps
  <2>2. CASE Reports!ProposePlan(w) BY <2>2, ProposePlanKeeps
  <2>3. CASE Reports!WriteDraft(w) BY <2>3, WriteDraftKeeps
  <2>4. CASE Reports!FailReport(w) BY <2>4, FailReportKeeps
  <2>5. CASE Reports!PublishArtifact(w) BY <2>5, PublishKeeps
  <2>6. CASE Reports!Drop(w) \/ Reports!RaiseError(w) \/ Reports!RollBack(w) BY <2>6, NothingWritten
  <2> QED BY <1>2, <2>1, <2>2, <2>3, <2>4, <2>5, <2>6 DEF Reports!WorkerStep
<1>3. ASSUME NEW k \in Reports!Keys,
             Reports!LeaseExpires(k) \/ Reports!CancelJob(k) \/ Reports!RetryJob(k)
      PROVE  CustomInv'
  BY <1>3, JobRoutesKeep
<1>4. ASSUME NEW r \in Clients, Reports!RequestStep(r) PROVE CustomInv'
  <2>1. CASE Reports!EditPlan(r) BY <2>1, EditPlanKeeps
  <2>2. CASE Reports!RejectPlan(r) BY <2>2, RejectPlanKeeps
  <2>3. CASE Reports!CancelReport(r) BY <2>3, CancelReportKeeps
  <2>4. CASE Reports!RetryReport(r) BY <2>4, RetryReportKeeps
  <2>5. CASE Reports!RequestDies(r) BY <2>5, RequestQuiet DEF Reports!RequestDies
  <2>6. ASSUME NEW durable \in BOOLEAN, NEW start \in BOOLEAN, Reports!AcceptPlan(r, durable, start)
        PROVE  CustomInv'
    BY <2>6, AcceptPlanKeeps
  <2> QED BY <1>4, <2>1, <2>2, <2>3, <2>4, <2>5, <2>6 DEF Reports!RequestStep
<1>5. ASSUME NEW r \in Clients, NEW kind \in Reports!RequestKinds, Reports!Load(r, kind)
      PROVE  CustomInv'
  BY <1>5, RequestQuiet
<1> QED BY <1>1, <1>2, <1>3, <1>4, <1>5 DEF Reports!Next

LEMMA CustomAlways == PlatformSpec => []CustomInv
<1>1. PlatformInit => CustomInv BY CustomInit DEF PlatformInit
<1>2. CustomInv /\ [PlatformNext]_allVars => CustomInv'
  <2> SUFFICES ASSUME CustomInv, [PlatformNext]_allVars PROVE CustomInv' OBVIOUS
  <2>1. [Reports!Next]_Reports!vars
    BY DEF PlatformNext, OutboxNext, AgentsNext, UploadsNext, ExportsNext, ReportsNext,
       allVars, reportVars, Reports!vars
  <2> QED BY <2>1, CustomStep
<1> QED BY <1>1, <1>2, PTL DEF PlatformSpec

\* What a reader can download was made of the draft written from the snapshot it
\* names, whose memory is durable, and the review approved it, for any number of
\* workers, requests, plans and faults, patient users or not, whatever late copies
\* of the options are written over the row (process_custom_brief_review,
\* get_downloadable_artifact).
THEOREM DownloadsStayReviewed == PlatformSpec => []DownloadsAreReviewed
<1>1. CustomInv => DownloadsAreReviewed BY DEF CustomInv, DownloadsAreReviewed
<1> QED BY <1>1, CustomAlways, PTL

\* The life of a report whose users are calm, from which what is settled follows: one plan is
\* accepted at most, and the report names the one job that has not ended.
Unfinished(k) == rJob[k].status \notin {"absent", "succeeded"}

CalmPlan ==
  /\ report.options.life \in {"brief_draft", "plan_proposed"} => frozen = <<>>
  /\ frozen = <<>> => report.options.life \in {"brief_draft", "plan_proposed", "cancelled"}
  /\ Unfinished(Reports!Plan) =>
       /\ report.job = Reports!Plan
       /\ \/ report.options.life = "brief_draft"
          \/ report.options.life = "cancelled" /\ rJob[Reports!Plan].cancel
  /\ \A r \in Clients : request[r].pc = "loaded" /\ request[r].kind = "edit" =>
       rJob[Reports!Plan].status = "succeeded"

CalmJobs ==
  /\ \A s \in 1..MaxPlans :
       /\ Unfinished(Reports!Write(s)) =>
            report.job = Reports!Write(s) /\ report.options.life \in {"generating", "cancelled"}
       /\ Unfinished(Reports!Review(s)) =>
            report.job = Reports!Review(s) /\ report.options.life \in {"reviewing", "cancelled"}
       /\ IsStaged(rJob, Reports!Write(s)) =>
            report.options.life \notin {"brief_draft", "plan_proposed"}
  /\ report.options.life = "failed" =>
       /\ report.options.snapshot # Reports!None
       /\ IsStaged(rJob, Reports!Write(report.options.snapshot))

\* Who owns the job of a cancelled report has been told, or has loaded it so.
CalmWorkers ==
  \A w \in Workers : rWorker[w].pc = "loaded" =>
    /\ rWorker[w].lease <= rJob[rWorker[w].job].lease
    /\ report.options.life = "cancelled" /\ Reports!Commits(w) =>
         rWorker[w].job # Reports!Plan /\ rWorker[w].read.life = "cancelled"

CalmInv == calm => CalmPlan /\ CalmJobs /\ CalmWorkers

LEMMA CalmInit == Reports!Init => CalmInv
<1> SUFFICES ASSUME Reports!Init PROVE CalmPlan /\ CalmJobs /\ CalmWorkers BY DEF CalmInv
<1>1. /\ report = Reports!NewReport /\ frozen = <<>>
      /\ rJob = [k \in Reports!Keys |-> IF k = Reports!Plan THEN Reports!QueuedJob ELSE Reports!AbsentJob]
      /\ rWorker = [w \in Workers |-> Reports!IdleWorker]
      /\ request = [r \in Clients |-> Reports!IdleRequest]
  BY DEF Reports!Init
<1>2. report.options.life = "brief_draft" /\ report.job = Reports!Plan
  BY <1>1 DEF Reports!NewReport, Reports!NewOptions
<1>3. /\ \A w \in Workers : rWorker[w].pc = "idle"
      /\ \A r \in Clients : request[r].pc = "idle"
  BY <1>1 DEF Reports!IdleWorker, Reports!IdleRequest
<1>4. \A k \in Reports!Keys : k # Reports!Plan => rJob[k].status = "absent"
  BY <1>1 DEF Reports!AbsentJob, Reports!QueuedJob
<1>5. CalmPlan BY <1>1, <1>2, <1>3 DEF CalmPlan
<1>6. CalmJobs BY <1>2, <1>4, CustomKeys DEF CalmJobs, IsStaged, Unfinished
<1>7. CalmWorkers BY <1>3 DEF CalmWorkers
<1> QED BY <1>5, <1>6, <1>7

\* The one job that has not ended.
LEMMA CalmOnly ==
  ASSUME CalmPlan, CalmJobs, NEW k \in Reports!Keys, Unfinished(k)
  PROVE  /\ report.job = k
         /\ k = Reports!Plan => report.options.life \in {"brief_draft", "cancelled"}
         /\ k[1] = "write" => report.options.life \in {"generating", "cancelled"}
         /\ k[1] = "review" => report.options.life \in {"reviewing", "cancelled"}
<1>1. CASE k = Reports!Plan BY <1>1, CustomKeys DEF CalmPlan
<1>2. CASE k[1] = "write" /\ k[2] \in 1..MaxPlans /\ k = Reports!Write(k[2])
  BY <1>2, CustomKeys DEF CalmJobs
<1>3. CASE k[1] = "review" /\ k[2] \in 1..MaxPlans /\ k = Reports!Review(k[2])
  BY <1>3, CustomKeys DEF CalmJobs
<1> QED BY <1>1, <1>2, <1>3, CustomKeys

\* What a handler that writes finds: the row is where its job has left it.
LEMMA CalmHandler ==
  ASSUME CustomInv, CalmPlan, CalmJobs, CalmWorkers,
         NEW w \in Workers, NEW kind \in {"plan", "write", "review"}, Reports!Handles(w, kind)
  PROVE  /\ Unfinished(rWorker[w].job) /\ report.job = rWorker[w].job
         /\ \A j \in Reports!Keys : Unfinished(j) => j = rWorker[w].job
         /\ kind = "plan" => report.options.life = "brief_draft"
         /\ kind = "write" => report.options.life = "generating"
         /\ kind = "review" => report.options.life = "reviewing"
<1> DEFINE k == rWorker[w].job
<1>1. /\ rWorker[w].pc = "loaded" /\ k \in Reports!Keys /\ k[1] = kind /\ rJob[k].status = "running"
      /\ kind # "plan" => rWorker[w].read.life # "cancelled"
  BY HandlerCopy
<1>2. Unfinished(k) BY <1>1 DEF Unfinished
<1>3. report.options.life # "cancelled"
  <2>1. Reports!Commits(w) BY DEF Reports!Handles
  <2>2. kind = "plan" => k = Reports!Plan BY <1>1, CustomKeys
  <2> QED BY <1>1, <2>1, <2>2 DEF CalmWorkers
<1>4. kind = "plan" => k = Reports!Plan BY <1>1, CustomKeys
<1> QED BY <1>1, <1>2, <1>3, <1>4, CalmOnly

\* A step that leaves the report alone and stages nothing.
LEMMA CalmQuiet ==
  ASSUME CustomInv, CalmPlan, CalmJobs, CalmWorkers, UNCHANGED <<report, frozen>>,
         rJob' \in [Reports!Keys -> Reports!Job],
         \A k \in Reports!Keys :
           /\ rJob'[k].status = "absent" <=> rJob[k].status = "absent"
           /\ rJob[k].status = "succeeded" => rJob'[k].status = "succeeded"
           /\ rJob[k].lease <= rJob'[k].lease,
         rJob[Reports!Plan].cancel => rJob'[Reports!Plan].cancel,
         \A w \in Workers : rWorker'[w].pc = "loaded" =>
           \/ rWorker'[w] = rWorker[w] /\ (Reports!Commits(w)' => Reports!Commits(w))
           \/ /\ rWorker'[w].lease <= rJob'[rWorker'[w].job].lease
              /\ rWorker'[w].read = report.options
              /\ rWorker'[w].job = Reports!Plan => report.options.life # "cancelled",
         \A r \in Clients : request'[r].pc = "loaded" /\ request'[r].kind = "edit" =>
           request'[r] = request[r] \/ rJob[Reports!Plan].status = "succeeded"
  PROVE  CalmPlan' /\ CalmJobs' /\ CalmWorkers'
<1>1. Reports!Plan \in Reports!Keys BY CustomKeys
<1>2. ASSUME NEW k \in Reports!Keys PROVE Unfinished(k)' => Unfinished(k) BY DEF Unfinished
<1>3. CalmPlan' BY <1>1, <1>2 DEF CalmPlan
<1>4. CalmJobs'
  <2>1. ASSUME NEW s \in 1..MaxPlans
        PROVE  /\ Unfinished(Reports!Write(s))' =>
                    report'.job = Reports!Write(s) /\ report'.options.life \in {"generating", "cancelled"}
               /\ Unfinished(Reports!Review(s))' =>
                    report'.job = Reports!Review(s) /\ report'.options.life \in {"reviewing", "cancelled"}
               /\ IsStaged(rJob', Reports!Write(s)) =>
                    report'.options.life \notin {"brief_draft", "plan_proposed"}
    <3>1. Reports!Write(s) \in Reports!Keys /\ Reports!Review(s) \in Reports!Keys BY CustomKeys
    <3> QED BY <1>2, <3>1 DEF CalmJobs, IsStaged
  <2>2. report'.options.life = "failed" =>
          /\ report'.options.snapshot # Reports!None
          /\ IsStaged(rJob', Reports!Write(report'.options.snapshot))
    <3>1. report.options.snapshot \in 0..MaxPlans
      BY DEF CustomInv, Reports!TypeOK, Reports!Report, Reports!Options
    <3>2. report.options.snapshot # 0 => Reports!Write(report.options.snapshot) \in Reports!Keys
      BY <3>1, CustomKeys
    <3> QED BY <3>2 DEF CalmJobs, IsStaged, Reports!None
  <2> QED BY <2>1, <2>2 DEF CalmJobs
<1>5. CalmWorkers'
  <2>1. SUFFICES ASSUME NEW w \in Workers, rWorker'[w].pc = "loaded"
                 PROVE  /\ rWorker'[w].lease <= rJob'[rWorker'[w].job].lease
                        /\ report'.options.life = "cancelled" /\ Reports!Commits(w)' =>
                             rWorker'[w].job # Reports!Plan /\ rWorker'[w].read.life = "cancelled"
    BY DEF CalmWorkers
  <2>2. CASE rWorker'[w] = rWorker[w] /\ (Reports!Commits(w)' => Reports!Commits(w))
    <3>1. /\ rWorker[w].job \in Reports!Keys /\ rWorker[w].lease \in Nat
          /\ rJob \in [Reports!Keys -> Reports!Job]
      BY DEF CustomInv, Reports!TypeOK, Reports!WorkerState
    <3>2. rJob[rWorker[w].job].lease \in Nat /\ rJob'[rWorker[w].job].lease \in Nat
      BY <3>1 DEF Reports!Job
    <3>3. rWorker[w].lease <= rJob[rWorker[w].job].lease BY <2>1, <2>2 DEF CalmWorkers
    <3>4. rJob[rWorker[w].job].lease <= rJob'[rWorker[w].job].lease BY <3>1
    <3> QED BY <2>1, <2>2, <3>1, <3>2, <3>3, <3>4 DEF CalmWorkers
  <2>3. CASE /\ rWorker'[w].lease <= rJob'[rWorker'[w].job].lease
             /\ rWorker'[w].read = report.options
             /\ rWorker'[w].job = Reports!Plan => report.options.life # "cancelled"
    BY <2>3
  <2> QED BY <2>1, <2>2, <2>3
<1> QED BY <1>3, <1>4, <1>5

\* A claim of a queued job: nobody owned it, and its new lease is larger than all before.
LEMMA CalmStart ==
  ASSUME CustomInv, CalmPlan, CalmJobs, CalmWorkers,
         NEW w \in Workers, NEW k \in Reports!Keys, Reports!Start(w, k)
  PROVE  CalmPlan' /\ CalmJobs' /\ CalmWorkers'
<1>1. /\ Reports!TypeOK /\ Reports!TypeOK' /\ rJob[k] \in Reports!Job /\ rJob[k].status = "queued"
      /\ rJob \in [Reports!Keys -> Reports!Job] /\ rWorker \in [Workers -> Reports!WorkerState]
      /\ UNCHANGED <<report, frozen, approved, request, calm, rFaults>>
  <2>1. CustomInv' BY StartKeeps
  <2> QED BY <2>1 DEF CustomInv, Reports!TypeOK, Reports!Start
<1>2. rJob[k].lease \in Nat BY <1>1 DEF Reports!Job
<1>3. CASE rJob[k].cancel
  <2>1. rJob' = [rJob EXCEPT ![k].status = "dead"] /\ rWorker' = rWorker
    BY <1>3 DEF Reports!Start
  <2>2. /\ rJob'[k].status = "dead" /\ rJob'[k].lease = rJob[k].lease /\ rJob'[k].cancel = rJob[k].cancel
        /\ \A j \in Reports!Keys : j # k => rJob'[j] = rJob[j]
    BY <1>1, <2>1 DEF Reports!Job
  <2>3. \A j \in Reports!Keys : rJob[j].lease \in Nat BY <1>1 DEF Reports!Job
  <2>4. \A v \in Workers : Reports!Commits(v)' => Reports!Commits(v)
    BY <1>1, <2>1, <2>2 DEF Reports!Commits, Reports!OwnsJob, Reports!WorkerState
  <2>5. /\ rJob' \in [Reports!Keys -> Reports!Job] /\ Reports!Plan \in Reports!Keys
    BY <1>1, CustomKeys DEF Reports!TypeOK
  <2> QED BY <1>1, <2>1, <2>2, <2>3, <2>4, <2>5, CalmQuiet
<1>4. CASE ~rJob[k].cancel
  <2> DEFINE new == [pc |-> "loaded", job |-> k, lease |-> rJob[k].lease + 1, read |-> report.options]
  <2>1. /\ rJob' = [rJob EXCEPT ![k].status = "running", ![k].lease = @ + 1]
        /\ rWorker' = [rWorker EXCEPT ![w] = new]
    BY <1>4 DEF Reports!Start
  <2>2. /\ rJob'[k].lease = rJob[k].lease + 1 /\ rJob'[k].cancel = rJob[k].cancel
        /\ rJob'[k].status = "running"
        /\ \A j \in Reports!Keys : j # k => rJob'[j] = rJob[j]
    BY <1>1, <2>1 DEF Reports!Job
  <2>3. \A j \in Reports!Keys : rJob[j].lease \in Nat BY <1>1 DEF Reports!Job
  <2>4. rWorker'[w] = new /\ \A v \in Workers : v # w => rWorker'[v] = rWorker[v]
    BY <1>1, <2>1
  <2>5. new.lease = rJob[k].lease + 1 /\ new.read = report.options /\ new.job = k OBVIOUS
  <2> HIDE DEF new
  <2>6. ASSUME NEW v \in Workers, v # w, rWorker'[v].pc = "loaded"
        PROVE  Reports!Commits(v)' => Reports!Commits(v)
    <3>1. rWorker'[v] = rWorker[v] /\ rWorker[v].job \in Reports!Keys /\ rWorker[v].lease \in Nat
      BY <1>1, <2>4, <2>6 DEF Reports!WorkerState
    <3>2. CASE rWorker[v].job = k
      <4>1. rWorker[v].lease <= rJob[k].lease BY <2>6, <3>1, <3>2 DEF CalmWorkers
      <4>2. rWorker[v].lease # rJob'[k].lease BY <1>2, <2>2, <3>1, <4>1
      <4> QED BY <3>1, <3>2, <4>2 DEF Reports!Commits, Reports!OwnsJob
    <3>3. CASE rWorker[v].job # k
      BY <2>2, <3>1, <3>3 DEF Reports!Commits, Reports!OwnsJob
    <3> QED BY <3>2, <3>3
  <2>7. k = Reports!Plan => report.options.life # "cancelled"
    <3>1. Unfinished(k) BY <1>1 DEF Unfinished
    <3> QED BY <1>4, <3>1 DEF CalmPlan
  <2>8. ASSUME NEW v \in Workers, rWorker'[v].pc = "loaded"
        PROVE  \/ rWorker'[v] = rWorker[v] /\ (Reports!Commits(v)' => Reports!Commits(v))
               \/ /\ rWorker'[v].lease <= rJob'[rWorker'[v].job].lease
                  /\ rWorker'[v].read = report.options
                  /\ rWorker'[v].job = Reports!Plan => report.options.life # "cancelled"
    <3>1. CASE v = w BY <1>2, <2>2, <2>4, <2>5, <2>7, <3>1
    <3>2. CASE v # w BY <2>4, <2>6, <2>8, <3>2
    <3> QED BY <3>1, <3>2
  <2>9. /\ rJob' \in [Reports!Keys -> Reports!Job] /\ Reports!Plan \in Reports!Keys
        /\ \A j \in Reports!Keys : rJob[j].lease <= rJob'[j].lease
        /\ rJob[Reports!Plan].cancel => rJob'[Reports!Plan].cancel
        /\ \A j \in Reports!Keys :
             /\ rJob'[j].status = "absent" <=> rJob[j].status = "absent"
             /\ rJob[j].status = "succeeded" => rJob'[j].status = "succeeded"
    <3>1. ASSUME NEW j \in Reports!Keys
          PROVE  /\ rJob[j].lease <= rJob'[j].lease
                 /\ rJob[j].cancel => rJob'[j].cancel
                 /\ rJob'[j].status = "absent" <=> rJob[j].status = "absent"
                 /\ rJob[j].status = "succeeded" => rJob'[j].status = "succeeded"
      <4>1. CASE j = k BY <1>1, <1>2, <2>2, <4>1
      <4>2. CASE j # k BY <2>2, <2>3, <4>2
      <4> QED BY <4>1, <4>2
    <3>2. Reports!Plan \in Reports!Keys BY CustomKeys
    <3>3. rJob' \in [Reports!Keys -> Reports!Job] BY <1>1 DEF Reports!TypeOK
    <3> QED BY <3>1, <3>2, <3>3
  <2> QED BY <1>1, <2>8, <2>9, CalmQuiet
<1> QED BY <1>3, <1>4

\* The row of a job that ends, and of the others.
LEMMA EndedRow ==
  ASSUME Reports!TypeOK, NEW w \in Workers, NEW jobs \in [Reports!Keys -> Reports!Job],
         NEW status \in JobStatuses, Reports!EndJob(w, jobs, status)
  PROVE  /\ rJob'[rWorker[w].job].lease = jobs[rWorker[w].job].lease
         /\ rJob'[rWorker[w].job].cancel = jobs[rWorker[w].job].cancel
<1>1. rWorker[w].job \in Reports!Keys BY DEF Reports!TypeOK, Reports!WorkerState
<1> QED BY <1>1 DEF Reports!EndJob, Reports!Job

LEMMA CalmNothingWritten ==
  ASSUME CustomInv, CalmPlan, CalmJobs, CalmWorkers, NEW w \in Workers,
         Reports!Drop(w) \/ Reports!RaiseError(w) \/ Reports!RollBack(w)
  PROVE  CalmPlan' /\ CalmJobs' /\ CalmWorkers'
<1> DEFINE k == rWorker[w].job
<1>1. /\ Reports!TypeOK /\ rJob \in [Reports!Keys -> Reports!Job] /\ k \in Reports!Keys
      /\ rJob[k] \in Reports!Job
      /\ UNCHANGED <<report, frozen, approved, request, calm>>
  BY DEF CustomInv, Reports!TypeOK, Reports!WorkerState, Reports!Drop, Reports!RaiseError,
     Reports!RollBack
<1>2. PICK status \in JobStatuses :
        /\ Reports!EndJob(w, rJob, status)
        /\ status # "absent" \/ status = rJob[k].status
        /\ rJob[k].status = "succeeded" => status = "succeeded"
        /\ rJob[k].status = "absent" => status = "absent"
        /\ status = "running" => rJob[k].status = "running"
  <2>1. CASE Reports!Drop(w) \/ Reports!RaiseError(w)
    BY <2>1 DEF Reports!Drop, Reports!RaiseError, Reports!Commits, Reports!OwnsJob, JobStatuses
  <2>2. CASE Reports!RollBack(w)
    <3>1. CASE Reports!OwnsJob(w)
      BY <2>2, <3>1 DEF Reports!RollBack, Reports!OwnsJob, JobStatuses
    <3>2. CASE ~Reports!OwnsJob(w)
      <4>1. rJob[k].status \in JobStatuses BY <1>1 DEF JobStatuses, Reports!Job
      <4> QED BY <2>2, <3>2, <4>1 DEF Reports!RollBack
    <3> QED BY <3>1, <3>2
  <2> QED BY <2>1, <2>2
<1>3. /\ rJob' \in [Reports!Keys -> Reports!Job]
      /\ rJob'[k].status = status
      /\ \A j \in Reports!Keys : j # k => rJob'[j] = rJob[j]
      /\ rWorker'[w].pc = "idle" /\ \A v \in Workers : v # w => rWorker'[v] = rWorker[v]
  BY <1>1, <1>2, HandlerEnds
<1>4. rJob'[k].lease = rJob[k].lease /\ rJob'[k].cancel = rJob[k].cancel
  BY <1>1, <1>2, EndedRow
<1>5. \A j \in Reports!Keys : rJob[j].lease \in Nat BY <1>1 DEF Reports!Job
<1> HIDE DEF k
<1>6. ASSUME NEW v \in Workers, rWorker'[v].pc = "loaded"
      PROVE  rWorker'[v] = rWorker[v] /\ (Reports!Commits(v)' => Reports!Commits(v))
  <2>1. rWorker'[v] = rWorker[v] /\ rWorker[v].job \in Reports!Keys
    BY <1>1, <1>3, <1>6 DEF Reports!TypeOK, Reports!WorkerState
  <2> QED BY <1>2, <1>3, <1>4, <2>1 DEF Reports!Commits, Reports!OwnsJob
<1>7. /\ \A j \in Reports!Keys : rJob[j].lease <= rJob'[j].lease
      /\ rJob[Reports!Plan].cancel => rJob'[Reports!Plan].cancel
  BY <1>3, <1>4, <1>5, CustomKeys
<1> QED BY <1>1, <1>2, <1>3, <1>6, <1>7, CalmQuiet

LEMMA CalmJobRoutes ==
  ASSUME CustomInv, calm, CalmPlan, CalmJobs, CalmWorkers, NEW k \in Reports!Keys,
         Reports!LeaseExpires(k) \/ Reports!CancelJob(k) \/ Reports!RetryJob(k)
  PROVE  CalmPlan' /\ CalmJobs' /\ CalmWorkers'
<1>1. /\ Reports!TypeOK /\ Reports!TypeOK' /\ rJob \in [Reports!Keys -> Reports!Job]
      /\ rJob[k] \in Reports!Job /\ rJob[k].status \notin {"absent", "succeeded"}
      /\ UNCHANGED <<report, frozen, approved, request, calm>>
  <2>1. CustomInv' BY JobRoutesKeep
  <2> QED BY <2>1 DEF CustomInv, Reports!TypeOK, Reports!LeaseExpires, Reports!CancelJob, Reports!RetryJob
<1>2. /\ \A j \in Reports!Keys : j # k => rJob'[j] = rJob[j]
      /\ rJob'[k].lease = rJob[k].lease /\ rJob'[k].status \notin {"absent", "succeeded"}
      /\ rJob'[k].status = "running" => rJob[k].status = "running"
      /\ rJob[k].cancel /\ ~rJob'[k].cancel => k # Reports!Plan /\ rJob'[k].status # "running"
  <2>1. CASE Reports!LeaseExpires(k) BY <1>1, <2>1 DEF Reports!LeaseExpires, Reports!Job
  <2>2. CASE Reports!CancelJob(k)
    BY <1>1, <2>2 DEF Reports!CancelJob, Reports!Job
  <2>3. CASE Reports!RetryJob(k) BY <1>1, <2>3 DEF Reports!RetryJob, Reports!Job
  <2> QED BY <2>1, <2>2, <2>3
<1>3. \A w \in Workers : rWorker'[w].pc = "loaded" => rWorker'[w] = rWorker[w]
  <2>1. \/ rWorker' = rWorker
        \/ rWorker' = [w \in Workers |-> IF rWorker[w].job = k /\ Reports!OwnsJob(w)
                                           THEN Reports!IdleWorker ELSE rWorker[w]]
    BY DEF Reports!LeaseExpires, Reports!CancelJob, Reports!RetryJob
  <2>2. Reports!IdleWorker.pc = "idle" BY DEF Reports!IdleWorker
  <2> QED BY <2>1, <2>2
<1>4. ASSUME NEW w \in Workers, rWorker'[w].pc = "loaded"
      PROVE  rWorker'[w] = rWorker[w] /\ (Reports!Commits(w)' => Reports!Commits(w))
  <2>1. rWorker'[w] = rWorker[w] /\ rWorker[w].job \in Reports!Keys
    BY <1>1, <1>3, <1>4 DEF Reports!TypeOK, Reports!WorkerState
  <2> QED BY <1>2, <2>1 DEF Reports!Commits, Reports!OwnsJob
<1>5. \A j \in Reports!Keys : rJob[j].lease \in Nat BY <1>1 DEF Reports!Job
<1>6. /\ \A j \in Reports!Keys :
           /\ rJob'[j].status = "absent" <=> rJob[j].status = "absent"
           /\ rJob[j].status = "succeeded" => rJob'[j].status = "succeeded"
           /\ rJob[j].lease <= rJob'[j].lease
      /\ rJob[Reports!Plan].cancel => rJob'[Reports!Plan].cancel
      /\ rJob' \in [Reports!Keys -> Reports!Job]
  <2>1. ASSUME NEW j \in Reports!Keys
        PROVE  /\ rJob'[j].status = "absent" <=> rJob[j].status = "absent"
               /\ rJob[j].status = "succeeded" => rJob'[j].status = "succeeded"
               /\ rJob[j].lease <= rJob'[j].lease
    <3>1. CASE j = k BY <1>1, <1>2, <1>5, <3>1
    <3>2. CASE j # k BY <1>2, <1>5, <3>2
    <3> QED BY <3>1, <3>2
  <2>2. Reports!Plan \in Reports!Keys /\ (rJob[Reports!Plan].cancel => rJob'[Reports!Plan].cancel)
    <3>1. Reports!Plan \in Reports!Keys /\ rJob'[Reports!Plan].cancel \in BOOLEAN
      BY <1>1, CustomKeys DEF Reports!TypeOK, Reports!Job
    <3> QED BY <1>2, <3>1
  <2>3. rJob' \in [Reports!Keys -> Reports!Job] BY <1>1 DEF Reports!TypeOK
  <2> QED BY <2>1, <2>2, <2>3
<1> QED BY <1>1, <1>4, <1>6, CalmQuiet

\* A request loads the row or is answered without writing.
LEMMA CalmRequestQuiet ==
  ASSUME CustomInv, calm, CalmPlan, CalmJobs, CalmWorkers, NEW r \in Clients,
         \/ \E kind \in Reports!RequestKinds : Reports!Load(r, kind)
         \/ Reports!Answered(r) /\ UNCHANGED <<report, frozen, approved, rJob, rWorker, calm, rFaults>>
  PROVE  CalmPlan' /\ CalmJobs' /\ CalmWorkers'
<1>1. /\ Reports!TypeOK /\ rJob \in [Reports!Keys -> Reports!Job]
      /\ request \in [Clients -> Reports!Request]
  BY DEF CustomInv, Reports!TypeOK
<1>2. UNCHANGED <<report, frozen, approved, rJob, rWorker, calm, rFaults>> BY DEF Reports!Load
<1>3. \A c \in Clients : request'[c].pc = "loaded" /\ request'[c].kind = "edit" =>
        request'[c] = request[c] \/ rJob[Reports!Plan].status = "succeeded"
  <2>1. CASE Reports!Answered(r) BY <1>1, <2>1, RequestAnswered
  <2>2. ASSUME NEW kind \in Reports!RequestKinds, Reports!Load(r, kind)
        PROVE  \A c \in Clients : request'[c].pc = "loaded" /\ request'[c].kind = "edit" =>
                 request'[c] = request[c] \/ rJob[Reports!Plan].status = "succeeded"
    <3> DEFINE new == [pc |-> "loaded", kind |-> kind, read |-> report]
    <3>1. request' = [request EXCEPT ![r] = new] /\ new.kind = kind BY <2>2 DEF Reports!Load
    <3>2. kind = "edit" => rJob[Reports!Plan].status = "succeeded"
      BY <2>2 DEF Reports!Load, Reports!Waits
    <3> HIDE DEF new
    <3> QED BY <1>1, <3>1, <3>2
  <2> QED BY <2>1, <2>2
<1>4. \A w \in Workers : Reports!Commits(w)' => Reports!Commits(w)
  BY <1>2 DEF Reports!Commits, Reports!OwnsJob
<1>5. \A j \in Reports!Keys : rJob[j].lease \in Nat BY <1>1 DEF Reports!Job
<1>6. \A j \in Reports!Keys : rJob[j].lease <= rJob'[j].lease BY <1>2, <1>5
<1> QED BY <1>1, <1>2, <1>3, <1>4, <1>6, CalmQuiet

\* What is settled stays so.
Settles ==
  report.options.life \in {"ready", "cancelled"} => report'.options.life = report.options.life

\* After a step that loads nothing and leaves the leases of the staged jobs alone.
LEMMA CalmHolders ==
  ASSUME CustomInv, CalmWorkers,
         \A k \in Reports!Keys : IsStaged(rJob, k) => rJob'[k].lease = rJob[k].lease,
         \A w \in Workers : rWorker'[w].pc = "loaded" => rWorker'[w] = rWorker[w],
         report'.options.life = "cancelled" =>
           \A w \in Workers : rWorker'[w].pc = "loaded" => ~Reports!Commits(w)'
  PROVE  CalmWorkers'
<1>1. SUFFICES ASSUME NEW w \in Workers, rWorker'[w].pc = "loaded"
               PROVE  /\ rWorker'[w].lease <= rJob'[rWorker'[w].job].lease
                      /\ report'.options.life = "cancelled" => ~Reports!Commits(w)'
  BY DEF CalmWorkers
<1>2. /\ rWorker'[w] = rWorker[w] /\ rWorker[w].job \in Reports!Keys
      /\ IsStaged(rJob, rWorker[w].job)
  BY <1>1 DEF CustomInv, ReviewersSound, Reports!TypeOK, Reports!WorkerState
<1> QED BY <1>1, <1>2 DEF CalmWorkers

\* The job that a handler's row names.
LEMMA HandlerNames ==
  ASSUME Reports!TypeOK, NEW w \in Workers, NEW o, NEW k, Reports!WriteReport(w, o, k)
  PROVE  report'.job = IF k = rWorker[w].job THEN report.job ELSE k
BY DEF Reports!WriteReport, Reports!Flush, Reports!TypeOK, Reports!Report

\* A handler that ends the one job there is.
LEMMA CalmEnds ==
  ASSUME CustomInv, CalmPlan, CalmJobs, CalmWorkers,
         NEW w \in Workers, NEW kind \in {"plan", "write", "review"}, Reports!Handles(w, kind),
         NEW new \in Reports!Options, Reports!WriteReport(w, new, rWorker[w].job),
         Reports!EndJob(w, rJob, "succeeded"), UNCHANGED <<frozen, request>>,
         kind = "plan" => new.life = "plan_proposed",
         kind # "plan" => new.life \in {"failed", "ready"},
         new.life = "failed" =>
           new.snapshot \in 1..MaxPlans /\ IsStaged(rJob, Reports!Write(new.snapshot))
  PROVE  CalmPlan' /\ CalmJobs' /\ CalmWorkers' /\ Settles
<1> DEFINE k == rWorker[w].job
<1>1. Reports!TypeOK /\ rJob \in [Reports!Keys -> Reports!Job] /\ "succeeded" \in JobStatuses
  BY DEF CustomInv, Reports!TypeOK, JobStatuses
<1>2. /\ k \in Reports!Keys /\ rJob'[k].status = "succeeded" /\ rJob'[k].lease = rJob[k].lease
      /\ \A j \in Reports!Keys : j # k => rJob'[j] = rJob[j]
      /\ rWorker'[w].pc = "idle" /\ \A v \in Workers : v # w => rWorker'[v] = rWorker[v]
  BY <1>1, HandlerEnds, EndedRow
<1>3. report'.options = report.options \/ report'.options = new BY <1>1, <1>2, HandlerWrites
<1>4. /\ \A j \in Reports!Keys : Unfinished(j) => j = k
      /\ kind = "plan" => report.options.life = "brief_draft"
      /\ kind = "write" => report.options.life = "generating"
      /\ kind = "review" => report.options.life = "reviewing"
      /\ Unfinished(k)
  BY CalmHandler
<1>5. ASSUME NEW j \in Reports!Keys
      PROVE  /\ ~Unfinished(j)' /\ (IsStaged(rJob', j) <=> IsStaged(rJob, j))
             /\ rJob[j].status = "succeeded" => rJob'[j].status = "succeeded"
  <2>1. CASE j = k BY <1>2, <1>4, <2>1 DEF Unfinished, IsStaged
  <2>2. CASE j # k BY <1>2, <1>4, <2>2 DEF Unfinished, IsStaged
  <2> QED BY <2>1, <2>2
<1> HIDE DEF k
<1>6. /\ kind = "plan" => report'.options.life \in {"brief_draft", "plan_proposed"}
      /\ kind # "plan" => report'.options.life \in {"generating", "reviewing", "failed", "ready"}
      /\ report'.options.life = "failed" => report'.options = new
  BY <1>3, <1>4
<1>7. CalmPlan'
  <2>1. Reports!Plan \in Reports!Keys BY CustomKeys
  <2>2. report'.options.life \in {"brief_draft", "plan_proposed"} => frozen' = <<>>
    BY <1>4, <1>6 DEF CalmPlan
  <2>3. frozen' = <<>> => report'.options.life \in {"brief_draft", "plan_proposed", "cancelled"}
    BY <1>4, <1>6 DEF CalmPlan
  <2> QED BY <1>5, <2>1, <2>2, <2>3 DEF CalmPlan
<1>8. CalmJobs'
  <2>1. ASSUME NEW s \in 1..MaxPlans
        PROVE  /\ ~Unfinished(Reports!Write(s))' /\ ~Unfinished(Reports!Review(s))'
               /\ IsStaged(rJob', Reports!Write(s)) =>
                    report'.options.life \notin {"brief_draft", "plan_proposed"}
    <3>1. Reports!Write(s) \in Reports!Keys /\ Reports!Review(s) \in Reports!Keys BY CustomKeys
    <3>2. kind = "plan" => ~IsStaged(rJob, Reports!Write(s)) BY <1>4 DEF CalmJobs
    <3> QED BY <1>5, <1>6, <3>1, <3>2
  <2>2. report'.options.life = "failed" =>
          /\ report'.options.snapshot # Reports!None
          /\ IsStaged(rJob', Reports!Write(report'.options.snapshot))
    BY <1>5, <1>6, CustomKeys DEF Reports!None
  <2> QED BY <2>1, <2>2 DEF CalmJobs
<1>9. report'.options.life # "cancelled" BY <1>6
<1>10. \A j \in Reports!Keys : rJob'[j].lease = rJob[j].lease BY <1>2
<1>11. \A v \in Workers : rWorker'[v].pc = "loaded" => rWorker'[v] = rWorker[v] BY <1>2
<1>12. CalmWorkers' BY <1>9, <1>10, <1>11, CalmHolders
<1>13. Settles BY <1>4 DEF Settles
<1> QED BY <1>7, <1>8, <1>12, <1>13

LEMMA CalmProposePlan ==
  ASSUME CustomInv, CalmPlan, CalmJobs, CalmWorkers, NEW w \in Workers, Reports!ProposePlan(w)
  PROVE  CalmPlan' /\ CalmJobs' /\ CalmWorkers' /\ Settles
<1> DEFINE q == rWorker[w]
           new == [q.read EXCEPT !.planned = "proposed", !.life = "plan_proposed", !.proposed = TRUE]
<1>1. /\ Reports!Handles(w, "plan") /\ Reports!EndJob(w, rJob, "succeeded")
      /\ UNCHANGED <<frozen, request>> /\ Reports!WriteReport(w, new, Reports!Plan)
  BY DEF Reports!ProposePlan
<1>2. q.read \in Reports!Options /\ q.job \in Reports!Keys /\ q.job[1] = "plan" BY <1>1, HandlerCopy
<1>3. q.job = Reports!Plan BY <1>2, CustomKeys
<1>4. new \in Reports!Options /\ new.life = "plan_proposed" BY <1>2 DEF Reports!Options, Reports!Lives
<1> HIDE DEF new
<1> QED BY <1>1, <1>3, <1>4, CalmEnds

LEMMA CalmFailReport ==
  ASSUME CustomInv, CalmPlan, CalmJobs, CalmWorkers, NEW w \in Workers, Reports!FailReport(w)
  PROVE  CalmPlan' /\ CalmJobs' /\ CalmWorkers' /\ Settles
<1> DEFINE q == rWorker[w]
           new == [q.read EXCEPT !.life = "failed"]
<1>1. PICK kind \in {"write", "review"} : Reports!Handles(w, kind) BY DEF Reports!FailReport
<1>2. /\ Reports!EndJob(w, rJob, "succeeded") /\ Reports!WriteReport(w, new, q.job)
      /\ UNCHANGED <<frozen, request>>
  BY DEF Reports!FailReport
<1>3. /\ q.read \in Reports!Options /\ q.job \in Reports!Keys /\ q.job[1] = kind
      /\ rJob[q.job].status = "running" /\ q.read.snapshot = q.job[2]
  BY <1>1, HandlerCopy
<1>4. new \in Reports!Options /\ new.life = "failed" /\ new.snapshot = q.job[2]
  BY <1>3 DEF Reports!Options, Reports!Lives
<1>5. new.snapshot \in 1..MaxPlans /\ IsStaged(rJob, Reports!Write(new.snapshot))
  <2>1. CASE q.job = Reports!Write(q.job[2]) /\ q.job[2] \in 1..MaxPlans
    BY <1>3, <1>4, <2>1 DEF IsStaged
  <2>2. CASE q.job = Reports!Review(q.job[2]) /\ q.job[2] \in 1..MaxPlans
    <3>1. IsStaged(rJob, Reports!Review(q.job[2])) BY <1>3, <2>2 DEF IsStaged
    <3> QED BY <1>4, <2>2, <3>1 DEF CustomInv, JobsSound, IsStaged
  <2> QED BY <1>3, <2>1, <2>2, CustomKeys
<1> HIDE DEF new
<1> QED BY <1>1, <1>2, <1>4, <1>5, CalmEnds

LEMMA CalmPublish ==
  ASSUME CustomInv, CalmPlan, CalmJobs, CalmWorkers, NEW w \in Workers, Reports!PublishArtifact(w)
  PROVE  CalmPlan' /\ CalmJobs' /\ CalmWorkers' /\ Settles
<1> DEFINE q == rWorker[w]
           o == q.read
           new == [o EXCEPT !.life = "ready", !.artifact = [snapshot |-> o.snapshot, draft |-> o.draft]]
<1>1. /\ Reports!Handles(w, "review") /\ Reports!EndJob(w, rJob, "succeeded")
      /\ Reports!WriteReport(w, new, q.job) /\ UNCHANGED <<frozen, request>>
  BY DEF Reports!PublishArtifact
<1>2. o \in Reports!Options BY <1>1, HandlerCopy
<1>3. o.snapshot \in 0..MaxPlans /\ o.draft \in 0..MaxPlans BY <1>2 DEF Reports!Options
<1>4. new \in Reports!Options /\ new.life = "ready" BY <1>2, <1>3 DEF Reports!Options, Reports!Lives
<1> HIDE DEF new
<1> QED BY <1>1, <1>4, CalmEnds

\* The report names the job that is staged when the other one ends.
LEMMA CalmWriteDraft ==
  ASSUME CustomInv, CalmPlan, CalmJobs, CalmWorkers, NEW w \in Workers, Reports!WriteDraft(w)
  PROVE  CalmPlan' /\ CalmJobs' /\ CalmWorkers' /\ Settles
<1> DEFINE q == rWorker[w]
           k == q.job
           s == q.job[2]
           new == [q.read EXCEPT !.draft = s, !.life = "reviewing"]
           jobs == Reports!Staged(rJob, Reports!Review(s))
<1>1. Reports!Handles(w, "write") /\ Reports!EndJob(w, jobs, "succeeded")
      /\ Reports!WriteReport(w, new, Reports!Review(s))
      /\ UNCHANGED <<frozen, approved, request, calm, rFaults>>
  BY DEF Reports!WriteDraft, Reports!ReviewJob
<1>2. /\ q.read \in Reports!Options /\ k \in Reports!Keys
      /\ k[1] = "write" /\ rJob[k].status = "running" /\ CopySound(q.read, rJob, frozen)
      /\ q.read.snapshot = s
  BY <1>1, HandlerCopy
<1>3. k = Reports!Write(s) /\ s \in 1..MaxPlans BY <1>2, CustomKeys
<1>4. /\ Reports!Review(s) \in Reports!Keys /\ Reports!Review(s) # k /\ Reports!Review(s) # Reports!Plan
      /\ Reports!Plan \in Reports!Keys
  BY <1>3, CustomKeys
<1>5. Reports!TypeOK /\ rJob \in [Reports!Keys -> Reports!Job] /\ "succeeded" \in JobStatuses
  BY DEF CustomInv, Reports!TypeOK, JobStatuses
<1>6. /\ jobs \in [Reports!Keys -> Reports!Job]
      /\ \A j \in Reports!Keys : j # Reports!Review(s) => jobs[j] = rJob[j]
  BY <1>4, <1>5, StagedJob
<1>7. IsStaged(rJob, Reports!Review(s)) => jobs = rJob BY DEF Reports!Staged, IsStaged
<1>8. new \in Reports!Options /\ new.draft = s /\ new.life = "reviewing"
  BY <1>2, <1>3 DEF Reports!Options, Reports!Lives
<1>9. new # q.read
  <2>1. q.read.draft # s BY <1>2, <1>3, CustomKeys DEF CopySound, Reports!None
  <2> QED BY <1>8, <2>1
<1>10. /\ \A j \in Reports!Keys : Unfinished(j) => j = k
       /\ report.options.life = "generating"
  BY <1>1, CalmHandler
<1> HIDE DEF q, new, jobs, s, k
<1>11. /\ rJob'[k].status = "succeeded" /\ rJob'[k].lease = jobs[k].lease
       /\ \A j \in Reports!Keys : j # k => rJob'[j] = jobs[j]
       /\ rWorker'[w].pc = "idle" /\ \A v \in Workers : v # w => rWorker'[v] = rWorker[v]
  BY <1>1, <1>5, <1>6, HandlerEnds, EndedRow DEF q, k
<1>12. report'.options = new BY <1>1, <1>4, <1>5, <1>8, <1>9, HandlerWrites DEF q
<1>13. report'.job = Reports!Review(s) BY <1>1, <1>4, <1>5, HandlerNames DEF q, k
<1>14. ASSUME NEW j \in Reports!Keys PROVE Unfinished(j)' => j = Reports!Review(s)
  <2>1. CASE j = k BY <1>11, <2>1 DEF Unfinished
  <2>2. CASE j # k BY <1>6, <1>10, <1>11, <2>2 DEF Unfinished
  <2> QED BY <2>1, <2>2
<1>15. ASSUME NEW j \in Reports!Keys, rJob[j].status = "succeeded" PROVE rJob'[j].status = "succeeded"
  BY <1>6, <1>7, <1>11, <1>15 DEF IsStaged
<1>16. CalmPlan'
  BY <1>1, <1>4, <1>8, <1>10, <1>12, <1>14, <1>15 DEF CalmPlan
<1>17. CalmJobs'
  <2>1. ASSUME NEW t \in 1..MaxPlans
        PROVE  /\ ~Unfinished(Reports!Write(t))'
               /\ Unfinished(Reports!Review(t))' => report'.job = Reports!Review(t)
    <3>1. Reports!Write(t) \in Reports!Keys /\ Reports!Review(t) \in Reports!Keys
          /\ Reports!Write(t) # Reports!Review(s)
      BY <1>3, CustomKeys
    <3> QED BY <1>13, <1>14, <3>1
  <2> QED BY <1>8, <1>12, <2>1 DEF CalmJobs
<1>18. ASSUME NEW j \in Reports!Keys, IsStaged(rJob, j) PROVE rJob'[j].lease = rJob[j].lease
  <2>1. jobs[j] = rJob[j] BY <1>6, <1>7, <1>18
  <2> QED BY <1>11, <2>1
<1>19. CalmWorkers' BY <1>8, <1>11, <1>12, <1>18, CalmHolders
<1>20. Settles BY <1>10 DEF Settles
<1> QED BY <1>16, <1>17, <1>19, <1>20

\* In a calm behaviour what a request commits becomes the row.
LEMMA CalmCommit ==
  ASSUME CustomInv, calm, NEW r \in Clients, NEW kind, Reports!Loaded(r, kind),
         NEW new \in Reports!Report, Reports!Commit(r, new)
  PROVE  report'.options = new.options /\ report'.job = new.job
<1>1. report = request[r].read BY DEF Reports!Loaded, Reports!Overtaken
<1>2. report \in Reports!Report BY DEF CustomInv, Reports!TypeOK
<1> QED BY <1>1, <1>2 DEF Reports!Commit, Reports!Flush, Reports!Report

\* What a calm request finds.
LEMMA CalmCopy ==
  ASSUME CustomInv, calm, NEW r \in Clients, NEW kind, Reports!Loaded(r, kind)
  PROVE  /\ report = request[r].read /\ report.options \in Reports!Options
         /\ report.job \in Reports!Keys /\ Reports!Allows(kind, report.options.life)
<1>1. report = request[r].read BY DEF Reports!Loaded, Reports!Overtaken
<1> QED BY <1>1, RequestCopy

\* A step of a request that leaves the workers and the jobs alone.
LEMMA CalmRequest ==
  ASSUME CustomInv, CalmPlan, CalmJobs, CalmWorkers, NEW r \in Clients, Reports!Answered(r),
         UNCHANGED <<rJob, rWorker>>,
         report'.options.life \in {"brief_draft", "plan_proposed"} => frozen' = <<>>,
         frozen' = <<>> => report'.options.life \in {"brief_draft", "plan_proposed"},
         \A k \in Reports!Keys : ~Unfinished(k),
         report'.options.life \notin {"failed", "cancelled"},
         report'.options.life \in {"brief_draft", "plan_proposed"} =>
           report.options.life \in {"brief_draft", "plan_proposed"}
  PROVE  CalmPlan' /\ CalmJobs' /\ CalmWorkers'
<1>1. /\ Reports!TypeOK /\ Reports!Plan \in Reports!Keys
      /\ \A c \in Clients : c # r => request'[c] = request[c]
      /\ request'[r].pc = "idle"
  BY RequestAnswered, CustomKeys DEF CustomInv
<1>2. \A k \in Reports!Keys : ~Unfinished(k)' BY DEF Unfinished
<1>3. CalmPlan' BY <1>1, <1>2 DEF CalmPlan
<1>4. CalmJobs' BY <1>2, CustomKeys DEF CalmJobs
<1>5. CalmWorkers' BY CalmHolders
<1> QED BY <1>3, <1>4, <1>5

\* An edit or a rejection: the plan has been delivered.
LEMMA CalmDraft ==
  ASSUME CustomInv, calm, CalmPlan, CalmJobs, CalmWorkers, NEW r \in Clients,
         Reports!EditPlan(r) \/ Reports!RejectPlan(r)
  PROVE  CalmPlan' /\ CalmJobs' /\ CalmWorkers' /\ Settles
<1> DEFINE o == request[r].read.options
           proposed == [o EXCEPT !.planned = "proposed", !.life = "plan_proposed", !.proposed = TRUE]
           draft == [o EXCEPT !.planned = "draft", !.life = "brief_draft", !.proposed = FALSE]
<1>1. PICK kind \in {"edit", "reject"}, new \in {proposed, draft} :
        /\ Reports!Loaded(r, kind) /\ Reports!Commit(r, Reports!With(r, new)) /\ Reports!Answered(r)
        /\ UNCHANGED <<frozen, rJob, rWorker>>
  BY DEF Reports!EditPlan, Reports!RejectPlan
<1>2. /\ report = request[r].read /\ o \in Reports!Options
      /\ Reports!Allows(kind, report.options.life)
  BY <1>1, CalmCopy
<1>3. new \in Reports!Options /\ new.life \in {"brief_draft", "plan_proposed"}
  BY <1>2 DEF Reports!Options, Reports!Lives
<1>4. Reports!With(r, new) \in Reports!Report /\ Reports!With(r, new).options = new
  BY <1>3, NewRow DEF CustomInv
<1> HIDE DEF o, proposed, draft
<1>5. report'.options = new BY <1>1, <1>4, CalmCommit
<1>6. /\ report.options.life \in {"brief_draft", "plan_proposed"}
      /\ report.options.life = "brief_draft" => kind = "edit"
  BY <1>1, <1>2 DEF Reports!Allows
<1>7. ~Unfinished(Reports!Plan)
  <2>1. request[r].pc = "loaded" /\ request[r].kind = kind BY <1>1 DEF Reports!Loaded
  <2> QED BY <1>6, <2>1 DEF CalmPlan, Unfinished
<1>8. ASSUME NEW k \in Reports!Keys PROVE ~Unfinished(k)
  <2>1. k = Reports!Plan \/ k[1] \in {"write", "review"} BY CustomKeys
  <2>2. k # Reports!Plan => ~Unfinished(k)
    BY <1>6, <2>1, CalmOnly
  <2> QED BY <1>7, <2>2
<1>9. frozen' = <<>> BY <1>1, <1>6 DEF CalmPlan
<1>10. CalmPlan' /\ CalmJobs' /\ CalmWorkers'
  BY <1>1, <1>3, <1>5, <1>6, <1>8, <1>9, CalmRequest
<1> QED BY <1>6, <1>10 DEF Settles

LEMMA CalmAccept ==
  ASSUME CustomInv, calm, CalmPlan, CalmJobs, CalmWorkers, NEW r \in Clients,
         NEW durable \in BOOLEAN, NEW start \in BOOLEAN, Reports!AcceptPlan(r, durable, start)
  PROVE  CalmPlan' /\ CalmJobs' /\ CalmWorkers' /\ Settles
<1> DEFINE o == request[r].read.options
           n == Len(frozen) + 1
           life == IF durable THEN "plan_accepted" ELSE "accepted_degraded"
           new == [o EXCEPT !.planned = "accepted", !.snapshot = n, !.life = life]
<1>1. /\ Reports!Loaded(r, "accept") /\ Reports!Answered(r) /\ Len(frozen) < MaxPlans
      /\ frozen' = Append(frozen, durable) /\ rWorker' = rWorker
      /\ \/ Reports!StartGeneration(r, new)
         \/ Reports!Commit(r, Reports!With(r, new)) /\ rJob' = rJob
  BY DEF Reports!AcceptPlan
<1>2. /\ report = request[r].read /\ o \in Reports!Options /\ report.options.life = "plan_proposed"
  BY <1>1, CalmCopy DEF Reports!Allows
<1>3. /\ Reports!TypeOK /\ frozen \in Seq(BOOLEAN) /\ rJob \in [Reports!Keys -> Reports!Job]
      /\ Reports!Plan \in Reports!Keys
  BY CustomKeys DEF CustomInv, Reports!TypeOK
<1>4. n \in 1..MaxPlans /\ frozen' # <<>> BY <1>1, <1>3, CustomKeys
<1>5. new \in Reports!Options /\ new.life \in {"plan_accepted", "accepted_degraded"} /\ new.snapshot = n
  <2>1. life \in Reports!Lives /\ life \in {"plan_accepted", "accepted_degraded"} /\ n \in 0..MaxPlans
    BY <1>4 DEF Reports!Lives
  <2> HIDE DEF life, n
  <2> QED BY <1>2, <2>1 DEF Reports!Options
<1>6. ASSUME NEW k \in Reports!Keys PROVE ~Unfinished(k)
  <2>1. k = Reports!Plan \/ k[1] \in {"write", "review"} BY CustomKeys
  <2> QED BY <1>2, <2>1, CalmOnly
<1> HIDE DEF new, n, o
<1>7. CASE Reports!Commit(r, Reports!With(r, new)) /\ rJob' = rJob
  <2>1. Reports!With(r, new) \in Reports!Report /\ Reports!With(r, new).options = new
    BY <1>3, <1>5, NewRow
  <2>2. report'.options = new BY <1>1, <1>7, <2>1, CalmCommit
  <2>3. CalmPlan' /\ CalmJobs' /\ CalmWorkers'
    BY <1>1, <1>4, <1>5, <1>6, <1>7, <2>2, CalmRequest
  <2> QED BY <1>2, <2>3 DEF Settles
<1>8. CASE Reports!StartGeneration(r, new)
  <2> DEFINE k == Reports!Write(n)
             options == [new EXCEPT !.life = "generating", !.fence = n]
             row == [options |-> options, job |-> k]
  <2>1. k \in Reports!Keys /\ k # Reports!Plan BY <1>4, CustomKeys
  <2>2. rJob[k].status = "absent"
    BY <1>2, <1>4 DEF CalmJobs, IsStaged
  <2>3. rJob' = Reports!Staged(rJob, k) /\ Reports!Commit(r, row)
    BY <1>5, <1>8, <2>2 DEF Reports!StartGeneration
  <2>4. options \in Reports!Options /\ options.life = "generating"
    BY <1>4, <1>5 DEF Reports!Options, Reports!Lives
  <2>5. row \in Reports!Report /\ row.options = options /\ row.job = k
    BY <2>1, <2>4 DEF Reports!Report
  <2> HIDE DEF k, options, row
  <2>6. report'.options = options /\ report'.job = k BY <1>1, <2>3, <2>5, CalmCommit
  <2>7. \A j \in Reports!Keys : j # k => rJob'[j] = rJob[j] BY <1>3, <2>1, <2>3, StagedJob
  <2>8. ASSUME NEW j \in Reports!Keys PROVE Unfinished(j)' => j = k
    BY <1>6, <2>7 DEF Unfinished
  <2>9. /\ request'[r].pc = "idle" /\ \A c \in Clients : c # r => request'[c] = request[c]
    BY <1>1, <1>3, RequestAnswered
  <2>10. CalmPlan' BY <1>3, <1>4, <2>1, <2>4, <2>6, <2>7, <2>8, <2>9 DEF CalmPlan
  <2>11. CalmJobs'
    <3>1. ASSUME NEW t \in 1..MaxPlans
          PROVE  /\ Unfinished(Reports!Write(t))' => report'.job = Reports!Write(t)
                 /\ ~Unfinished(Reports!Review(t))'
      <4>1. Reports!Write(t) \in Reports!Keys /\ Reports!Review(t) \in Reports!Keys
            /\ Reports!Review(t) # k
        BY <1>4, CustomKeys DEF k
      <4> QED BY <2>6, <2>8, <4>1
    <3> QED BY <2>4, <2>6, <3>1 DEF CalmJobs
  <2>12. ASSUME NEW j \in Reports!Keys, IsStaged(rJob, j) PROVE rJob'[j].lease = rJob[j].lease
    BY <2>2, <2>7, <2>12 DEF IsStaged
  <2>13. CalmWorkers' BY <1>1, <2>4, <2>6, <2>12, CalmHolders
  <2> QED BY <1>2, <2>10, <2>11, <2>13 DEF Settles
<1> QED BY <1>1, <1>7, <1>8

\* The cancellation reaches the one job that has not ended.
LEMMA CalmCancel ==
  ASSUME CustomInv, calm, CalmPlan, CalmJobs, CalmWorkers, NEW r \in Clients, Reports!CancelReport(r)
  PROVE  CalmPlan' /\ CalmJobs' /\ CalmWorkers' /\ Settles
<1> DEFINE o == request[r].read.options
           new == [o EXCEPT !.life = "cancelled"]
           k == report.job
           row == [rJob[k] EXCEPT !.cancel = TRUE]
<1>1. /\ Reports!Loaded(r, "cancel") /\ Reports!Commit(r, Reports!With(r, new)) /\ Reports!Answered(r)
      /\ rJob' = [rJob EXCEPT ![request[r].read.job].cancel = TRUE]
      /\ UNCHANGED <<frozen, rWorker>>
  BY DEF Reports!CancelReport
<1>2. /\ report = request[r].read /\ o \in Reports!Options /\ k \in Reports!Keys
      /\ report.options.life \notin {"ready", "cancelled"}
  BY <1>1, CalmCopy DEF Reports!Allows
<1>3. /\ Reports!TypeOK /\ rJob \in [Reports!Keys -> Reports!Job] /\ Reports!Plan \in Reports!Keys
  BY CustomKeys DEF CustomInv, Reports!TypeOK
<1>4. new \in Reports!Options /\ new.life = "cancelled" BY <1>2 DEF Reports!Options, Reports!Lives
<1>5. rJob' = [rJob EXCEPT ![k] = row] BY <1>1, <1>2
<1>6. row \in Reports!Job /\ row.status = rJob[k].status /\ row.lease = rJob[k].lease /\ row.cancel
  BY <1>2, <1>3 DEF Reports!Job
<1>7. Reports!With(r, new) \in Reports!Report /\ Reports!With(r, new).options = new
      /\ Reports!With(r, new).job = k
  <2>1. Reports!With(r, new) \in Reports!Report /\ Reports!With(r, new).options = new
    BY <1>3, <1>4, NewRow
  <2>2. report \in Reports!Report BY <1>3 DEF Reports!TypeOK
  <2> QED BY <1>2, <2>1, <2>2 DEF Reports!With, Reports!Report
<1> HIDE DEF new, row, o
<1>8. report'.options = new /\ report'.job = k BY <1>1, <1>7, CalmCommit
<1> HIDE DEF k
<1>9. /\ rJob'[k] = row /\ \A j \in Reports!Keys : j # k => rJob'[j] = rJob[j]
  BY <1>2, <1>3, <1>5, <1>6, OneJob DEF k
<1>10. ASSUME NEW j \in Reports!Keys
       PROVE  /\ rJob'[j].status = rJob[j].status /\ rJob'[j].lease = rJob[j].lease
              /\ Unfinished(j) => j = k
  BY <1>6, <1>9, CalmOnly DEF k
<1>11. ASSUME NEW j \in Reports!Keys, Unfinished(j)' PROVE j = k /\ rJob'[j].cancel
  <2>1. Unfinished(j) BY <1>10, <1>11 DEF Unfinished
  <2> QED BY <1>6, <1>9, <1>10, <2>1
<1>12. /\ request'[r].pc = "idle" /\ \A c \in Clients : c # r => request'[c] = request[c]
  BY <1>1, <1>3, RequestAnswered
<1>13. CalmPlan'
  BY <1>3, <1>4, <1>8, <1>10, <1>11, <1>12 DEF CalmPlan
<1>14. CalmJobs' BY <1>4, <1>8, <1>11, CustomKeys DEF CalmJobs
<1>15. ASSUME NEW w \in Workers, rWorker'[w].pc = "loaded" PROVE ~Reports!Commits(w)'
  <2>1. rWorker[w].job \in Reports!Keys /\ rWorker' = rWorker
    BY <1>1, <1>3 DEF Reports!TypeOK, Reports!WorkerState
  <2> QED BY <1>11, <2>1 DEF Reports!Commits, Reports!OwnsJob, Unfinished
<1>16. CalmWorkers' BY <1>1, <1>10, <1>15, CalmHolders
<1> QED BY <1>2, <1>13, <1>14, <1>16 DEF Settles

\* A report that has failed has its snapshot written under a key that is taken.
LEMMA CalmRetry ==
  ASSUME CustomInv, calm, CalmPlan, CalmJobs, CalmWorkers, NEW r \in Clients, Reports!RetryReport(r)
  PROVE  CalmPlan' /\ CalmJobs' /\ CalmWorkers' /\ Settles
<1> DEFINE o == request[r].read.options
           new == [o EXCEPT !.life = "plan_accepted", !.planned = "accepted"]
<1>1. /\ Reports!Loaded(r, "retry") /\ Reports!Answered(r)
      /\ UNCHANGED <<frozen, approved, rWorker, calm, rFaults>>
  BY DEF Reports!RetryReport
<1>2. report = request[r].read /\ o \in Reports!Options /\ report.options.life = "failed"
  BY <1>1, CalmCopy DEF Reports!Allows
<1>3. o.snapshot # Reports!None /\ rJob[Reports!Write(o.snapshot)].status # "absent"
  BY <1>2 DEF CalmJobs, IsStaged
<1>4. new.snapshot = o.snapshot BY <1>2 DEF Reports!Options
<1>5. Reports!StartGeneration(r, new) \/ UNCHANGED <<report, rJob>>
  BY <1>3 DEF Reports!RetryReport
<1> HIDE DEF new, o
<1>6. UNCHANGED <<report, rJob>> BY <1>3, <1>4, <1>5 DEF Reports!StartGeneration
<1>7. CalmPlan' /\ CalmJobs' /\ CalmWorkers' BY <1>1, <1>6, CalmRequestQuiet
<1> QED BY <1>6, <1>7 DEF Settles

LEMMA CalmStep ==
  CustomInv /\ CalmInv /\ [Reports!Next]_(Reports!vars) => CalmInv' /\ [calm => Settles]_(Reports!vars)
<1> SUFFICES ASSUME CustomInv, CalmInv, [Reports!Next]_(Reports!vars)
             PROVE  CalmInv' /\ (calm => Settles)
  BY DEF Reports!vars
<1>1. calm' = calm
  BY DEF Reports!Next, Reports!vars, Reports!WorkerStep, Reports!RequestStep, Reports!Start,
     Reports!ProposePlan, Reports!WriteDraft, Reports!FailReport, Reports!PublishArtifact, Reports!Drop,
     Reports!RaiseError, Reports!RollBack, Reports!LeaseExpires, Reports!CancelJob, Reports!RetryJob,
     Reports!EditPlan, Reports!RejectPlan, Reports!CancelReport, Reports!RetryReport,
     Reports!RequestDies, Reports!AcceptPlan, Reports!Load
<1> SUFFICES ASSUME calm, CalmPlan, CalmJobs, CalmWorkers
             PROVE  CalmPlan' /\ CalmJobs' /\ CalmWorkers' /\ Settles
  BY <1>1 DEF CalmInv
<1>2. CASE UNCHANGED Reports!vars
  <2>1. UNCHANGED <<report, frozen, rJob, rWorker, request>> BY <1>2 DEF Reports!vars
  <2>2. \A w \in Workers : Reports!Commits(w)' <=> Reports!Commits(w)
    BY <2>1 DEF Reports!Commits, Reports!OwnsJob
  <2>3. CalmPlan' /\ CalmJobs' BY <2>1 DEF CalmPlan, CalmJobs, Unfinished, IsStaged
  <2> QED BY <2>1, <2>2, <2>3 DEF CalmWorkers, Settles
<1>3. ASSUME NEW w \in Workers, Reports!WorkerStep(w)
      PROVE  CalmPlan' /\ CalmJobs' /\ CalmWorkers' /\ Settles
  <2>1. ASSUME NEW k \in Reports!Keys, Reports!Start(w, k)
        PROVE  CalmPlan' /\ CalmJobs' /\ CalmWorkers' /\ Settles
    BY <2>1, CalmStart DEF Reports!Start, Settles
  <2>2. CASE Reports!ProposePlan(w) BY <2>2, CalmProposePlan
  <2>3. CASE Reports!WriteDraft(w) BY <2>3, CalmWriteDraft
  <2>4. CASE Reports!FailReport(w) BY <2>4, CalmFailReport
  <2>5. CASE Reports!PublishArtifact(w) BY <2>5, CalmPublish
  <2>6. CASE Reports!Drop(w) \/ Reports!RaiseError(w) \/ Reports!RollBack(w)
    <3>1. report' = report BY <2>6 DEF Reports!Drop, Reports!RaiseError, Reports!RollBack
    <3> QED BY <2>6, <3>1, CalmNothingWritten DEF Settles
  <2> QED BY <1>3, <2>1, <2>2, <2>3, <2>4, <2>5, <2>6 DEF Reports!WorkerStep
<1>4. ASSUME NEW k \in Reports!Keys,
             Reports!LeaseExpires(k) \/ Reports!CancelJob(k) \/ Reports!RetryJob(k)
      PROVE  CalmPlan' /\ CalmJobs' /\ CalmWorkers' /\ Settles
  <2>1. report' = report BY <1>4 DEF Reports!LeaseExpires, Reports!CancelJob, Reports!RetryJob
  <2> QED BY <1>4, <2>1, CalmJobRoutes DEF Settles
<1>5. ASSUME NEW r \in Clients, Reports!RequestStep(r)
      PROVE  CalmPlan' /\ CalmJobs' /\ CalmWorkers' /\ Settles
  <2>1. CASE Reports!EditPlan(r) \/ Reports!RejectPlan(r) BY <2>1, CalmDraft
  <2>2. CASE Reports!CancelReport(r) BY <2>2, CalmCancel
  <2>3. CASE Reports!RetryReport(r) BY <2>3, CalmRetry
  <2>4. CASE Reports!RequestDies(r) BY <2>4, CalmRequestQuiet DEF Reports!RequestDies, Settles
  <2>5. ASSUME NEW durable \in BOOLEAN, NEW start \in BOOLEAN, Reports!AcceptPlan(r, durable, start)
        PROVE  CalmPlan' /\ CalmJobs' /\ CalmWorkers' /\ Settles
    BY <2>5, CalmAccept
  <2> QED BY <1>5, <2>1, <2>2, <2>3, <2>4, <2>5 DEF Reports!RequestStep
<1>6. ASSUME NEW r \in Clients, NEW kind \in Reports!RequestKinds, Reports!Load(r, kind)
      PROVE  CalmPlan' /\ CalmJobs' /\ CalmWorkers' /\ Settles
  BY <1>6, CalmRequestQuiet DEF Reports!Load, Settles
<1> QED BY <1>2, <1>3, <1>4, <1>5, <1>6 DEF Reports!Next

\* As long as users are calm, what is ready or cancelled stays so, for any number of
\* workers, requests, plans and faults: the cancellation reaches the one job that
\* could go on with the report (_TRANSITIONS, cancel_report).
THEOREM SettledReportsStay == PlatformSpec => SettledStaysSettled
<1>1. PlatformInit => CalmInv BY CalmInit DEF PlatformInit
<1>2. [PlatformNext]_allVars => [Reports!Next]_(Reports!vars)
  BY DEF PlatformNext, OutboxNext, AgentsNext, UploadsNext, ExportsNext, ReportsNext,
     allVars, reportVars, Reports!vars
<1>3. CustomInv /\ CalmInv /\ [PlatformNext]_allVars =>
        CalmInv' /\ [calm /\ report.options.life \in {"ready", "cancelled"} =>
                       report'.options.life = report.options.life]_(Reports!vars)
  BY <1>2, CalmStep DEF Settles
<1> QED BY <1>1, <1>3, CustomAlways, PTL
     DEF PlatformSpec, SettledStaysSettled, Reports!SettledStaysSettled
=============================================================================
