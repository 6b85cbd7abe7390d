--------------------------- MODULE SignalInboxProofs ---------------------------
(***************************************************************************)
(* Theorems about SignalInbox: an event takes effect once and the cursor   *)
(* passes nothing that Oracle does not have, for every number of workers,  *)
(* synchronisations, items, events, attempts and faults.                   *)
(***************************************************************************)
EXTENDS SignalInbox, TLAPS

\* What is in the inbox happened at the provider.
InboxHappened ==
  \A e \in Events : inbox[e].status # "none" => e \in DOMAIN provider

\* A worker that is busy holds the claim of its event.
ClaimsHeld ==
  \A w \in Workers : worker[w].pc # "idle" =>
    /\ worker[w].event \in Events
    /\ inbox[worker[w].event].status = "validated" /\ inbox[worker[w].event].claimed

\* An event is processed by one worker at a time.
OneWorker ==
  \A v, w \in Workers :
    worker[v].pc # "idle" /\ worker[w].pc # "idle" /\ worker[v].event = worker[w].event => v = w

\* What a synchronisation has passed is in Oracle, or among what it will commit.
SyncsSound ==
  \A s \in Syncs :
    /\ sync[s].at <= Len(provider)
    /\ \A i \in Items : sync[s].own[i] # NoRecord => sync[s].own[i].count > sync[s].read[i].count
    /\ \A p \in 1..sync[s].at : provider[p].item # NoItem =>
         record[provider[p].item].count > 0 \/ sync[s].own[provider[p].item] # NoRecord

CursorSound == monitor.cursor <= Len(provider) /\ CursorSkipsNothing

InboxInv == TypeOK /\ InboxHappened /\ ClaimsHeld /\ OneWorker /\ AppliedOnce
CursorInv == SyncsSound /\ CursorSound
Inv == InboxInv /\ CursorInv

-----------------------------------------------------------------------------
(* Rows.                                                                   *)

LEMMA FlushedRecord ==
  ASSUME NEW row \in Record, NEW read \in Record, NEW new \in Record
  PROVE  /\ Flush(row, read, new) \in Record
         /\ Flush(row, read, new).count = IF new.count = read.count THEN row.count ELSE new.count
BY DEF Flush, Record

LEMMA IngestedRecord ==
  ASSUME NEW r \in Record, NEW e \in Events
  PROVE  Ingested(r, e) \in Record /\ Ingested(r, e).count = r.count + 1
BY DEF Ingested, Record, Events

LEMMA NewRows ==
  ASSUME ConstantsOK
  PROVE  /\ NoRecord \in Record /\ NoRecord.count = 0 /\ NoRecords \in [Items -> Record]
         /\ NewMonitor \in Monitor /\ IdleWorker \in Worker /\ IdleSync \in Sync
BY DEF ConstantsOK, NoRecord, Record, NoRecords, NewMonitor, Monitor, Statuses, IdleWorker, Worker,
       IdleSync, Sync

LEMMA WorkerFields ==
  ASSUME TypeOK, NEW w \in Workers
  PROVE  /\ worker[w] \in Worker /\ worker[w].record \in Record /\ worker[w].observed \in Statuses
         /\ worker[w].event \in 0..MaxEvents
BY DEF TypeOK, Worker

LEMMA SyncFields ==
  ASSUME TypeOK, NEW s \in Syncs
  PROVE  /\ sync[s] \in Sync /\ sync[s].row \in Monitor /\ sync[s].at \in 0..MaxEvents
         /\ sync[s].read \in [Items -> Record] /\ sync[s].own \in [Items -> Record]
BY DEF TypeOK, Sync

LEMMA ProviderFields ==
  ASSUME TypeOK
  PROVE  /\ \A e \in DOMAIN provider : provider[e] \in Event /\ provider[e].status \in Statuses
                                       /\ (provider[e].item # NoItem => provider[e].item \in Items)
         /\ Len(provider) \in Nat /\ DOMAIN provider = 1..Len(provider)
<1>1. provider \in Seq(Event) BY DEF TypeOK
<1>2. \A e \in DOMAIN provider : provider[e] \in Event BY <1>1
<1>3. \A x \in Event : x.status \in Statuses /\ (x.item # NoItem => x.item \in Items) BY DEF Event
<1> QED BY <1>1, <1>2, <1>3

LEMMA FaultType == ASSUME ConstantsOK, TypeOK, Fault PROVE faults' \in 0..MaxFaults
BY DEF ConstantsOK, TypeOK, Fault

LEMMA InvInit == ConstantsOK /\ Init => Inv
<1> SUFFICES ASSUME ConstantsOK, Init PROVE Inv OBVIOUS
<1>1. provider \in Seq(Event) /\ Len(provider) = 0 /\ Len(provider) <= MaxEvents
  BY DEF Init, ConstantsOK
<1>2. /\ inbox \in [Events -> InboxRow]
      /\ \A e \in Events : inbox[e].status = "none"
  BY DEF Init, InboxRow
<1>3. /\ worker \in [Workers -> Worker] /\ \A w \in Workers : worker[w].pc = "idle"
  BY NewRows DEF Init, IdleWorker
<1>4. /\ sync \in [Syncs -> Sync]
      /\ \A s \in Syncs : sync[s].at = 0 /\ \A i \in Items : sync[s].own[i] = NoRecord
  BY NewRows DEF Init, IdleSync, NoRecords
<1>5. monitor \in Monitor /\ monitor.cursor = 0 /\ record \in [Items -> Record]
  BY NewRows DEF Init, NewMonitor
<1>6. applied \in [Events -> Nat] /\ (\A e \in Events : applied[e] = 0) /\ faults \in 0..MaxFaults
  BY DEF Init, ConstantsOK
<1>7. TypeOK BY <1>1, <1>2, <1>3, <1>4, <1>5, <1>6 DEF TypeOK
<1>8. InboxHappened /\ ClaimsHeld /\ OneWorker
  BY <1>2, <1>3 DEF InboxHappened, ClaimsHeld, OneWorker
<1>9. AppliedOnce BY <1>2, <1>6 DEF AppliedOnce
<1>10. SyncsSound BY <1>1, <1>4 DEF SyncsSound
<1>11. CursorSound BY <1>1, <1>5 DEF CursorSound, CursorSkipsNothing
<1> QED BY <1>7, <1>8, <1>9, <1>10, <1>11 DEF Inv, InboxInv, CursorInv

-----------------------------------------------------------------------------
(* The cursor.                                                             *)

\* A step that may write the records, but makes none disappear.
LEMMA RecordsGrow ==
  ASSUME Inv, UNCHANGED <<provider, monitor, sync>>,
         \A i \in Items : record[i].count > 0 => record'[i].count > 0
  PROVE  CursorInv'
<1> USE DEF Inv, InboxInv, CursorInv
<1>1. SyncsSound'
  <2> SUFFICES ASSUME NEW s \in Syncs
               PROVE  /\ sync[s].at <= Len(provider)
                      /\ \A i \in Items :
                           sync[s].own[i] # NoRecord => sync[s].own[i].count > sync[s].read[i].count
                      /\ \A p \in 1..sync[s].at : provider[p].item # NoItem =>
                           record'[provider[p].item].count > 0 \/ sync[s].own[provider[p].item] # NoRecord
    BY DEF SyncsSound
  <2>1. /\ sync[s].at <= Len(provider) /\ sync[s].at \in Nat
        /\ \A i \in Items : sync[s].own[i] # NoRecord => sync[s].own[i].count > sync[s].read[i].count
    BY SyncFields DEF SyncsSound
  <2>2. ASSUME NEW p \in 1..sync[s].at, provider[p].item # NoItem
        PROVE  record'[provider[p].item].count > 0 \/ sync[s].own[provider[p].item] # NoRecord
    <3>1. p \in DOMAIN provider /\ provider[p].item \in Items BY <2>1, <2>2, ProviderFields
    <3>2. record[provider[p].item].count > 0 \/ sync[s].own[provider[p].item] # NoRecord
      BY <2>2 DEF SyncsSound
    <3> QED BY <3>1, <3>2
  <2> QED BY <2>1, <2>2
<1>2. CursorSound'
  <2>1. monitor.cursor \in Nat /\ monitor.cursor <= Len(provider) BY DEF TypeOK, Monitor, CursorSound
  <2>2. ASSUME NEW p \in 1..monitor.cursor, provider[p].item # NoItem
        PROVE  record'[provider[p].item].count > 0
    <3>1. p \in DOMAIN provider /\ provider[p].item \in Items BY <2>1, <2>2, ProviderFields
    <3>2. record[provider[p].item].count > 0 BY <2>2 DEF CursorSound, CursorSkipsNothing
    <3> QED BY <3>1, <3>2
  <2> QED BY <2>1, <2>2 DEF CursorSound, CursorSkipsNothing
<1> QED BY <1>1, <1>2

\* A step that leaves the cursor alone, and what the synchronisations hold.
LEMMA CursorStays ==
  ASSUME Inv, UNCHANGED <<provider, record, sync>>, monitor'.cursor = monitor.cursor
  PROVE  CursorInv'
BY DEF Inv, InboxInv, CursorInv, SyncsSound, CursorSound, CursorSkipsNothing

\* A step of one synchronisation that writes nothing.
LEMMA SyncMoves ==
  ASSUME Inv, NEW s \in Syncs, NEW q \in Sync, sync' = [sync EXCEPT ![s] = q],
         q.at <= Len(provider),
         \A i \in Items : q.own[i] # NoRecord => q.own[i].count > q.read[i].count,
         \A p \in 1..q.at : provider[p].item # NoItem =>
           record[provider[p].item].count > 0 \/ q.own[provider[p].item] # NoRecord,
         UNCHANGED <<provider, inbox, monitor, record, worker, applied, faults>>
  PROVE  Inv'
<1> USE DEF Inv, InboxInv, CursorInv
<1>1. /\ sync' \in [Syncs -> Sync] /\ sync'[s] = q
      /\ \A t \in Syncs : t # s => sync'[t] = sync[t]
  BY DEF TypeOK
<1>2. TypeOK' BY <1>1 DEF TypeOK
<1>3. InboxHappened' /\ ClaimsHeld' /\ OneWorker' /\ AppliedOnce'
  BY DEF InboxHappened, ClaimsHeld, OneWorker, AppliedOnce
<1>4. SyncsSound' BY <1>1 DEF SyncsSound
<1>5. CursorSound' BY DEF CursorSound, CursorSkipsNothing
<1> QED BY <1>2, <1>3, <1>4, <1>5

\* A synchronisation that gives up.
LEMMA IdleSyncKeeps ==
  ASSUME ConstantsOK, Inv, NEW s \in Syncs, sync' = [sync EXCEPT ![s] = IdleSync],
         UNCHANGED <<provider, inbox, monitor, record, worker, applied, faults>>
  PROVE  Inv'
<1>1. IdleSync \in Sync BY NewRows
<1>2. IdleSync.at = 0 /\ \A i \in Items : IdleSync.own[i] = NoRecord
  BY DEF IdleSync, NoRecords
<1>3. IdleSync.at <= Len(provider) BY <1>2, ProviderFields DEF Inv, InboxInv
<1>4. \A p \in 1..IdleSync.at : provider[p].item # NoItem =>
        record[provider[p].item].count > 0 \/ IdleSync.own[provider[p].item] # NoRecord
  BY <1>2
<1>5. \A i \in Items : IdleSync.own[i] # NoRecord => IdleSync.own[i].count > IdleSync.read[i].count
  BY <1>2
<1> QED BY <1>1, <1>3, <1>4, <1>5, SyncMoves

-----------------------------------------------------------------------------
(* The steps of the inbox.                                                 *)

\* A worker ends its event: the claim is gone with it, and the event took effect
\* if it is processed.
LEMMA EndedEvent ==
  ASSUME Inv, NEW w \in Workers, worker[w].pc # "idle", ConstantsOK,
         NEW status \in {"processed", "rejected", "failed"}, End(w, status),
         UNCHANGED provider,
         IF status = "processed" THEN Took(w) ELSE UNCHANGED applied
  PROVE  /\ inbox' \in [Events -> InboxRow] /\ worker' \in [Workers -> Worker]
         /\ applied' \in [Events -> Nat]
         /\ InboxHappened' /\ ClaimsHeld' /\ OneWorker' /\ AppliedOnce'
<1> USE DEF Inv, InboxInv
<1> DEFINE e == worker[w].event
           row == [inbox[e] EXCEPT !.status = status]
<1>1. e \in Events /\ inbox[e].status = "validated" /\ inbox[e] \in InboxRow
      /\ e \in DOMAIN provider
  BY DEF ClaimsHeld, TypeOK, InboxHappened
<1>2. row \in InboxRow /\ row.status = status BY <1>1 DEF InboxRow
<1>3. inbox' = [inbox EXCEPT ![e] = row] BY DEF End
<1> HIDE DEF row
<1>4. /\ inbox' \in [Events -> InboxRow] /\ inbox'[e] = row
      /\ \A f \in Events : f # e => inbox'[f] = inbox[f]
  BY <1>1, <1>2, <1>3 DEF TypeOK
<1>5. /\ worker' \in [Workers -> Worker] /\ worker'[w].pc = "idle"
      /\ \A v \in Workers : v # w => worker'[v] = worker[v]
  BY NewRows DEF End, TypeOK, IdleWorker
<1>6. \A v \in Workers : v # w /\ worker[v].pc # "idle" => worker[v].event # e
  BY DEF OneWorker
<1>7. /\ applied' \in [Events -> Nat]
      /\ applied'[e] = IF status = "processed" THEN applied[e] + 1 ELSE applied[e]
      /\ \A f \in Events : f # e => applied'[f] = applied[f]
  <2>1. applied \in [Events -> Nat] BY DEF TypeOK
  <2>2. CASE status = "processed"
    <3>1. applied' = [applied EXCEPT ![e] = @ + 1] BY <2>2 DEF Took
    <3> HIDE DEF e
    <3> QED BY <1>1, <2>1, <2>2, <3>1
  <2>3. CASE status # "processed" BY <2>1, <2>3
  <2> QED BY <2>2, <2>3
<1>8. applied[e] = 0 BY <1>1 DEF AppliedOnce
<1> HIDE DEF e
<1>9. InboxHappened' BY <1>1, <1>4 DEF InboxHappened
<1>10. ClaimsHeld' BY <1>4, <1>5, <1>6 DEF ClaimsHeld
<1>11. OneWorker' BY <1>5 DEF OneWorker
<1>12. AppliedOnce' BY <1>1, <1>2, <1>4, <1>7, <1>8 DEF AppliedOnce
<1> QED BY <1>4, <1>5, <1>7, <1>9, <1>10, <1>11, <1>12

LEMMA PublishKeeps ==
  ASSUME ConstantsOK, Inv, NEW item \in Items \union {NoItem}, NEW status \in Statuses, Publish(item, status)
  PROVE  Inv'
<1> USE DEF Inv, InboxInv, CursorInv
<1> DEFINE x == [item |-> item, status |-> status]
<1>1. /\ provider' = Append(provider, x) /\ Len(provider) < MaxEvents /\ provider \in Seq(Event)
      /\ UNCHANGED <<inbox, monitor, record, worker, sync, applied, faults>>
  BY DEF Publish, TypeOK
<1>2. x \in Event BY DEF Event
<1> HIDE DEF x
<1>3. /\ provider' \in Seq(Event) /\ Len(provider') = Len(provider) + 1
      /\ \A e \in DOMAIN provider : e \in DOMAIN provider' /\ provider'[e] = provider[e]
      /\ Len(provider) \in Nat /\ DOMAIN provider = 1..Len(provider)
  BY <1>1, <1>2
<1>4. Len(provider') <= MaxEvents BY <1>1, <1>3 DEF ConstantsOK
<1>5. TypeOK' BY <1>1, <1>3, <1>4 DEF TypeOK
<1>6. InboxHappened' BY <1>1, <1>3 DEF InboxHappened
<1>7. ClaimsHeld' /\ OneWorker' /\ AppliedOnce' BY <1>1 DEF ClaimsHeld, OneWorker, AppliedOnce
<1>8. SyncsSound'
  <2> SUFFICES ASSUME NEW s \in Syncs
               PROVE  /\ sync[s].at <= Len(provider')
                      /\ \A i \in Items :
                           sync[s].own[i] # NoRecord => sync[s].own[i].count > sync[s].read[i].count
                      /\ \A p \in 1..sync[s].at : provider'[p].item # NoItem =>
                           record[provider'[p].item].count > 0 \/ sync[s].own[provider'[p].item] # NoRecord
    BY <1>1 DEF SyncsSound
  <2>1. sync[s].at \in Nat /\ sync[s].at <= Len(provider) BY SyncFields DEF SyncsSound
  <2>2. \A p \in 1..sync[s].at : provider'[p] = provider[p] BY <1>3, <2>1
  <2>3. sync[s].at <= Len(provider') BY <1>3, <2>1
  <2> QED BY <2>2, <2>3 DEF SyncsSound
<1>9. CursorSound'
  <2>1. monitor.cursor \in Nat /\ monitor.cursor <= Len(provider) BY DEF TypeOK, Monitor, CursorSound
  <2>2. \A p \in 1..monitor.cursor : provider'[p] = provider[p] BY <1>3, <2>1
  <2>3. monitor.cursor <= Len(provider') BY <1>3, <2>1
  <2> QED BY <1>1, <2>2, <2>3 DEF CursorSound, CursorSkipsNothing
<1> QED BY <1>5, <1>6, <1>7, <1>8, <1>9

LEMMA LearnKeeps == ASSUME Inv, LearnExternalId PROVE Inv'
<1> USE DEF Inv, InboxInv
<1>1. /\ monitor' = [monitor EXCEPT !.known = TRUE]
      /\ UNCHANGED <<provider, inbox, record, worker, sync, applied, faults>>
  BY DEF LearnExternalId
<1>2. monitor' \in Monitor /\ monitor'.cursor = monitor.cursor BY <1>1 DEF TypeOK, Monitor
<1>3. CursorInv' BY <1>1, <1>2, CursorStays
<1>4. InboxInv' BY <1>1, <1>2 DEF TypeOK, InboxHappened, ClaimsHeld, OneWorker, AppliedOnce
<1> QED BY <1>3, <1>4

\* The rows of the inbox that webhooks and the clock write.
LEMMA InboxKeeps ==
  ASSUME Inv, NEW e \in Events, Webhook(e) \/ ClaimLapses(e)
  PROVE  Inv'
<1> USE DEF Inv, InboxInv
<1>1. UNCHANGED <<provider, monitor, record, worker, sync, applied, faults>>
  BY DEF Webhook, ClaimLapses
<1>2. PICK row \in InboxRow :
        /\ inbox' = [inbox EXCEPT ![e] = row]
        /\ \/ row.status = "queued" /\ inbox[e].status = "none" /\ e \in DOMAIN provider
           \/ row.status = inbox[e].status /\ \A w \in Workers : worker[w].event # e
  <2>1. inbox[e] \in InboxRow BY DEF TypeOK
  <2>2. CASE Webhook(e)
    <3> DEFINE row == [inbox[e] EXCEPT !.status = "queued"]
    <3>1. row \in InboxRow /\ row.status = "queued" BY <2>1 DEF InboxRow
    <3> QED BY <2>2, <3>1 DEF Webhook
  <2>3. CASE ClaimLapses(e)
    <3> DEFINE row == [inbox[e] EXCEPT !.claimed = FALSE]
    <3>1. row \in InboxRow /\ row.status = inbox[e].status BY <2>1 DEF InboxRow
    <3> QED BY <2>3, <3>1 DEF ClaimLapses, Lapsed
  <2> QED BY <2>2, <2>3
<1>3. /\ inbox' \in [Events -> InboxRow] /\ inbox'[e] = row
      /\ \A f \in Events : f # e => inbox'[f] = inbox[f]
  BY <1>1, <1>2 DEF TypeOK
<1>4. \A w \in Workers : worker[w].pc # "idle" => worker[w].event # e
  BY <1>2 DEF ClaimsHeld
<1>5. TypeOK' BY <1>1, <1>3 DEF TypeOK
<1>6. InboxHappened' BY <1>1, <1>2, <1>3 DEF InboxHappened
<1>7. ClaimsHeld' /\ OneWorker' BY <1>1, <1>3, <1>4 DEF ClaimsHeld, OneWorker
<1>8. AppliedOnce' BY <1>1, <1>2, <1>3 DEF AppliedOnce
<1>9. CursorInv' BY <1>1, CursorStays
<1> QED BY <1>5, <1>6, <1>7, <1>8, <1>9

LEMMA ClaimKeeps ==
  ASSUME ConstantsOK, Inv, NEW w \in Workers, NEW e \in Events, Claim(w, e)
  PROVE  Inv'
<1> USE DEF Inv, InboxInv
<1> DEFINE row == [status |-> "validated", attempts |-> inbox[e].attempts + 1, claimed |-> TRUE]
           busy == [worker[w] EXCEPT !.pc = "claimed", !.event = e]
<1>1. /\ inbox' = [inbox EXCEPT ![e] = row] /\ worker' = [worker EXCEPT ![w] = busy]
      /\ UNCHANGED <<provider, monitor, record, sync, applied>>
      /\ inbox[e].status \notin {"none", "processed"}
      /\ ~(inbox[e].status = "validated" /\ inbox[e].claimed)
      /\ faults' = faults \/ Fault
  BY DEF Claim, Processable
<1>2. row \in InboxRow /\ row.status = "validated" /\ row.claimed
  BY DEF TypeOK, InboxRow
<1>3. busy \in Worker /\ busy.pc = "claimed" /\ busy.event = e
  <2>1. worker[w] \in Worker /\ e \in 0..MaxEvents BY DEF TypeOK, Events
  <2> QED BY ONLY <2>1 DEF Worker
<1> HIDE DEF row, busy
<1>4. /\ inbox' \in [Events -> InboxRow] /\ inbox'[e] = row
      /\ \A f \in Events : f # e => inbox'[f] = inbox[f]
  BY <1>1, <1>2 DEF TypeOK
<1>5. /\ worker' \in [Workers -> Worker] /\ worker'[w] = busy
      /\ \A v \in Workers : v # w => worker'[v] = worker[v]
  BY <1>1, <1>3 DEF TypeOK
<1>6. \A v \in Workers : worker[v].pc # "idle" => worker[v].event # e
  BY <1>1 DEF ClaimsHeld
<1>7. faults' \in 0..MaxFaults BY <1>1, FaultType DEF TypeOK
<1>8. TypeOK' BY <1>1, <1>4, <1>5, <1>7 DEF TypeOK
<1>9. InboxHappened' BY <1>1, <1>4 DEF InboxHappened
<1>10. ClaimsHeld' BY <1>2, <1>3, <1>4, <1>5, <1>6 DEF ClaimsHeld
<1>11. OneWorker' BY <1>3, <1>5, <1>6 DEF OneWorker
<1>12. AppliedOnce' BY <1>1, <1>2, <1>4 DEF AppliedOnce
<1>13. CursorInv' BY <1>1, CursorStays
<1> QED BY <1>8, <1>9, <1>10, <1>11, <1>12, <1>13

\* A worker that reads, dies or gives up.
LEMMA QuietWorkerKeeps ==
  ASSUME ConstantsOK, Inv, NEW w \in Workers,
         Reject(w) \/ ReadRows(w) \/ FailEvent(w) \/ WorkerDies(w)
  PROVE  Inv'
<1> USE DEF Inv, InboxInv
<1>1. UNCHANGED <<provider, monitor, record, sync, applied>>
  BY DEF Reject, ReadRows, FailEvent, WorkerDies
<1>2. faults' \in 0..MaxFaults
  BY FaultType DEF Reject, ReadRows, FailEvent, WorkerDies, TypeOK
<1>3. CursorInv' BY <1>1, CursorStays
<1>4. CASE Reject(w) \/ FailEvent(w)
  <2>1. PICK status \in {"processed", "rejected", "failed"} :
          End(w, status) /\ status # "processed" /\ worker[w].pc # "idle"
    BY <1>4 DEF Reject, FailEvent
  <2>2. /\ inbox' \in [Events -> InboxRow] /\ worker' \in [Workers -> Worker]
        /\ applied' \in [Events -> Nat]
        /\ InboxHappened' /\ ClaimsHeld' /\ OneWorker' /\ AppliedOnce'
    BY <1>1, <2>1, EndedEvent
  <2>3. TypeOK' BY <1>1, <1>2, <2>2 DEF TypeOK
  <2> QED BY <1>3, <2>2, <2>3
<1>5. CASE ReadRows(w) \/ WorkerDies(w)
  <2> DEFINE q == worker'[w]
  <2>1. inbox' = inbox /\ worker[w].pc # "idle" BY <1>5 DEF ReadRows, WorkerDies
  <2>2. q \in Worker /\ (q.pc = "idle" \/ q.event = worker[w].event)
        /\ worker' \in [Workers -> Worker] /\ \A v \in Workers : v # w => worker'[v] = worker[v]
    <3>1. CASE WorkerDies(w) BY <3>1, NewRows DEF WorkerDies, TypeOK, IdleWorker
    <3>2. CASE ReadRows(w)
      <4> DEFINE i == provider[worker[w].event].item
                 r == IF i = NoItem THEN NoRecord ELSE record[i]
                 new == [worker[w] EXCEPT !.pc = "read", !.observed = monitor.observed, !.record = r]
      <4>1. worker' = [worker EXCEPT ![w] = new] BY <3>2 DEF ReadRows
      <4>2. worker[w].event \in DOMAIN provider BY <2>1 DEF ClaimsHeld, InboxHappened
      <4>3. i # NoItem => i \in Items BY <4>2, ProviderFields
      <4>4. r \in Record BY <4>3, NewRows DEF TypeOK
      <4> HIDE DEF r, i
      <4>5. worker[w] \in Worker /\ monitor.observed \in Statuses BY DEF TypeOK, Monitor
      <4>6. new \in Worker /\ new.event = worker[w].event BY ONLY <4>4, <4>5 DEF Worker
      <4> HIDE DEF new
      <4> QED BY <4>1, <4>6 DEF TypeOK
    <3> QED BY <1>5, <3>1, <3>2
  <2> HIDE DEF q
  <2>3. TypeOK' BY <1>1, <1>2, <2>1, <2>2 DEF TypeOK
  <2>4. InboxHappened' /\ AppliedOnce' BY <1>1, <2>1 DEF InboxHappened, AppliedOnce
  <2>5. ClaimsHeld' BY <2>1, <2>2 DEF ClaimsHeld, q
  <2>6. OneWorker' BY <2>1, <2>2 DEF OneWorker, q
  <2> QED BY <1>3, <2>3, <2>4, <2>5, <2>6
<1> QED BY <1>4, <1>5

\* A status or a signal takes effect.
LEMMA EffectKeeps ==
  ASSUME ConstantsOK, Inv, NEW w \in Workers, ApplyStatus(w) \/ Ingest(w)
  PROVE  Inv'
<1> USE DEF Inv, InboxInv
<1> DEFINE e == worker[w].event
           i == provider[e].item
           read == worker[w].record
<1>1. /\ e \in Events /\ e \in DOMAIN provider /\ provider[e].status \in Statuses
      /\ (i # NoItem => i \in Items) /\ read \in Record /\ worker[w].pc # "idle"
  BY ProviderFields, WorkerFields DEF ClaimsHeld, InboxHappened, ApplyStatus, Ingest
<1>2. UNCHANGED <<provider, sync, faults>> BY DEF ApplyStatus, Ingest
<1>3. PICK status \in {"processed", "rejected", "failed"} :
        End(w, status) /\ IF status = "processed" THEN Took(w) ELSE UNCHANGED applied
  BY DEF ApplyStatus, Ingest
<1>4. /\ inbox' \in [Events -> InboxRow] /\ worker' \in [Workers -> Worker]
      /\ applied' \in [Events -> Nat]
      /\ InboxHappened' /\ ClaimsHeld' /\ OneWorker' /\ AppliedOnce'
  BY <1>1, <1>2, <1>3, EndedEvent
<1>5. CASE ApplyStatus(w)
  <2>1. UNCHANGED record BY <1>5 DEF ApplyStatus
  <2>2. monitor' \in Monitor /\ monitor'.cursor = monitor.cursor
    <3>1. monitor' = IF provider[e].status = worker[w].observed THEN monitor
                     ELSE [monitor EXCEPT !.observed = provider[e].status]
      BY <1>5 DEF ApplyStatus
    <3> HIDE DEF e
    <3>2. monitor \in Monitor BY DEF TypeOK
    <3> QED BY ONLY <1>1, <3>1, <3>2 DEF Monitor
  <2>3. CursorInv' BY <1>2, <2>1, <2>2, CursorStays
  <2>4. TypeOK' BY <1>2, <1>4, <2>1, <2>2 DEF TypeOK
  <2> QED BY <1>4, <2>3, <2>4
<1>6. CASE Ingest(w)
  <2> DEFINE new == Ingested(read, e)
             row == Flush(record[i], read, new)
  <2>1. UNCHANGED monitor /\ i \in Items
        /\ (record' = record \/ record' = [record EXCEPT ![i] = row])
    BY <1>1, <1>6 DEF Ingest
  <2>2. record[i] \in Record BY <2>1 DEF TypeOK
  <2>3. new \in Record /\ new.count = read.count + 1 BY <1>1, IngestedRecord
  <2>4. read.count \in Nat BY <1>1 DEF Record
  <2> HIDE DEF new, read, i, e
  <2>5. row \in Record /\ row.count = IF new.count = read.count THEN record[i].count ELSE new.count
    BY <1>1, <2>2, <2>3, FlushedRecord
  <2>6. row.count > 0 BY <2>3, <2>4, <2>5
  <2> HIDE DEF row
  <2>7. /\ record' \in [Items -> Record]
        /\ \A k \in Items : record[k].count > 0 => record'[k].count > 0
    BY <2>1, <2>5, <2>6 DEF TypeOK
  <2>8. CursorInv' BY <1>2, <2>1, <2>7, RecordsGrow
  <2>9. TypeOK' BY <1>2, <1>4, <2>1, <2>7 DEF TypeOK
  <2> QED BY <1>4, <2>8, <2>9
<1> QED BY <1>5, <1>6

-----------------------------------------------------------------------------
(* The steps of a synchronisation.                                         *)

LEMMA StartSyncKeeps ==
  ASSUME ConstantsOK, Inv, NEW s \in Syncs, LoadMonitor(s) \/ LockMonitor(s)
  PROVE  Inv'
<1> USE DEF Inv, InboxInv, CursorInv
<1>1. sync[s] \in Sync /\ monitor \in Monitor /\ monitor.cursor \in 0..MaxEvents
  BY DEF TypeOK, Monitor
<1>2. UNCHANGED <<provider, inbox, monitor, record, worker, applied, faults>>
  BY DEF LoadMonitor, LockMonitor
<1>3. CASE LoadMonitor(s)
  <2> DEFINE q == [sync[s] EXCEPT !.pc = "loaded", !.row = monitor, !.at = monitor.cursor]
  <2>1. sync' = [sync EXCEPT ![s] = q] BY <1>3 DEF LoadMonitor
  <2>2. /\ q \in Sync /\ q.at = monitor.cursor /\ q.own = sync[s].own /\ q.read = sync[s].read
    BY ONLY <1>1 DEF Sync
  <2> HIDE DEF q
  <2>3. q.at <= Len(provider) BY <2>2 DEF CursorSound
  <2>4. \A i \in Items : q.own[i] # NoRecord => q.own[i].count > q.read[i].count
    BY <2>2 DEF SyncsSound
  <2>5. \A p \in 1..q.at : provider[p].item # NoItem =>
          record[provider[p].item].count > 0 \/ q.own[provider[p].item] # NoRecord
    BY <2>2 DEF CursorSound, CursorSkipsNothing
  <2> QED BY <1>2, <2>1, <2>2, <2>3, <2>4, <2>5, SyncMoves
<1>4. CASE LockMonitor(s)
  <2> DEFINE q == [sync[s] EXCEPT !.pc = "running"]
  <2>1. sync' = [sync EXCEPT ![s] = q] \/ sync' = [sync EXCEPT ![s] = IdleSync]
    BY <1>4 DEF LockMonitor
  <2>2. q \in Sync /\ q.at = sync[s].at /\ q.own = sync[s].own /\ q.read = sync[s].read
    BY ONLY <1>1 DEF Sync
  <2> HIDE DEF q
  <2>3. CASE sync' = [sync EXCEPT ![s] = q] BY <1>2, <2>2, <2>3, SyncMoves DEF SyncsSound
  <2>4. CASE sync' = [sync EXCEPT ![s] = IdleSync] BY <1>2, <2>4, IdleSyncKeeps
  <2> QED BY <2>1, <2>3, <2>4
<1> QED BY <1>3, <1>4

LEMMA ReadEntryKeeps ==
  ASSUME ConstantsOK, Inv, NEW s \in Syncs, ReadEntry(s)
  PROVE  Inv'
<1> USE DEF Inv, InboxInv, CursorInv
<1> DEFINE q == sync[s]
           e == q.at + 1
           i == provider[e].item
           held == i # NoItem /\ q.own[i] # NoRecord
<1>1. /\ q \in Sync /\ q.at \in Nat /\ q.read \in [Items -> Record] /\ q.own \in [Items -> Record]
      /\ \A k \in Items : q.own[k] # NoRecord => q.own[k].count > q.read[k].count
      /\ \A p \in 1..q.at : provider[p].item # NoItem =>
           record[provider[p].item].count > 0 \/ q.own[provider[p].item] # NoRecord
  BY SyncFields DEF SyncsSound
<1>2. e <= Len(provider) /\ e \in Events /\ e \in 0..MaxEvents
  <2>1. q.at < Len(provider) /\ Len(provider) <= MaxEvents BY DEF ReadEntry, TypeOK
  <2> QED BY <1>1, <2>1, ProviderFields DEF Events, ConstantsOK
<1>3. i # NoItem => i \in Items BY <1>1, <1>2, ProviderFields
<1>4. UNCHANGED <<provider, inbox, monitor, record, worker, applied, faults>> BY DEF ReadEntry
<1>5. \A p \in 1..e : p \in 1..q.at \/ p = e BY <1>1, <1>2
<1>6. CASE i = NoItem
  <2> DEFINE n == [q EXCEPT !.at = e]
  <2>1. sync' = [sync EXCEPT ![s] = n] BY <1>6 DEF ReadEntry
  <2> HIDE DEF q
  <2>2. n \in Sync /\ n.at = e /\ n.own = q.own /\ n.read = q.read BY <1>1, <1>2 DEF Sync
  <2> HIDE DEF n
  <2>3. \A p \in 1..n.at : provider[p].item # NoItem =>
          record[provider[p].item].count > 0 \/ n.own[provider[p].item] # NoRecord
    BY <1>1, <1>5, <1>6, <2>2
  <2>4. \A k \in Items : n.own[k] # NoRecord => n.own[k].count > n.read[k].count BY <1>1, <2>2
  <2>5. n.at <= Len(provider) BY <1>2, <2>2
  <2> QED BY <1>4, <2>1, <2>2, <2>3, <2>4, <2>5, SyncMoves
<1>7. CASE i # NoItem
  <2> DEFINE base == IF held THEN q.own[i] ELSE record[i]
             read == IF held THEN q.read[i] ELSE record[i]
             new == Ingested(base, e)
             n == [q EXCEPT !.at = e, !.read[i] = read, !.own[i] = new]
  <2>1. sync' = [sync EXCEPT ![s] = n] BY <1>7 DEF ReadEntry
  <2>2. base \in Record /\ read \in Record /\ base.count >= read.count
    <3>1. record[i] \in Record /\ q.own[i] \in Record /\ q.read[i] \in Record
      BY <1>1, <1>3, <1>7 DEF TypeOK
    <3>2. \A r \in Record : r.count \in Nat BY DEF Record
    <3>3. held => q.own[i].count > q.read[i].count BY <1>1, <1>3
    <3> QED BY <3>1, <3>2, <3>3
  <2>3. new \in Record /\ new.count = base.count + 1 BY <1>2, <2>2, IngestedRecord
  <2>4. new.count > read.count /\ new.count > 0
    <3>1. base.count \in Nat /\ read.count \in Nat BY <2>2 DEF Record
    <3> HIDE DEF new, read, base
    <3> QED BY <2>2, <2>3, <3>1
  <2>5. new # NoRecord BY <2>4 DEF NoRecord
  <2>6. i \in Items BY <1>3, <1>7
  <2> HIDE DEF new, read, base, held, q
  <2>7. /\ n \in Sync /\ n.at = e
        /\ n.own = [q.own EXCEPT ![i] = new] /\ n.read = [q.read EXCEPT ![i] = read]
    BY <1>1, <1>2, <2>2, <2>3 DEF Sync
  <2> HIDE DEF n
  <2>8. /\ n.own[i] = new /\ n.read[i] = read
        /\ \A k \in Items : k # i => n.own[k] = q.own[k] /\ n.read[k] = q.read[k]
    BY <1>1, <2>6, <2>7
  <2>9. \A p \in 1..n.at : provider[p].item # NoItem =>
          record[provider[p].item].count > 0 \/ n.own[provider[p].item] # NoRecord
    <3> SUFFICES ASSUME NEW p \in 1..e, provider[p].item # NoItem
                 PROVE  record[provider[p].item].count > 0 \/ n.own[provider[p].item] # NoRecord
      BY <2>7
    <3>1. CASE p = e BY <2>5, <2>8, <3>1
    <3>2. CASE p \in 1..q.at
      <4>1. p \in DOMAIN provider BY <1>1, <1>2, <3>2, ProviderFields
      <4>2. provider[p].item \in Items BY <4>1, ProviderFields
      <4>3. record[provider[p].item].count > 0 \/ q.own[provider[p].item] # NoRecord BY <1>1, <3>2
      <4> QED BY <2>5, <2>8, <4>2, <4>3
    <3> QED BY <1>5, <3>1, <3>2
  <2>10. \A k \in Items : n.own[k] # NoRecord => n.own[k].count > n.read[k].count
    BY <1>1, <2>4, <2>8
  <2>11. n.at <= Len(provider) BY <1>2, <2>7
  <2> QED BY <1>4, <2>1, <2>7, <2>9, <2>10, <2>11, SyncMoves
<1> QED BY <1>6, <1>7

LEMMA FinishSyncKeeps ==
  ASSUME ConstantsOK, Inv, NEW s \in Syncs, FinishSync(s)
  PROVE  Inv'
<1> USE DEF Inv, InboxInv, CursorInv
<1> DEFINE q == sync[s]
           refused == \E i \in Touched(s) : Refused(q.read[i], record[i])
           shown == IF q.row.observed = "active" \/ refused THEN monitor.observed ELSE "active"
           cursor == IF refused \/ q.at = q.row.cursor THEN monitor.cursor ELSE q.at
           row(i) == IF i \in Touched(s) THEN Flush(record[i], q.read[i], q.own[i]) ELSE record[i]
<1>1. /\ q.at \in 0..MaxEvents /\ q.read \in [Items -> Record] /\ q.own \in [Items -> Record]
      /\ q.at = Len(provider)
      /\ UNCHANGED <<provider, inbox, worker, applied, faults>>
      /\ sync' = [sync EXCEPT ![s] = IdleSync]
  BY SyncFields DEF FinishSync
<1>2. monitor' = [monitor EXCEPT !.observed = shown, !.cursor = cursor]
  BY DEF FinishSync
<1>3. record' = IF refused THEN record ELSE [i \in Items |-> row(i)] BY DEF FinishSync
<1>4. /\ monitor \in Monitor /\ monitor.observed \in Statuses /\ monitor.cursor \in 0..MaxEvents
      /\ monitor.cursor <= Len(provider)
  BY DEF TypeOK, Monitor, CursorSound
<1>5. shown \in Statuses /\ cursor \in 0..MaxEvents /\ cursor <= Len(provider)
  BY <1>1, <1>4, ProviderFields DEF Statuses
<1>6. monitor' \in Monitor /\ monitor'.cursor = cursor
  <2> HIDE DEF shown, cursor
  <2> QED BY ONLY <1>2, <1>4, <1>5 DEF Monitor
<1>7. \A i \in Items : /\ row(i) \in Record /\ (record[i].count > 0 => row(i).count > 0)
                       /\ (q.own[i] # NoRecord => row(i).count > 0)
  <2> SUFFICES ASSUME NEW i \in Items
               PROVE  /\ row(i) \in Record /\ (record[i].count > 0 => row(i).count > 0)
                      /\ (q.own[i] # NoRecord => row(i).count > 0)
    OBVIOUS
  <2>1. record[i] \in Record /\ q.read[i] \in Record /\ q.own[i] \in Record BY <1>1 DEF TypeOK
  <2>2. CASE q.own[i] = NoRecord BY <2>1, <2>2 DEF Touched
  <2>3. CASE q.own[i] # NoRecord
    <3>1. row(i) = Flush(record[i], q.read[i], q.own[i]) BY <2>3 DEF Touched
    <3>2. q.own[i].count > q.read[i].count BY <2>3 DEF SyncsSound
    <3>3. q.own[i].count \in Nat /\ q.read[i].count \in Nat BY <2>1 DEF Record
    <3> HIDE DEF q, row
    <3>4. /\ Flush(record[i], q.read[i], q.own[i]) \in Record
          /\ Flush(record[i], q.read[i], q.own[i]).count = q.own[i].count
      BY <2>1, <3>2, <3>3, FlushedRecord
    <3> QED BY <3>1, <3>2, <3>3, <3>4
  <2> QED BY <2>2, <2>3
<1>8. \A t \in Syncs : t # s => sync'[t] = sync[t] BY <1>1
<1>9. /\ sync' \in [Syncs -> Sync] /\ sync'[s] = IdleSync
      /\ IdleSync.at = 0 /\ \A i \in Items : IdleSync.own[i] = NoRecord
  BY <1>1, NewRows DEF TypeOK, IdleSync, NoRecords
<1> HIDE DEF row, shown
<1>10. /\ record' \in [Items -> Record]
       /\ \A i \in Items : record[i].count > 0 => record'[i].count > 0
       /\ ~refused => \A i \in Items : q.own[i] # NoRecord => record'[i].count > 0
  BY <1>3, <1>7 DEF TypeOK
<1>11. TypeOK' BY <1>1, <1>6, <1>9, <1>10 DEF TypeOK
<1>12. InboxHappened' /\ ClaimsHeld' /\ OneWorker' /\ AppliedOnce'
  BY <1>1 DEF InboxHappened, ClaimsHeld, OneWorker, AppliedOnce
<1>13. \A p \in DOMAIN provider : provider[p].item # NoItem => provider[p].item \in Items
  BY ProviderFields
<1>14. SyncsSound'
  <2> SUFFICES ASSUME NEW t \in Syncs
               PROVE  /\ sync'[t].at <= Len(provider)
                      /\ \A i \in Items :
                           sync'[t].own[i] # NoRecord => sync'[t].own[i].count > sync'[t].read[i].count
                      /\ \A p \in 1..sync'[t].at : provider[p].item # NoItem =>
                           record'[provider[p].item].count > 0 \/ sync'[t].own[provider[p].item] # NoRecord
    BY <1>1 DEF SyncsSound
  <2>1. CASE t = s BY <1>9, <2>1, ProviderFields
  <2>2. CASE t # s
    <3>1. sync'[t] = sync[t] /\ sync[t].at \in Nat BY <1>8, <2>2, SyncFields
    <3>2. sync[t].at <= Len(provider) BY DEF SyncsSound
    <3>3. \A p \in 1..sync[t].at : p \in DOMAIN provider BY <3>1, <3>2, ProviderFields
    <3>4. \A p \in 1..sync[t].at : provider[p].item # NoItem =>
            record[provider[p].item].count > 0 \/ sync[t].own[provider[p].item] # NoRecord
      BY DEF SyncsSound
    <3>5. \A i \in Items : sync[t].own[i] # NoRecord => sync[t].own[i].count > sync[t].read[i].count
      BY DEF SyncsSound
    <3> QED BY <1>10, <1>13, <3>1, <3>2, <3>3, <3>4, <3>5
  <2> QED BY <2>1, <2>2
<1>15. CursorSound'
  <2>1. \A p \in 1..cursor : p \in DOMAIN provider BY <1>5, ProviderFields
  <2>2. \A p \in 1..monitor.cursor : provider[p].item # NoItem => record[provider[p].item].count > 0
    BY DEF CursorSound, CursorSkipsNothing
  <2>3. \A p \in 1..q.at : provider[p].item # NoItem =>
          record[provider[p].item].count > 0 \/ q.own[provider[p].item] # NoRecord
    BY DEF SyncsSound
  <2> HIDE DEF q, refused
  <2>4. cursor = monitor.cursor \/ (~refused /\ cursor = q.at) OBVIOUS
  <2> HIDE DEF cursor
  <2>5. \A p \in 1..cursor : provider[p].item # NoItem => record'[provider[p].item].count > 0
    BY <1>10, <1>13, <2>1, <2>2, <2>3, <2>4
  <2> QED BY <1>1, <1>5, <1>6, <2>5 DEF CursorSound, CursorSkipsNothing
<1> QED BY <1>11, <1>12, <1>14, <1>15

LEMMA FailSyncKeeps ==
  ASSUME ConstantsOK, Inv, NEW s \in Syncs, FailSync(s)
  PROVE  Inv'
<1> USE DEF Inv, InboxInv, CursorInv
<1>1. /\ sync' = [sync EXCEPT ![s] = IdleSync] /\ Fault
      /\ monitor' = [monitor EXCEPT !.cursor = monitor.cursor]
      /\ UNCHANGED <<provider, inbox, record, worker, applied>>
  BY DEF FailSync, CursorIfFailed
<1>2. monitor' = monitor BY <1>1 DEF TypeOK, Monitor
<1>3. faults' \in 0..MaxFaults BY <1>1, FaultType
<1>4. /\ sync' \in [Syncs -> Sync] /\ sync'[s] = IdleSync
      /\ \A t \in Syncs : t # s => sync'[t] = sync[t]
      /\ IdleSync.at = 0 /\ \A i \in Items : IdleSync.own[i] = NoRecord
  BY <1>1, NewRows DEF TypeOK, IdleSync, NoRecords
<1>5. TypeOK' BY <1>1, <1>2, <1>3, <1>4 DEF TypeOK
<1>6. InboxHappened' /\ ClaimsHeld' /\ OneWorker' /\ AppliedOnce'
  BY <1>1 DEF InboxHappened, ClaimsHeld, OneWorker, AppliedOnce
<1>7. SyncsSound'
  <2>1. 0 <= Len(provider) BY ProviderFields
  <2> QED BY <1>1, <1>4, <2>1 DEF SyncsSound
<1>8. CursorSound' BY <1>1, <1>2 DEF CursorSound, CursorSkipsNothing
<1> QED BY <1>5, <1>6, <1>7, <1>8

-----------------------------------------------------------------------------
(* Theorems.                                                               *)

LEMMA InvStep == ConstantsOK /\ Inv /\ [Next]_vars => Inv'
<1> SUFFICES ASSUME ConstantsOK, Inv, [Next]_vars PROVE Inv' OBVIOUS
<1>1. CASE \E i \in Items : Publish(i, "active") BY <1>1, PublishKeeps DEF Statuses
<1>2. CASE \E status \in Statuses : Publish(NoItem, status) BY <1>2, PublishKeeps
<1>3. CASE LearnExternalId BY <1>3, LearnKeeps
<1>4. CASE \E e \in Events : Webhook(e) \/ ClaimLapses(e) BY <1>4, InboxKeeps
<1>5. ASSUME NEW w \in Workers,
             WorkerStep(w) \/ FailEvent(w) \/ WorkerDies(w) \/ \E e \in Events : Claim(w, e)
      PROVE  Inv'
  <2>1. CASE Reject(w) \/ ReadRows(w) \/ FailEvent(w) \/ WorkerDies(w) BY <2>1, QuietWorkerKeeps
  <2>2. CASE ApplyStatus(w) \/ Ingest(w) BY <2>2, EffectKeeps
  <2>3. CASE \E e \in Events : Claim(w, e) BY <2>3, ClaimKeeps
  <2> QED BY <1>5, <2>1, <2>2, <2>3 DEF WorkerStep
<1>6. ASSUME NEW s \in Syncs,
             LoadMonitor(s) \/ LockMonitor(s) \/ ReadEntry(s) \/ FinishSync(s) \/ FailSync(s)
      PROVE  Inv'
  <2>1. CASE LoadMonitor(s) \/ LockMonitor(s) BY <2>1, StartSyncKeeps
  <2>2. CASE ReadEntry(s) BY <2>2, ReadEntryKeeps
  <2>3. CASE FinishSync(s) BY <2>3, FinishSyncKeeps
  <2>4. CASE FailSync(s) BY <2>4, FailSyncKeeps
  <2> QED BY <1>6, <2>1, <2>2, <2>3, <2>4
<1>7. CASE UNCHANGED vars
  <2>1. UNCHANGED <<provider, inbox, monitor, record, worker, sync, applied, faults>>
    BY <1>7 DEF vars
  <2>2. CursorInv' BY <2>1, CursorStays
  <2>3. InboxInv'
    BY <2>1 DEF Inv, InboxInv, TypeOK, InboxHappened, ClaimsHeld, OneWorker, AppliedOnce
  <2> QED BY <2>2, <2>3 DEF Inv
<1> QED BY <1>1, <1>2, <1>3, <1>4, <1>5, <1>6, <1>7 DEF Next

LEMMA InvAlways == ConstantsOK => (Spec => []Inv)
<1> SUFFICES ASSUME ConstantsOK PROVE Spec => []Inv OBVIOUS
<1>1. Init => Inv BY InvInit
<1>2. Inv /\ [Next]_vars => Inv' BY InvStep
<1> QED BY <1>1, <1>2, PTL DEF Spec

\* The rows of the inbox, the monitor, the records, the workers and the
\* synchronisations stay in their types: an event that is claimed is there.
THEOREM TypeCorrect == ConstantsOK => (Spec => []TypeOK)
<1> SUFFICES ASSUME ConstantsOK PROVE Spec => []TypeOK OBVIOUS
<1>1. Inv => TypeOK BY DEF Inv, InboxInv
<1> QED BY <1>1, InvAlways, PTL

\* process_inbox: whichever deliveries are repeated, workers die or fail, an event
\* takes effect once, exactly when its row is processed.
THEOREM EventsApplyOnce == ConstantsOK => (Spec => []AppliedOnce)
<1> SUFFICES ASSUME ConstantsOK PROVE Spec => []AppliedOnce OBVIOUS
<1>1. Inv => AppliedOnce BY DEF Inv, InboxInv
<1> QED BY <1>1, InvAlways, PTL

\* sync_monitor: the cursor it commits, next to webhooks and synchronisations that
\* write the same records, passes only items that Oracle has.
THEOREM CursorIsSound == ConstantsOK => (Spec => []CursorSkipsNothing)
<1> SUFFICES ASSUME ConstantsOK PROVE Spec => []CursorSkipsNothing OBVIOUS
<1>1. Inv => CursorSkipsNothing BY DEF Inv, CursorInv, CursorSound
<1> QED BY <1>1, InvAlways, PTL
=============================================================================
