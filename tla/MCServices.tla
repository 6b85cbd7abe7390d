------------------------------ MODULE MCServices ------------------------------
(***************************************************************************)
(* The smaller components side by side.  They share no row with each       *)
(* other, so a behaviour belongs to one of them: focus says to which, and  *)
(* the variables of the others keep their initial values.  The messages    *)
(* are EmailDelivery's own variables, the rest are instances.              *)
(***************************************************************************)
EXTENDS EmailDelivery, Sequences

CONSTANTS
  Generators, Clients,   \* workers and clients of the reports
  Syncs, Items,          \* synchronisations and signals
  Scanners,              \* workers of the watch
  MaxRequests, MaxGenerations, MaxRevisions, MaxReportFaults,
  MaxInboxEvents, InboxAttempts, MaxInboxFaults,
  Jobs, MaxFolders, MaxChanges, MaxSearches, MaxWatchFaults

VARIABLES
  focus,
  report, revision, rJob, rWorker, request, made, rFaults,
  provider, inbox, monitor, record, iWorker, sync, applied, iFaults,
  signal, profile, watch, schedule, item, scan, pWorker, save, deleting, noticed, told, pFaults

Reports == INSTANCE ReportWorkflowProofs WITH
  Workers <- Generators, MaxFaults <- MaxReportFaults,
  job <- rJob, worker <- rWorker, faults <- rFaults

Inbox == INSTANCE SignalInboxProofs WITH
  MaxEvents <- MaxInboxEvents, MaxAttempts <- InboxAttempts, MaxFaults <- MaxInboxFaults,
  worker <- iWorker, faults <- iFaults

Watched == INSTANCE ProcurementWatchProofs WITH
  Workers <- Scanners, TenantBound <- TRUE, MaxFaults <- MaxWatchFaults,
  job <- scan, worker <- pWorker, faults <- pFaults

ASSUME ServicesAssumption ==
  Reports!ConstantsOK /\ Inbox!ConstantsOK /\ Watched!ConstantsOK

reportVars == <<report, revision, rJob, rWorker, request, made, rFaults>>
inboxVars == <<provider, inbox, monitor, record, iWorker, sync, applied, iFaults>>
watchVars == <<signal, profile, watch, schedule, item, scan, pWorker, save, deleting, noticed, told,
               pFaults>>
allVars == <<focus, reportVars, vars, inboxVars, watchVars>>

Foci == {"reports", "emails", "inbox", "watch"}

\* The messages of the other foci are notifications.
ServicesInit ==
  /\ focus \in Foci
  /\ Reports!Init /\ Inbox!Init /\ Watched!Init
  /\ Init /\ (focus # "emails" => kind = "notification")

ReportsNext ==
  focus = "reports" /\ Reports!Next /\ UNCHANGED <<focus, vars, inboxVars, watchVars>>

EmailsNext ==
  /\ focus = "emails" /\ Next
  /\ UNCHANGED <<focus, reportVars, inboxVars, watchVars>>

InboxNext ==
  /\ focus = "inbox" /\ Inbox!Next
  /\ UNCHANGED <<focus, reportVars, vars, watchVars>>

WatchNext ==
  /\ focus = "watch" /\ Watched!Next
  /\ UNCHANGED <<focus, reportVars, vars, inboxVars>>

ServicesNext ==
  ReportsNext \/ EmailsNext \/ InboxNext \/ WatchNext

\* What the two kinds of fairness speak of is disabled in the initial state, so
\* each binds the behaviours of its focus alone.
ServicesSpec ==
  /\ ServicesInit /\ [][ServicesNext]_allVars
  /\ Inbox!Fairness /\ Watched!Fairness

-----------------------------------------------------------------------------
\* Every component's variables stay in their types.
TypesOK ==
  Reports!TypeOK /\ TypeOK /\ Inbox!TypeOK /\ Watched!TypeOK

\* Whichever requests race, one report of the template is published at most, and
\* what was published had an approval of its own (reporting/service.py,
\* review_report, publish_report).
PublicationsAreSound == Reports!OnePublished /\ Reports!PublishedIsApproved

\* A webhook event takes effect once, exactly when it is processed
\* (process_inbox).
AppliedOnce == Inbox!AppliedOnce

\* The cursor never passes an item that Oracle does not have (sync_monitor).
CursorSkipsNothing == Inbox!CursorSkipsNothing

\* An accepted event is processed, rejected or out of attempts in the end
\* (oracle_signal_inbox_due, reconcile_inbox).
EventsEnd == Inbox!EventsEnd

\* An edition that was recorded with notifications on was notified once, in its
\* order (scan_procurement_search_watch, create_notification).
NewsToldOnce == Watched!NewsToldOnce

\* Profile, watch and schedule agree on what is watched (save_profile_watch,
\* retire_procurement_search_watch_for_tender_search).
LinksAgree == Watched!LinksAgree

\* A watch that stays enabled ends up with all that Signal lists (dispatch_due_jobs,
\* scan_procurement_search_watch).
ScansCatchUp == Watched!ScansCatchUp
=============================================================================
