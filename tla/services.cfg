SPECIFICATION ServicesSpec
CONSTANTS
  Workers = {w1, w2}
  Generators = {g1}
  Clients = {c1, c2}
  Syncs = {s1}
  Items = {i1}
  Scanners = {p1}
  MaxRequests = 4
  MaxGenerations = 2
  MaxRevisions = 2
  MaxReportFaults = 1
  MaxInboxEvents = 2
  InboxAttempts = 2
  MaxInboxFaults = 1
  Jobs = {1}
  MaxFolders = 1
  MaxChanges = 2
  MaxSearches = 2
  MaxWatchFaults = 1
  Kinds = {"reset", "invitation", "notification"}
  Idempotent = FALSE
  MaxAttempts = 2
  Faults = {"crash", "overrun"}
  MaxFaults = 2
INVARIANTS TypesOK PublicationsAreSound AtMostOnce FailedLinksAreDead AppliedOnce  NewsToldOnce LinksAgree
PROPERTIES MailedUnderLease EventsEnd 
CHECK_DEADLOCK FALSE
