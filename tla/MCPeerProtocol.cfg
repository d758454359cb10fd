\* Two crashes or failed saves anywhere; every save but the session's may fail.
CONSTANTS
  Requests <- AllRequests
  LocalGroup = "local"
  ValidProposals = {"terms", "other"}
  FailingSaves = {"create", "intent", "receipt"}
  MaxFaults = 2
  None = None
SPECIFICATION Spec
INVARIANTS
  AckedIsDurable
PROPERTY ImplementsLog
