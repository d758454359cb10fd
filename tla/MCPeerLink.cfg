\* The whole script, two crashes or failed saves at any stage but the session's.
\* The system stops once the script is done, so deadlock is not checked.
CONSTANTS
  Script <- SessionScript
  Requests <- ScriptRequests
  LocalGroup = "local"
  ValidProposals = {"terms"}
  FailingSaves = {"create", "intent", "receipt"}
  MaxFaults = 2
  None = None
SPECIFICATION LinkSpec
CHECK_DEADLOCK FALSE
PROPERTY ScriptCompletes
