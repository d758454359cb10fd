\* As MCPeerProtocol.cfg, with the save of the session failing as well.
CONSTANTS
  Requests <- AllRequests
  LocalGroup = "local"
  ValidProposals = {"terms", "other"}
  FailingSaves = {"session"}
  MaxFaults = 2
  None = None
SPECIFICATION Spec
INVARIANT AckedIsDurable
