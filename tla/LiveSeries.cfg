CONSTANTS
  Peers = {p1, p2}
  Natural = p1
  Games = 3
  Threshold = 2
  Window = 4
  Duplicable = {"turns", "audits"}
  MaxDuplicates = 1
  MaxTimeouts = 1
  MaxCrashes = 1
  None = None
SPECIFICATION Spec
INVARIANTS
  HonestPeerNotConvicted
  OutcomesHappened
  PeersAgree
PROPERTY SeriesEnds
CHECK_DEADLOCK FALSE
