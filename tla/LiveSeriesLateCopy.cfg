CONSTANTS
  Peers = {p1, p2}
  Natural = p1
  Games = 2
  Threshold = 2
  Window = 4
  Duplicable = {"turns"}
  MaxDuplicates = 1
  MaxTimeouts = 0
  MaxCrashes = 0
  None = None
SPECIFICATION Spec
INVARIANT HonestPeerNeverConvicted
CHECK_DEADLOCK FALSE
