\* A game of three turns on a 4x4 board, where the field of a frame still has exact
\* decimals; a search of two depths over three candidates; three own actions and two
\* restarts of the scent history. Each of them ends.
CONSTANTS
  Size = 4
  MaxBarriers = 2
  MaxSteps = 3
  SurvivalThreshold = 3
  Start <- TheStart
  Pairings <- ThePairings
  Delays = {0, 1}
  MaxLate = 1
  MaxLost = 1
  MapArea <- TheArea
  HintCap = 15
  SwitchStep = 1
  TrustSwitchStep = 2
  Movements = {"north", "stay"}
  BarrierActions = {"bar"}
  Unlawful = {"far"}
  Horizon = 2
  CacheEntries = 2
  Scores = {1, 2, 4}
  NearTie = 1
  GuardDeadline = 1
  Deadline = 2
  MaxTime = 2
  Walks <- TheWalks
  Placed = "BARRIER"
  MaxRestarts = 2
SPECIFICATION MCSpec
CHECK_DEADLOCK FALSE
INVARIANTS
  NoBrainIsOverruled
  TruthStaysPossible
  EvidenceInOrder
  BestInTime
  HistoryIsTrue
  AnswersAreSound
