\* Two turns on a 3x3 board, two barriers, four nonces and one replaced decision:
\* every terminal reason but the step ceiling is reached. The audit of a game is its
\* last step, after which nothing more happens.
CONSTANTS
  Size = 3
  MaxBarriers = 2
  MaxSteps = 2
  SurvivalThreshold = 2
  Start <- MiddleAndCorner
  CaptureCop = 20
  CaptureThief = 5
  SurvivalCop = 5
  SurvivalThief = 10
  Nonces = {"n1", "n2", "n3", "n4"}
  MaxReplacements = 1
SPECIFICATION Spec
CHECK_DEADLOCK FALSE
INVARIANTS
  AuditMatchesReferee
  TamperingIsFound
  VerifiersAgree
  AnswersMatchDefinitions
PROPERTY SealsAreKept
