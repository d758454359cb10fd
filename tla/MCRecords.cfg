CONSTANTS
  a = a
  b = b
  c = c
  Peers = {a, b}
  MaxStep = 2
  MaxStops = 2
  CaptureCop = 20
  CaptureThief = 5
  SurvivalCop = 5
  SurvivalThief = 10
  Groups <- TheGroups
  Reasons <- TheReasons
  Tokens <- TheTokens
  Slips <- TheSlips
  NoSlip = NoSlip
  Wrong = Wrong
  MaxCrashes = 2
  A = a
  B = b
  Others = {c}
  Contexts <- TheContexts
  Limit = 2
  Fields = {"rawDigest", "config", "scent", "schedule", "gameId"}
  Misstated = Misstated
  None = None
  MaxProposals = 2
  MaxSlips = 1
  MaxLost = 1
  MaxMatches = 2
  Declared <- TheDeclared
  Planned <- ThePlans
  Outcomes <- TheOutcomes
  RandomTrials = 2
  SurrogateTrials = 2
  MinHistory = 2
  TrialResults <- TheTrialResults
  Reports <- TheReports
  Safe <- TheSafe
  Patches <- ThePatches
  MaxScripts = 3
SPECIFICATION MCSpec
INVARIANTS
  JournalIsTrue
  ResumedTogether
  HonestSeriesIsReported
  MatchIsBinding
  PromotionIsEarned
  SearchIsSound
  CampaignIsClean
PROPERTIES
  FlawsAreFound
CHECK_DEADLOCK FALSE
