CONSTANTS
  Size = 3
  MaxBarriers = 2
  MaxSteps = 3
  ParticleCount = 16
  ScentModel = "multiplicative_kernel_v1"
  DecayTenths = 1
  Starts <- Positions
SPECIFICATION Spec
INVARIANTS
  ResultsAreTrue
  KnowledgeKeepsUp
  FreeThiefIsNotTaken
PROPERTIES
  PlaysLikeTheArena
  GameEnds
