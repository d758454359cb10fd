\* Two sub-games of at most two steps, two attempts per call and a breaker that
\* opens at the first counted failure; two callers share it.
CONSTANTS
  SubGames = 2
  MaxSteps = 2
  Callers = {"workflow", "task"}
  MaxAttempts = 2
  Threshold = 1
SPECIFICATION Spec
INVARIANTS
  ResultTellsTheTruth
  ProbeIsAccountedFor
PROPERTY SeriesReturns
