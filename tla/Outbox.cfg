\* One report dispatched at most twice by two racing tasks, two crashes or errors.
\* The outbox stops when every report is final and nobody calls it.
CONSTANTS
  Ids = {"r1"}
  Contents = {"a", "b"}
  Tasks = {t1, t2}
  MaxTries = 2
  MaxAttempts = 2
  MaxFaults = 2
  None = None
SPECIFICATION Spec
CHECK_DEADLOCK FALSE
INVARIANTS
  OneSender
PROPERTIES
  NoPostOnceTold
  ImplementsLedger
