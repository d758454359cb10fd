\* One slot, a queue of two, one retry, one token, two units a day and one a session,
\* and a midnight or a session reset;
\* every await may be cancelled, except that of a waiter that was just woken.
CONSTANTS
  Callers = {c1, c2, c3}
  Priorities = {0, 1}
  Limit = 1
  Capacity = 2
  MaxRetries = 1
  Burst = 1
  DailyQuota = 2
  SessionQuota = 1
  Threshold = 1
  Cancels = {"queued", "token", "ready", "calling", "backoff"}
  MaxDays = 1
  None = None
SPECIFICATION FairSpec
INVARIANTS
  SlotsAreKept
  MadeWithinQuota
PROPERTY UrgentIsServed
