--------------------------- MODULE CircuitBreaker ---------------------------
(***************************************************************************)
(* services/orchestration/circuit.py: the breaker as a value.  Time is one *)
(* bit, cooled: the cooldown after the last opening has passed.  failures  *)
(* stops at Threshold, beyond which the code no longer tells it apart.     *)
(***************************************************************************)
EXTENDS Integers

CONSTANT Threshold

ASSUME ThresholdAssumption == Threshold \in Nat \ {0}

Circuits ==
  [state : {"closed", "open", "half-open"}, failures : 0..Threshold,
   probe : BOOLEAN, cooled : BOOLEAN]

Closed == [state |-> "closed", failures |-> 0, probe |-> FALSE, cooled |-> FALSE]

\* The state property: OPEN becomes HALF_OPEN when it is read after cooldown.
Current(c) == IF c.state = "open" /\ c.cooled THEN [c EXCEPT !.state = "half-open"] ELSE c

Allows(c) ==
  \/ Current(c).state = "closed"
  \/ Current(c).state = "half-open" /\ ~c.probe

\* What allow leaves, whichever it answers.
Asked(c) ==
  IF Current(c).state = "half-open" THEN [Current(c) EXCEPT !.probe = TRUE] ELSE c

\* Mutant: success does not give the probe back.
SucceededKeepingProbe == [Closed EXCEPT !.probe = TRUE]

\* success and a confirmed reset
Succeeded == Closed

Failed(c) ==
  LET failures == IF c.failures < Threshold THEN c.failures + 1 ELSE Threshold
  IN IF c.state = "half-open" \/ failures = Threshold
     THEN [state |-> "open", failures |-> failures, probe |-> FALSE, cooled |-> FALSE]
     ELSE [c EXCEPT !.failures = failures]
=============================================================================
