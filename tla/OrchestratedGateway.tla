------------------------ MODULE OrchestratedGateway ------------------------
(***************************************************************************)
(* services/orchestration/gateway.py: retries, a deadline and a circuit    *)
(* breaker around the central Gatekeeper.  Several coroutines may execute  *)
(* calls through one gateway; they interleave at its two awaits, the       *)
(* Gatekeeper's attempt and the backoff.  Whether a deadline has passed is *)
(* chosen when the code reads it: a call that finds it passed returns, so  *)
(* no call can find it both ways.                                          *)
(***************************************************************************)
EXTENDS CircuitBreaker

CONSTANTS
  Callers,      \* coroutines that execute calls
  MaxAttempts   \* max_attempts

ASSUME AttemptsAssumption == MaxAttempts \in Nat \ {0}

VARIABLES
  circuit,    \* the CircuitBreaker
  call,       \* per caller: where execute is, its attempt, does it hold the probe
  cancelled,  \* the CancellationToken
  unjudged    \* history: a probe ended and the breaker was told nothing

gatewayVars == <<circuit, call, cancelled, unjudged>>

(***************************************************************************)
(* What the Gatekeeper may answer, and what classify_failure makes of it   *)
(* before the last attempt.  A refusal is semantic, as is every unknown    *)
(* code.  "raises" is an exception, which execute does not catch.          *)
(***************************************************************************)
FailureClass ==
  [transport |-> "retryable", refusal |-> "semantic", semantic |-> "semantic",
   integrity |-> "integrity"]

Disposition(code, attempt) ==
  IF attempt >= MaxAttempts THEN "exhausted" ELSE FailureClass[code]

Results ==
  {"none", "success", "timeout", "circuit-open", "cancelled", "raises"}
  \cup DOMAIN FailureClass

Idle == [at |-> "idle", attempt |-> 1, probing |-> FALSE, result |-> "none"]

GatewayInit ==
  /\ circuit = Closed
  /\ call = [c \in Callers |-> Idle]
  /\ cancelled = FALSE
  /\ unjudged = FALSE

Begin(c) == call' = [call EXCEPT ![c] = [Idle EXCEPT !.at = "check"]]

Return(c, result) ==
  call' = [call EXCEPT ![c] = [Idle EXCEPT !.at = "done", !.result = result]]

(***************************************************************************)
(* The head of the loop: cancellation, then the deadline, then the         *)
(* breaker, which is asked last because asking may take its probe.         *)
(***************************************************************************)
Check(c) ==
  /\ call[c].at = "check"
  /\ UNCHANGED <<cancelled, unjudged>>
  /\ \/ cancelled /\ Return(c, "cancelled") /\ UNCHANGED circuit
     \/ ~cancelled /\ Return(c, "timeout") /\ UNCHANGED circuit
     \/ /\ ~cancelled
        /\ circuit' = Asked(circuit)
        /\ IF Allows(circuit)
             THEN call' = [call EXCEPT ![c].at = "attempt",
                             ![c].probing = Current(circuit).state = "half-open"]
             ELSE Return(c, "circuit-open")

\* An attempt that took the probe ends without success() or failure().
Unjudged(c) == unjudged' = (unjudged \/ call[c].probing)

Succeeds(c) ==
  /\ call[c].at = "attempt"
  /\ circuit' = Succeeded
  /\ Return(c, "success")
  /\ UNCHANGED <<cancelled, unjudged>>

Fails(c, code) ==
  LET disposition == Disposition(code, call[c].attempt)
      told == disposition \in {"retryable", "integrity"}
  IN  /\ call[c].at = "attempt"
      /\ circuit' = IF told THEN Failed(circuit) ELSE circuit
      /\ IF told THEN UNCHANGED unjudged ELSE Unjudged(c)
      /\ IF disposition = "retryable"
           THEN \/ Return(c, "timeout")
                \/ call' = [call EXCEPT ![c].at = "sleep", ![c].probing = FALSE]
           ELSE Return(c, code)
      /\ UNCHANGED cancelled

Raises(c) ==
  /\ call[c].at = "attempt"
  /\ Return(c, "raises")
  /\ Unjudged(c)
  /\ UNCHANGED <<circuit, cancelled>>

\* Mutant: a retry is not counted.
WakeUncounted(c) ==
  /\ call[c].at = "sleep"
  /\ call' = [call EXCEPT ![c].at = "check"]
  /\ UNCHANGED <<circuit, cancelled, unjudged>>

\* The backoff ends: the delay never goes past the deadline.
Wake(c) ==
  /\ call[c].at = "sleep"
  /\ call' = [call EXCEPT ![c].at = "check", ![c].attempt = @ + 1]
  /\ UNCHANGED <<circuit, cancelled, unjudged>>

Attempt(c) == Succeeds(c) \/ Raises(c) \/ \E code \in DOMAIN FailureClass : Fails(c, code)

CoolDown ==
  /\ circuit.state = "open" /\ ~circuit.cooled
  /\ circuit' = [circuit EXCEPT !.cooled = TRUE]
  /\ UNCHANGED <<call, cancelled, unjudged>>

\* What happens inside execute; Begin and the token belong to the callers.
GatewayStep ==
  \/ \E c \in Callers : Check(c) \/ Attempt(c) \/ Wake(c)
  \/ CoolDown

----------------------------------------------------------------------------
(* Properties *)

(***************************************************************************)
(* The half-open probe is either under way or was lost in the one way the  *)
(* code has: its attempt was the last one, failed semantically or raised,  *)
(* and gateway.py:89 returned without telling the breaker.  Retries that   *)
(* overlap, late answers and cancellations lose none (circuit.py:52-62,    *)
(* gateway.py:75-98).                                                      *)
(***************************************************************************)
ProbeIsAccountedFor ==
  circuit.probe =>
    \/ unjudged
    \/ \E c \in Callers : call[c].at = "attempt" /\ call[c].probing

============================================================================
