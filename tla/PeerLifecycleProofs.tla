------------------------- MODULE PeerLifecycleProofs -------------------------
(***************************************************************************)
(* What the lifecycle of a peer guarantees for any number of sub-games,    *)
(* steps and attempts, and whatever its calls come to: the result of       *)
(* run_series tells what happened, and the probe of the breaker is lost in *)
(* one way only.                                                           *)
(***************************************************************************)
EXTENDS PeerLifecycle, FiniteSetTheorems, SequenceTheorems, TLAPS

-----------------------------------------------------------------------------
(* The invariant. *)

Calls ==
  [at : {"idle", "check", "attempt", "sleep", "done"}, attempt : 1..MaxAttempts,
   probing : BOOLEAN, result : Results]

GatewayType ==
  /\ circuit \in Circuits
  /\ call \in [Callers -> Calls]
  /\ cancelled \in BOOLEAN /\ unjudged \in BOOLEAN

LifecycleType ==
  /\ machine \in [phase : Phases, revision : Nat]
  /\ run \in {"fresh", "running", "returned", "raised"}
  /\ sub \in Nat /\ step \in Nat /\ completed \in Nat /\ steps \in Nat /\ progress \in Nat
  /\ resets \in Seq(Nat)
  /\ journal \in Seq(Phases \X Nat \X Nat)
  /\ watchdog \in [seen : BOOLEAN, reason : {"none", "heartbeat-absent", "progress-stalled"}]

\* A call sleeps only before an attempt it still has; only a breaker that is
\* half open has given its probe away.
GatewayInv ==
  /\ \A c \in Callers : call[c].at = "sleep" => call[c].attempt < MaxAttempts
  /\ circuit.probe => circuit.state = "half-open"
  /\ ProbeIsAccountedFor

Early == {"initializing", "ready", "negotiating"}
InStep ==
  {"updating-belief", "computing-strategy", "committing", "waiting-ack", "revealing",
   "verifying", "checkpointing"}
InSubGame == InStep \cup {"waiting-for-opponent", "subgame-terminal"}
Closing ==
  {"auditing", "agreeing-result", "finalizing-artifacts", "queueing-report", "shutting-down"}
RunningPhases == Early \cup InSubGame \cup Closing

UpTo(n) == [i \in 1..n |-> i]

\* Where the loops of run_series stand in each phase.
LoopsStand ==
  /\ machine.phase \in Early =>
       sub = 0 /\ step = 0 /\ completed = 0 /\ resets = <<>>
  /\ machine.phase \in InSubGame =>
       /\ sub \in 1..SubGames /\ completed = sub - 1 /\ step \in 0..MaxSteps
       /\ resets = UpTo(IF step = 0 THEN sub - 1 ELSE sub)
       /\ step = 0 => machine.phase = "waiting-for-opponent"
  /\ machine.phase \in Closing =>
       completed = SubGames /\ resets = UpTo(SubGames)

\* A phase is journalled when it is entered, and counted when it has been left.
Pending(phase) == IF machine.phase = phase THEN 1 ELSE 0

JournalIsCounted ==
  /\ journal # <<>> /\ journal[Len(journal)][1] = machine.phase
  /\ steps + Pending("checkpointing") = Cardinality(Executed("checkpointing"))
  /\ completed + Pending("subgame-terminal") = Cardinality(Executed("subgame-terminal"))
  /\ progress + (IF call[Workflow].at = "idle" THEN 0 ELSE 1) = Len(journal)

RunInv ==
  /\ run = "fresh" =>
       /\ sub = 0 /\ step = 0 /\ completed = 0 /\ steps = 0 /\ progress = 0
       /\ resets = <<>> /\ journal = <<>> /\ call[Workflow] = Idle
  /\ run = "running" => machine.phase \in RunningPhases /\ LoopsStand /\ JournalIsCounted
  /\ ResultTellsTheTruth

IInv == GatewayType /\ LifecycleType /\ GatewayInv /\ RunInv

-----------------------------------------------------------------------------
(* The phase machine. *)

LEMMA Chains ==
  /\ Len(NormalChain) = 12 /\ DOMAIN NormalChain = 1..12
  /\ Len(ClosingChain) = 6 /\ DOMAIN ClosingChain = 1..6
  BY DEF NormalChain, ClosingChain

LEMMA NormalChainIs ==
  /\ NormalChain[1] = "created" /\ NormalChain[2] = "initializing"
  /\ NormalChain[3] = "ready" /\ NormalChain[4] = "negotiating"
  /\ NormalChain[5] = "waiting-for-opponent" /\ NormalChain[6] = "updating-belief"
  /\ NormalChain[7] = "computing-strategy" /\ NormalChain[8] = "committing"
  /\ NormalChain[9] = "waiting-ack" /\ NormalChain[10] = "revealing"
  /\ NormalChain[11] = "verifying" /\ NormalChain[12] = "checkpointing"
  BY DEF NormalChain

LEMMA ClosingChainIs ==
  /\ ClosingChain[1] = "auditing" /\ ClosingChain[2] = "agreeing-result"
  /\ ClosingChain[3] = "finalizing-artifacts" /\ ClosingChain[4] = "queueing-report"
  /\ ClosingChain[5] = "shutting-down" /\ ClosingChain[6] = "completed"
  BY DEF ClosingChain

LEMMA RunningArePhases ==
  /\ RunningPhases \subseteq Phases \ TerminalPhases
  /\ TerminalPhases \subseteq Phases
<1>1. \A i \in 1..12 : NormalChain[i] \in Phases
  BY Chains DEF Phases, ToSet
<1>2. \A i \in 1..6 : ClosingChain[i] \in Phases
  BY Chains DEF Phases, ToSet
<1>3. Early \cup InStep \cup {"waiting-for-opponent"} \subseteq Phases
  BY <1>1, NormalChainIs DEF Early, InStep
<1>4. Closing \subseteq Phases
  BY <1>2, ClosingChainIs DEF Closing
<1>5. "subgame-terminal" \in Phases /\ TerminalPhases \subseteq Phases
  BY DEF Phases
<1>6. RunningPhases \cap TerminalPhases = {}
  BY DEF RunningPhases, TerminalPhases, Early, InSubGame, InStep, Closing
<1>7. QED
  BY <1>3, <1>4, <1>5, <1>6 DEF RunningPhases, InSubGame

LEMMA NormalTransitions ==
  \A p, t :
    <<p, t>> \in Transitions.normal <=>
      \/ \E i \in 1..11 : p = NormalChain[i] /\ t = NormalChain[i + 1]
      \/ \E i \in 1..5 : p = ClosingChain[i] /\ t = ClosingChain[i + 1]
      \/ p = "checkpointing" /\ t \in {"waiting-for-opponent", "subgame-terminal"}
      \/ p = "subgame-terminal" /\ t \in {"waiting-for-opponent", "auditing"}
<1>1. Edges(NormalChain) = {<<NormalChain[i], NormalChain[i + 1]>> : i \in 1..11}
  BY Chains DEF Edges
<1>2. Edges(ClosingChain) = {<<ClosingChain[i], ClosingChain[i + 1]>> : i \in 1..5}
  BY Chains DEF Edges
<1>3. Transitions.normal =
        Edges(NormalChain) \cup Edges(ClosingChain)
        \cup ({"checkpointing"} \X {"waiting-for-opponent", "subgame-terminal"})
        \cup ({"subgame-terminal"} \X {"waiting-for-opponent", "auditing"})
  BY DEF Transitions
<1>4. QED
  BY <1>1, <1>2, <1>3

\* Each phase of a run, but the three where run_series decides, has one successor.
LEMMA Successors ==
  /\ \A t : <<"created", t>> \in Transitions.normal <=> t = "initializing"
  /\ \A t : <<"initializing", t>> \in Transitions.normal <=> t = "ready"
  /\ \A t : <<"ready", t>> \in Transitions.normal <=> t = "negotiating"
  /\ \A t : <<"negotiating", t>> \in Transitions.normal <=> t = "waiting-for-opponent"
  /\ \A t : <<"updating-belief", t>> \in Transitions.normal <=> t = "computing-strategy"
  /\ \A t : <<"computing-strategy", t>> \in Transitions.normal <=> t = "committing"
  /\ \A t : <<"committing", t>> \in Transitions.normal <=> t = "waiting-ack"
  /\ \A t : <<"waiting-ack", t>> \in Transitions.normal <=> t = "revealing"
  /\ \A t : <<"revealing", t>> \in Transitions.normal <=> t = "verifying"
  /\ \A t : <<"verifying", t>> \in Transitions.normal <=> t = "checkpointing"
  /\ \A t : <<"auditing", t>> \in Transitions.normal <=> t = "agreeing-result"
  /\ \A t : <<"agreeing-result", t>> \in Transitions.normal <=> t = "finalizing-artifacts"
  /\ \A t : <<"finalizing-artifacts", t>> \in Transitions.normal <=> t = "queueing-report"
  /\ \A t : <<"queueing-report", t>> \in Transitions.normal <=> t = "shutting-down"
  /\ \A t : <<"shutting-down", t>> \in Transitions.normal <=> t = "completed"
<1>1. \A i \in 1..11 :
        i = 1 \/ i = 2 \/ i = 3 \/ i = 4 \/ i = 5 \/ i = 6 \/ i = 7 \/ i = 8 \/ i = 9
          \/ i = 10 \/ i = 11
  OBVIOUS
<1>2. \A i \in 1..5 : i = 1 \/ i = 2 \/ i = 3 \/ i = 4 \/ i = 5
  OBVIOUS
<1>3. \A p, t :
    <<p, t>> \in Transitions.normal <=>
      \/ p = "created" /\ t = "initializing"
      \/ p = "initializing" /\ t = "ready"
      \/ p = "ready" /\ t = "negotiating"
      \/ p = "negotiating" /\ t = "waiting-for-opponent"
      \/ p = "waiting-for-opponent" /\ t = "updating-belief"
      \/ p = "updating-belief" /\ t = "computing-strategy"
      \/ p = "computing-strategy" /\ t = "committing"
      \/ p = "committing" /\ t = "waiting-ack"
      \/ p = "waiting-ack" /\ t = "revealing"
      \/ p = "revealing" /\ t = "verifying"
      \/ p = "verifying" /\ t = "checkpointing"
      \/ p = "auditing" /\ t = "agreeing-result"
      \/ p = "agreeing-result" /\ t = "finalizing-artifacts"
      \/ p = "finalizing-artifacts" /\ t = "queueing-report"
      \/ p = "queueing-report" /\ t = "shutting-down"
      \/ p = "shutting-down" /\ t = "completed"
      \/ p = "checkpointing" /\ t \in {"waiting-for-opponent", "subgame-terminal"}
      \/ p = "subgame-terminal" /\ t \in {"waiting-for-opponent", "auditing"}
  <2> TAKE p, t
  <2>1. (\E i \in 1..11 : p = NormalChain[i] /\ t = NormalChain[i + 1]) <=>
          \/ p = NormalChain[1] /\ t = NormalChain[2]
          \/ p = NormalChain[2] /\ t = NormalChain[3]
          \/ p = NormalChain[3] /\ t = NormalChain[4]
          \/ p = NormalChain[4] /\ t = NormalChain[5]
          \/ p = NormalChain[5] /\ t = NormalChain[6]
          \/ p = NormalChain[6] /\ t = NormalChain[7]
          \/ p = NormalChain[7] /\ t = NormalChain[8]
          \/ p = NormalChain[8] /\ t = NormalChain[9]
          \/ p = NormalChain[9] /\ t = NormalChain[10]
          \/ p = NormalChain[10] /\ t = NormalChain[11]
          \/ p = NormalChain[11] /\ t = NormalChain[12]
    BY <1>1
  <2>2. (\E i \in 1..5 : p = ClosingChain[i] /\ t = ClosingChain[i + 1]) <=>
          \/ p = ClosingChain[1] /\ t = ClosingChain[2]
          \/ p = ClosingChain[2] /\ t = ClosingChain[3]
          \/ p = ClosingChain[3] /\ t = ClosingChain[4]
          \/ p = ClosingChain[4] /\ t = ClosingChain[5]
          \/ p = ClosingChain[5] /\ t = ClosingChain[6]
    BY <1>2
  <2>3. QED
    BY <2>1, <2>2, NormalTransitions, NormalChainIs, ClosingChainIs
<1>4. QED
  BY <1>3

LEMMA OneSuccessor ==
  ASSUME NEW p, NEW t \in Phases, \A u : <<p, u>> \in Transitions.normal <=> u = t
  PROVE  Successor(p) = t
  BY DEF Successor

-----------------------------------------------------------------------------
(* The gateway. *)

LEMMA Constants ==
  /\ Workflow \in Callers /\ Task \in Callers /\ Workflow # Task
  /\ MaxAttempts \in Nat /\ MaxAttempts >= 1 /\ SubGames \in Nat /\ SubGames >= 1
  /\ MaxSteps \in Nat /\ MaxSteps >= 1 /\ Threshold \in Nat /\ Threshold >= 1
  BY CallersAssumption, AttemptsAssumption, SeriesAssumption, ThresholdAssumption
     DEF Workflow, Task

LEMMA Breaker ==
  ASSUME NEW c \in Circuits
  PROVE  /\ Asked(c) \in Circuits /\ Failed(c) \in Circuits /\ Succeeded \in Circuits
         /\ [c EXCEPT !.cooled = TRUE] \in Circuits
         /\ Asked(c).probe => \/ Asked(c).state = "half-open"
                              \/ c.probe /\ Asked(c).state = c.state
         /\ Asked(c).probe /\ ~c.probe => Current(c).state = "half-open"
         /\ Failed(c).probe => c.probe /\ c.state # "half-open"
<1>1. Current(c) \in Circuits /\ Current(c).probe = c.probe
  BY DEF Current, Circuits
<1>2. Asked(c) \in Circuits
  BY <1>1 DEF Asked, Circuits
<1>3. /\ Asked(c).probe => \/ Asked(c).state = "half-open"
                           \/ c.probe /\ Asked(c).state = c.state
      /\ Asked(c).probe /\ ~c.probe => Current(c).state = "half-open"
  BY <1>1 DEF Asked, Circuits
<1>4. Failed(c) \in Circuits /\ (Failed(c).probe => c.probe /\ c.state # "half-open")
  <2> DEFINE failures == IF c.failures < Threshold THEN c.failures + 1 ELSE Threshold
  <2>1. failures \in 0..Threshold
    BY Constants DEF Circuits
  <2>2. QED
    BY <2>1 DEF Failed, Circuits
<1>5. Succeeded \in Circuits /\ [c EXCEPT !.cooled = TRUE] \in Circuits
  <2>1. 0 \in 0..Threshold
    BY Constants
  <2>2. Succeeded \in Circuits
    BY <2>1 DEF Succeeded, Closed, Circuits
  <2>3. [c EXCEPT !.cooled = TRUE] \in Circuits
    BY DEF Circuits
  <2>4. QED
    BY <2>2, <2>3
<1>6. QED
  BY <1>2, <1>3, <1>4, <1>5

LEMMA ResultsAre ==
  /\ Results = {"none", "success", "timeout", "circuit-open", "cancelled", "raises",
                "transport", "refusal", "semantic", "integrity"}
  /\ DOMAIN FailureClass \subseteq Results
  BY DEF Results, FailureClass

\* What a call becomes when it begins and when it returns.
LEMMA Beginnings ==
  /\ Idle \in Calls /\ [Idle EXCEPT !.at = "check"] \in Calls
  /\ \A result \in Results : [Idle EXCEPT !.at = "done", !.result = result] \in Calls
<1>1. 1 \in 1..MaxAttempts /\ "none" \in Results
  BY Constants, ResultsAre
<1>2. Idle \in Calls
  BY <1>1 DEF Idle, Calls
<1>3. [Idle EXCEPT !.at = "check"] \in Calls
  BY <1>2 DEF Calls
<1>4. \A result \in Results : [Idle EXCEPT !.at = "done", !.result = result] \in Calls
  BY <1>2 DEF Calls
<1>5. QED
  BY <1>2, <1>3, <1>4

\* What the gateway does to one call, and what it leaves as it was.
OneCall(c) ==
  /\ \A d \in Callers : d # c => call'[d] = call[d]
  /\ call[c].at # "idle" /\ call'[c].at # "idle"

LEMMA CheckStep ==
  ASSUME GatewayType, GatewayInv, NEW c \in Callers, Check(c)
  PROVE  GatewayType' /\ GatewayInv' /\ OneCall(c)
<1>1. /\ call[c].at = "check" /\ UNCHANGED <<cancelled, unjudged>>
      /\ \A d \in Callers : d # c => call'[d] = call[d]
  BY DEF Check, Return, GatewayType
<1>2. CASE UNCHANGED circuit /\ \E result \in Results : Return(c, result)
  <2>1. PICK result \in Results : Return(c, result)
    BY <1>2
  <2>2. /\ call' = [call EXCEPT ![c] = [Idle EXCEPT !.at = "done", !.result = result]]
        /\ call'[c] = [Idle EXCEPT !.at = "done", !.result = result]
    BY <2>1 DEF Return, GatewayType
  <2>3. GatewayType'
    BY <1>1, <1>2, <2>2, Beginnings DEF GatewayType
  <2>4. call'[c].at = "done"
    BY <2>2 DEF Idle
  <2>5. GatewayInv'
    BY <1>1, <1>2, <2>4 DEF GatewayInv, ProbeIsAccountedFor
  <2>6. QED
    BY <1>1, <2>3, <2>4, <2>5 DEF OneCall
<1>3. CASE /\ circuit' = Asked(circuit) /\ Allows(circuit)
           /\ call' = [call EXCEPT ![c].at = "attempt",
                          ![c].probing = Current(circuit).state = "half-open"]
  <2>1. /\ call'[c] = [call[c] EXCEPT !.at = "attempt",
                          !.probing = (Current(circuit).state = "half-open")]
        /\ call[c] \in Calls
    BY <1>3 DEF GatewayType
  <2>2. call'[c] \in Calls /\ call'[c].at = "attempt"
        /\ call'[c].probing = (Current(circuit).state = "half-open")
    BY <2>1 DEF Calls
  <2>3. GatewayType'
    BY <1>1, <1>3, <2>2, Breaker DEF GatewayType
  <2>4. GatewayInv'
    <3>1. circuit.probe => circuit.state = "half-open"
      BY DEF GatewayInv
    <3>2. /\ circuit'.probe => circuit'.state = "half-open"
          /\ circuit'.probe /\ ~circuit.probe => call'[c].probing
      BY <1>3, <2>2, <3>1, Breaker DEF GatewayType
    <3>3. QED
      BY <1>1, <2>2, <3>2 DEF GatewayInv, ProbeIsAccountedFor
  <2>5. QED
    BY <1>1, <2>2, <2>3, <2>4 DEF OneCall
<1>4. CASE circuit' = Asked(circuit) /\ ~Allows(circuit) /\ Return(c, "circuit-open")
  <2>1. /\ call' = [call EXCEPT ![c] = [Idle EXCEPT !.at = "done", !.result = "circuit-open"]]
        /\ call'[c] = [Idle EXCEPT !.at = "done", !.result = "circuit-open"]
    BY <1>4 DEF Return, GatewayType
  <2>2. GatewayType'
    BY <1>1, <1>4, <2>1, Beginnings, Breaker, ResultsAre DEF GatewayType
  <2>3. call'[c].at = "done"
    BY <2>1 DEF Idle
  <2>4. GatewayInv'
    <3>1. circuit.probe => circuit.state = "half-open"
      BY DEF GatewayInv
    <3>2. (circuit'.probe => circuit'.state = "half-open") /\ (circuit'.probe => circuit.probe)
      BY <1>4, <3>1, Breaker DEF GatewayType, Allows, Circuits
    <3>3. QED
      BY <1>1, <2>3, <3>2 DEF GatewayInv, ProbeIsAccountedFor
  <2>5. QED
    BY <1>1, <2>2, <2>3, <2>4 DEF OneCall
<1>5. QED
  BY <1>2, <1>3, <1>4, ResultsAre DEF Check

LEMMA AttemptStep ==
  ASSUME GatewayType, GatewayInv, NEW c \in Callers, Attempt(c)
  PROVE  GatewayType' /\ GatewayInv' /\ OneCall(c)
<1>1. call[c].at = "attempt" /\ UNCHANGED cancelled
  BY DEF Attempt, Succeeds, Raises, Fails
<1>2. CASE Succeeds(c)
  <2>1. /\ call' = [call EXCEPT ![c] = [Idle EXCEPT !.at = "done", !.result = "success"]]
        /\ circuit' = Closed /\ UNCHANGED unjudged
    BY <1>2 DEF Succeeds, Return, Succeeded
  <2>2. GatewayType'
    BY <1>1, <2>1, Beginnings, ResultsAre, Breaker DEF GatewayType, Succeeded
  <2>3. ~circuit'.probe
    BY <2>1 DEF Closed
  <2>4. call'[c].at = "done" /\ \A d \in Callers : d # c => call'[d] = call[d]
    BY <2>1 DEF Idle, GatewayType
  <2>5. QED
    BY <1>1, <2>2, <2>3, <2>4 DEF GatewayInv, ProbeIsAccountedFor, OneCall
<1>3. CASE Raises(c)
  <2>1. /\ call' = [call EXCEPT ![c] = [Idle EXCEPT !.at = "done", !.result = "raises"]]
        /\ UNCHANGED circuit /\ unjudged' = (unjudged \/ call[c].probing)
    BY <1>3 DEF Raises, Return, Unjudged
  <2>2. GatewayType'
    BY <1>1, <2>1, Beginnings, ResultsAre DEF GatewayType, Calls
  <2>3. call'[c].at = "done" /\ \A d \in Callers : d # c => call'[d] = call[d]
    BY <2>1 DEF Idle, GatewayType
  <2>4. QED
    BY <1>1, <2>1, <2>2, <2>3 DEF GatewayInv, ProbeIsAccountedFor, OneCall
<1>4. ASSUME NEW code \in DOMAIN FailureClass, Fails(c, code)
      PROVE  GatewayType' /\ GatewayInv' /\ OneCall(c)
  <2> DEFINE told == Disposition(code, call[c].attempt) \in {"retryable", "integrity"}
  <2>1. /\ circuit' = IF told THEN Failed(circuit) ELSE circuit
        /\ unjudged' = (IF told THEN unjudged ELSE unjudged \/ call[c].probing)
    BY <1>4 DEF Fails, Unjudged
  <2>2. \/ \E result \in Results : Return(c, result)
        \/ /\ Disposition(code, call[c].attempt) = "retryable"
           /\ call' = [call EXCEPT ![c].at = "sleep", ![c].probing = FALSE]
    BY <1>4, ResultsAre DEF Fails
  <2>3. /\ call' \in [Callers -> Calls] /\ OneCall(c) /\ call'[c].at # "attempt"
        /\ call'[c].at = "sleep" => call'[c].attempt < MaxAttempts
    <3>1. ASSUME NEW result \in Results, Return(c, result)
          PROVE  /\ call' \in [Callers -> Calls] /\ OneCall(c) /\ call'[c].at # "attempt"
                 /\ call'[c].at # "sleep"
      <4>1. call' = [call EXCEPT ![c] = [Idle EXCEPT !.at = "done", !.result = result]]
        BY <3>1 DEF Return
      <4>2. QED
        BY <1>1, <4>1, Beginnings DEF GatewayType, OneCall, Idle
    <3>2. CASE /\ Disposition(code, call[c].attempt) = "retryable"
               /\ call' = [call EXCEPT ![c].at = "sleep", ![c].probing = FALSE]
      <4>1. ~(call[c].attempt >= MaxAttempts)
        BY <3>2 DEF Disposition
      <4>2. call[c] \in Calls
        BY DEF GatewayType
      <4>3. call'[c] \in Calls /\ call'[c].at = "sleep" /\ call'[c].attempt = call[c].attempt
        BY <3>2, <4>2 DEF GatewayType, Calls
      <4>4. QED
        BY <1>1, <3>2, <4>1, <4>2, <4>3, Constants DEF GatewayType, OneCall, Calls
    <3>3. QED
      BY <2>2, <3>1, <3>2
  <2>4. GatewayType'
    BY <1>1, <2>1, <2>3, Breaker DEF GatewayType, Calls
  <2>5. CASE told
    <3>1. ~circuit'.probe
      BY <2>1, <2>5, Breaker DEF GatewayType, GatewayInv
    <3>2. QED
      BY <2>3, <2>4, <3>1 DEF GatewayInv, ProbeIsAccountedFor, OneCall
  <2>6. CASE ~told
    BY <1>1, <2>1, <2>3, <2>4, <2>6 DEF GatewayInv, ProbeIsAccountedFor, OneCall
  <2>7. QED
    BY <2>5, <2>6
<1>5. QED
  BY <1>2, <1>3, <1>4 DEF Attempt

LEMMA WakeStep ==
  ASSUME GatewayType, GatewayInv, NEW c \in Callers, Wake(c)
  PROVE  GatewayType' /\ GatewayInv' /\ OneCall(c)
<1>1. /\ call[c].at = "sleep" /\ call[c] \in Calls /\ call[c].attempt < MaxAttempts
      /\ call' = [call EXCEPT ![c].at = "check", ![c].attempt = @ + 1]
      /\ UNCHANGED <<circuit, cancelled, unjudged>>
  BY DEF Wake, GatewayType, GatewayInv
<1>2. call'[c] \in Calls /\ call'[c].at = "check"
  BY <1>1, Constants DEF GatewayType, Calls
<1>3. \A d \in Callers : d # c => call'[d] = call[d]
  BY <1>1 DEF GatewayType
<1>4. call' \in [Callers -> Calls]
  BY <1>1, <1>2 DEF GatewayType
<1>5. QED
  BY <1>1, <1>2, <1>3, <1>4 DEF GatewayType, GatewayInv, ProbeIsAccountedFor, OneCall

-----------------------------------------------------------------------------
(* The journal and the counters. *)

Records == Phases \X Nat \X Nat

LEMMA ExecutedIsFinite ==
  ASSUME journal \in Seq(Records), NEW phase
  PROVE  /\ IsFiniteSet(Executed(phase)) /\ Cardinality(Executed(phase)) \in Nat
         /\ Executed(phase) \subseteq 1..Len(journal)
<1>1. Executed(phase) \subseteq 1..Len(journal)
  BY DEF Executed
<1>2. IsFiniteSet(1..Len(journal))
  BY FS_Interval
<1>3. QED
  BY <1>1, <1>2, FS_Subset, FS_CardinalityType

LEMMA EntryIsCounted ==
  ASSUME journal \in Seq(Records), NEW e \in Records, journal' = Append(journal, e),
         NEW phase
  PROVE  Cardinality(Executed(phase)') =
           Cardinality(Executed(phase)) + (IF e[1] = phase THEN 1 ELSE 0)
<1>1. /\ DOMAIN journal = 1..Len(journal) /\ DOMAIN journal' = 1..(Len(journal) + 1)
      /\ \A i \in 1..Len(journal) : journal'[i] = journal[i]
      /\ journal'[Len(journal) + 1] = e /\ Len(journal) \in Nat
  OBVIOUS
<1>2. Executed(phase)' = Executed(phase) \cup
        (IF e[1] = phase THEN {Len(journal) + 1} ELSE {})
  BY <1>1 DEF Executed
<1>3. /\ IsFiniteSet(Executed(phase)) /\ Cardinality(Executed(phase)) \in Nat
      /\ Len(journal) + 1 \notin Executed(phase)
  BY <1>1, ExecutedIsFinite
<1>4. Cardinality(Executed(phase) \cup {Len(journal) + 1}) = Cardinality(Executed(phase)) + 1
  BY <1>3, FS_AddElement
<1>5. CASE e[1] = phase
  BY <1>2, <1>3, <1>4, <1>5
<1>6. CASE e[1] # phase
  BY <1>2, <1>3, <1>6
<1>7. QED
  BY <1>5, <1>6

LEMMA Resets ==
  /\ UpTo(0) = <<>>
  /\ \A n \in Nat : UpTo(n) \in Seq(Nat) /\ Append(UpTo(n), n + 1) = UpTo(n + 1)
<1>1. UpTo(0) = <<>>
  BY DEF UpTo
<1>2. ASSUME NEW n \in Nat
      PROVE  UpTo(n) \in Seq(Nat) /\ Append(UpTo(n), n + 1) = UpTo(n + 1)
  <2>1. UpTo(n) \in Seq(Nat) /\ Len(UpTo(n)) = n /\ UpTo(n + 1) \in Seq(Nat)
        /\ Len(UpTo(n + 1)) = n + 1
    BY DEF UpTo
  <2>2. Append(UpTo(n), n + 1) \in Seq(Nat) /\ Len(Append(UpTo(n), n + 1)) = n + 1
    BY <2>1
  <2>3. \A i \in 1..(n + 1) : Append(UpTo(n), n + 1)[i] = UpTo(n + 1)[i]
    BY <2>1 DEF UpTo
  <2>4. QED
    BY <2>1, <2>2, <2>3, SeqEqual
<1>3. QED
  BY <1>1, <1>2

-----------------------------------------------------------------------------
(* The steps of run_series. *)

\* What stays of the gateway when a caller of it begins a call or takes an answer.
LEMMA CallerStep ==
  ASSUME GatewayType, GatewayInv, NEW c \in Callers, call[c].at # "attempt",
         NEW new \in Calls, new.at # "sleep",
         call' = [call EXCEPT ![c] = new], UNCHANGED <<circuit, cancelled, unjudged>>
  PROVE  GatewayType' /\ GatewayInv' /\ call'[c] = new
         /\ \A d \in Callers : d # c => call'[d] = call[d]
<1>1. call'[c] = new /\ \A d \in Callers : d # c => call'[d] = call[d]
  BY DEF GatewayType
<1>2. call' \in [Callers -> Calls]
  BY DEF GatewayType
<1>3. QED
  BY <1>1, <1>2 DEF GatewayType, GatewayInv, ProbeIsAccountedFor

\* _advance to a phase that is executed: the loops must stand right in it.
LEMMA AdvanceStep ==
  ASSUME IInv, AtRest, NEW t \in RunningPhases, Advance(t), LoopsStand',
         sub' \in Nat, step' \in Nat, completed' \in Nat, steps' \in Nat,
         resets' \in Seq(Nat),
         steps' = steps + Pending("checkpointing"),
         completed' = completed + Pending("subgame-terminal")
  PROVE  IInv'
<1>1. /\ t \in Phases /\ t # "completed" /\ t \notin TerminalPhases
  BY RunningArePhases DEF TerminalPhases
<1>2. /\ machine' = [phase |-> t, revision |-> machine.revision + 1]
      /\ UNCHANGED <<circuit, cancelled, unjudged, watchdog, progress, run>>
      /\ journal' = Append(journal, <<t, sub', step'>>)
      /\ call' = [call EXCEPT ![Workflow] = [Idle EXCEPT !.at = "check"]]
  BY <1>1 DEF Advance, Move, Begin
<1>3. run = "running" /\ call[Workflow].at = "idle"
  BY DEF AtRest
<1>4. GatewayType' /\ GatewayInv' /\ call'[Workflow].at = "check"
  <2>1. [Idle EXCEPT !.at = "check"] \in Calls /\ [Idle EXCEPT !.at = "check"].at = "check"
    BY Beginnings DEF Idle
  <2>2. QED
    BY <1>2, <1>3, <2>1, Constants, CallerStep DEF IInv
<1>5. <<t, sub', step'>> \in Records /\ <<t, sub', step'>>[1] = t
  BY <1>1 DEF Records
<1>6. journal \in Seq(Records) /\ journal' \in Seq(Records)
  BY <1>2, <1>5 DEF IInv, LifecycleType, Records
<1>7. machine' \in [phase : Phases, revision : Nat] /\ machine'.phase = t
  BY <1>1, <1>2 DEF IInv, LifecycleType
<1>8. LifecycleType'
  BY <1>2, <1>6, <1>7 DEF IInv, LifecycleType, Records
<1>9. JournalIsCounted'
  <2>1. JournalIsCounted
    BY <1>3 DEF IInv, RunInv
  <2>2. /\ journal' # <<>> /\ Len(journal') = Len(journal) + 1
        /\ journal'[Len(journal')] = <<t, sub', step'>>
    BY <1>2, <1>6
  <2>3. \A phase : Cardinality(Executed(phase)') =
          Cardinality(Executed(phase)) + (IF t = phase THEN 1 ELSE 0)
    BY <1>2, <1>5, <1>6, EntryIsCounted
  <2>4. steps' + Pending("checkpointing")' = Cardinality(Executed("checkpointing")')
    BY <1>7, <2>1, <2>3 DEF JournalIsCounted, Pending
  <2>5. completed' + Pending("subgame-terminal")' = Cardinality(Executed("subgame-terminal")')
    BY <1>7, <2>1, <2>3 DEF JournalIsCounted, Pending
  <2>6. progress' + (IF call'[Workflow].at = "idle" THEN 0 ELSE 1) = Len(journal')
    <3>1. progress + 0 = Len(journal)
      BY <1>3, <2>1 DEF JournalIsCounted
    <3>2. progress \in Nat
      BY DEF IInv, LifecycleType
    <3>3. progress' + 1 = Len(journal')
      BY <1>2, <2>2, <3>1, <3>2
    <3>4. QED
      BY <1>4, <3>3
  <2>7. QED
    BY <1>5, <1>7, <2>2, <2>4, <2>5, <2>6 DEF JournalIsCounted
<1>10. ResultTellsTheTruth'
  <2>1. Cardinality(Executed("checkpointing")') \in Nat
    <3>1. Cardinality(Executed("checkpointing")') =
            Cardinality(Executed("checkpointing")) + (IF t = "checkpointing" THEN 1 ELSE 0)
      BY <1>2, <1>5, <1>6, EntryIsCounted
    <3>2. Cardinality(Executed("checkpointing")) \in Nat
      BY <1>6, ExecutedIsFinite
    <3>3. QED
      BY <3>1, <3>2
  <2>2. steps' \in {Cardinality(Executed("checkpointing")') - d : d \in {0, 1}}
    <3>1. steps' + Pending("checkpointing")' = Cardinality(Executed("checkpointing")')
      BY <1>9 DEF JournalIsCounted
    <3>2. Pending("checkpointing")' \in {0, 1}
      BY DEF Pending
    <3>3. steps' = Cardinality(Executed("checkpointing")') - Pending("checkpointing")'
      BY <2>1, <3>1, <3>2
    <3>4. QED
      BY <3>2, <3>3
  <2>3. run' = "running"
    BY <1>2, <1>3
  <2>4. QED
    BY <2>2, <2>3 DEF ResultTellsTheTruth
<1>11. RunInv'
  BY <1>2, <1>3, <1>7, <1>9, <1>10 DEF RunInv
<1>12. QED
  BY <1>4, <1>8, <1>11 DEF IInv

\* Where the phases with one successor lead.
LEMMA Onwards ==
  /\ \A p \in {"initializing", "ready"} : Successor(p) \in Early
  /\ Successor("negotiating") = "waiting-for-opponent"
  /\ \A p \in InStep \ {"checkpointing"} : Successor(p) \in InStep
  /\ \A p \in Closing \ {"shutting-down"} : Successor(p) \in Closing
  /\ Successor("shutting-down") = "completed"
<1>1. RunningPhases \subseteq Phases /\ "completed" \in Phases
  BY RunningArePhases DEF TerminalPhases
<1>2. /\ Successor("initializing") = "ready" /\ Successor("ready") = "negotiating"
      /\ Successor("negotiating") = "waiting-for-opponent"
  BY <1>1, Successors, OneSuccessor DEF RunningPhases, Early, InSubGame
<1>3. /\ Successor("updating-belief") = "computing-strategy"
      /\ Successor("computing-strategy") = "committing"
      /\ Successor("committing") = "waiting-ack"
  BY <1>1, Successors, OneSuccessor DEF RunningPhases, InSubGame, InStep
<1>4. /\ Successor("waiting-ack") = "revealing"
      /\ Successor("revealing") = "verifying" /\ Successor("verifying") = "checkpointing"
  BY <1>1, Successors, OneSuccessor DEF RunningPhases, InSubGame, InStep
<1>5. /\ Successor("auditing") = "agreeing-result"
      /\ Successor("agreeing-result") = "finalizing-artifacts"
      /\ Successor("finalizing-artifacts") = "queueing-report"
  BY <1>1, Successors, OneSuccessor DEF RunningPhases, Closing
<1>6. /\ Successor("queueing-report") = "shutting-down"
      /\ Successor("shutting-down") = "completed"
  BY <1>1, Successors, OneSuccessor DEF RunningPhases, Closing
<1>7. QED
  BY <1>2, <1>3, <1>4, <1>5, <1>6 DEF Early, InStep, Closing

\* What is known between two phases.
LEMMA AtRestKnows ==
  ASSUME IInv, AtRest
  PROVE  /\ machine.phase \in RunningPhases /\ LoopsStand /\ JournalIsCounted
         /\ sub \in Nat /\ step \in Nat /\ completed \in Nat /\ steps \in Nat
         /\ resets \in Seq(Nat) /\ progress \in Nat /\ progress = Len(journal)
  BY DEF IInv, AtRest, RunInv, LifecycleType, JournalIsCounted

LEMMA ProceedStep ==
  ASSUME IInv, Proceed, machine.phase # "shutting-down"
  PROVE  IInv'
<1> DEFINE t == Successor(machine.phase)
<1>1. /\ AtRest /\ Advance(t) /\ UNCHANGED <<step, completed, steps, resets>>
      /\ sub' = IF machine.phase = "negotiating" THEN 1 ELSE sub
      /\ machine.phase \notin {"waiting-for-opponent", "checkpointing", "subgame-terminal"}
  BY DEF Proceed
<1>2. /\ machine.phase \in RunningPhases /\ LoopsStand
      /\ sub \in Nat /\ step \in Nat /\ completed \in Nat /\ steps \in Nat
      /\ resets \in Seq(Nat)
  BY <1>1, AtRestKnows
<1>3. machine'.phase = t
  BY <1>1 DEF Advance, Move
<1>4. t \in RunningPhases /\ LoopsStand'
  <2>1. CASE machine.phase \in {"initializing", "ready"}
    <3>1. t \in Early
      BY <2>1, Onwards
    <3>2. sub = 0 /\ step = 0 /\ completed = 0 /\ resets = <<>> /\ sub' = sub
      BY <1>1, <1>2, <2>1 DEF LoopsStand, Early
    <3>3. t \notin InSubGame /\ t \notin Closing /\ t \in RunningPhases
      BY <3>1 DEF Early, InSubGame, InStep, Closing, RunningPhases
    <3>4. QED
      BY <1>1, <1>3, <3>1, <3>2, <3>3 DEF LoopsStand
  <2>2. CASE machine.phase = "negotiating"
    <3>1. t = "waiting-for-opponent"
      BY <2>2, Onwards
    <3>2. step = 0 /\ completed = 0 /\ resets = <<>> /\ sub' = 1
      BY <1>1, <1>2, <2>2 DEF LoopsStand, Early
    <3>3. t \in InSubGame /\ t \notin Early /\ t \notin Closing /\ t \in RunningPhases
      BY <3>1 DEF Early, InSubGame, InStep, Closing, RunningPhases
    <3>4. /\ sub' \in 1..SubGames /\ completed' = sub' - 1 /\ step' \in 0..MaxSteps
          /\ resets' = UpTo(IF step' = 0 THEN sub' - 1 ELSE sub')
      <4>1. step' = 0 /\ completed' = 0 /\ resets' = UpTo(0)
        BY <1>1, <3>2, Resets
      <4>2. sub' - 1 = 0 /\ sub' \in 1..SubGames /\ step' \in 0..MaxSteps
        BY <3>2, <4>1, Constants
      <4>3. QED
        BY <4>1, <4>2
    <3>5. QED
      BY <1>3, <3>1, <3>3, <3>4 DEF LoopsStand
  <2>3. CASE machine.phase \in InStep
    <3>1. t \in InStep
      BY <1>1, <2>3, Onwards
    <3>2. t \in InSubGame /\ t \notin Early /\ t \notin Closing /\ t \in RunningPhases
          /\ machine.phase \in InSubGame /\ machine.phase # "negotiating"
      BY <2>3, <3>1 DEF Early, InSubGame, InStep, Closing, RunningPhases
    <3>3. /\ sub \in 1..SubGames /\ completed = sub - 1 /\ step \in 0..MaxSteps
          /\ resets = UpTo(IF step = 0 THEN sub - 1 ELSE sub) /\ step # 0
      BY <1>1, <1>2, <3>2 DEF LoopsStand
    <3>4. QED
      BY <1>1, <1>3, <3>2, <3>3 DEF LoopsStand
  <2>4. CASE machine.phase \in Closing
    <3>1. t \in Closing
      BY <2>4, Onwards
    <3>2. t \notin Early /\ t \notin InSubGame /\ t \in RunningPhases
      BY <3>1 DEF Early, InSubGame, InStep, Closing, RunningPhases
    <3>3. QED
      BY <1>1, <1>2, <1>3, <2>4, <3>1, <3>2 DEF LoopsStand
  <2>5. QED
    BY <1>1, <1>2, <2>1, <2>2, <2>3, <2>4 DEF RunningPhases, Early, InSubGame
<1>5. Pending("checkpointing") = 0 /\ Pending("subgame-terminal") = 0
  BY <1>1 DEF Pending
<1>6. steps' = steps + Pending("checkpointing")
      /\ completed' = completed + Pending("subgame-terminal")
      /\ sub' \in Nat /\ step' \in Nat /\ completed' \in Nat /\ steps' \in Nat
      /\ resets' \in Seq(Nat)
  BY <1>1, <1>2, <1>5
<1>7. QED
  BY <1>1, <1>4, <1>6, AdvanceStep

\* COMPLETED is entered and not executed.
LEMMA CompleteStep ==
  ASSUME IInv, Proceed, machine.phase = "shutting-down"
  PROVE  IInv'
<1>1. /\ AtRest /\ Advance("completed") /\ UNCHANGED <<sub, step, completed, steps, resets>>
  BY Onwards DEF Proceed
<1>2. /\ machine' = [phase |-> "completed", revision |-> machine.revision + 1]
      /\ progress' = progress + 1 /\ run' = "returned"
      /\ UNCHANGED <<circuit, cancelled, unjudged, watchdog, call, journal>>
  BY <1>1 DEF Advance, Move
<1>3. /\ completed = SubGames /\ resets = UpTo(SubGames) /\ JournalIsCounted
      /\ progress \in Nat /\ progress = Len(journal) /\ completed \in Nat /\ steps \in Nat
  BY <1>1, AtRestKnows DEF LoopsStand, Closing
<1>4. GatewayType' /\ GatewayInv'
  BY <1>2 DEF IInv, GatewayType, GatewayInv, ProbeIsAccountedFor
<1>5. machine' \in [phase : Phases, revision : Nat]
  BY <1>2, RunningArePhases DEF IInv, LifecycleType, TerminalPhases
<1>6. LifecycleType'
  BY <1>1, <1>2, <1>5 DEF IInv, LifecycleType
<1>7. /\ steps = Cardinality(Executed("checkpointing"))
      /\ completed = Cardinality(Executed("subgame-terminal"))
  BY <1>3 DEF JournalIsCounted, Pending
<1>8. ResultTellsTheTruth'
  <2>1. UNCHANGED <<Executed("checkpointing"), Executed("subgame-terminal")>>
    BY <1>2 DEF Executed
  <2>2. /\ steps' = Cardinality(Executed("checkpointing")')
        /\ Cardinality(Executed("subgame-terminal")') = SubGames
        /\ progress' = Len(journal') + 1 /\ completed' = SubGames
        /\ resets' = [i \in 1..SubGames |-> i]
    BY <1>1, <1>2, <1>3, <1>7, <2>1 DEF UpTo
  <2>3. steps' \in {Cardinality(Executed("checkpointing")') - d : d \in {0, 1}}
    <3>1. steps' = steps' - 0
      BY <1>1, <1>3
    <3>2. QED
      BY <2>2, <3>1
  <2>4. machine'.phase = "completed" /\ run' = "returned"
    BY <1>2
  <2>5. QED
    BY <2>2, <2>3, <2>4 DEF ResultTellsTheTruth, TerminalPhases
<1>9. RunInv'
  BY <1>2, <1>8 DEF RunInv
<1>10. QED
  BY <1>4, <1>6, <1>9 DEF IInv

\* Entering a phase of a sub-game.
LEMMA SubGameStep ==
  ASSUME IInv, AtRest, NEW t \in InSubGame, Advance(t),
         sub' \in 1..SubGames, completed' = sub' - 1, step' \in 0..MaxSteps,
         resets' = UpTo(IF step' = 0 THEN sub' - 1 ELSE sub'),
         step' = 0 => t = "waiting-for-opponent",
         steps' \in Nat, resets' \in Seq(Nat),
         steps' = steps + Pending("checkpointing"),
         completed' = completed + Pending("subgame-terminal")
  PROVE  IInv'
<1>1. t \in RunningPhases /\ t \notin Early /\ t \notin Closing
  BY DEF RunningPhases, Early, InSubGame, InStep, Closing
<1>2. machine'.phase = t
  BY DEF Advance, Move
<1>3. LoopsStand'
  BY <1>1, <1>2 DEF LoopsStand
<1>4. sub' \in Nat /\ step' \in Nat /\ completed' \in Nat
  <2>1. \A n \in 1..SubGames : n \in Nat /\ n - 1 \in Nat
    BY Constants
  <2>2. \A n \in 0..MaxSteps : n \in Nat
    BY Constants
  <2>3. QED
    BY <2>1, <2>2
<1>5. QED
  BY <1>1, <1>3, <1>4, AdvanceStep

LEMMA StartSubGameStep ==
  ASSUME IInv, StartSubGame
  PROVE  IInv'
<1>1. /\ AtRest /\ Advance("updating-belief") /\ UNCHANGED <<sub, completed, steps>>
      /\ resets' = Append(resets, sub) /\ step' = 1 /\ step = 0
      /\ machine.phase = "waiting-for-opponent"
  BY DEF StartSubGame
<1>2. /\ sub \in 1..SubGames /\ completed = sub - 1 /\ resets = UpTo(sub - 1)
      /\ steps \in Nat /\ completed \in Nat
  BY <1>1, AtRestKnows DEF LoopsStand, InSubGame
<1>3. resets' = UpTo(sub) /\ resets' \in Seq(Nat)
  <2>1. sub - 1 \in Nat /\ (sub - 1) + 1 = sub
    BY <1>2, Constants
  <2>2. Append(UpTo(sub - 1), (sub - 1) + 1) = UpTo((sub - 1) + 1)
    BY <2>1, Resets
  <2>3. sub \in Nat
    BY <1>2, Constants
  <2>4. QED
    BY <1>1, <1>2, <2>1, <2>2, <2>3, Resets
<1>4. Pending("checkpointing") = 0 /\ Pending("subgame-terminal") = 0
  BY <1>1 DEF Pending
<1>5. step' \in 0..MaxSteps /\ step' # 0 /\ "updating-belief" \in InSubGame
  BY <1>1, Constants DEF InSubGame, InStep
<1>6. steps' = steps + 0 /\ completed' = completed + 0
  BY <1>1, <1>2
<1>7. QED
  BY <1>1, <1>2, <1>3, <1>4, <1>5, <1>6, SubGameStep

LEMMA NextStepStep ==
  ASSUME IInv, NextStep
  PROVE  IInv'
<1>1. /\ AtRest /\ Advance("updating-belief") /\ UNCHANGED <<sub, completed, steps, resets>>
      /\ step' = step + 1 /\ step \in 1..MaxSteps - 1
      /\ machine.phase = "waiting-for-opponent"
  BY DEF NextStep
<1>2. step' \in 0..MaxSteps /\ step # 0 /\ step' # 0 /\ "updating-belief" \in InSubGame
  BY <1>1, Constants DEF InSubGame, InStep
<1>3. /\ sub \in 1..SubGames /\ completed = sub - 1 /\ resets = UpTo(sub)
      /\ steps \in Nat /\ completed \in Nat /\ resets \in Seq(Nat)
  BY <1>1, <1>2, AtRestKnows DEF LoopsStand, InSubGame
<1>4. Pending("checkpointing") = 0 /\ Pending("subgame-terminal") = 0
  BY <1>1 DEF Pending
<1>5. steps' = steps + 0 /\ completed' = completed + 0
  BY <1>1, <1>3
<1>6. QED
  BY <1>1, <1>2, <1>3, <1>4, <1>5, SubGameStep

LEMMA EndStepStep ==
  ASSUME IInv, EndStep
  PROVE  IInv'
<1>1. /\ AtRest /\ UNCHANGED <<sub, step, completed, resets>> /\ steps' = steps + 1
      /\ machine.phase = "checkpointing"
  BY DEF EndStep
<1>2. PICK t \in {"subgame-terminal", "waiting-for-opponent"} : Advance(t)
  BY DEF EndStep
<1>3. /\ sub \in 1..SubGames /\ completed = sub - 1 /\ step \in 0..MaxSteps /\ step # 0
      /\ resets = UpTo(IF step = 0 THEN sub - 1 ELSE sub)
      /\ steps \in Nat /\ completed \in Nat /\ resets \in Seq(Nat)
  BY <1>1, AtRestKnows DEF LoopsStand, InSubGame, InStep
<1>4. Pending("checkpointing") = 1 /\ Pending("subgame-terminal") = 0
  BY <1>1 DEF Pending
<1>5. steps' \in Nat /\ completed' = completed + 0 /\ t \in InSubGame
  BY <1>1, <1>3 DEF InSubGame
<1>6. QED
  BY <1>1, <1>2, <1>3, <1>4, <1>5, SubGameStep

LEMMA EndSubGameStep ==
  ASSUME IInv, EndSubGame
  PROVE  IInv'
<1>1. /\ AtRest /\ completed' = completed + 1 /\ UNCHANGED <<steps, resets>>
      /\ machine.phase = "subgame-terminal"
  BY DEF EndSubGame
<1>2. /\ sub \in 1..SubGames /\ completed = sub - 1 /\ step # 0 /\ resets = UpTo(sub)
      /\ steps \in Nat /\ step \in Nat /\ resets \in Seq(Nat)
  BY <1>1, AtRestKnows DEF LoopsStand, InSubGame
<1>3. Pending("checkpointing") = 0 /\ Pending("subgame-terminal") = 1
  BY <1>1 DEF Pending
<1>4. completed' = sub /\ steps' = steps + 0 /\ sub \in Nat
  BY <1>1, <1>2, Constants
<1>5. CASE sub = SubGames
  <2>1. UNCHANGED <<sub, step>> /\ Advance("auditing")
    BY <1>5 DEF EndSubGame
  <2>2. "auditing" \in RunningPhases /\ "auditing" \notin Early /\ "auditing" \notin InSubGame
    BY DEF RunningPhases, Early, InSubGame, InStep, Closing
  <2>3. machine'.phase = "auditing"
    BY <2>1 DEF Advance, Move
  <2>4. LoopsStand'
    BY <1>1, <1>2, <1>4, <1>5, <2>2, <2>3 DEF LoopsStand
  <2>5. QED
    BY <1>1, <1>2, <1>3, <1>4, <2>1, <2>2, <2>4, AdvanceStep
<1>6. CASE sub # SubGames
  <2>1. sub' = sub + 1 /\ step' = 0 /\ Advance("waiting-for-opponent")
    BY <1>6 DEF EndSubGame
  <2>2. /\ sub' \in 1..SubGames /\ completed' = sub' - 1 /\ step' \in 0..MaxSteps
        /\ resets' = UpTo(sub' - 1) /\ "waiting-for-opponent" \in InSubGame
    <3>1. sub' \in 1..SubGames /\ sub' - 1 = sub
      BY <1>2, <1>6, <2>1, Constants
    <3>2. QED
      BY <1>1, <1>2, <1>4, <2>1, <3>1, Constants DEF InSubGame
  <2>3. QED
    BY <1>1, <1>2, <1>3, <1>4, <2>1, <2>2, SubGameStep
<1>7. QED
  BY <1>5, <1>6

-----------------------------------------------------------------------------
(* Failures, answers, and what happens around run_series. *)

\* The handlers of run_series, out of the running phases.
LEMMA Handled ==
  ASSUME NEW kind \in {"refusal", "integrity", "failure"}, Handle(kind)
  PROVE  \/ /\ run' = "returned" /\ machine'.phase = TerminalOf[kind]
            /\ \/ machine' = machine
               \/ /\ <<machine.phase, machine'.phase>> \in Transitions[kind]
                  /\ machine' = [phase |-> TerminalOf[kind], revision |-> machine.revision + 1]
         \/ /\ run' = "raised" /\ machine' = machine
            /\ machine.phase # TerminalOf[kind]
            /\ <<machine.phase, TerminalOf[kind]>> \notin Transitions[kind]
<1> DEFINE target == TerminalOf[kind]
<1>1. CASE machine.phase = target
  BY <1>1 DEF Handle
<1>2. CASE machine.phase # target /\ <<machine.phase, target>> \in Transitions[kind]
  <2>1. run' = "returned" /\ machine' = [phase |-> target, revision |-> machine.revision + 1]
    BY <1>2 DEF Handle
  <2>2. QED
    BY <1>2, <2>1
<1>3. CASE machine.phase # target /\ <<machine.phase, target>> \notin Transitions[kind]
  BY <1>3 DEF Handle
<1>4. QED
  BY <1>1, <1>2, <1>3

LEMMA FailureTransitions ==
  /\ \A p, t : <<p, t>> \in Transitions["refusal"] <=> p = "negotiating" /\ t = "refused"
  /\ \A p, t : <<p, t>> \in Transitions["failure"] <=>
                p \in Phases \ TerminalPhases /\ t = "technical-loss"
  /\ \A p, t : <<p, t>> \in Transitions["integrity"] <=>
                p \in Phases \ TerminalPhases /\ t = "tamper"
  /\ TerminalOf["refusal"] = "refused" /\ TerminalOf["failure"] = "technical-loss"
  /\ TerminalOf["integrity"] = "tamper"
  BY DEF Transitions, TerminalOf

LEMMA FailStep ==
  ASSUME IInv, NEW kind \in {"refusal", "integrity", "failure"}, Fail(kind),
         \/ run = "running" /\ call[Workflow].at \in {"idle", "done"}
         \/ run = "fresh" /\ kind = "failure"
  PROVE  IInv'
<1>1. /\ Handle(kind) /\ call' = [call EXCEPT ![Workflow] = Idle]
      /\ UNCHANGED <<circuit, cancelled, unjudged, sub, step, completed, steps,
                     progress, resets, journal, watchdog>>
  BY DEF Fail
<1>2. call[Workflow].at \in {"idle", "done"}
  BY DEF IInv, RunInv, Idle
<1>3. GatewayType' /\ GatewayInv'
  <2>1. Idle \in Calls /\ Idle.at = "idle"
    BY Beginnings DEF Idle
  <2>2. call[Workflow].at # "attempt"
    BY <1>2
  <2>3. QED
    BY <1>1, <2>1, <2>2, Constants, CallerStep DEF IInv
<1>4. TerminalOf[kind] \in TerminalPhases /\ TerminalOf[kind] # "completed"
      /\ (TerminalOf[kind] = "refused" => kind = "refusal")
  BY FailureTransitions DEF TerminalPhases
<1>5. machine' \in [phase : Phases, revision : Nat] /\ run' \in {"returned", "raised"}
  BY <1>1, <1>4, Handled, RunningArePhases DEF IInv, LifecycleType
<1>6. LifecycleType'
  BY <1>1, <1>5 DEF IInv, LifecycleType
<1>7. ResultTellsTheTruth'
  <2>1. steps' \in {Cardinality(Executed("checkpointing")') - d : d \in {0, 1}}
    BY <1>1 DEF IInv, RunInv, ResultTellsTheTruth, Executed
  <2>2. CASE run' = "returned"
    <3>1. machine'.phase = TerminalOf[kind]
      BY <1>1, <2>2, Handled
    <3>2. ASSUME machine'.phase = "refused"
          PROVE  journal' # <<>> /\ resets' = <<>> /\ Last(journal')[1] = "negotiating"
      <4>1. kind = "refusal" /\ run = "running"
        BY <1>4, <3>1, <3>2
      <4>2. machine.phase \in RunningPhases /\ LoopsStand /\ JournalIsCounted
        BY <4>1 DEF IInv, RunInv
      <4>3. machine.phase # "refused"
        BY <4>2, RunningArePhases DEF TerminalPhases
      <4>4. <<machine.phase, machine'.phase>> \in Transitions["refusal"]
        BY <1>1, <2>2, <3>2, <4>1, <4>3, Handled
      <4>5. machine.phase = "negotiating"
        BY <4>4, FailureTransitions
      <4>6. QED
        BY <1>1, <4>2, <4>5 DEF LoopsStand, JournalIsCounted, Early, Last
    <3>3. QED
      BY <1>4, <2>1, <2>2, <3>1, <3>2 DEF ResultTellsTheTruth
  <2>3. CASE run' = "raised"
    <3>1. machine' = machine /\ <<machine.phase, TerminalOf[kind]>> \notin Transitions[kind]
      BY <1>1, <2>3, Handled
    <3>2. CASE run = "fresh"
      <4>1. journal' = <<>> /\ machine.phase \in Phases
        BY <1>1, <3>2 DEF IInv, RunInv, LifecycleType
      <4>2. machine.phase \in TerminalPhases
        BY <3>1, <3>2, <4>1, FailureTransitions
      <4>3. QED
        BY <2>1, <2>3, <3>1, <4>1, <4>2 DEF ResultTellsTheTruth
    <3>3. CASE run = "running"
      <4>1. machine.phase \in Phases \ TerminalPhases /\ journal # <<>>
        BY <3>3, RunningArePhases DEF IInv, RunInv, JournalIsCounted
      <4>2. kind = "refusal" /\ machine.phase # "negotiating"
        BY <3>1, <4>1, FailureTransitions
      <4>3. machine'.phase \notin TerminalPhases \cup {"negotiating"} /\ journal' # <<>>
        BY <1>1, <3>1, <4>1, <4>2
      <4>4. QED
        BY <2>1, <2>3, <4>3 DEF ResultTellsTheTruth
    <3>4. QED
      BY <3>2, <3>3
  <2>4. QED
    BY <1>5, <2>2, <2>3
<1>8. RunInv'
  BY <1>5, <1>7 DEF RunInv
<1>9. QED
  BY <1>3, <1>6, <1>8 DEF IInv

LEMMA StartStep ==
  ASSUME IInv, Start
  PROVE  IInv'
<1>1. CASE machine.phase # "created"
  BY <1>1, FailStep DEF Start
<1>2. CASE machine.phase = "created"
  <2>1. /\ machine' = [phase |-> "initializing", revision |-> machine.revision + 1]
        /\ run = "fresh" /\ run' = "running"
        /\ journal' = <<<<"initializing", 0, 0>>>>
        /\ call' = [call EXCEPT ![Workflow] = [Idle EXCEPT !.at = "check"]]
        /\ UNCHANGED <<circuit, cancelled, unjudged, sub, step, completed, steps,
                       progress, resets, watchdog>>
    BY <1>2 DEF Start, Move, Begin
  <2>2. /\ sub = 0 /\ step = 0 /\ completed = 0 /\ steps = 0 /\ progress = 0
        /\ resets = <<>> /\ journal = <<>> /\ call[Workflow] = Idle
    BY <2>1 DEF IInv, RunInv
  <2>3. GatewayType' /\ GatewayInv' /\ call'[Workflow].at = "check"
    <3>1. [Idle EXCEPT !.at = "check"] \in Calls /\ [Idle EXCEPT !.at = "check"].at = "check"
          /\ Idle.at = "idle"
      BY Beginnings DEF Idle
    <3>2. QED
      BY <2>1, <2>2, <3>1, Constants, CallerStep DEF IInv
  <2>4. "initializing" \in Phases /\ "initializing" \in RunningPhases
        /\ "initializing" \in Early /\ "initializing" \notin InSubGame \cup Closing
    BY RunningArePhases DEF RunningPhases, Early, InSubGame, InStep, Closing
  <2>5. LifecycleType'
    <3>1. <<"initializing", 0, 0>> \in Phases \X Nat \X Nat
      BY <2>4
    <3>2. journal' \in Seq(Phases \X Nat \X Nat)
      BY <2>1, <3>1
    <3>3. QED
      BY <2>1, <2>4, <3>2 DEF IInv, LifecycleType
  <2>6. LoopsStand'
    BY <2>1, <2>2, <2>4 DEF LoopsStand
  <2>7. /\ Cardinality(Executed("checkpointing")') = 0
        /\ Cardinality(Executed("subgame-terminal")') = 0
    <3>1. Executed("checkpointing")' = {} /\ Executed("subgame-terminal")' = {}
      BY <2>1 DEF Executed
    <3>2. QED
      BY <3>1, FS_EmptySet
  <2>8. JournalIsCounted'
    <3>1. /\ journal' # <<>> /\ Len(journal') = 1
          /\ journal'[Len(journal')][1] = machine'.phase
      BY <2>1
    <3>2. Pending("checkpointing")' = 0 /\ Pending("subgame-terminal")' = 0
      BY <2>1 DEF Pending
    <3>3. steps' + 0 = 0 /\ completed' + 0 = 0 /\ progress' + 1 = 1
      BY <2>1, <2>2
    <3>4. QED
      BY <2>3, <2>7, <3>1, <3>2, <3>3 DEF JournalIsCounted
  <2>9. ResultTellsTheTruth'
    <3>1. steps' = 0 /\ 0 \in {0 - d : d \in {0, 1}}
      BY <2>1, <2>2
    <3>2. QED
      BY <2>1, <2>7, <3>1 DEF ResultTellsTheTruth
  <2>10. QED
    BY <2>1, <2>3, <2>4, <2>5, <2>6, <2>8, <2>9 DEF IInv, RunInv
<1>3. QED
  BY <1>1, <1>2

LEMMA ExecuteReturnsStep ==
  ASSUME IInv, ExecuteReturns
  PROVE  IInv'
<1>1. /\ run = "running" /\ call[Workflow].at = "done"
      /\ call' = [call EXCEPT ![Workflow] = Idle] /\ progress' = progress + 1
      /\ watchdog' = [watchdog EXCEPT !.seen = FALSE]
      /\ UNCHANGED <<circuit, cancelled, unjudged, machine, run, sub, step, completed,
                     steps, resets, journal>>
  BY DEF ExecuteReturns
<1>2. GatewayType' /\ GatewayInv' /\ call'[Workflow] = Idle
  <2>1. Idle \in Calls /\ Idle.at = "idle"
    BY Beginnings DEF Idle
  <2>2. QED
    BY <1>1, <2>1, Constants, CallerStep DEF IInv
<1>3. LifecycleType'
  <2>1. progress \in Nat /\ progress' \in Nat
    BY <1>1 DEF IInv, LifecycleType
  <2>2. watchdog' \in
          [seen : BOOLEAN, reason : {"none", "heartbeat-absent", "progress-stalled"}]
    BY <1>1 DEF IInv, LifecycleType
  <2>3. QED
    BY <1>1, <2>1, <2>2 DEF IInv, LifecycleType
<1>4. progress' + 0 = Len(journal')
  <2>1. progress \in Nat /\ progress + 1 = Len(journal)
    BY <1>1 DEF IInv, LifecycleType, RunInv, JournalIsCounted
  <2>2. QED
    BY <1>1, <2>1
<1>5. /\ UNCHANGED <<LoopsStand, Executed("checkpointing"), Executed("subgame-terminal"),
                     Pending("checkpointing"), Pending("subgame-terminal")>>
  BY <1>1 DEF LoopsStand, Executed, Pending
<1>6. LoopsStand' /\ JournalIsCounted'
  <2>1. LoopsStand /\ JournalIsCounted
    BY <1>1 DEF IInv, RunInv
  <2>2. call'[Workflow].at = "idle"
    BY <1>2 DEF Idle
  <2>3. QED
    BY <1>1, <1>4, <1>5, <2>1, <2>2 DEF JournalIsCounted
<1>7. ResultTellsTheTruth'
  BY <1>1, <1>5 DEF IInv, RunInv, ResultTellsTheTruth
<1>8. QED
  BY <1>1, <1>2, <1>3, <1>6, <1>7 DEF IInv, RunInv

LEMMA ExecuteRaisesStep ==
  ASSUME IInv, ExecuteRaises
  PROVE  IInv'
<1>1. /\ run = "running" /\ call[Workflow].at = "done"
      /\ Fail(ErrorOf(call[Workflow].result))
  BY DEF ExecuteRaises
<1>2. ErrorOf(call[Workflow].result) \in {"refusal", "integrity", "failure"}
  BY DEF ErrorOf
<1>3. QED
  BY <1>1, <1>2, FailStep

LEMMA OutOfStepsStep ==
  ASSUME IInv, OutOfSteps
  PROVE  IInv'
  BY FailStep DEF OutOfSteps, AtRest

\* Around run_series the lifecycle stays what it is, but for the watchdog.
LEMMA BesideStep ==
  ASSUME IInv, GatewayType', GatewayInv',
         UNCHANGED <<machine, run, sub, step, completed, steps, progress, resets, journal>>,
         watchdog' \in [seen : BOOLEAN, reason : {"none", "heartbeat-absent", "progress-stalled"}],
         run = "running",
         call'[Workflow].at = "idle" <=> call[Workflow].at = "idle"
  PROVE  IInv'
<1>1. LifecycleType'
  BY DEF IInv, LifecycleType
<1>2. UNCHANGED <<LoopsStand, Executed("checkpointing"), Executed("subgame-terminal"),
                  Pending("checkpointing"), Pending("subgame-terminal")>>
  BY DEF LoopsStand, Executed, Pending
<1>3. JournalIsCounted'
  <2>1. JournalIsCounted
    BY DEF IInv, RunInv
  <2>2. QED
    BY <1>2, <2>1 DEF JournalIsCounted
<1>4. ResultTellsTheTruth'
  BY <1>2 DEF IInv, RunInv, ResultTellsTheTruth
<1>5. QED
  BY <1>1, <1>2, <1>3, <1>4 DEF IInv, RunInv

LEMMA GatewayStepStep ==
  ASSUME IInv, Gateway
  PROVE  IInv'
<1>1. /\ run = "running" /\ GatewayStep
      /\ UNCHANGED <<machine, run, sub, step, completed, steps, progress, resets, journal,
                     watchdog>>
  BY DEF Gateway, lifecycleVars
<1>2. ASSUME NEW c \in Callers, Check(c) \/ Attempt(c) \/ Wake(c)
      PROVE  GatewayType' /\ GatewayInv' /\ OneCall(c)
  BY <1>2, CheckStep, AttemptStep, WakeStep DEF IInv
<1>3. ASSUME CoolDown
      PROVE  GatewayType' /\ GatewayInv' /\ UNCHANGED call
  BY <1>3, Breaker DEF CoolDown, IInv, GatewayType, GatewayInv, ProbeIsAccountedFor, Circuits
<1>4. /\ GatewayType' /\ GatewayInv'
      /\ call'[Workflow].at = "idle" <=> call[Workflow].at = "idle"
  BY <1>1, <1>2, <1>3, Constants DEF GatewayStep, OneCall
<1>5. watchdog' \in [seen : BOOLEAN, reason : {"none", "heartbeat-absent", "progress-stalled"}]
  BY <1>1 DEF IInv, LifecycleType
<1>6. QED
  BY <1>1, <1>4, <1>5, BesideStep

LEMMA TaskCallsStep ==
  ASSUME IInv, TaskCalls
  PROVE  IInv'
<1>1. /\ run = "running" /\ call[Task].at \in {"idle", "done"}
      /\ call' = [call EXCEPT ![Task] = [Idle EXCEPT !.at = "check"]]
      /\ UNCHANGED <<circuit, cancelled, unjudged, machine, run, sub, step, completed, steps,
                     progress, resets, journal, watchdog>>
  BY DEF TaskCalls, Begin, lifecycleVars
<1>2. [Idle EXCEPT !.at = "check"] \in Calls /\ [Idle EXCEPT !.at = "check"].at = "check"
  BY Beginnings DEF Idle
<1>3. GatewayType' /\ GatewayInv' /\ call'[Workflow] = call[Workflow]
  <2>1. call[Task].at # "attempt"
    BY <1>1
  <2>2. QED
    BY <1>1, <1>2, <2>1, Constants, CallerStep DEF IInv
<1>4. watchdog' \in [seen : BOOLEAN, reason : {"none", "heartbeat-absent", "progress-stalled"}]
  BY <1>1 DEF IInv, LifecycleType
<1>5. QED
  BY <1>1, <1>3, <1>4, BesideStep

LEMMA WatchdogStep ==
  ASSUME IInv, WatchdogSees \/ WatchdogIntervenes
  PROVE  IInv'
<1>1. /\ run = "running" /\ cancelled' \in BOOLEAN
      /\ UNCHANGED <<circuit, call, unjudged, machine, run, sub, step, completed, steps,
                     progress, resets, journal>>
  BY DEF WatchdogSees, WatchdogIntervenes, gatewayVars, IInv, GatewayType
<1>2. watchdog' \in [seen : BOOLEAN, reason : {"none", "heartbeat-absent", "progress-stalled"}]
  BY DEF WatchdogSees, WatchdogIntervenes, IInv, LifecycleType
<1>3. GatewayType' /\ GatewayInv'
  BY <1>1 DEF IInv, GatewayType, GatewayInv, ProbeIsAccountedFor
<1>4. QED
  BY <1>1, <1>2, <1>3, BesideStep

-----------------------------------------------------------------------------
LEMMA Initially == Init => IInv
<1> SUFFICES ASSUME Init PROVE IInv
  OBVIOUS
<1>1. /\ circuit = Closed /\ call = [c \in Callers |-> Idle] /\ cancelled = FALSE
      /\ unjudged = FALSE
  BY DEF Init, GatewayInit
<1>2. Closed \in Circuits /\ Closed.probe = FALSE
  BY Constants DEF Closed, Circuits
<1>3. GatewayType /\ GatewayInv
  BY <1>1, <1>2, Beginnings DEF GatewayType, GatewayInv, ProbeIsAccountedFor, Idle
<1>4. LifecycleType
  BY DEF Init, LifecycleType
<1>5. ResultTellsTheTruth
  <2>1. Executed("checkpointing") = {}
    BY DEF Init, Executed
  <2>2. Cardinality(Executed("checkpointing")) = 0
    BY <2>1, FS_EmptySet
  <2>3. steps = 0 /\ run = "fresh" /\ 0 = 0 - 0
    BY DEF Init
  <2>4. QED
    BY <2>2, <2>3 DEF ResultTellsTheTruth
<1>6. call[Workflow] = Idle
  BY <1>1, Constants
<1>7. QED
  BY <1>3, <1>4, <1>5, <1>6 DEF Init, IInv, RunInv

LEMMA Inductive == IInv /\ [Next]_vars => IInv'
<1> SUFFICES ASSUME IInv, [Next]_vars PROVE IInv'
  OBVIOUS
<1>1. CASE RunSeries
  BY <1>1, StartStep, ProceedStep, CompleteStep, StartSubGameStep, NextStepStep,
     OutOfStepsStep, EndStepStep, EndSubGameStep, ExecuteReturnsStep, ExecuteRaisesStep
     DEF RunSeries
<1>2. CASE Gateway
  BY <1>2, GatewayStepStep
<1>3. CASE TaskCalls
  BY <1>3, TaskCallsStep
<1>4. CASE WatchdogSees \/ WatchdogIntervenes
  BY <1>4, WatchdogStep
<1>5. CASE Done \/ UNCHANGED vars
  <2>1. UNCHANGED <<circuit, call, cancelled, unjudged, machine, run, sub, step, completed,
                    steps, progress, resets, journal, watchdog>>
    BY <1>5 DEF Done, vars, gatewayVars, lifecycleVars
  <2>2. GatewayType' /\ GatewayInv' /\ LifecycleType'
    BY <2>1 DEF IInv, GatewayType, GatewayInv, ProbeIsAccountedFor, LifecycleType
  <2>3. UNCHANGED <<LoopsStand, Executed("checkpointing"), Executed("subgame-terminal"),
                    Pending("checkpointing"), Pending("subgame-terminal")>>
    BY <2>1 DEF LoopsStand, Executed, Pending
  <2>4. RunInv'
    BY <2>1, <2>3 DEF IInv, RunInv, JournalIsCounted, ResultTellsTheTruth
  <2>5. QED
    BY <2>2, <2>4 DEF IInv
<1>6. QED
  BY <1>1, <1>2, <1>3, <1>4, <1>5 DEF Next

(***************************************************************************)
(* The loops of run_series, its counters and its journal are at one in     *)
(* every phase, and the gateway never sleeps before an attempt it does not *)
(* have, for any number of sub-games, steps, attempts and counted failures *)
(* (orchestrator.py:85-136, gateway.py:54-98).                             *)
(***************************************************************************)
THEOREM LifecycleInvariant == Spec => []IInv
  BY Initially, Inductive, PTL DEF Spec

(***************************************************************************)
(* Whatever the calls come to, whenever the watchdog cancels and whatever  *)
(* phase the machine was given in, the result of run_series tells what     *)
(* happened (orchestrator.py:85-163).                                      *)
(***************************************************************************)
THEOREM ResultIsTrue == Spec => []ResultTellsTheTruth
<1>1. IInv => ResultTellsTheTruth
  BY DEF IInv, RunInv
<1>2. QED
  BY <1>1, LifecycleInvariant, PTL

(***************************************************************************)
(* With two callers, whose retries overlap and whose answers come late,    *)
(* the half-open probe is under way or was lost in the one way the code    *)
(* has (circuit.py:52-62, gateway.py:75-98).                               *)
(***************************************************************************)
THEOREM ProbeIsNeverMislaid == Spec => []ProbeIsAccountedFor
<1>1. IInv => ProbeIsAccountedFor
  BY DEF IInv, GatewayInv
<1>2. QED
  BY <1>1, LifecycleInvariant, PTL
=============================================================================
