--------------------------- MODULE PeerLifecycle ---------------------------
(***************************************************************************)
(* The durable lifecycle of a peer: the phase machine of phases.py, and    *)
(* run_series of orchestrator.py, which drives it over a PeerWorkflowPort. *)
(* The repository has the port and its test doubles only.  The workflow    *)
(* here journals every phase like SeriesWorkflow of m11_soak_support.py    *)
(* and performs it by one call of the gateway, to which it hands on the    *)
(* deadline and the cancellation token it is given; a watchdog reads the   *)
(* heartbeats and cancels the token, and another task of the peer makes    *)
(* calls of its own through the same gateway.                              *)
(***************************************************************************)
EXTENDS OrchestratedGateway, SequencesExt

CONSTANTS
  SubGames,   \* sub_games
  MaxSteps    \* max_steps

ASSUME SeriesAssumption == SubGames \in Nat \ {0} /\ MaxSteps \in Nat \ {0}

\* The callers of the gateway: the workflow, and another task.
Workflow == "workflow"
Task == "task"

ASSUME CallersAssumption == Callers = {Workflow, Task}

----------------------------------------------------------------------------
(* phases.py *)

NormalChain ==
  <<"created", "initializing", "ready", "negotiating", "waiting-for-opponent",
    "updating-belief", "computing-strategy", "committing", "waiting-ack",
    "revealing", "verifying", "checkpointing">>

ClosingChain ==
  <<"auditing", "agreeing-result", "finalizing-artifacts", "queueing-report",
    "shutting-down", "completed">>

TerminalPhases == {"completed", "refused", "technical-loss", "tamper"}

Phases ==
  ToSet(NormalChain) \cup ToSet(ClosingChain) \cup TerminalPhases
  \cup {"recovering", "subgame-terminal"}

Edges(chain) == {<<chain[i], chain[i + 1]>> : i \in 1 .. Len(chain) - 1}

Transitions ==
  [normal |->
     Edges(NormalChain) \cup Edges(ClosingChain)
     \cup ({"checkpointing"} \X {"waiting-for-opponent", "subgame-terminal"})
     \cup ({"subgame-terminal"} \X {"waiting-for-opponent", "auditing"}),
   recovery |->
     {<<"created", "recovering">>, <<"recovering", "waiting-for-opponent">>},
   refusal |-> {<<"negotiating", "refused">>},
   failure |-> (Phases \ TerminalPhases) \X {"technical-loss"},
   integrity |-> (Phases \ TerminalPhases) \X {"tamper"}]

----------------------------------------------------------------------------

VARIABLES
  machine,    \* PhaseMachine: phase and revision
  run,        \* run_series: "fresh", "running", "returned" or "raised"
  sub, step,  \* its loop variables
  completed, steps, progress,  \* its counters
  resets,     \* history: the sub-games the workflow was reset for
  journal,    \* the phases the workflow journalled
  watchdog    \* has it seen the newest token, and why it intervened

lifecycleVars == <<machine, run, sub, step, completed, steps, progress, resets,
                   journal, watchdog>>

vars == <<gatewayVars, lifecycleVars>>

Init ==
  /\ GatewayInit
  /\ \E phase \in Phases : machine = [phase |-> phase, revision |-> 0]
  /\ run = "fresh"
  /\ sub = 0 /\ step = 0 /\ completed = 0 /\ steps = 0 /\ progress = 0
  /\ resets = <<>> /\ journal = <<>>
  /\ watchdog = [seen |-> TRUE, reason |-> "none"]

Move(target, reason) ==
  /\ <<machine.phase, target>> \in Transitions[reason]
  /\ machine' = [phase |-> target, revision |-> machine.revision + 1]

(***************************************************************************)
(* _terminal, the handler of an exception of this kind: nothing when the   *)
(* machine is already there, and a ValueError out of run_series when the   *)
(* table has no such transition.                                           *)
(***************************************************************************)
TerminalOf ==
  [refusal |-> "refused", integrity |-> "tamper", failure |-> "technical-loss"]

\* Mutant: the table is not asked.
HandleAnywhere(kind) ==
  /\ run' = "returned"
  /\ machine' = [phase |-> TerminalOf[kind], revision |-> machine.revision + 1]

Handle(kind) ==
  LET target == TerminalOf[kind]
  IN  IF machine.phase = target \/ <<machine.phase, target>> \in Transitions[kind]
        THEN /\ run' = "returned"
             /\ machine' = IF machine.phase = target THEN machine
                           ELSE [phase |-> target, revision |-> machine.revision + 1]
        ELSE run' = "raised" /\ UNCHANGED machine

\* What happens when the peer raises instead of advancing.
Fail(kind) ==
  /\ Handle(kind)
  /\ call' = [call EXCEPT ![Workflow] = Idle]
  /\ UNCHANGED <<circuit, cancelled, unjudged, sub, step, completed, steps,
                 progress, resets, journal, watchdog>>

----------------------------------------------------------------------------
(* run_series *)

\* Between two phases: the last execute has returned.
AtRest == run = "running" /\ call[Workflow].at = "idle"

\* _advance up to the workflow's answer; COMPLETED is not executed.
Advance(target) ==
  /\ Move(target, "normal")
  /\ UNCHANGED <<circuit, cancelled, unjudged, watchdog>>
  /\ IF target = "completed"
       THEN /\ progress' = progress + 1
            /\ run' = "returned"
            /\ UNCHANGED <<call, journal>>
       ELSE /\ journal' = Append(journal, <<target, sub', step'>>)
            /\ Begin(Workflow)
            /\ UNCHANGED <<progress, run>>

Start ==
  /\ run = "fresh"
  /\ IF machine.phase = "created"
       THEN /\ Move("initializing", "normal")
            /\ run' = "running"
            /\ journal' = <<<<"initializing", 0, 0>>>>
            /\ Begin(Workflow)
            /\ UNCHANGED <<circuit, cancelled, unjudged, sub, step, completed, steps,
                           progress, resets, watchdog>>
       ELSE Fail("failure")

Successor(phase) ==
  CHOOSE target \in Phases : <<phase, target>> \in Transitions.normal

\* The phases with one successor, up to the first sub-game and within a step.
Proceed ==
  /\ AtRest
  /\ machine.phase \notin {"waiting-for-opponent", "checkpointing", "subgame-terminal"}
  /\ sub' = IF machine.phase = "negotiating" THEN 1 ELSE sub
  /\ UNCHANGED <<step, completed, steps, resets>>
  /\ Advance(Successor(machine.phase))

\* reset_sub_game, and the first step.
StartSubGame ==
  /\ AtRest
  /\ machine.phase = "waiting-for-opponent" /\ step = 0
  /\ resets' = Append(resets, sub)
  /\ step' = 1
  /\ UNCHANGED <<sub, completed, steps>>
  /\ Advance("updating-belief")

NextStep ==
  /\ AtRest
  /\ machine.phase = "waiting-for-opponent" /\ step \in 1 .. MaxSteps - 1
  /\ step' = step + 1
  /\ UNCHANGED <<sub, completed, steps, resets>>
  /\ Advance("updating-belief")

\* The RuntimeError of a sub-game without an end.
OutOfSteps ==
  /\ AtRest
  /\ machine.phase = "waiting-for-opponent" /\ step = MaxSteps
  /\ Fail("failure")

\* sub_game_terminal, after the step was counted.
EndStep ==
  /\ AtRest
  /\ machine.phase = "checkpointing"
  /\ steps' = steps + 1
  /\ UNCHANGED <<sub, step, completed, resets>>
  /\ \/ Advance("subgame-terminal")
     \/ Advance("waiting-for-opponent")

EndSubGame ==
  /\ AtRest
  /\ machine.phase = "subgame-terminal"
  /\ completed' = completed + 1
  /\ UNCHANGED <<steps, resets>>
  /\ IF sub = SubGames
       THEN UNCHANGED <<sub, step>> /\ Advance("auditing")
       ELSE sub' = sub + 1 /\ step' = 0 /\ Advance("waiting-for-opponent")

\* execute returns: progress and a heartbeat, whose token is a new one.
ExecuteReturns ==
  /\ run = "running"
  /\ call[Workflow].at = "done" /\ call[Workflow].result = "success"
  /\ call' = [call EXCEPT ![Workflow] = Idle]
  /\ progress' = progress + 1
  /\ watchdog' = [watchdog EXCEPT !.seen = FALSE]
  /\ UNCHANGED <<circuit, cancelled, unjudged, machine, run, sub, step, completed,
                 steps, resets, journal>>

\* execute raises what its call came to.
ErrorOf(result) == IF result \in {"refusal", "integrity"} THEN result ELSE "failure"

ExecuteRaises ==
  /\ run = "running"
  /\ call[Workflow].at = "done" /\ call[Workflow].result # "success"
  /\ Fail(ErrorOf(call[Workflow].result))

----------------------------------------------------------------------------
(* Around the orchestrator *)

\* The other task of the peer makes one call after another.
TaskCalls ==
  /\ call[Task].at \in {"idle", "done"}
  /\ run = "running"
  /\ Begin(Task)
  /\ UNCHANGED <<circuit, cancelled, unjudged, lifecycleVars>>

(***************************************************************************)
(* Watchdog.check with the latest heartbeat: a new token restarts the      *)
(* timeout; otherwise it intervenes once the timeout has passed, and ends. *)
(* The tokens count up, so a token is new unless it was seen before.       *)
(***************************************************************************)
WatchdogSees ==
  /\ run = "running" /\ watchdog.reason = "none"
  /\ ~watchdog.seen
  /\ watchdog' = [watchdog EXCEPT !.seen = TRUE]
  /\ UNCHANGED <<gatewayVars, machine, run, sub, step, completed, steps, progress,
                 resets, journal>>

WatchdogIntervenes ==
  /\ run = "running" /\ watchdog.reason = "none"
  /\ watchdog.seen
  /\ watchdog' = [watchdog EXCEPT !.reason = IF progress = 0 THEN "heartbeat-absent"
                                             ELSE "progress-stalled"]
  /\ cancelled' = TRUE
  /\ UNCHANGED <<circuit, call, unjudged, machine, run, sub, step, completed, steps,
                 progress, resets, journal>>

Gateway == run = "running" /\ GatewayStep /\ UNCHANGED lifecycleVars

Done == run \in {"returned", "raised"} /\ UNCHANGED vars

RunSeries ==
  \/ Start
  \/ Proceed
  \/ StartSubGame
  \/ NextStep
  \/ OutOfSteps
  \/ EndStep
  \/ EndSubGame
  \/ ExecuteReturns
  \/ ExecuteRaises

Next ==
  \/ RunSeries
  \/ Gateway
  \/ TaskCalls
  \/ WatchdogSees
  \/ WatchdogIntervenes
  \/ Done

(***************************************************************************)
(* The thread of run_series goes on, every attempt is answered (the        *)
(* Gatekeeper bounds it by a timeout of its own) and every backoff ends.   *)
(***************************************************************************)
WorkflowCall == Check(Workflow) \/ Attempt(Workflow) \/ Wake(Workflow)

Spec ==
  /\ Init /\ [][Next]_vars
  /\ WF_vars(RunSeries)
  /\ WF_vars(Gateway /\ WorkflowCall)

----------------------------------------------------------------------------
(* Properties *)

Executed(phase) == {i \in DOMAIN journal : journal[i][1] = phase}

(***************************************************************************)
(* The result tells what happened: a completed series reset and finished   *)
(* every sub-game once and in order and counted the steps it journalled; a *)
(* refused one never began a sub-game; and run_series itself only raises   *)
(* when a refusal comes outside the negotiation, or when the machine it    *)
(* was given had already ended (orchestrator.py:85-163).                   *)
(***************************************************************************)
ResultTellsTheTruth ==
  /\ steps \in {Cardinality(Executed("checkpointing")) - d : d \in {0, 1}}
  /\ run = "returned" => machine.phase \in TerminalPhases
  /\ run = "returned" /\ machine.phase = "completed" =>
       /\ completed = SubGames
       /\ resets = [i \in 1 .. SubGames |-> i]
       /\ steps = Cardinality(Executed("checkpointing"))
       /\ Cardinality(Executed("subgame-terminal")) = SubGames
       /\ progress = Len(journal) + 1
  /\ run = "returned" /\ machine.phase = "refused" =>
       \/ journal = <<>>
       \/ resets = <<>> /\ Last(journal)[1] = "negotiating"
  /\ run = "raised" =>
       IF journal = <<>> THEN machine.phase \in TerminalPhases
       ELSE machine.phase \notin TerminalPhases \cup {"negotiating"}

\* run_series comes to an end, whatever the calls come to (orchestrator.py:85-136).
SeriesReturns == <>(run \in {"returned", "raised"})

============================================================================
