----------------------------- MODULE ArenaGame -----------------------------
(***************************************************************************)
(* One sub-game as the offline referee of services/experiments/arena.py    *)
(* plays it: Police then Thief in every turn, each decision through the    *)
(* guard of services/strategy/service.py, each action through the domain   *)
(* engine, the referee after every action, and the barriers of the actor   *)
(* copied to its opponent when the game goes on.                           *)
(***************************************************************************)
EXTENDS GameDomain

CONSTANT Start  \* cop_start and thief_start of the shared configuration

ASSUME StartAssumption ==
  /\ Start \in [Roles -> Cells]
  /\ Start["police"] # Start["thief"]

VARIABLES
  local,    \* the LocalGameState of each side
  turn,     \* the loop variable of play
  mover,    \* whose decision comes next
  outcome,  \* the terminal reason play returned, or None
  scent     \* the ScentField of each side's own engine

arenaVars == <<local, turn, mover, outcome, scent>>

ArenaInit ==
  /\ local = [r \in Roles |-> InitialState(r, Start[r])]
  /\ turn = 1
  /\ mover = "police"
  /\ outcome = None
  /\ scent = [r \in Roles |-> NoScent]

(***************************************************************************)
(* StrategyService.decide: a brain's proposal stands when it is in time    *)
(* and legal; a late answer, an exception or an illegal action is replaced *)
(* by the baseline, which only moves or stays.                             *)
(***************************************************************************)
Exception == [type |-> "EXCEPTION"]

Guarded(s, proposal, late) ==
  IF late \/ proposal \notin LegalActions(s)
          \/ (s.role = "thief" /\ proposal.type = "BARRIER")
    THEN LegalMovements(s.position, s.barriers)
    ELSE {proposal}

Decisions(s) ==
  UNION {Guarded(s, p, late) : p \in Actions \cup {Exception}, late \in BOOLEAN}

\* Mutant: the referee is asked with the barriers from before the action.
RefereeBefore(next, role, action) ==
  ResolveTerminal(next["police"].position, next["thief"].position,
                  local[role].barriers,
                  IF role = "thief" THEN turn ELSE turn - 1,
                  PublicEvents(action), {})

\* The referee counts a turn as completed after the Thief's action only.
Referee(next, role, action) ==
  ResolveTerminal(next["police"].position, next["thief"].position,
                  next[role].barriers,
                  IF role = "thief" THEN turn ELSE turn - 1,
                  PublicEvents(action), {})

(***************************************************************************)
(* _apply, and for the Thief the end of the turn: the scent of both sides  *)
(* decays, and the loop that runs out of turns returns a survival.         *)
(***************************************************************************)
Apply(role, action) ==
  LET moved  == Transition(local[role], action)
      next   == [local EXCEPT ![role] = moved]
      reason == Referee(next, role, action)
      shown  == [scent EXCEPT ![role] = AfterAction(@, moved, action)]
  IN  /\ outcome = None
      /\ role = mover
      /\ action \in LegalActions(local[role])
      /\ IF reason # None
           THEN /\ outcome' = reason
                /\ local' = next
                /\ UNCHANGED <<turn, mover, scent>>
           ELSE /\ local' = [next EXCEPT ![Opponent(role)].barriers = moved.barriers]
                /\ mover' = Opponent(role)
                /\ IF role = "police"
                     THEN scent' = shown /\ UNCHANGED <<turn, outcome>>
                     ELSE /\ scent' = [r \in Roles |-> Decay(shown[r])]
                          /\ turn' = turn + 1
                          /\ outcome' = IF turn = MaxSteps THEN "survival" ELSE None

ArenaNext == \E action \in Decisions(local[mover]) : Apply(mover, action)

ArenaSpec == ArenaInit /\ [][ArenaNext]_arenaVars

----------------------------------------------------------------------------
(* Properties *)

(***************************************************************************)
(* Type correctness of the referee's state, with the type invariant of the *)
(* code's own states: no copy of barriers between the two sides ever       *)
(* builds one that LocalGameState.__post_init__ refuses (a thief on a      *)
(* barrier, a quota overrun), also not in the step that ends the game:     *)
(* only a barrier set on the thief would, and that copy is never made      *)
(* (arena.py:115-118, state.py:76-89).                                     *)
(***************************************************************************)
LocalStatesValid ==
  /\ \A r \in Roles : ValidState(local[r])
  /\ local["police"].placed = Cardinality(local["police"].barriers)
  /\ local["thief"].placed = 0

(***************************************************************************)
(* While the game runs, both sides know the same barriers and agree on     *)
(* the turn: the Police is one step ahead exactly while the Thief is to    *)
(* move (arena.py:79-90).                                                  *)
(***************************************************************************)
SidesInStep ==
  outcome = None =>
    /\ local["police"].barriers = local["thief"].barriers
    /\ local["thief"].step = turn - 1
    /\ local["police"].step = IF mover = "police" THEN turn - 1 ELSE turn

(***************************************************************************)
(* The referee misses nothing: no running game has the two on one cell, a  *)
(* thief that is enclosed, or a thief that already survived, although the  *)
(* referee is asked only after the action that was just made and with the  *)
(* actor's own barriers (arena.py:115, terminal.py:44-83).                 *)
(***************************************************************************)
NoMissedOutcome ==
  outcome = None =>
    /\ local["police"].position # local["thief"].position
    /\ ~EnclosureCapture(local["thief"].position, local["thief"].barriers)
    /\ local["thief"].step < SurvivalThreshold
    /\ local["thief"].step < MaxSteps

============================================================================
