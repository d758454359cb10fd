--------------------------- MODULE RecoveryArena ---------------------------
(***************************************************************************)
(* The referee of the live stack's offline arena: one board that both      *)
(* players see, the Thief to move first, a proposal that is not legal      *)
(* turned into a stay (experiments/compatibility_arena.py and              *)
(* compatibility_turn.py).  Who proposes is left open.                     *)
(***************************************************************************)
EXTENDS LiveBoard

CONSTANT MaxSteps   \* max_steps, at least 1

VARIABLES
  cop, thief, barriers,   \* ArenaState
  step,                   \* the loop variable of play
  mover,                  \* whose turn it is, or "over"
  outcome                 \* what play returned, or "none"

arenaVars == <<cop, thief, barriers, step, mover, outcome>>

\* From one of these pairs of starting cells.
ArenaStart(starts) ==
  /\ [police |-> cop, thief |-> thief] \in starts
  /\ barriers = {}
  /\ step = 1
  /\ mover = "thief"
  /\ outcome = "none"

\* A proposal: a token, and at most one barrier cell.
Proposals ==
  [move : {Tokens[i] : i \in DOMAIN Tokens}, barrier : {{}} \cup {{c} : c \in Cells}]

LegalAction(actor, position, p) ==
  IF p.barrier # {}
    THEN actor = "police" /\ p.barrier \subseteq Around(position, barriers) /\ p.move = "STAY"
    ELSE p.move = "STAY" \/ Passable(Towards(position, p.move), barriers)

Stays == [move |-> "STAY", barrier |-> {}]

Allowed(actor, position, p) == IF LegalAction(actor, position, p) THEN p ELSE Stays

Enclosed(cell, barred) == Around(cell, barred) = {}

EndsAs(reason) == outcome' = reason /\ mover' = "over" /\ step' = step

(***************************************************************************)
(* The Thief's half of a round: stepping onto the Police is a capture, and *)
(* the last turn that is not one a survival.                               *)
(***************************************************************************)
ThiefTurn ==
  /\ mover = "thief"
  /\ \E p \in Proposals :
       /\ thief' = Towards(thief, Allowed("thief", thief, p).move)
       /\ UNCHANGED <<cop, barriers>>
       /\ IF thief' = cop THEN EndsAs("capture")
          ELSE IF step = MaxSteps THEN EndsAs("survival")
          ELSE mover' = "police" /\ UNCHANGED <<step, outcome>>

\* Does what the Police did capture: a barrier on the Thief, or its cell?
Captures(action) ==
  IF action.barrier # {} THEN thief \in action.barrier ELSE cop' = thief

\* The Police's half: a capture, or no exit left to the Thief.
PoliceTurn ==
  /\ mover = "police"
  /\ \E p \in Proposals :
       LET action == Allowed("police", cop, p)
       IN  /\ cop' = Towards(cop, action.move)
           /\ barriers' = barriers \cup action.barrier
           /\ UNCHANGED thief
           /\ IF Captures(action) \/ Enclosed(thief, barriers') THEN EndsAs("capture")
              ELSE mover' = "thief" /\ step' = step + 1 /\ UNCHANGED outcome

ArenaNext == ThiefTurn \/ PoliceTurn

============================================================================
