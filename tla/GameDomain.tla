---------------------------- MODULE GameDomain ----------------------------
(***************************************************************************)
(* The network-free game engine of domain/: a square board, the legal      *)
(* actions of one peer, the effect of one own action on that peer's local  *)
(* state, and the terminal reasons a referee resolves from two verified    *)
(* positions.  A position is a pair <<row, col>>, a BarrierSet a set of    *)
(* positions (it has no removal operation), an Action a record.  The scent *)
(* that the same actions leave on that board comes last.                   *)
(***************************************************************************)
EXTENDS Integers, FiniteSets

CONSTANTS
  Size,              \* Board.size
  MaxBarriers,       \* GameRules.max_barriers
  MaxSteps,          \* GameRules.max_steps
  SurvivalThreshold  \* GameRules.survival_threshold

(***************************************************************************)
(* GameRules.__post_init__ and Board.__post_init__.                        *)
(***************************************************************************)
ASSUME RulesAssumption ==
  /\ Size \in Nat \ {0}
  /\ MaxBarriers \in Nat
  /\ MaxSteps \in Nat \ {0}
  /\ SurvivalThreshold \in Nat \ {0}

Roles == {"police", "thief"}

Opponent(role) == IF role = "police" THEN "thief" ELSE "police"

TerminalReasons ==
  {"capture", "barrier_capture", "enclosure", "survival", "step_ceiling",
   "technical", "tamper", "stopped"}

\* The absent terminal reason.
None == "none"

----------------------------------------------------------------------------
(* Board geometry and movement legality *)

Directions == {"N", "S", "E", "W"}

Cells == (0 .. Size - 1) \X (0 .. Size - 1)

Target(p, d) ==
  <<p[1] + (CASE d = "N" -> -1 [] d = "S" -> 1 [] OTHER -> 0),
    p[2] + (CASE d = "E" -> 1 [] d = "W" -> -1 [] OTHER -> 0)>>

\* Mutant: a step off the board is passable.
NeighborsUnbounded(p, barriers) == {Target(p, d) : d \in Directions} \ barriers

Neighbors(p, barriers) ==
  {t \in {Target(p, d) : d \in Directions} : t \in Cells /\ t \notin barriers}

\* An action has exactly the fields of its type.
Move(d) == [type |-> "MOVE", direction |-> d]

Stay == [type |-> "STAY"]

Barrier(cell) == [type |-> "BARRIER", target |-> cell]

Actions ==
  {Move(d) : d \in Directions} \cup {Stay} \cup {Barrier(c) : c \in Cells}

LegalMovements(p, barriers) ==
  {Stay} \cup {Move(d) : d \in {e \in Directions :
                                  Target(p, e) \in Neighbors(p, barriers)}}

\* The own cell first: a Police peer may block the cell it stands on.
BarrierCandidates(p, barriers) == ({p} \cup Neighbors(p, {})) \ barriers

----------------------------------------------------------------------------
(* One peer's local state *)

LocalStates ==
  [role : Roles, position : Cells, barriers : SUBSET Cells, placed : Nat,
   step : Nat, visited : SUBSET Cells,
   terminal : TerminalReasons \cup {None}]

\* What LocalGameState.__post_init__ raises on when it fails.
ValidState(s) ==
  /\ s.position \in Cells
  /\ s.placed \in 0 .. MaxBarriers
  /\ s.position \in s.barriers => s.role = "police"
  /\ s.position \in s.visited
  /\ s.visited \subseteq Cells
  /\ s.barriers \subseteq Cells

InitialState(role, start) ==
  [role |-> role, position |-> start, barriers |-> {}, placed |-> 0,
   step |-> 0, visited |-> {start}, terminal |-> None]

LegalActions(s) ==
  IF s.terminal # None THEN {}
  ELSE LegalMovements(s.position, s.barriers)
       \cup IF s.role = "thief" \/ s.placed >= MaxBarriers THEN {}
            ELSE {Barrier(c) : c \in BarrierCandidates(s.position, s.barriers)}

\* A Police barrier is the only public event an action emits.
PublicEvents(action) == IF action.type = "BARRIER" THEN {action.target} ELSE {}

StepTerminal(step) ==
  IF step >= SurvivalThreshold THEN "survival"
  ELSE IF step >= MaxSteps THEN "step_ceiling"
  ELSE None

(***************************************************************************)
(* engine.transition, for an action of LegalActions(s): exactly one step,  *)
(* and the step limits are looked at whatever the other peer did.          *)
(***************************************************************************)
Transition(s, action) ==
  LET moved == IF action.type = "MOVE"
                 THEN Target(s.position, action.direction) ELSE s.position
  IN  [s EXCEPT
        !.position = moved,
        !.barriers = @ \cup PublicEvents(action),
        !.placed   = IF action.type = "BARRIER" THEN @ + 1 ELSE @,
        !.step     = @ + 1,
        !.visited  = @ \cup {moved},
        !.terminal = StepTerminal(s.step + 1)]

----------------------------------------------------------------------------
(* Verified terminal outcomes *)

EnclosureCapture(thief, barriers) ==
  thief \in barriers \/ Neighbors(thief, barriers) = {}

(***************************************************************************)
(* resolve_verified_terminal: sanctions, then captures, then the step      *)
(* limits.  No caller in src/ but the tests passes technical, tamper or    *)
(* stopped; they are kept as the set "flags".  The barrier just placed, if *)
(* there is one, is the only member of the set "placed".                   *)
(***************************************************************************)
ResolveTerminal(police, thief, barriers, completed, placed, flags) ==
  IF "tamper" \in flags THEN "tamper"
  ELSE IF "technical" \in flags THEN "technical"
  ELSE IF thief \in placed THEN "barrier_capture"
  ELSE IF police = thief THEN "capture"
  ELSE IF EnclosureCapture(thief, barriers) THEN "enclosure"
  ELSE IF completed >= SurvivalThreshold THEN "survival"
  ELSE IF completed >= MaxSteps THEN "step_ceiling"
  ELSE IF "stopped" \in flags THEN "stopped"
  ELSE None

CaptureReasons == {"capture", "barrier_capture", "enclosure"}

SurvivalReasons == {"survival", "step_ceiling"}

----------------------------------------------------------------------------
(***************************************************************************)
(* The scent a player leaves behind: ScentPolicy of shared/scent.py,       *)
(* ScentField of services/belief/scent_field.py and the frame an opponent  *)
(* may see.  A Decimal value is an integer count of 10^-8, which is exact  *)
(* for the default policy (intensity 0.9, decay 0.1) up to three decays;   *)
(* the kernel is the one of KERNEL_TEXT.                                   *)
(***************************************************************************)

One == 100000000

\* Sixteenths of the centre intensity: 0.9 / 16.
CenterSixteenth == 5625000

\* The value of one unit of the sixth decimal place.
Quantum == 100

Gap(a, b) == IF a > b THEN a - b ELSE b - a

InKernel(origin, cell) == Gap(origin[1], cell[1]) <= 2 /\ Gap(origin[2], cell[2]) <= 2

\* The kernel halves with every step away from its centre.
Emission(origin, cell) ==
  CenterSixteenth * 2 ^ (4 - Gap(origin[1], cell[1]) - Gap(origin[2], cell[2]))

(* A field maps the cells that were ever emitted to, to their values. *)

NoScent == [c \in {} |-> 0]

ValueAt(field, cell) == IF cell \in DOMAIN field THEN field[cell] ELSE 0

Emit(field, origin) ==
  LET reached == {c \in Cells : InKernel(origin, c)}
      raised(c) == ValueAt(field, c) + Emission(origin, c)
  IN  [c \in DOMAIN field \cup reached |->
         IF c \notin reached THEN field[c]
         ELSE IF raised(c) > One THEN One ELSE raised(c)]

Decay(field) == [c \in {d \in DOMAIN field : field[d] > 0} |-> (field[c] * 9) \div 10]

\* Decimal.quantize with ROUND_HALF_EVEN.
Quantize(value) ==
  LET low == value \div Quantum
      rest == 2 * (value % Quantum)
  IN  IF rest > Quantum \/ (rest = Quantum /\ low % 2 = 1) THEN low + 1 ELSE low

\* A placed barrier leaves no scent; every action shows the field.
AfterAction(field, state, action) ==
  IF action.type = "BARRIER" THEN field ELSE Emit(field, state.position)

Frame(field, state) ==
  [actor |-> state.role, step |-> state.step,
   cells |-> {<<c, Quantize(field[c])>> : c \in DOMAIN field}]

============================================================================
