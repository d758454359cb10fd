------------------------------- MODULE Brains -------------------------------
(***************************************************************************)
(* The brains of services/strategy/: what each of them picks of the legal  *)
(* actions, from its own state, its belief and its history, a tie going to *)
(* the first action the engine offers.  A random source is a choice among  *)
(* all it can draw.  Scores are integers: in hundredths of the default     *)
(* weights where the code has weights, and times the total of the belief   *)
(* where it takes an expectation.                                          *)
(***************************************************************************)
EXTENDS Beliefs

CONSTANTS
  SwitchStep,       \* SWITCH_STEP of evaders.py, 12 in the code
  TrustSwitchStep   \* _TRUST_SWITCH_STEP of hint_profiles.py, 15 in the code

ASSUME SwitchAssumption == SwitchStep \in Nat /\ TrustSwitchStep \in Nat

----------------------------------------------------------------------------
(* A StrategyRequest: own state, belief, own actions so far *)

Request(state, belief, history) ==
  [state |-> state, belief |-> belief, history |-> history]

Destination(p, action) == IF action.type = "MOVE" THEN Target(p, action.direction) ELSE p

Arrival(q, action) == Destination(q.state.position, action)

BarriersAfter(barriers, action) == barriers \cup PublicEvents(action)

\* In the order of Board.legal_movement_actions.
MovementCandidates(q) ==
  LET Open(d) == Move(d) \in LegalMovements(q.state.position, q.state.barriers)
      open == SelectSeq(<<"N", "S", "E", "W">>, Open)
  IN  Append([i \in DOMAIN open |-> Move(open[i])], Stay)

\* In the order of Board.barrier_candidates: the own cell first.
BarrierTargets(q) ==
  LET Legal(c) == Barrier(c) \in LegalActions(q.state)
      cells == SelectSeq(<<q.state.position>> \o NeighborSeq(q.state.position, {}), Legal)
  IN  [i \in DOMAIN cells |-> Barrier(cells[i])]

\* max() by score and then by the smaller index.
BestBy(actions, scores) ==
  LET known == Table(scores)
  IN  actions[CHOOSE i \in DOMAIN actions :
                /\ \A j \in DOMAIN actions : known[j] <= known[i]
                /\ \A j \in 1 .. i - 1 : known[j] < known[i]]

Unreachable == Size * Size

DistancesFrom(p, barriers) ==
  LET distances == DistanceMap(p, barriers)
  IN  Table([c \in Cells |-> IF c \in DOMAIN distances THEN distances[c] ELSE Unreachable])

DistanceBetween(p, q, barriers) == DistancesFrom(p, barriers)[q]

\* The action of two actions ago again.
IsCycle(q, action) ==
  Len(q.history) >= 2 /\ action = q.history[Len(q.history) - 1]

Bit(b) == IF b THEN 1 ELSE 0

Weariness(q, action) == Bit(Arrival(q, action) \in q.state.visited) + Bit(IsCycle(q, action))

----------------------------------------------------------------------------
(* baseline.py, also the fallback of the guard *)

\* Times the total of the belief.
ExpectedDistance(p, belief, barriers) ==
  LET distances == DistancesFrom(p, barriers)
  IN  MapThenSumSet(LAMBDA c : belief.weights[c] * distances[c], Support(belief))

\* The distance below which one fifth of the mass lies.
LowerQuantileDistance(p, belief, barriers) ==
  LET d == DistancesFrom(p, barriers)
      cells == Support(belief)
      Mass(v) == MapThenSumSet(LAMBDA c : belief.weights[c], {c \in cells : d[c] <= v})
  IN  Min({v \in {d[c] : c \in cells} : 5 * Mass(v) >= Total(belief)})

PoliceBaseline(q) ==
  LET moves == MovementCandidates(q)
      Score(a) == -ExpectedDistance(Arrival(q, a), q.belief, q.state.barriers)
                    - Total(q.belief) * Weariness(q, a)
  IN  BestBy(moves, [i \in DOMAIN moves |-> Score(moves[i])])

ThiefBaseline(q) ==
  LET moves == MovementCandidates(q)
      Score(a) == LowerQuantileDistance(Arrival(q, a), q.belief, q.state.barriers)
                    - Weariness(q, a)
  IN  BestBy(moves, [i \in DOMAIN moves |-> Score(moves[i])])

Fallback(q) == IF q.state.role = "police" THEN PoliceBaseline(q) ELSE ThiefBaseline(q)

----------------------------------------------------------------------------
(* reference.py, random_policy.py, scripted.py *)

GreedyMove(q) ==
  LET moves == MovementCandidates(q)
      away == IF q.state.role = "police" THEN -1 ELSE 1
  IN  BestBy(moves, [i \in DOMAIN moves |->
                       away * Toward(Arrival(q, moves[i]), MostLikely(q.belief))])

\* A barrier with some probability, if one is legal.
ReferenceGreedy(q) == {GreedyMove(q)} \cup ToSet(BarrierTargets(q))

RandomLegal(q) == ToSet(MovementCandidates(q)) \cup ToSet(BarrierTargets(q))

\* Mutant: as the crow flies.
StraightDistance(q, action) == Toward(Arrival(q, action), MostLikely(q.belief))

GraphDistance(q, action) ==
  DistanceBetween(Arrival(q, action), MostLikely(q.belief), q.state.barriers)

ShortestPath(q) ==
  LET moves == MovementCandidates(q)
  IN  BestBy(moves, [i \in DOMAIN moves |-> -GraphDistance(q, moves[i])])

MaximumDistance(q) ==
  LET moves == MovementCandidates(q)
  IN  BestBy(moves, [i \in DOMAIN moves |-> GraphDistance(q, moves[i])])

----------------------------------------------------------------------------
(* pursuers.py and evaders.py *)

AggressiveBarrier(q) == {ShortestPath(q)} \cup ToSet(BarrierTargets(q))

BelievedRegion(q, barriers) ==
  Cardinality(ConnectedComponent(MostLikely(q.belief), barriers))

\* The barrier that cuts off most, an articulation point counting two more.
GraphCut(q) ==
  LET barriers == q.state.barriers
      targets == BarrierTargets(q)
      cuts == ArticulationPoints(barriers)
      Gain(a) == BelievedRegion(q, barriers) - BelievedRegion(q, BarriersAfter(barriers, a))
                   + 2 * Bit(a.target \in cuts)
      gains == [i \in DOMAIN targets |-> Gain(targets[i])]
  IN  IF \A i \in DOMAIN targets : gains[i] <= 0 THEN ShortestPath(q)
      ELSE BestBy(targets, gains)

Corners == {0, Size - 1} \X {0, Size - 1}

CornerHugging(q) ==
  LET moves == MovementCandidates(q)
      CornerDistance(p) == Min({Toward(p, c) : c \in Corners})
  IN  BestBy(moves, [i \in DOMAIN moves |-> -CornerDistance(Arrival(q, moves[i]))])

\* What is called a reversal is the last action once more.
BoundaryFollowing(q) ==
  LET moves == MovementCandidates(q)
      Again(a) == q.history # <<>> /\ a = Last(q.history)
  IN  BestBy(moves, [i \in DOMAIN moves |->
                       2 * Bit(IsBoundary(Arrival(q, moves[i]))) - Bit(Again(moves[i]))])

\* Mutant: the action of two steps ago, legal or not.
CycleBlindly(q) ==
  LET moves == MovementCandidates(q)
  IN  IF Len(q.history) >= 2 THEN q.history[Len(q.history) - 1]
      ELSE moves[1 + (q.state.step % Len(moves))]

Cycle(q) ==
  LET moves == MovementCandidates(q)
      old == q.history[Len(q.history) - 1]
  IN  IF Len(q.history) >= 2 /\ old \in ToSet(moves) THEN old
      ELSE moves[1 + (q.state.step % Len(moves))]

Switching(q) ==
  IF q.state.step < SwitchStep THEN CornerHugging(q) ELSE MaximumDistance(q)

----------------------------------------------------------------------------
(* The roster: what the entry of that name may decide in either role *)

Roster == {"BL-REF", "BL-RND", "BL-SCR", "BL-POST", "BL-ADV-CORNER",
           "BL-ADV-BOUNDARY", "BL-ADV-CYCLE", "BL-ADV-SWITCH",
           "BL-ADV-LIAR", "BL-ADV-PERIODIC", "BL-ADV-TRUST"}

Scripted == {"BL-SCR", "BL-ADV-LIAR", "BL-ADV-PERIODIC", "BL-ADV-TRUST"}

PoliceChoices(brain, q) ==
  CASE brain = "BL-REF" -> ReferenceGreedy(q)
    [] brain = "BL-RND" -> RandomLegal(q)
    [] brain = "BL-POST" -> {PoliceBaseline(q)}
    [] brain \in {"BL-ADV-CORNER", "BL-ADV-SWITCH"} -> AggressiveBarrier(q)
    [] brain \in {"BL-ADV-BOUNDARY", "BL-ADV-CYCLE"} -> {GraphCut(q)}
    [] OTHER -> {ShortestPath(q)}

ThiefChoices(brain, q) ==
  CASE brain = "BL-REF" -> {GreedyMove(q)}
    [] brain = "BL-RND" -> ToSet(MovementCandidates(q))
    [] brain = "BL-POST" -> {ThiefBaseline(q)}
    [] brain = "BL-ADV-CORNER" -> {CornerHugging(q)}
    [] brain = "BL-ADV-BOUNDARY" -> {BoundaryFollowing(q)}
    [] brain = "BL-ADV-CYCLE" -> {Cycle(q)}
    [] brain = "BL-ADV-SWITCH" -> {Switching(q)}
    [] OTHER -> {MaximumDistance(q)}

MayDecide(brain, q) ==
  IF q.state.role = "police" THEN PoliceChoices(brain, q) ELSE ThiefChoices(brain, q)

(***************************************************************************)
(* lies_at of the profile the entry's hints follow: a wrapped brain and    *)
(* the switching Thief have one, all other entries are honest, and the     *)
(* baseline writes by its configured policy, which lies when it is trusted *)
(* and that mobility permits.                                              *)
(***************************************************************************)
LiesAt(brain, role, step) ==
  \/ brain = "BL-ADV-LIAR"
  \/ brain = "BL-ADV-PERIODIC" /\ step % 3 = 0
  \/ brain = "BL-ADV-TRUST" /\ step >= TrustSwitchStep
  \/ brain = "BL-ADV-SWITCH" /\ role = "thief" /\ step >= SwitchStep

ProfiledIntent(brain, q) ==
  LET truthful == SemanticRegion(q.state.position, Size)
  IN  IF LiesAt(brain, q.state.role, q.state.step)
        THEN Intent("lie", OppositeRegion(truthful)) ELSE Intent("truth", truthful)

----------------------------------------------------------------------------
(* police.py and police_features.py: one candidate against samples *)

\* Movements, and the barriers with posterior, corridor or frontier value.
PoliceCandidates(q) ==
  LET cuts == IF q.state.barriers = {} THEN {} ELSE ArticulationPoints(q.state.barriers)
      Near(c) == \E p \in CredibleRegion(q.belief) : Toward(p, c) <= 2
      Kept(a) == a.target \in Support(q.belief) \cup cuts \/ Near(a.target)
  IN  MovementCandidates(q) \o SelectSeq(BarrierTargets(q), Kept)

Routes(p, barriers) == Len(EscapeRoutes(p, barriers))

\* The steps a sampled opponent is projected to take: away from, or to, a cell.
RECURSIVE Project(_, _, _, _, _)

Project(p, own, barriers, steps, away) ==
  IF steps = 0 THEN p
  ELSE LET targets == MotionTargets(p, barriers)
           Key(c) == Toward(c, own)
           best == CHOOSE c \in targets : \A d \in targets \ {c} :
                     IF away THEN Key(d) < Key(c) \/ (Key(d) = Key(c) /\ Before(d, c))
                     ELSE Key(c) < Key(d) \/ (Key(d) = Key(c) /\ Before(c, d))
       IN  Project(best, own, barriers, steps - 1, away)

\* The score of one sample, without the bonus of a proven capture.
PoliceSampleScore(q, action, depth, sample) ==
  LET before == q.state.barriers
      after == BarriersAfter(before, action)
      own == Arrival(q, action)
      projected == Project(sample, own, after, depth - 1, TRUE)
      captured == own = projected \/ projected \in PublicEvents(action)
      distance == DistanceBetween(own, projected, after)
      Region(b) == Cardinality(ConnectedComponent(projected, b))
      Drop(x, y) == IF x > y THEN x - y ELSE 0
      left == MaxBarriers - q.state.placed
  IN  100000 * Bit(captured) - 500 * distance + 50 \div (1 + distance)
        + 200 * Drop(Region(before), Region(after))
        + 800 * Drop(Routes(projected, before), Routes(projected, after))
        - 25000 * Bit(Cardinality(ConnectedComponent(own, after)) <= 1)
        - (IF action.type # "BARRIER" THEN 0 ELSE 150 \div (IF left > 1 THEN left ELSE 1))
        - 300 * Bit(own \in q.state.visited)

\* Every sample is caught where it is, before it is projected anywhere.
ProvenCapture(q, action, samples) ==
  \A c \in samples : Arrival(q, action) = c \/ c \in PublicEvents(action)

Proven == 100000000

\* Times the number of samples: the mean, and the bonus a second time.
PoliceTotal(q, action, depth, samples) ==
  LET sum == MapThenSumSet(LAMBDA c : PoliceSampleScore(q, action, depth, c), samples)
  IN  sum + (IF ProvenCapture(q, action, samples) THEN 2 * Cardinality(samples) * Proven ELSE 0)

\* cvar of at most four samples: the worst of them.
PoliceTail(q, action, depth, samples) ==
  Min({PoliceSampleScore(q, action, depth, c) : c \in samples})
    + (IF ProvenCapture(q, action, samples) THEN Proven ELSE 0)

\* Three quarters of the mean and one quarter of the tail.
PoliceObjective(q, action, depth, samples) ==
  3 * PoliceTotal(q, action, depth, samples)
    + Cardinality(samples) * PoliceTail(q, action, depth, samples)

AdvancedPolice(q, depth, samples) ==
  LET actions == PoliceCandidates(q)
  IN  BestBy(actions, [i \in DOMAIN actions |->
                         PoliceObjective(q, actions[i], depth, samples)])

----------------------------------------------------------------------------
(* thief.py and thief_features.py *)

\* reachable_within: at most four moves.
ReachableWithin(p, barriers, horizon) ==
  LET distances == DistanceMap(p, barriers)
  IN  {p} \cup {c \in DOMAIN distances : distances[c] <= horizon}

\* 100 (1 - exp(-d / 2)) and 100 log2(1 + n), rounded.
Survival == <<0, 39, 63, 78, 86, 92, 95, 97, 98, 99>>

Entropy == <<100, 158, 200, 232, 258, 281, 300, 317, 332,
             346, 358, 370, 381, 391, 400, 409>>

ThiefSampleScore(q, action, depth, sample) ==
  LET barriers == q.state.barriers
      own == Arrival(q, action)
      projected == Project(sample, own, barriers, depth - 1, FALSE)
      threat == DistanceBetween(own, projected, barriers)
      space == Cardinality(ReachableWithin(own, barriers, Smaller(depth + 1, 4)))
      exits == Cardinality(Neighbors(own, barriers))
      revisit == Bit(own \in q.state.visited)
      trapped == Bit(threat <= 1 /\ Routes(own, barriers) <= 1)
      pressure == 3 - Smaller(threat, 3)
  IN  1000 * Survival[1 + Smaller(threat, 9)] + 800 * threat + 150 * space
        + 1200 * Routes(own, barriers) + (Entropy[space] \div 2) * (1 - revisit)
        - 10000 * trapped - 3500 * pressure - 300 * revisit
        - 800 * Bit(IsBoundary(own) /\ exits < 3) - 500 * Bit(IsCycle(q, action))

\* Thirteen twentieths of the mean and seven of the worst sample.
ThiefObjective(q, action, depth, samples) ==
  LET scores == {<<c, ThiefSampleScore(q, action, depth, c)>> : c \in samples}
      sum == MapThenSumSet(LAMBDA s : s[2], scores)
  IN  13 * sum + 7 * Cardinality(samples) * Min({s[2] : s \in scores})

\* A near tie: within one fiftieth of the best score, which the source breaks.
AdvancedThief(q, depth, samples) ==
  LET moves == ToSet(MovementCandidates(q))
      Objective(a) == ThiefObjective(q, a, depth, samples)
      best == Max({Objective(a) : a \in moves})
      size == Max({2000 * Cardinality(samples), best, -best})
  IN  {a \in moves : 50 * (best - Objective(a)) <= size}

\* The mode of the hint that goes with it.
ThiefMode(q, action, trusted) ==
  LET routes == Routes(Arrival(q, action), q.state.barriers)
      many == IF Size \div 2 > 3 THEN Size \div 2 ELSE 3
  IN  CASE routes <= 1 \/ Cardinality(q.state.barriers) >= many -> "anti-trap"
        [] routes > 1 /\ trusted -> "deception"
        [] OTHER -> "mobility"

----------------------------------------------------------------------------
(* What the choices mean *)

(***************************************************************************)
(* A pursuer that knows a reachable cell comes one step closer to it with  *)
(* every move and stays only when it is there, the evader never comes      *)
(* closer while it can keep its distance, and a cut is a barrier that      *)
(* leaves the believed Thief less room or splits the board                 *)
(* (scripted.py:16-46, pursuers.py:55-74).                                 *)
(***************************************************************************)
ScriptsAreSound(q) ==
  LET barriers == q.state.barriers
      target == MostLikely(q.belief)
      here == DistanceBetween(q.state.position, target, barriers)
      there == GraphDistance(q, ShortestPath(q))
      cut == GraphCut(q)
  IN  /\ here # Unreachable => there = (IF here = 0 THEN 0 ELSE here - 1)
      /\ GraphDistance(q, MaximumDistance(q)) >= here
      /\ cut.type = "BARRIER" =>
           \/ cut.target \in ArticulationPoints(barriers)
           \/ BelievedRegion(q, BarriersAfter(barriers, cut)) < BelievedRegion(q, barriers)

(***************************************************************************)
(* The Police takes a capture it can prove, at every depth its search may  *)
(* have completed, whatever the other features say of it                   *)
(* (police_features.py:128-142).                                           *)
(***************************************************************************)
ProvenCaptureIsTaken(q, depth, samples) ==
  (\E i \in DOMAIN PoliceCandidates(q) : ProvenCapture(q, PoliceCandidates(q)[i], samples))
    => ProvenCapture(q, AdvancedPolice(q, depth, samples), samples)

(***************************************************************************)
(* No near tie lets the Thief walk into a Police whose cell it knows, at   *)
(* any depth, while another action is legal (thief_features.py:25-93,      *)
(* search.py:128-132).                                                     *)
(***************************************************************************)
ThiefKeepsOff(q, depth, police) ==
  \A a \in AdvancedThief(q, depth, {police}) :
     Arrival(q, a) = police => \A b \in ToSet(MovementCandidates(q)) : Arrival(q, b) = police

============================================================================
